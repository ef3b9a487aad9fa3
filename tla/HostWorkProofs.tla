--------------------------- MODULE HostWorkProofs ---------------------------
(***************************************************************************)
(* For any number of handlers and names, on every host and in every order  *)
(* of their steps: what the handlers share stays well formed, a move or a  *)
(* copy leaves nothing private without saying so, a listing and an export  *)
(* are complete, what may not be overwritten survives, and a text can      *)
(* always be recovered.                                                    *)
(*                                                                         *)
(* Most lemmas are about one step of one handler h, and split it into the  *)
(* actions of the handlers in the order of Next.                           *)
(***************************************************************************)
EXTENDS HostWork, TLAPS

(***************************************************************************)
(* Types                                                                   *)
(***************************************************************************)
Results == {"none", "ok", "error", "committed"}
Session == [by : Handlers \cup {0}, next : Nat, hashed : Seq(Data),
            path : Names \cup {0}, old : BOOLEAN]
Transfer == [asks : Nat, index : Nat, by : Handlers \cup {0},
             path : Names \cup {0}, frames : Seq(Nat \X Data), digest : Seq(Data)]
Scan == [todo : SUBSET Names, found : SUBSET Names, kept : SUBSET Names]
Ops == {"none", "move", "copy", "delete", "chmod", "chown", "edit", "role", "clone", "patch",
        "push", "export", "list", "search"}
Flags == {"overwrite", "recursive", "own", "create", "no_backup", "sudo", "dry_run", "upload",
          "force", "expected"}
Pcs == {"idle", "check", "done", "direct", "recheck", "displace", "over", "rollback",
        "rollback_cross", "stage", "copying", "commit", "install", "unlink", "backup", "backing",
        "remove", "validate", "replace", "temp", "link", "reserved", "persist", "in_place",
        "writing", "recover", "sudo_install", "sudo_move", "consume", "clone", "cloning",
        "clone_failed", "patch", "patching", "push", "exporting", "chunk", "queue", "walk"}
Notes == {"sync", "timeout", "reported", "inside", "late", "truncated", "not_started",
          "restored", "partial", "unmarked", "abandoned"}
Job == [op : Ops, src : Names, dst : Names, flags : SUBSET Flags, pc : Pcs,
        from : {"path", "staged"}, seen : Entry, read : Data, made : BOOLEAN,
        result : Results, notes : SUBSET Notes,
        transfer : Transfer, scan : Scan]

Open(s) == s # NoSession => s.by \in Handlers /\ s.path \in Names
SharedOK ==
    /\ host \in Hosts /\ parent \in BOOLEAN
    /\ exports \in [Names -> Session] /\ remote \in Data
    /\ \A id \in Names : Open(exports[id])
Files == [Path -> Entry]
FilesOK == fs \in Files
JobsOK == w \in [Handlers -> Job]
TypeOK == JobsOK /\ FilesOK /\ SharedOK

(* A step of one handler.                                                  *)
Served(h) == Start(h) \/ Mutate(h) \/ EditStep(h) \/ GitStep(h) \/ ReadStep(h)

(***************************************************************************)
(* A step changes only the job of its own handler.                         *)
(***************************************************************************)
Own(h) == JobsOK' /\ \A g \in Handlers \ {h} : w'[g] = w[g]

LEMMA GotoIsOwn ==
  ASSUME JobsOK
  PROVE  \A h \in Handlers : \A pc \in Pcs : Goto(h, pc) => Own(h)
PROOF
<1> TAKE h \in Handlers
<1> TAKE pc \in Pcs
<1> HAVE Goto(h, pc)
<1> DEFINE job == [w[h] EXCEPT !.pc = pc]
<1>0. job \in Job /\ w' = [w EXCEPT ![h] = job]
  BY DEF JobsOK, Goto, Job
<1> HIDE DEF job
<1>1. JobsOK'
  BY <1>0 DEF JobsOK
<1>2. \A g \in Handlers \ {h} : w'[g] = w[g]
  BY <1>0 DEF JobsOK
<1> QED
  BY <1>1, <1>2 DEF Own

LEMMA AnswerIsOwn ==
  ASSUME JobsOK
  PROVE  \A h \in Handlers : \A result \in Results : \A notes \in SUBSET Notes :
            Answer(h, result, notes) => Own(h)
PROOF
<1> TAKE h \in Handlers
<1> TAKE result \in Results
<1> TAKE notes \in SUBSET Notes
<1> HAVE Answer(h, result, notes)
<1>1. w[h] \in Job
  BY DEF JobsOK
<1>2. w[h].notes \cup notes \in SUBSET Notes
  BY <1>1 DEF Job
<1> DEFINE job == [w[h] EXCEPT !.pc = "done", !.result = result,
                               !.notes = w[h].notes \cup notes]
<1>3. job \in Job
  <2>1. "done" \in Pcs
    BY DEF Pcs
  <2> QED
    BY <1>1, <1>2, <2>1 DEF Job
<1>4. w' = [w EXCEPT ![h] = job]
  BY DEF Answer
<1> HIDE DEF job
<1>5. JobsOK'
  BY <1>3, <1>4 DEF JobsOK
<1>6. \A g \in Handlers \ {h} : w'[g] = w[g]
  BY <1>4 DEF JobsOK
<1> QED
  BY <1>5, <1>6 DEF Own

LEMMA RefuseIsOwn ==
  ASSUME JobsOK
  PROVE  \A h \in Handlers : Refuse(h) => Own(h)
PROOF
<1> TAKE h \in Handlers
<1> HAVE Refuse(h)
<1>1. "error" \in Results /\ {} \in SUBSET Notes
  BY DEF Results
<1> QED
  BY <1>1, AnswerIsOwn DEF Refuse

LEMMA PutIsOwn ==
  ASSUME JobsOK
  PROVE  \A h \in Handlers : \A job \in Job : w' = [w EXCEPT ![h] = job] => Own(h)
PROOF
<1> TAKE h \in Handlers
<1> TAKE job \in Job
<1> HAVE w' = [w EXCEPT ![h] = job]
<1>1. JobsOK'
  BY DEF JobsOK
<1>2. \A g \in Handlers \ {h} : w'[g] = w[g]
  BY DEF JobsOK
<1> QED
  BY <1>1, <1>2 DEF Own

(* What exists.                                                            *)
FullEntry == [kind : {"file", "dir"}, data : Data, owner : {"agent", "other"}, mode : 0..1]

LEMMA EntryFacts ==
  \A e \in Entry : e # Absent => e \in FullEntry
PROOF
  BY DEF Entry, FullEntry

LEMMA PathFacts ==
  ASSUME JobsOK, NEW h \in Handlers
  PROVE  /\ Src(h) \in Path /\ Dst(h) \in Path /\ Staged(h) \in Path
         /\ Old(h) \in Path /\ Backup(h) \in Path
PROOF
<1>1. w[h].src \in Names /\ w[h].dst \in Names
  BY DEF JobsOK, Job
<1> QED
  BY <1>1 DEF Src, Dst, Staged, Old, Backup, Path

LEMMA FieldFacts ==
  ASSUME JobsOK, NEW h \in Handlers
  PROVE  /\ w[h] \in Job
         /\ w[h].made \in BOOLEAN
         /\ w[h].notes \in SUBSET Notes /\ w[h].seen \in Entry /\ w[h].read \in Data
         /\ w[h].src \in Names /\ w[h].dst \in Names
         /\ w[h].transfer \in Transfer /\ w[h].scan \in Scan
PROOF
  BY DEF JobsOK, Job

LEMMA CleanUpIsOwn ==
  ASSUME JobsOK
  PROVE  \A h \in Handlers : \A p, f, k : \A result \in Results :
            CleanUp(h, p, f, k, result) => Own(h)
PROOF
<1>1. {} \in SUBSET Notes /\ {"reported"} \in SUBSET Notes
  BY DEF Notes
<1> QED
  BY <1>1, AnswerIsOwn DEF CleanUp

LEMMA EditFailsIsOwn ==
  ASSUME JobsOK
  PROVE  \A h \in Handlers : \A f, k : \A notes \in SUBSET Notes :
            EditFails(h, f, k, notes) => Own(h)
PROOF
<1> TAKE h \in Handlers
<1> TAKE f, k
<1> TAKE notes \in SUBSET Notes
<1> HAVE EditFails(h, f, k, notes)
<1> DEFINE told == notes \cup (IF Asked(h, "sudo") THEN {"reported"} ELSE {})
<1>1. told \in SUBSET Notes
  BY DEF Notes
<1>2. "error" \in Results
  BY DEF Results
<1>3. Answer(h, "error", notes) \/ Answer(h, "error", told)
  BY DEF EditFails
<1> HIDE DEF told
<1> QED
  BY <1>1, <1>2, <1>3, AnswerIsOwn

LEMMA EditDoneIsOwn ==
  ASSUME JobsOK
  PROVE  \A h \in Handlers : \A notes \in SUBSET Notes :
            EditDone(h, notes) => Own(h)
PROOF
<1> TAKE h \in Handlers
<1> TAKE notes \in SUBSET Notes
<1> HAVE EditDone(h, notes)
<1>1. CASE Asked(h, "upload")
  <2> DEFINE job == [w[h] EXCEPT !.pc = "consume", !.notes = w[h].notes \cup notes]
  <2>1. w[h] \in Job /\ w[h].notes \cup notes \in SUBSET Notes
    BY FieldFacts DEF JobsOK
  <2>2. job \in Job
    BY <2>1 DEF Job, Pcs
  <2>3. w' = [w EXCEPT ![h] = job]
    BY <1>1 DEF EditDone
  <2> QED
    BY <2>2, <2>3, PutIsOwn
<1>2. CASE ~Asked(h, "upload")
  BY <1>2, AnswerIsOwn DEF EditDone, Results
<1> QED
  BY <1>1, <1>2

LEMMA AfterCommitIsOwn ==
  ASSUME JobsOK
  PROVE  \A h \in Handlers : \A f : AfterCommit(h, f) => Own(h)
PROOF
<1> TAKE h \in Handlers
<1> TAKE f
<1> HAVE AfterCommit(h, f)
<1> DEFINE quiet == [w[h] EXCEPT !.pc = "unlink"]
           loud == [w[h] EXCEPT !.pc = "unlink", !.notes = {"reported"}]
<1>0. w[h] \in Job
  BY DEF JobsOK
<1>1. quiet \in Job /\ loud \in Job
  BY <1>0 DEF Job, Pcs, Notes
<1>2. \/ w' = [w EXCEPT ![h] = quiet]
      \/ w' = [w EXCEPT ![h] = loud]
      \/ CleanUp(h, Old(h), f, 0, "ok")
  BY DEF AfterCommit
<1> HIDE DEF quiet, loud
<1> QED
  BY <1>1, <1>2, PutIsOwn, CleanUpIsOwn DEF Results

LEMMA VisitedIsOwn ==
  ASSUME JobsOK
  PROVE  \A h \in Handlers : \A n \in Names : \A hit \in BOOLEAN : \A notes \in SUBSET Notes :
            Visited(h, n, hit, notes) => Own(h)
PROOF
<1> TAKE h \in Handlers
<1> TAKE n \in Names
<1> TAKE hit \in BOOLEAN
<1> TAKE notes \in SUBSET Notes
<1> HAVE Visited(h, n, hit, notes)
<1> DEFINE found == w[h].scan.found \cup (IF hit THEN {n} ELSE {})
           full == hit /\ Cardinality(found) >= MaxList
           told == w[h].notes \cup notes \cup (IF full THEN {"truncated"} ELSE {})
           scan == [todo |-> w[h].scan.todo \ {n}, found |-> found,
                    kept |-> w[h].scan.kept \cap Present(h)]
           pc == IF full THEN "done" ELSE "walk"
           result == IF full THEN "ok" ELSE "none"
           job == [w[h] EXCEPT !.pc = pc, !.result = result, !.notes = told,
                               !.scan = scan]
<1>1. w' = [w EXCEPT ![h] = job]
  BY DEF Visited, JobsOK, Job
<1>2. found \in SUBSET Names /\ scan \in Scan
  BY FieldFacts DEF Scan
<1>3. told \in SUBSET Notes
  BY FieldFacts DEF Notes
<1>4. full \in BOOLEAN /\ pc \in Pcs /\ result \in Results
  BY DEF Pcs, Results
<1>6. w[h] \in Job
  BY DEF JobsOK
<1> HIDE DEF full, pc, result, scan, told
<1>5. job \in Job
  BY <1>2, <1>3, <1>4, <1>6 DEF Job
<1> HIDE DEF job
<1> QED
  BY <1>1, <1>5, PutIsOwn

(* A walk that looks at an entry goes on, or ends with an answer.          *)
LEMMA WalkGoesOn ==
  ASSUME JobsOK, NEW h \in Handlers, ListNext(h) \/ SearchNext(h)
  PROVE  /\ w[h].pc = "walk" /\ w[h].op \in {"list", "search"} /\ UNCHANGED <<fs, parent, rest>>
         /\ w'[h].op = w[h].op /\ w'[h].flags = w[h].flags
         /\ \/ w'[h].pc = "walk" /\ w'[h].result = "none"
            \/ w'[h].pc = "done" /\ w'[h].result = "ok"
         /\ w[h].notes \subseteq w'[h].notes
PROOF
<1>1. /\ w[h].pc = "walk" /\ w[h].op \in {"list", "search"} /\ UNCHANGED <<fs, parent, rest>>
      /\ \E n, notes : \E hit \in BOOLEAN : Visited(h, n, hit, notes)
  BY DEF ListNext, SearchNext, Visits, Wanted
<1>2. PICK n, notes, hit : hit \in BOOLEAN /\ Visited(h, n, hit, notes)
  BY <1>1
<1> DEFINE found == w[h].scan.found \cup (IF hit THEN {n} ELSE {})
           full == hit /\ Cardinality(found) >= MaxList
           pc == IF full THEN "done" ELSE "walk"
           result == IF full THEN "ok" ELSE "none"
           told == w[h].notes \cup notes \cup (IF full THEN {"truncated"} ELSE {})
           scan == [todo |-> w[h].scan.todo \ {n}, found |-> found,
                    kept |-> w[h].scan.kept \cap Present(h)]
<1>3. w' = [w EXCEPT ![h] = [w[h] EXCEPT !.pc = pc, !.result = result,
                                         !.notes = told, !.scan = scan]]
  BY <1>2 DEF Visited, JobsOK, Job
<1>4. \/ pc = "walk" /\ result = "none"
      \/ pc = "done" /\ result = "ok"
  OBVIOUS
<1>5. w[h].notes \subseteq told
  OBVIOUS
<1> HIDE DEF full, pc, result, told, scan
<1>6. /\ w'[h].op = w[h].op /\ w'[h].flags = w[h].flags /\ w'[h].pc = pc
      /\ w'[h].result = result /\ w'[h].notes = told
  BY <1>3 DEF JobsOK, Job
<1> QED
  BY <1>1, <1>4, <1>5, <1>6

LEMMA StartWalkIsOwn ==
  ASSUME JobsOK
  PROVE  \A h \in Handlers : StartWalk(h) => Own(h)
PROOF
<1> TAKE h \in Handlers
<1> HAVE StartWalk(h)
<1> DEFINE todo == {n \in Names \ Nested : Exists(<<n, "path">>)} \cup
                   (IF parent THEN Nested ELSE {})
           scan == [todo |-> todo, found |-> {}, kept |-> w[h].scan.kept \cap Present(h)]
           job == [w[h] EXCEPT !.pc = "walk", !.scan = scan]
<1>1. \/ w' = [w EXCEPT ![h] = job]
      \/ Answer(h, "ok", {"not_started"})
      \/ Refuse(h)
  BY DEF StartWalk, JobsOK, Job
<1>2. scan \in Scan
  <2>1. todo \in SUBSET Names
    BY NamesAssumption
  <2> HIDE DEF todo
  <2> QED
    BY <2>1, FieldFacts DEF Scan
<1> HIDE DEF scan
<1>3. job \in Job
  <2>1. w[h] \in Job
    BY FieldFacts
  <2> QED
    BY <1>2, <2>1 DEF Job, Pcs
<1> HIDE DEF job
<1> QED
  BY <1>1, <1>3, PutIsOwn, AnswerIsOwn, RefuseIsOwn DEF Results, Notes

(* A chunk that is waited for was asked for by an export.                  *)
Asking(h) ==
  w[h].pc = "chunk" => w[h].transfer.by \in Handlers /\ w[h].transfer.path \in Names

(* What reading a chunk leaves of the job.                                 *)
LEMMA ChunkIsRead ==
  ASSUME NEW h \in Handlers, ReadChunk(h)
  PROVE  /\ w[h].pc = "chunk" /\ fs' = fs
         /\ \E f : w' = [w EXCEPT ![h].pc = "exporting", ![h].transfer.frames = f]
PROOF
<1> DEFINE t == w[h].transfer
           file == <<t.path, "path">>
           readable == Exists(file) /\ fs[file].kind = "file"
           frames == IF readable THEN Append(t.frames, <<t.index, fs[file].data>>) ELSE t.frames
<1>1. w' = [w EXCEPT ![h].pc = "exporting", ![h].transfer.frames = frames]
  BY DEF ReadChunk
<1>2. w[h].pc = "chunk" /\ fs' = fs
  BY DEF ReadChunk
<1> HIDE DEF frames
<1> QED
  BY <1>1, <1>2

(* Asking for one puts the question into the job.                          *)
LEMMA ChunkIsAsked ==
  ASSUME JobsOK, NEW h \in Handlers, AskChunk(h)
  PROVE  /\ w[h].pc = "exporting" /\ fs' = fs
         /\ Refuse(h) \/ \E t : w' = [w EXCEPT ![h] = [@ EXCEPT !.pc = "chunk", !.transfer = t]]
PROOF
<1>1. w[h].pc = "exporting" /\ fs' = fs
  BY DEF AskChunk
<1>2. CASE ~Refuse(h)
  <2>1. PICK i \in 0..(Chunks - 1) :
           w' = [w EXCEPT ![h].pc = "chunk", ![h].transfer.index = i,
                          ![h].transfer.by = exports[w[h].dst].by,
                          ![h].transfer.path = exports[w[h].dst].path,
                          ![h].transfer.asks = @ + 1]
    BY <1>2 DEF AskChunk
  <2> DEFINE t == [w[h].transfer EXCEPT !.index = i, !.by = exports[w[h].dst].by,
                                        !.path = exports[w[h].dst].path,
                                        !.asks = w[h].transfer.asks + 1]
  <2>2. w' = [w EXCEPT ![h] = [w[h] EXCEPT !.pc = "chunk", !.transfer = t]]
    BY <2>1, ZenonT(60) DEF JobsOK, Job
  <2> HIDE DEF t
  <2> QED
    BY <1>1, <2>2
<1> QED
  BY <1>1, <1>2

LEMMA ServedIsOwn ==
  ASSUME TypeOK, JobsOK, NEW h \in Handlers, Asking(h), Served(h)
  PROVE  Own(h)
PROOF
<1>1. CASE Start(h)
  <2>1. PICK r \in host.mix :
           w' = [w EXCEPT ![h].pc = "check", ![h].op = r.op, ![h].src = r.src,
                          ![h].dst = r.dst, ![h].flags = r.flags]
    BY <1>1 DEF Start
  <2>2. /\ w[h] \in Job
        /\ r.op \in Ops /\ r.src \in Names /\ r.dst \in Names /\ r.flags \in SUBSET Flags
    <3>1. r \in Request
      BY HostsAssumption DEF TypeOK, FilesOK, Files, SharedOK
    <3> QED
      BY <3>1, FieldFacts DEF Request, Ops, Flags
  <2> DEFINE job == [w[h] EXCEPT !.pc = "check", !.op = r.op, !.src = r.src,
                                 !.dst = r.dst, !.flags = r.flags]
  <2>3. job \in Job
    BY <2>2 DEF Job, Pcs
  <2>4. w' = [w EXCEPT ![h] = job]
    BY <2>1
  <2> QED
    BY <2>3, <2>4, PutIsOwn
<1>2. CASE CheckMoveCopy(h)
  BY <1>2, GotoIsOwn, AnswerIsOwn, RefuseIsOwn DEF CheckMoveCopy, Pcs, Results, Notes
<1>3. CASE TryDirectMove(h)
  BY <1>3, GotoIsOwn, AnswerIsOwn, RefuseIsOwn DEF TryDirectMove, SyncThen, Pcs, Results, Notes
<1>4. CASE Recheck(h)
  BY <1>4, GotoIsOwn DEF Recheck, Pcs
<1>5. CASE Displace(h)
  BY <1>5, GotoIsOwn, CleanUpIsOwn DEF Displace, Pcs, Results
<1>6. CASE MoveOver(h)
  BY <1>6, GotoIsOwn, AnswerIsOwn, AfterCommitIsOwn DEF MoveOver, Pcs, Results, Notes
<1>7. CASE Rollback(h)
  BY <1>7, GotoIsOwn, AnswerIsOwn, CleanUpIsOwn DEF Rollback, Pcs, Results, Notes
<1>8. CASE StageCopy(h)
  <2>1. w[h] \in Job
    BY DEF JobsOK
  <2>2. Exists(Src(h)) => fs[Src(h)].data \in Data
    BY PathFacts, EntryFacts DEF TypeOK, FilesOK, Files, SharedOK, Exists, FullEntry
  <2> DEFINE job == [w[h] EXCEPT !.pc = "copying", !.read = fs[Src(h)].data]
  <2>3. CASE Refuse(h)
    BY <2>3, RefuseIsOwn
  <2>4. CASE ~Refuse(h)
    <3>1. Exists(Src(h)) /\ w' = [w EXCEPT ![h] = job]
      BY <1>8, <2>4 DEF StageCopy
    <3>2. job \in Job
      BY <3>1, <2>1, <2>2 DEF Job, Pcs
    <3> QED
      BY <3>1, <3>2, PutIsOwn
  <2> QED
    BY <2>3, <2>4
<1>9. CASE FinishCopy(h)
  <2> DEFINE job == [w[h] EXCEPT !.pc = "commit", !.from = "staged"]
  <2>1. job \in Job
    <3>1. w[h] \in Job
      BY FieldFacts
    <3> QED
      BY <3>1 DEF Job, Pcs
  <2>2. \/ w' = [w EXCEPT ![h] = job]
        \/ CleanUp(h, Staged(h), fs, 1, "error")
    BY <1>9 DEF FinishCopy
  <2> HIDE DEF job
  <2> QED
    BY <2>1, <2>2, PutIsOwn, CleanUpIsOwn DEF Results
<1>10. CASE CommitStaged(h)
  BY <1>10, GotoIsOwn DEF CommitStaged, Pcs
<1>11. CASE InstallStaged(h)
  BY <1>11, AnswerIsOwn, CleanUpIsOwn, AfterCommitIsOwn DEF InstallStaged, Results, Notes
<1>12. CASE RemoveSource(h)
  <2> DEFINE job == [w[h] EXCEPT !.pc = "done", !.result = "committed", !.notes = {}]
  <2>1. job \in Job
    <3>1. w[h] \in Job
      BY FieldFacts
    <3> QED
      BY <3>1 DEF Job, Pcs, Results
  <2>2. \/ w' = [w EXCEPT ![h] = job]
        \/ Answer(h, "ok", {})
        \/ Answer(h, "error", {"sync"})
    BY <1>12 DEF RemoveSource, SyncThen
  <2> HIDE DEF job
  <2> QED
    BY <2>1, <2>2, PutIsOwn, AnswerIsOwn DEF Results, Notes
<1>13. CASE CheckDelete(h)
  BY <1>13, GotoIsOwn, RefuseIsOwn DEF CheckDelete, Pcs
<1>14. CASE StartBackup(h)
  <2>1. w[h] \in Job
    BY DEF JobsOK
  <2>2. Exists(Dst(h)) => fs[Dst(h)].data \in Data
    BY PathFacts, EntryFacts DEF TypeOK, FilesOK, Files, SharedOK, Exists, FullEntry
  <2> DEFINE job == [w[h] EXCEPT !.pc = "backing", !.read = fs[Dst(h)].data]
  <2>3. CASE Refuse(h)
    BY <2>3, RefuseIsOwn
  <2>4. CASE ~Refuse(h)
    <3>1. Exists(Dst(h)) /\ w' = [w EXCEPT ![h] = job]
      BY <1>14, <2>4 DEF StartBackup
    <3>2. job \in Job
      BY <3>1, <2>1, <2>2 DEF Job, Pcs
    <3> QED
      BY <3>1, <3>2, PutIsOwn
  <2> QED
    BY <2>3, <2>4
<1>15. CASE FinishBackup(h)
  BY <1>15, GotoIsOwn, RefuseIsOwn DEF FinishBackup, Pcs
<1>16. CASE Remove(h)
  BY <1>16, AnswerIsOwn, RefuseIsOwn DEF Remove, Results, Notes
<1>17. CASE ChangeMode(h)
  BY <1>17, AnswerIsOwn, RefuseIsOwn DEF ChangeMode, Results, Notes
<1>18. CASE ChangeOwner(h)
  BY <1>18, AnswerIsOwn, RefuseIsOwn DEF ChangeOwner, Results, Notes
<1>19. CASE WriteRole(h)
  BY <1>19, AnswerIsOwn DEF WriteRole, Results, Notes
<1>20. CASE LoadTarget(h)
  <2>1. w[h] \in Job
    BY DEF JobsOK
  <2>2. fs[Dst(h)] \in Entry
    BY PathFacts DEF TypeOK, FilesOK, Files, SharedOK
  <2> DEFINE job == [w[h] EXCEPT !.pc = "validate", !.seen = fs[Dst(h)]]
  <2>3. job \in Job
    BY <2>1, <2>2 DEF Job, Pcs
  <2>4. Refuse(h) \/ w' = [w EXCEPT ![h] = job]
    BY <1>20 DEF LoadTarget
  <2> HIDE DEF job
  <2> QED
    BY <2>3, <2>4, PutIsOwn, RefuseIsOwn
<1>21. CASE Validated(h)
  BY <1>21, GotoIsOwn, RefuseIsOwn, EditDoneIsOwn DEF Validated, Pcs, Notes
<1>22. CASE MakeParents(h)
  <2>1. w[h] \in Job
    BY DEF JobsOK
  <2>2. (w[h].dst \in Nested /\ ~parent /\ (Asked(h, "sudo") => Creating(h))) \in BOOLEAN
    BY DEF TypeOK, FilesOK, Files, SharedOK
  <2> DEFINE pc == IF Asked(h, "sudo") THEN "sudo_install" ELSE "temp"
             made == w[h].dst \in Nested /\ ~parent /\ (Asked(h, "sudo") => Creating(h))
             job == [w[h] EXCEPT !.pc = pc, !.made = made]
  <2>4. w' = [w EXCEPT ![h] = job]
    BY <1>22 DEF MakeParents
  <2>5. pc \in Pcs /\ made \in BOOLEAN
    BY <2>2 DEF Pcs
  <2> HIDE DEF pc, made
  <2>3. job \in Job
    BY <2>1, <2>5 DEF Job
  <2> HIDE DEF job
  <2> QED
    BY <2>3, <2>4, PutIsOwn
<1>23. CASE MakeTemp(h)
  BY <1>23, GotoIsOwn, EditFailsIsOwn DEF MakeTemp, Pcs, Notes
<1>24. CASE Persist(h)
  BY <1>24, EditFailsIsOwn, EditDoneIsOwn DEF Persist, Notes
<1>25. CASE Link(h)
  BY <1>25, GotoIsOwn, EditFailsIsOwn, EditDoneIsOwn DEF Link, Pcs, Notes
<1>26. CASE SudoLinkFails(h)
  BY <1>26, AnswerIsOwn, EditFailsIsOwn DEF SudoLinkFails, Results, Notes
<1>27. CASE ReplaceReserved(h)
  BY <1>27, EditFailsIsOwn, EditDoneIsOwn DEF ReplaceReserved, Notes
<1>28. CASE WriteInPlace(h)
  BY <1>28, GotoIsOwn, EditFailsIsOwn DEF WriteInPlace, Pcs, Notes
<1>29. CASE FinishInPlace(h)
  BY <1>29, GotoIsOwn, EditDoneIsOwn DEF FinishInPlace, Pcs, Notes
<1>30. CASE Recover(h)
  BY <1>30, EditFailsIsOwn DEF Recover, Notes
<1>31. CASE SudoInstall(h)
  BY <1>31, GotoIsOwn, AnswerIsOwn, EditFailsIsOwn DEF SudoInstall, Pcs, Results, Notes
<1>32. CASE SudoMove(h)
  BY <1>32, AnswerIsOwn, EditFailsIsOwn, EditDoneIsOwn DEF SudoMove, Results, Notes
<1>33. CASE ConsumeUpload(h)
  BY <1>33, AnswerIsOwn DEF ConsumeUpload, Results, Notes
<1>34. CASE Cancel(h)
  <2>1. w[h] \in Job
    BY DEF JobsOK
  <2> DEFINE job == [w[h] EXCEPT !.pc = "done"]
  <2>3. job \in Job
    BY <2>1 DEF Job, Pcs
  <2>4. w' = [w EXCEPT ![h] = job]
    BY <1>34 DEF Cancel
  <2> HIDE DEF job
  <2> QED
    BY <2>3, <2>4, PutIsOwn
<1>35. CASE CheckClone(h)
  BY <1>35, GotoIsOwn, RefuseIsOwn DEF CheckClone, Pcs
<1>36. CASE StartClone(h)
  <2>1. w[h] \in Job
    BY DEF JobsOK
  <2>2. fs[Dst(h)] \in Entry
    BY PathFacts DEF TypeOK, FilesOK, Files, SharedOK
  <2> DEFINE job == [w[h] EXCEPT !.pc = "cloning", !.seen = fs[Dst(h)]]
  <2>3. job \in Job
    BY <2>1, <2>2 DEF Job, Pcs
  <2>4. Goto(h, "clone_failed") \/ w' = [w EXCEPT ![h] = job]
    BY <1>36 DEF StartClone
  <2> HIDE DEF job
  <2> QED
    BY <2>3, <2>4, PutIsOwn, GotoIsOwn DEF Pcs
<1>37. CASE FinishClone(h)
  BY <1>37, GotoIsOwn, AnswerIsOwn DEF FinishClone, Pcs, Results, Notes
<1>38. CASE CleanClone(h)
  BY <1>38, AnswerIsOwn DEF CleanClone, Results, Notes
<1>39. CASE CheckPatch(h)
  BY <1>39, GotoIsOwn, AnswerIsOwn, RefuseIsOwn DEF CheckPatch, Pcs, Results, Notes
<1>40. CASE ApplyPatch(h)
  <2>1. w[h] \in Job
    BY DEF JobsOK
  <2>2. fs[Dst(h)] \in Entry
    BY PathFacts DEF TypeOK, FilesOK, Files, SharedOK
  <2> DEFINE job == [w[h] EXCEPT !.pc = "patching", !.seen = fs[Dst(h)]]
  <2>3. job \in Job
    BY <2>1, <2>2 DEF Job, Pcs
  <2>4. Refuse(h) \/ w' = [w EXCEPT ![h] = job]
    BY <1>40 DEF ApplyPatch
  <2> HIDE DEF job
  <2> QED
    BY <2>3, <2>4, PutIsOwn, RefuseIsOwn
<1>41. CASE WritePatched(h)
  BY <1>41, AnswerIsOwn DEF WritePatched, Results, Notes
<1>42. CASE CheckPush(h)
  <2>1. w[h] \in Job
    BY DEF JobsOK
  <2>2. remote \in Data
    BY DEF TypeOK, FilesOK, Files, SharedOK
  <2> DEFINE job == [w[h] EXCEPT !.pc = "push", !.read = remote]
  <2>3. job \in Job
    BY <2>1, <2>2 DEF Job, Pcs
  <2>4. Refuse(h) \/ w' = [w EXCEPT ![h] = job]
    BY <1>42 DEF CheckPush
  <2> HIDE DEF job
  <2> QED
    BY <2>3, <2>4, PutIsOwn, RefuseIsOwn
<1>43. CASE Push(h)
  BY <1>43, AnswerIsOwn DEF Push, Results, Notes
<1>44. CASE ExportInit(h)
  BY <1>44, GotoIsOwn, RefuseIsOwn DEF ExportInit, Pcs
<1>45. CASE AskChunk(h)
  <2>1. CASE Refuse(h)
    BY <2>1, RefuseIsOwn
  <2>2. CASE ~Refuse(h)
    <3>1. PICK i \in 0..(Chunks - 1) :
             w' = [w EXCEPT ![h].pc = "chunk", ![h].transfer.index = i,
                            ![h].transfer.by = exports[w[h].dst].by,
                            ![h].transfer.path = exports[w[h].dst].path,
                            ![h].transfer.asks = @ + 1]
      BY <1>45, <2>2 DEF AskChunk
    <3>2. exports[w[h].dst].by \in Handlers \cup {0} /\ exports[w[h].dst].path \in Names \cup {0}
      BY FieldFacts DEF TypeOK, FilesOK, Files, SharedOK, Session
    <3>3. i \in Nat
      BY BoundsAssumption
    <3> DEFINE t == [w[h].transfer EXCEPT !.index = i, !.by = exports[w[h].dst].by,
                                          !.path = exports[w[h].dst].path,
                                          !.asks = w[h].transfer.asks + 1]
               job == [w[h] EXCEPT !.pc = "chunk", !.transfer = t]
    <3>4. t \in Transfer
      <4>1. w[h].transfer \in Transfer
        BY FieldFacts
      <4>2. w[h].transfer.asks + 1 \in Nat
        BY <4>1 DEF Transfer
      <4> QED
        BY <4>1, <4>2, <3>2, <3>3 DEF Transfer
    <3>5. w' = [w EXCEPT ![h] = job]
      BY <3>1, ZenonT(60) DEF JobsOK, Job
    <3> HIDE DEF t
    <3>6. job \in Job
      <4>1. w[h] \in Job
        BY FieldFacts
      <4> QED
        BY <4>1, <3>4 DEF Job, Pcs
    <3> HIDE DEF job
    <3> QED
      BY <3>5, <3>6, PutIsOwn
  <2> QED
    BY <2>1, <2>2
<1>46. CASE ReadChunk(h)
  <2> DEFINE file == <<w[h].transfer.path, "path">>
             readable == Exists(file) /\ fs[file].kind = "file"
             f == IF readable
                  THEN Append(w[h].transfer.frames, <<w[h].transfer.index, fs[file].data>>)
                  ELSE w[h].transfer.frames
             t == [w[h].transfer EXCEPT !.frames = f]
             job == [w[h] EXCEPT !.pc = "exporting", !.transfer = t]
  <2>1. w' = [w EXCEPT ![h] = job]
    BY <1>46 DEF ReadChunk, JobsOK, Job
  <2>2. w[h].transfer \in Transfer
    BY FieldFacts
  <2>3. readable => fs[file].data \in Data
    <3>2. file \in Path
      BY <1>46 DEF Asking, ReadChunk, Path
    <3> QED
      BY <3>2, EntryFacts DEF Exists, TypeOK, FilesOK, Files, FullEntry
  <2>4. f \in Seq(Nat \X Data)
    BY <2>2, <2>3 DEF Transfer
  <2> HIDE DEF f
  <2>5. t \in Transfer
    BY <2>2, <2>4 DEF Transfer
  <2> HIDE DEF t
  <2>6. job \in Job
    <3>1. w[h] \in Job
      BY FieldFacts
    <3> QED
      BY <3>1, <2>5 DEF Job, Pcs
  <2> HIDE DEF job
  <2> QED
    BY <2>1, <2>6, PutIsOwn
<1>47. CASE ExportComplete(h)
  <2> DEFINE s == exports[w[h].dst]
             t == [w[h].transfer EXCEPT !.by = s.by,
                     !.digest = IF s.next = Chunks THEN s.hashed ELSE <<>>]
             job == [w[h] EXCEPT !.pc = "done", !.result = "ok", !.transfer = t]
  <2>1. Refuse(h) \/ w' = [w EXCEPT ![h] = job]
    <3>1. CASE s = NoSession
      BY <1>47, <3>1 DEF ExportComplete
    <3>2. CASE s # NoSession
      <4>1. w' = [w EXCEPT ![h].pc = "done", ![h].result = "ok",
                           ![h].transfer.by = s.by,
                           ![h].transfer.digest = IF s.next = Chunks THEN s.hashed ELSE <<>>]
        BY <1>47, <3>2 DEF ExportComplete
      <4> DEFINE d == IF s.next = Chunks THEN s.hashed ELSE <<>>
      <4>2. w' = [w EXCEPT ![h].pc = "done", ![h].result = "ok",
                           ![h].transfer.by = s.by, ![h].transfer.digest = d]
        BY <4>1
      <4>3. t = [w[h].transfer EXCEPT !.by = s.by, !.digest = d]
        OBVIOUS
      <4> HIDE DEF s, d, t
      <4>4. w' = [w EXCEPT ![h] = [w[h] EXCEPT !.pc = "done", !.result = "ok",
                                   !.transfer = [w[h].transfer EXCEPT !.by = s.by, !.digest = d]]]
        BY <4>2, ZenonT(60) DEF JobsOK, Job
      <4> QED
        BY <4>3, <4>4
    <3> QED
      BY <3>1, <3>2
  <2>2. w[h].transfer \in Transfer /\ s \in Session
    BY FieldFacts DEF TypeOK, FilesOK, Files, SharedOK
  <2>3. t \in Transfer
    <3>1. s.by \in Handlers \cup {0} /\ s.hashed \in Seq(Data)
      BY <2>2 DEF Session
    <3> HIDE DEF s
    <3> DEFINE d == IF s.next = Chunks THEN s.hashed ELSE <<>>
    <3>2. d \in Seq(Data)
      BY <3>1
    <3>3. t = [w[h].transfer EXCEPT !.by = s.by, !.digest = d]
      OBVIOUS
    <3> HIDE DEF d, t
    <3> QED
      BY <2>2, <3>1, <3>2, <3>3 DEF Transfer
  <2> HIDE DEF t
  <2>4. job \in Job
    <3>1. w[h] \in Job
      BY FieldFacts
    <3> QED
      BY <3>1, <2>3 DEF Job, Pcs, Results
  <2> HIDE DEF job
  <2> QED
    BY <2>1, <2>4, PutIsOwn, RefuseIsOwn
<1>48. CASE Arrive(h)
  <2>1. w[h] \in Job
    BY DEF JobsOK
  <2>2. [w[h].scan EXCEPT !.kept = Present(h)] \in Scan
    BY FieldFacts DEF Scan, Present
  <2> DEFINE job == [w[h] EXCEPT !.pc = "queue", !.scan = [w[h].scan EXCEPT !.kept = Present(h)]]
  <2>3. job \in Job
    BY <2>1, <2>2 DEF Job, Pcs
  <2>4. w' = [w EXCEPT ![h] = job]
    BY <1>48 DEF Arrive
  <2> HIDE DEF job
  <2> QED
    BY <2>3, <2>4, PutIsOwn
<1>49. CASE BudgetSpent(h)
  <2>1. w[h] \in Job
    BY DEF JobsOK
  <2>2. w[h].notes \cup {"late"} \in SUBSET Notes
    BY FieldFacts DEF Notes
  <2> DEFINE job == [w[h] EXCEPT !.notes = w[h].notes \cup {"late"}]
  <2>3. job \in Job
    BY <2>1, <2>2 DEF Job, Pcs
  <2>4. w' = [w EXCEPT ![h] = job]
    BY <1>49 DEF BudgetSpent
  <2> HIDE DEF job
  <2> QED
    BY <2>3, <2>4, PutIsOwn
<1>50. CASE StartList(h)
  BY <1>50, StartWalkIsOwn DEF StartList
<1>51. CASE StartSearch(h)
  BY <1>51, StartWalkIsOwn DEF StartSearch
<1>52. CASE WalkEnds(h)
  BY <1>52, AnswerIsOwn DEF WalkEnds, Late, Results, Notes
<1>53. CASE ListNext(h)
  <2>1. PICK n \in w[h].scan.todo :
           \/ Visited(h, n, Wanted(h, <<n, "path">>), {})
           \/ Visited(h, n, TRUE, {"partial"})
           \/ Visited(h, n, FALSE, {"unmarked"})
    BY <1>53 DEF ListNext
  <2>2. n \in Names /\ Wanted(h, <<n, "path">>) \in BOOLEAN
    BY FieldFacts DEF Scan, Wanted
  <2> QED
    BY <2>1, <2>2, VisitedIsOwn DEF Notes
<1>54. CASE SearchNext(h)
  <2>1. PICK n \in w[h].scan.todo :
           \/ Visited(h, n, Wanted(h, <<n, "path">>), {})
           \/ Visited(h, n, FALSE, {"partial"})
    BY <1>54 DEF SearchNext
  <2>2. n \in Names /\ Wanted(h, <<n, "path">>) \in BOOLEAN
    BY FieldFacts DEF Scan, Wanted
  <2> QED
    BY <2>1, <2>2, VisitedIsOwn DEF Notes
<1>55. CASE Abandon(h)
  <2>1. w[h] \in Job
    BY DEF JobsOK
  <2>2. w[h].notes \cup {"abandoned"} \in SUBSET Notes
    BY FieldFacts DEF Notes
  <2> DEFINE job == [w[h] EXCEPT !.pc = IF w[h].pc = "queue" THEN "done" ELSE w[h].pc,
                        !.notes = w[h].notes \cup {"abandoned"}]
  <2>3. job \in Job
    BY <2>1, <2>2 DEF Job, Pcs
  <2>4. w' = [w EXCEPT ![h] = job]
    BY <1>55 DEF Abandon
  <2> HIDE DEF job
  <2> QED
    BY <2>3, <2>4, PutIsOwn
<1> QED
  BY <1>1, <1>2, <1>3, <1>4, <1>5, <1>6, <1>7, <1>8, <1>9, <1>10, <1>11,
     <1>12, <1>13, <1>14, <1>15, <1>16, <1>17, <1>18, <1>19, <1>20, <1>21, <1>22,
     <1>23, <1>24, <1>25, <1>26, <1>27, <1>28, <1>29, <1>30, <1>31, <1>32, <1>33,
     <1>34, <1>35, <1>36, <1>37, <1>38, <1>39, <1>40, <1>41, <1>42, <1>43, <1>44,
     <1>45, <1>46, <1>47, <1>48, <1>49, <1>50, <1>51, <1>52, <1>53, <1>54, <1>55
  DEF Served, Mutate, EditStep, GitStep, ReadStep

(***************************************************************************)
(* The files keep their types.                                             *)
(***************************************************************************)

LEMMA AbsentIsEntry == Absent \in Entry
PROOF
  BY DEF Entry

LEMMA DataFacts ==
  \A h \in Handlers : \A s \in {"whole", "torn", "empty", "mixed"} : <<h, s>> \in Data
PROOF
  BY DEF Data

LEMMA WithEntry ==
  \A f \in Files : \A p \in Path : \A e \in Entry :
     [f EXCEPT ![p] = e] \in Files
PROOF
  BY DEF Files

LEMMA DataChange ==
  ASSUME NEW e \in Entry, e # Absent, NEW d \in Data
  PROVE  [e EXCEPT !.data = d] \in Entry /\ [e EXCEPT !.data = d] # Absent
PROOF
  BY DEF Entry, Absent

LEMMA WithData ==
  \A f \in Files : \A p \in Path : \A d \in Data :
     f[p] # Absent => [f EXCEPT ![p].data = d] \in Files
PROOF
<1> TAKE f \in Files
<1> TAKE p \in Path
<1> TAKE d \in Data
<1> HAVE f[p] # Absent
<1>1. [f[p] EXCEPT !.data = d] \in Entry
  BY DataChange DEF Files
<1> QED
  BY <1>1 DEF Files

LEMMA RenamedIsFiles ==
  ASSUME FilesOK
  PROVE  \A p, q \in Path : Renamed(p, q) \in Files
PROOF
  BY AbsentIsEntry DEF Renamed, FilesOK, Files

LEMMA RemovedIsFiles ==
  ASSUME FilesOK
  PROVE  \A p \in Path : Removed(p) \in Files
PROOF
  BY AbsentIsEntry DEF Removed, FilesOK, Files

LEMMA SpoiltData ==
  \A d \in Data : [d EXCEPT ![2] = "mixed"] = <<d[1], "mixed">>
PROOF
<1> TAKE d \in Data
<1>1. PICK x \in Names \cup Handlers, y \in {"whole", "torn", "empty", "mixed"} : d = <<x, y>>
  BY DEF Data
<1> QED
  BY <1>1

LEMMA HalfRemovedIsFiles ==
  ASSUME FilesOK
  PROVE  \A p \in Path : HalfRemoved(p) \subseteq Files
PROOF
<1> TAKE p \in Path
<1>1. CASE Exists(p)
  <2>1. <<fs[p].data[1], "mixed">> \in Data
    BY <1>1, EntryFacts DEF FilesOK, Files, Exists, FullEntry, Data
  <2>2. [fs EXCEPT ![p].data = <<fs[p].data[1], "mixed">>] \in Files
    BY <1>1, <2>1, WithData DEF FilesOK, Files, Exists
  <2>3. [fs EXCEPT ![p].data[2] = "mixed"] = [fs EXCEPT ![p].data = <<fs[p].data[1], "mixed">>]
    <3>1. fs[p] \in FullEntry
      BY <1>1, EntryFacts DEF FilesOK, Files, Exists
    <3>2. [fs[p].data EXCEPT ![2] = "mixed"] = <<fs[p].data[1], "mixed">>
      BY <3>1, SpoiltData DEF FullEntry
    <3> QED
      BY <3>1, <3>2 DEF FilesOK, Files, FullEntry
  <2> QED
    BY <2>2, <2>3 DEF HalfRemoved, FilesOK
<1>2. CASE ~Exists(p)
  BY <1>2 DEF HalfRemoved, FilesOK
<1> QED
  BY <1>1, <1>2

LEMMA CopiesAreData ==
  ASSUME FilesOK
  PROVE  \A d \in Data : \A p \in Path : Copies(d, p) \subseteq Data
PROOF
  BY DEF Copies, Data

LEMMA NewTextIsEntry ==
  ASSUME JobsOK
  PROVE  \A h \in Handlers : \A owner \in {"agent", "other"} :
            NewText(h, owner) \in Entry /\ NewText(h, owner) # Absent
PROOF
<1> TAKE h \in Handlers
<1> TAKE owner \in {"agent", "other"}
<1>1. (IF Creating(h) THEN 0 ELSE w[h].seen.mode) \in 0..1
  BY FieldFacts, EntryFacts DEF Creating, FullEntry
<1>2. <<h, "whole">> \in Data
  BY DataFacts
<1> QED
  BY <1>1, <1>2 DEF NewText, Entry, Absent

LEMMA CleanUpIsFiles ==
  \A h, k, result : \A p \in Path : \A f \in Files :
     CleanUp(h, p, f, k, result) => FilesOK'
PROOF
  BY AbsentIsEntry DEF CleanUp, FilesOK, Files

LEMMA EditFailsIsFiles ==
  ASSUME JobsOK
  PROVE  \A h \in Handlers : \A k, notes : \A f \in Files :
            EditFails(h, f, k, notes) => FilesOK'
PROOF
  BY AbsentIsEntry, PathFacts DEF EditFails, FilesOK, Files

LEMMA AfterCommitIsFiles ==
  ASSUME JobsOK
  PROVE  \A h \in Handlers : \A f \in Files : AfterCommit(h, f) => FilesOK'
PROOF
  BY AbsentIsEntry, PathFacts, CleanUpIsFiles DEF AfterCommit, FilesOK, Files

LEMMA FromIsPath ==
  ASSUME JobsOK
  PROVE  \A h \in Handlers : From(h) \in Path
PROOF
  BY PathFacts DEF From

(* A write in place has its backup.                                        *)
BackedBy(h) == w[h].pc \in {"in_place", "writing", "recover"} => Exists(Backup(h))
Backed == \A h \in Handlers : BackedBy(h)

LEMMA SealedCopy ==
  \A e \in Entry : \A d \in Data :
     e # Absent => [e EXCEPT !.data = d, !.owner = "agent"] \in Entry
PROOF
  BY DEF Entry, Absent

LEMMA AbsentHasNoData ==
  \A d : [Absent EXCEPT !.data = d] = Absent
PROOF
  BY DEF Absent

LEMMA WithAnyData ==
  \A f \in Files : \A p \in Path : \A d \in Data : [f EXCEPT ![p].data = d] \in Files
PROOF
<1> TAKE f \in Files
<1> TAKE p \in Path
<1> TAKE d \in Data
<1>1. CASE f[p] # Absent
  BY <1>1, WithData
<1>2. CASE f[p] = Absent
  <2>1. [f[p] EXCEPT !.data = d] = Absent
    BY <1>2, AbsentHasNoData
  <2>2. [f EXCEPT ![p].data = d] = [f EXCEPT ![p] = Absent]
    BY <2>1
  <2> QED
    BY <2>2, AbsentIsEntry, WithEntry
<1> QED
  BY <1>1, <1>2

LEMMA LinkedTwiceIsFiles ==
  ASSUME JobsOK, FilesOK
  PROVE  \A h \in Handlers : LinkedTwice(h) \in Files
PROOF
  BY PathFacts DEF LinkedTwice, FilesOK, Files

(* What the end of a write in place leaves at each path.                   *)
LEMMA InPlaceEnds ==
  ASSUME JobsOK, FilesOK, NEW h \in Handlers, FinishInPlace(h)
  PROVE  /\ FilesOK' /\ parent' = parent /\ w[h].pc = "writing"
         /\ \A p \in Path :
               \/ fs'[p] = fs[p]
               \/ p = Staged(h) /\ fs'[p] = Absent
               \/ /\ Exists(p) /\ fs[p].data = <<h, "torn">>
                  /\ fs'[p] = [fs[p] EXCEPT !.data = <<h, "whole">>]
PROOF
<1> DEFINE written == [p \in Path |->
                         IF fs[p] # Absent /\ p # Staged(h) /\ fs[p].data = <<h, "torn">>
                         THEN [fs[p] EXCEPT !.data = <<h, "whole">>] ELSE fs[p]]
<1>1. ASSUME NEW p \in Path
      PROVE  /\ written[p] \in Entry
             /\ \/ written[p] = fs[p]
                \/ /\ Exists(p) /\ fs[p].data = <<h, "torn">>
                   /\ written[p] = [fs[p] EXCEPT !.data = <<h, "whole">>]
  <2>1. fs[p] \in Entry /\ <<h, "whole">> \in Data
    BY DataFacts DEF FilesOK, Files
  <2>2. fs[p] # Absent => [fs[p] EXCEPT !.data = <<h, "whole">>] \in Entry
    BY <2>1, DataChange
  <2> QED
    BY <2>1, <2>2 DEF Exists
<1>2. written \in Files
  BY <1>1 DEF Files
<1>3. /\ parent' = parent /\ w[h].pc = "writing"
      /\ fs' = [written EXCEPT ![Staged(h)] = Absent] \/ fs' = written \/ fs' = fs
  BY DEF FinishInPlace
<1> HIDE DEF written
<1>4. FilesOK'
  BY <1>2, <1>3, WithEntry, AbsentIsEntry, PathFacts DEF FilesOK
<1>5. ASSUME NEW p \in Path
      PROVE  fs'[p] = fs[p] \/ (p = Staged(h) /\ fs'[p] = Absent) \/ fs'[p] = written[p]
  BY <1>2, <1>3, PathFacts DEF Files
<1> QED
  BY <1>1, <1>3, <1>4, <1>5

LEMMA ServedIsFiles ==
  ASSUME JobsOK, FilesOK, Backed, NEW h \in Handlers, Served(h)
  PROVE  FilesOK'
PROOF
<1>a. /\ Src(h) \in Path /\ Dst(h) \in Path /\ Staged(h) \in Path
      /\ Old(h) \in Path /\ Backup(h) \in Path
  BY PathFacts
<1>b. fs \in Files
  BY DEF FilesOK
<1>1. CASE Start(h)
  BY <1>1 DEF FilesOK, Start
<1>2. CASE CheckMoveCopy(h)
  BY <1>2 DEF FilesOK, CheckMoveCopy
<1>3. CASE TryDirectMove(h)
  BY <1>3, <1>a, <1>b, RenamedIsFiles DEF FilesOK, TryDirectMove
<1>4. CASE Recheck(h)
  BY <1>4 DEF FilesOK, Recheck
<1>5. CASE Displace(h)
  BY <1>5, <1>a, <1>b, RenamedIsFiles, CleanUpIsFiles DEF FilesOK, Displace
<1>6. CASE MoveOver(h)
  BY <1>6, <1>a, <1>b, RenamedIsFiles, AfterCommitIsFiles, FromIsPath DEF FilesOK, MoveOver
<1>7. CASE Rollback(h)
  BY <1>7, <1>a, <1>b, RenamedIsFiles, RemovedIsFiles, CleanUpIsFiles DEF FilesOK, Rollback
<1>8. CASE StageCopy(h)
  <2> DEFINE e == [fs[Src(h)] EXCEPT !.data = <<h, "mixed">>, !.owner = "agent"]
  <2>1. CASE Exists(Src(h))
    <3>1. e \in Entry
      <4>1. fs[Src(h)] \in Entry /\ <<h, "mixed">> \in Data
        BY <1>a, DataFacts DEF FilesOK, Files
      <4> QED
        BY <2>1, <4>1, SealedCopy DEF Exists
    <3>2. fs' = fs \/ fs' = [fs EXCEPT ![Staged(h)] = e]
      BY <1>8 DEF StageCopy
    <3> HIDE DEF e
    <3> QED
      BY <1>a, <3>1, <3>2, WithEntry DEF FilesOK
  <2>2. CASE ~Exists(Src(h))
    BY <1>8, <2>2 DEF StageCopy, FilesOK
  <2> QED
    BY <2>1, <2>2
<1>9. CASE FinishCopy(h)
  <2>1. CASE \E d \in Copies(w[h].read, Src(h)) : fs' = [fs EXCEPT ![Staged(h)].data = d]
    <3>1. PICK d \in Data : fs' = [fs EXCEPT ![Staged(h)].data = d]
      BY <1>a, <2>1, CopiesAreData, FieldFacts
    <3> QED
      BY <1>a, <3>1, WithAnyData DEF FilesOK
  <2>2. CASE CleanUp(h, Staged(h), fs, 1, "error")
    BY <1>a, <2>2, CleanUpIsFiles DEF FilesOK
  <2> QED
    BY <1>9, <2>1, <2>2 DEF FinishCopy
<1>10. CASE CommitStaged(h)
  BY <1>10 DEF FilesOK, CommitStaged
<1>11. CASE InstallStaged(h)
  BY <1>11, <1>a, <1>b, RenamedIsFiles, CleanUpIsFiles, AfterCommitIsFiles
  DEF FilesOK, InstallStaged
<1>12. CASE RemoveSource(h)
  BY <1>12, <1>a, <1>b, RemovedIsFiles, HalfRemovedIsFiles DEF FilesOK, RemoveSource
<1>13. CASE CheckDelete(h)
  BY <1>13 DEF FilesOK, CheckDelete
<1>14. CASE StartBackup(h)
  <2> DEFINE e == [fs[Dst(h)] EXCEPT !.data = <<h, "mixed">>, !.owner = "agent"]
  <2>1. CASE Exists(Dst(h))
    <3>1. e \in Entry
      <4>1. fs[Dst(h)] \in Entry /\ <<h, "mixed">> \in Data
        BY <1>a, DataFacts DEF FilesOK, Files
      <4> QED
        BY <2>1, <4>1, SealedCopy DEF Exists
    <3>2. fs' = fs \/ fs' = [fs EXCEPT ![Backup(h)] = e]
      BY <1>14 DEF StartBackup
    <3> HIDE DEF e
    <3> QED
      BY <1>a, <3>1, <3>2, WithEntry DEF FilesOK
  <2>2. CASE ~Exists(Dst(h))
    BY <1>14, <2>2 DEF StartBackup, FilesOK
  <2> QED
    BY <2>1, <2>2
<1>15. CASE FinishBackup(h)
  <2>1. CASE \E d \in Copies(w[h].read, Dst(h)) : fs' = [fs EXCEPT ![Backup(h)].data = d]
    <3>1. PICK d \in Data : fs' = [fs EXCEPT ![Backup(h)].data = d]
      BY <1>a, <2>1, CopiesAreData, FieldFacts
    <3> QED
      BY <1>a, <3>1, WithAnyData DEF FilesOK
  <2>2. CASE fs' \in {fs, Removed(Backup(h))}
    BY <1>a, <2>2, RemovedIsFiles DEF FilesOK
  <2> QED
    BY <1>15, <2>1, <2>2 DEF FinishBackup
<1>16. CASE Remove(h)
  BY <1>16, <1>a, <1>b, RemovedIsFiles, HalfRemovedIsFiles DEF FilesOK, Remove
<1>17. CASE ChangeMode(h)
  <2>1. CASE Exists(Dst(h))
    <3> DEFINE e == [fs[Dst(h)] EXCEPT !.mode = 1 - fs[Dst(h)].mode]
    <3>1. fs[Dst(h)] \in FullEntry
      BY <1>a, <2>1, EntryFacts DEF Exists, FilesOK, Files
    <3>2. e \in Entry
      BY <3>1 DEF FullEntry, Entry
    <3>3. fs' = fs \/ fs' = [fs EXCEPT ![Dst(h)] = e]
      BY <1>17 DEF ChangeMode
    <3> HIDE DEF e
    <3> QED
      BY <1>a, <3>2, <3>3, WithEntry DEF FilesOK
  <2>2. CASE ~Exists(Dst(h))
    BY <1>17, <2>2 DEF ChangeMode, FilesOK
  <2> QED
    BY <2>1, <2>2
<1>18. CASE ChangeOwner(h)
  <2>1. CASE Exists(Dst(h))
    <3> DEFINE e == [fs[Dst(h)] EXCEPT !.owner = "other"]
    <3>1. fs[Dst(h)] \in FullEntry
      BY <1>a, <2>1, EntryFacts DEF Exists, FilesOK, Files
    <3>2. e \in Entry
      BY <3>1 DEF FullEntry, Entry
    <3>3. fs' = fs \/ fs' = [fs EXCEPT ![Dst(h)] = e]
      BY <1>18 DEF ChangeOwner
    <3> HIDE DEF e
    <3> QED
      BY <1>a, <3>2, <3>3, WithEntry DEF FilesOK
  <2>2. CASE ~Exists(Dst(h))
    BY <1>18, <2>2 DEF ChangeOwner, FilesOK
  <2> QED
    BY <2>1, <2>2
<1>19. CASE WriteRole(h)
  BY <1>19 DEF FilesOK, WriteRole
<1>20. CASE LoadTarget(h)
  BY <1>20 DEF FilesOK, LoadTarget
<1>21. CASE Validated(h)
  BY <1>21 DEF FilesOK, Validated
<1>22. CASE MakeParents(h)
  BY <1>22 DEF FilesOK, MakeParents
<1>23. CASE MakeTemp(h)
  <2>1. CASE fs' \in {[fs EXCEPT ![Staged(h)] = NewText(h, o)] : o \in {"agent", "other"}}
    <3>1. PICK o \in {"agent", "other"} : fs' = [fs EXCEPT ![Staged(h)] = NewText(h, o)]
      BY <2>1
    <3> QED
      BY <1>a, <3>1, NewTextIsEntry, WithEntry DEF FilesOK
  <2>2. CASE \E k : EditFails(h, fs, k, {})
    BY <2>2, EditFailsIsFiles DEF FilesOK
  <2>3. CASE ~(\E k : EditFails(h, fs, k, {}))
    <3>1. PICK owner : /\ owner = IF Creating(h) THEN "agent" ELSE w[h].seen.owner
                       /\ fs' = [fs EXCEPT ![Staged(h)] =
                                    NewText(h, IF host.root \/ owner = "agent" THEN owner
                                               ELSE "agent")]
      BY <1>23, <2>3 DEF MakeTemp
    <3>2. owner \in {"agent", "other"}
      BY <3>1, FieldFacts, EntryFacts DEF Creating, FullEntry
    <3> QED
      BY <2>1, <3>1, <3>2
  <2> QED
    BY <2>2, <2>3
<1>24. CASE Persist(h)
  BY <1>24, <1>a, <1>b, RenamedIsFiles, EditFailsIsFiles DEF FilesOK, Persist
<1>25. CASE Link(h)
  <2> DEFINE e == [NewText(h, "agent") EXCEPT !.data = <<h, "empty">>]
  <2>1. e \in Entry
    BY NewTextIsEntry, DataChange, DataFacts
  <2>2. \/ fs' = Renamed(Staged(h), Dst(h))
        \/ fs' = LinkedTwice(h)
        \/ fs' = [fs EXCEPT ![Dst(h)] = e]
        \/ EditFails(h, fs, 0, {})
    BY <1>25 DEF Link, Linked
  <2> HIDE DEF e
  <2> QED
    BY <1>a, <2>1, <2>2, RenamedIsFiles, LinkedTwiceIsFiles, WithEntry, EditFailsIsFiles
    DEF FilesOK
<1>26. CASE SudoLinkFails(h)
  BY <1>26, <1>a, <1>b, RenamedIsFiles, LinkedTwiceIsFiles, EditFailsIsFiles
  DEF FilesOK, SudoLinkFails, Linked
<1>27. CASE ReplaceReserved(h)
  BY <1>27, <1>a, <1>b, RenamedIsFiles, RemovedIsFiles, EditFailsIsFiles
  DEF FilesOK, ReplaceReserved
<1>28. CASE WriteInPlace(h)
  <2>1. CASE \E s \in {"torn", "mixed"} : fs' = [fs EXCEPT ![Dst(h)].data = <<h, s>>]
    <3>1. PICK s \in {"torn", "mixed"} : fs' = [fs EXCEPT ![Dst(h)].data = <<h, s>>]
      BY <2>1
    <3>2. <<h, s>> \in Data
      BY DataFacts
    <3> QED
      BY <1>a, <3>1, <3>2, WithAnyData DEF FilesOK
  <2>2. CASE EditFails(h, fs, 0, {})
    BY <2>2, EditFailsIsFiles DEF FilesOK
  <2> QED
    BY <1>28, <2>1, <2>2 DEF WriteInPlace
<1>29. CASE FinishInPlace(h)
  BY <1>29, InPlaceEnds
<1>30. CASE Recover(h)
  <2> DEFINE f == [fs EXCEPT ![Dst(h)].data = fs[Backup(h)].data]
  <2>1. f \in Files
    <3>1. fs[Backup(h)].data \in Data
      BY <1>a, <1>30, EntryFacts DEF Backed, BackedBy, Recover, Exists, FilesOK, Files, FullEntry
    <3> QED
      BY <1>a, <3>1, WithAnyData DEF FilesOK
  <2>2. \/ \E k, notes : EditFails(h, f, k, notes)
        \/ \E k, notes : EditFails(h, fs, k, notes)
    BY <1>30 DEF Recover
  <2> HIDE DEF f
  <2> QED
    BY <2>1, <2>2, EditFailsIsFiles DEF FilesOK
<1>31. CASE SudoInstall(h)
  <2> DEFINE owner == IF Creating(h) THEN "other" ELSE w[h].seen.owner
  <2>1. owner \in {"agent", "other"}
    BY FieldFacts, EntryFacts DEF Creating, FullEntry
  <2>2. \/ fs' = [fs EXCEPT ![Staged(h)] = NewText(h, owner)]
        \/ \E k : EditFails(h, fs, k, {})
    BY <1>31 DEF SudoInstall
  <2> HIDE DEF owner
  <2> QED
    BY <1>a, <2>1, <2>2, NewTextIsEntry, WithEntry, EditFailsIsFiles DEF FilesOK
<1>32. CASE SudoMove(h)
  BY <1>32, <1>a, <1>b, RenamedIsFiles, RemovedIsFiles, EditFailsIsFiles DEF FilesOK, SudoMove
<1>33. CASE ConsumeUpload(h)
  BY <1>33 DEF FilesOK, ConsumeUpload
<1>34. CASE Cancel(h)
  BY <1>34 DEF FilesOK, Cancel
<1>35. CASE CheckClone(h)
  BY <1>35 DEF FilesOK, CheckClone
<1>36. CASE StartClone(h)
  <2> DEFINE e == [kind |-> "dir", data |-> <<h, "torn">>, owner |-> "agent", mode |-> 0]
  <2>1. e \in Entry
    <3>1. <<h, "torn">> \in Data
      BY DataFacts
    <3> QED
      BY <3>1 DEF Entry
  <2>2. fs' = fs \/ fs' = [fs EXCEPT ![Dst(h)] = e]
    BY <1>36 DEF StartClone
  <2> HIDE DEF e
  <2> QED
    BY <1>a, <2>1, <2>2, WithEntry DEF FilesOK
<1>37. CASE FinishClone(h)
  <2>1. <<h, "whole">> \in Data
    BY DataFacts
  <2>2. fs' \in {fs, [fs EXCEPT ![Dst(h)] = w[h].seen],
                 [fs EXCEPT ![Dst(h)].data = <<h, "whole">>]}
    BY <1>37 DEF FinishClone
  <2>3. w[h].seen \in Entry
    BY FieldFacts
  <2> QED
    BY <1>a, <2>1, <2>2, <2>3, WithEntry, WithAnyData DEF FilesOK
<1>38. CASE CleanClone(h)
  BY <1>38, <1>a, <1>b, RemovedIsFiles, HalfRemovedIsFiles DEF FilesOK, CleanClone
<1>39. CASE CheckPatch(h)
  BY <1>39 DEF FilesOK, CheckPatch
<1>40. CASE ApplyPatch(h)
  BY <1>40, <1>a, RemovedIsFiles DEF ApplyPatch, FilesOK
<1>41. CASE WritePatched(h)
  <2> DEFINE e == [w[h].seen EXCEPT !.data = <<h, "whole">>, !.owner = "agent"]
  <2>1. fs' = fs \/ fs' = [fs EXCEPT ![Dst(h)] = e]
    BY <1>41 DEF WritePatched
  <2>2. CASE w[h].seen # Absent
    <3>1. e \in Entry
      BY <2>2, FieldFacts, SealedCopy, DataFacts
    <3> HIDE DEF e
    <3> QED
      BY <1>a, <2>1, <3>1, WithEntry DEF FilesOK
  <2>3. CASE w[h].seen = Absent
    <3>1. e = Absent
      BY <2>3 DEF Absent
    <3> HIDE DEF e
    <3> QED
      BY <1>a, <2>1, <3>1, AbsentIsEntry, WithEntry DEF FilesOK
  <2> QED
    BY <2>2, <2>3
<1>42. CASE CheckPush(h)
  BY <1>42 DEF FilesOK, CheckPush
<1>43. CASE Push(h)
  BY <1>43 DEF FilesOK, Push
<1>44. CASE ExportInit(h)
  BY <1>44 DEF FilesOK, ExportInit
<1>45. CASE AskChunk(h)
  BY <1>45 DEF FilesOK, AskChunk
<1>46. CASE ReadChunk(h)
  BY <1>46 DEF FilesOK, ReadChunk
<1>47. CASE ExportComplete(h)
  BY <1>47 DEF FilesOK, ExportComplete
<1>48. CASE Arrive(h)
  BY <1>48 DEF FilesOK, Arrive
<1>49. CASE BudgetSpent(h)
  BY <1>49 DEF FilesOK, BudgetSpent
<1>50. CASE StartList(h)
  BY <1>50 DEF FilesOK, StartList, StartWalk
<1>51. CASE StartSearch(h)
  BY <1>51 DEF FilesOK, StartSearch, StartWalk
<1>52. CASE WalkEnds(h)
  BY <1>52 DEF FilesOK, WalkEnds
<1>53. CASE ListNext(h)
  BY <1>53 DEF FilesOK, ListNext
<1>54. CASE SearchNext(h)
  BY <1>54 DEF FilesOK, SearchNext
<1>55. CASE Abandon(h)
  BY <1>55 DEF FilesOK, Abandon
<1> QED
  BY <1>1, <1>2, <1>3, <1>4, <1>5, <1>6, <1>7, <1>8, <1>9, <1>10, <1>11,
     <1>12, <1>13, <1>14, <1>15, <1>16, <1>17, <1>18, <1>19, <1>20, <1>21, <1>22,
     <1>23, <1>24, <1>25, <1>26, <1>27, <1>28, <1>29, <1>30, <1>31, <1>32, <1>33,
     <1>34, <1>35, <1>36, <1>37, <1>38, <1>39, <1>40, <1>41, <1>42, <1>43, <1>44,
     <1>45, <1>46, <1>47, <1>48, <1>49, <1>50, <1>51, <1>52, <1>53, <1>54, <1>55
  DEF Served, Mutate, EditStep, GitStep, ReadStep

(***************************************************************************)
(* What a job becomes.                                                     *)
(***************************************************************************)
LEMMA GotoFacts ==
  ASSUME JobsOK
  PROVE  \A h \in Handlers : \A pc : Goto(h, pc) => w'[h] = [w[h] EXCEPT !.pc = pc]
PROOF
  BY DEF JobsOK, Goto

LEMMA AnswerFacts ==
  ASSUME JobsOK
  PROVE  \A h \in Handlers : \A result, notes :
            Answer(h, result, notes) =>
               /\ w'[h].pc = "done" /\ w'[h].result = result
               /\ w'[h].notes = w[h].notes \cup notes
               /\ w'[h].op = w[h].op /\ w'[h].src = w[h].src /\ w'[h].dst = w[h].dst
               /\ w'[h].flags = w[h].flags /\ w'[h].from = w[h].from /\ w'[h].seen = w[h].seen
               /\ w'[h].read = w[h].read /\ w'[h].scan = w[h].scan
               /\ w'[h].transfer = w[h].transfer
PROOF
  BY DEF JobsOK, Job, Answer

(***************************************************************************)
(* What a step does to the paths.                                          *)
(***************************************************************************)
PathsApart(h) ==
    /\ Src(h) \in Path /\ Dst(h) \in Path
    /\ Staged(h) \in Path /\ Old(h) \in Path /\ Backup(h) \in Path
    /\ Staged(h) # Old(h) /\ Staged(h) # Backup(h) /\ Old(h) # Backup(h)
    /\ Src(h) \notin {Staged(h), Old(h), Backup(h)}
    /\ Dst(h) \notin {Staged(h), Old(h), Backup(h)}

LEMMA PathsAreApart ==
  ASSUME JobsOK
  PROVE  \A h \in Handlers : PathsApart(h)
PROOF
<1> TAKE h \in Handlers
<1>1. /\ Src(h) \in Path /\ Dst(h) \in Path
      /\ Staged(h) \in Path /\ Old(h) \in Path /\ Backup(h) \in Path
  BY PathFacts
<1> QED
  BY <1>1 DEF PathsApart, Src, Dst, Staged, Old, Backup

LEMMA RenamedAt ==
  ASSUME FilesOK
  PROVE  \A p, q \in Path : p # q =>
            /\ Renamed(p, q)[q] = fs[p] /\ Renamed(p, q)[p] = Absent
            /\ \A r \in Path \ {p, q} : Renamed(p, q)[r] = fs[r]
PROOF
  BY DEF Renamed, FilesOK, Files

LEMMA RemovedAt ==
  ASSUME FilesOK
  PROVE  \A p \in Path :
            /\ Removed(p)[p] = Absent
            /\ \A r \in Path \ {p} : Removed(p)[r] = fs[r]
PROOF
  BY DEF Removed, FilesOK, Files

LEMMA HalfRemovedAt ==
  ASSUME FilesOK
  PROVE  \A p \in Path : \A f \in HalfRemoved(p) :
            /\ f[p] = Absent <=> fs[p] = Absent
            /\ \A r \in Path \ {p} : f[r] = fs[r]
PROOF
<1> TAKE p \in Path
<1> TAKE f \in HalfRemoved(p)
<1>1. CASE f = fs
  BY <1>1
<1>2. CASE Exists(p) /\ f = [fs EXCEPT ![p].data[2] = "mixed"]
  <2> DEFINE d == [fs[p].data EXCEPT ![2] = "mixed"]
  <2>1. f[p] = [fs[p] EXCEPT !.data = d] /\ \A r \in Path \ {p} : f[r] = fs[r]
    BY <1>2 DEF FilesOK, Files
  <2>2. d \in Data
    <3>1. fs[p] \in FullEntry
      BY <1>2, EntryFacts DEF FilesOK, Files, Exists
    <3> QED
      BY <3>1, SpoiltData DEF FullEntry, Data
  <2> HIDE DEF d
  <2>3. f[p] # Absent
    BY <1>2, <2>1, <2>2, DataChange DEF FilesOK, Files, Exists
  <2> QED
    BY <1>2, <2>1, <2>3 DEF Exists
<1> QED
  BY <1>1, <1>2 DEF HalfRemoved

LEMMA StagedIsBeside ==
  \A h, noreplace : RenameError(Staged(h), Dst(h), noreplace) # "EXDEV"
PROOF
  BY DEF RenameError, Staged, Dst, At

(* A step reaches the paths of its own job; elsewhere it can only finish   *)
(* the text that it has begun to write in place.                           *)
Reach(h) ==
    {Src(h), Dst(h), Staged(h), Old(h)}
    \cup (IF w[h].pc \in {"backup", "backing"} THEN {Backup(h)} ELSE {})
Finished(h, p) ==
    /\ Exists(p) /\ fs[p].data = <<h, "torn">>
    /\ fs'[p] = [fs[p] EXCEPT !.data = <<h, "whole">>]
Untouched(h) == \A p \in Path \ Reach(h) : fs'[p] = fs[p] \/ Finished(h, p)

LEMMA ServedTouches ==
  ASSUME JobsOK, FilesOK, Backed, NEW h \in Handlers, Served(h)
  PROVE  Untouched(h)
PROOF
<1>a. PathsApart(h)
  BY PathsAreApart
<1>1. CASE Start(h)
  BY <1>1, <1>a
  DEF FilesOK, Files, PathsApart, Untouched, Reach, Renamed, Removed, HalfRemoved, Start
<1>2. CASE CheckMoveCopy(h)
  BY <1>2, <1>a
  DEF FilesOK, Files, PathsApart, Untouched, Reach, Renamed, Removed, HalfRemoved, CheckMoveCopy
<1>3. CASE TryDirectMove(h)
  BY <1>3, <1>a
  DEF FilesOK, Files, PathsApart, Untouched, Reach, Renamed, Removed, HalfRemoved,
      TryDirectMove, SyncThen
<1>4. CASE Recheck(h)
  BY <1>4, <1>a
  DEF FilesOK, Files, PathsApart, Untouched, Reach, Renamed, Removed, HalfRemoved, Recheck
<1>5. CASE Displace(h)
  BY <1>5, <1>a
  DEF FilesOK, Files, PathsApart, Untouched, Reach, Renamed, Removed, HalfRemoved, Displace,
      CleanUp
<1>6. CASE MoveOver(h)
  <2>1. From(h) \in {Src(h), Staged(h)}
    BY DEF From
  <2> QED
    BY <1>6, <1>a, <2>1
    DEF FilesOK, Files, PathsApart, Untouched, Reach, Renamed, MoveOver, AfterCommit, CleanUp
<1>7. CASE Rollback(h)
  BY <1>7, <1>a
  DEF FilesOK, Files, PathsApart, Untouched, Reach, Renamed, Removed, HalfRemoved, Rollback,
      CleanUp
<1>8. CASE StageCopy(h)
  BY <1>8, <1>a
  DEF FilesOK, Files, PathsApart, Untouched, Reach, Renamed, Removed, HalfRemoved, StageCopy
<1>9. CASE FinishCopy(h)
  BY <1>9, <1>a
  DEF FilesOK, Files, PathsApart, Untouched, Reach, Renamed, Removed, HalfRemoved, FinishCopy,
      CleanUp
<1>10. CASE CommitStaged(h)
  BY <1>10, <1>a
  DEF FilesOK, Files, PathsApart, Untouched, Reach, Renamed, Removed, HalfRemoved, CommitStaged
<1>11. CASE InstallStaged(h)
  BY <1>11, <1>a
  DEF FilesOK, Files, PathsApart, Untouched, Reach, Renamed, Removed, HalfRemoved,
      InstallStaged, AfterCommit, CleanUp
<1>12. CASE RemoveSource(h)
  BY <1>12, <1>a
  DEF FilesOK, Files, PathsApart, Untouched, Reach, Renamed, Removed, HalfRemoved, RemoveSource,
      SyncThen
<1>13. CASE CheckDelete(h)
  BY <1>13, <1>a
  DEF FilesOK, Files, PathsApart, Untouched, Reach, Renamed, Removed, HalfRemoved, CheckDelete
<1>14. CASE StartBackup(h)
  BY <1>14, <1>a
  DEF FilesOK, Files, PathsApart, Untouched, Reach, Renamed, Removed, HalfRemoved, StartBackup
<1>15. CASE FinishBackup(h)
  BY <1>15, <1>a
  DEF FilesOK, Files, PathsApart, Untouched, Reach, Renamed, Removed, HalfRemoved, FinishBackup
<1>16. CASE Remove(h)
  BY <1>16, <1>a
  DEF FilesOK, Files, PathsApart, Untouched, Reach, Renamed, Removed, HalfRemoved, Remove
<1>17. CASE ChangeMode(h)
  BY <1>17, <1>a
  DEF FilesOK, Files, PathsApart, Untouched, Reach, Renamed, Removed, HalfRemoved, ChangeMode
<1>18. CASE ChangeOwner(h)
  BY <1>18, <1>a
  DEF FilesOK, Files, PathsApart, Untouched, Reach, Renamed, Removed, HalfRemoved, ChangeOwner
<1>19. CASE WriteRole(h)
  BY <1>19, <1>a
  DEF FilesOK, Files, PathsApart, Untouched, Reach, Renamed, Removed, HalfRemoved, WriteRole
<1>20. CASE LoadTarget(h)
  BY <1>20, <1>a
  DEF FilesOK, Files, PathsApart, Untouched, Reach, Renamed, Removed, HalfRemoved, LoadTarget
<1>21. CASE Validated(h)
  BY <1>21, <1>a
  DEF FilesOK, Files, PathsApart, Untouched, Reach, Renamed, Removed, HalfRemoved, Validated,
      EditDone
<1>22. CASE MakeParents(h)
  BY <1>22, <1>a
  DEF FilesOK, Files, PathsApart, Untouched, Reach, Renamed, Removed, HalfRemoved, MakeParents
<1>23. CASE MakeTemp(h)
  BY <1>23, <1>a
  DEF FilesOK, Files, PathsApart, Untouched, Reach, Renamed, Removed, HalfRemoved, MakeTemp,
      EditFails
<1>24. CASE Persist(h)
  BY <1>24, <1>a
  DEF FilesOK, Files, PathsApart, Untouched, Reach, Renamed, Removed, HalfRemoved, Persist,
      EditDone, EditFails
<1>25. CASE Link(h)
  BY <1>25, <1>a
  DEF FilesOK, Files, PathsApart, Untouched, Reach, Renamed, Removed, HalfRemoved, Link, Linked,
      LinkedTwice, EditDone, EditFails
<1>26. CASE SudoLinkFails(h)
  BY <1>26, <1>a
  DEF FilesOK, Files, PathsApart, Untouched, Reach, Renamed, Removed, HalfRemoved,
      SudoLinkFails, EditFails, Linked, LinkedTwice
<1>27. CASE ReplaceReserved(h)
  BY <1>27, <1>a
  DEF FilesOK, Files, PathsApart, Untouched, Reach, Renamed, Removed, HalfRemoved,
      ReplaceReserved, EditDone, EditFails
<1>28. CASE WriteInPlace(h)
  BY <1>28, <1>a
  DEF FilesOK, Files, PathsApart, Untouched, Reach, Renamed, Removed, HalfRemoved, WriteInPlace,
      EditFails
<1>29. CASE FinishInPlace(h)
  BY <1>29, InPlaceEnds DEF Untouched, Finished, Reach
<1>30. CASE Recover(h)
  BY <1>30, <1>a
  DEF FilesOK, Files, PathsApart, Untouched, Reach, Renamed, Removed, HalfRemoved, Recover,
      EditFails
<1>31. CASE SudoInstall(h)
  BY <1>31, <1>a
  DEF FilesOK, Files, PathsApart, Untouched, Reach, Renamed, Removed, HalfRemoved, SudoInstall,
      EditFails
<1>32. CASE SudoMove(h)
  BY <1>32, <1>a
  DEF FilesOK, Files, PathsApart, Untouched, Reach, Renamed, Removed, HalfRemoved, SudoMove,
      EditDone, EditFails
<1>33. CASE ConsumeUpload(h)
  BY <1>33, <1>a
  DEF FilesOK, Files, PathsApart, Untouched, Reach, Renamed, Removed, HalfRemoved, ConsumeUpload
<1>34. CASE Cancel(h)
  BY <1>34, <1>a
  DEF FilesOK, Files, PathsApart, Untouched, Reach, Renamed, Removed, HalfRemoved, Cancel
<1>35. CASE CheckClone(h)
  BY <1>35, <1>a
  DEF FilesOK, Files, PathsApart, Untouched, Reach, Renamed, Removed, HalfRemoved, CheckClone
<1>36. CASE StartClone(h)
  BY <1>36, <1>a
  DEF FilesOK, Files, PathsApart, Untouched, Reach, Renamed, Removed, HalfRemoved, StartClone
<1>37. CASE FinishClone(h)
  BY <1>37, <1>a
  DEF FilesOK, Files, PathsApart, Untouched, Reach, Renamed, Removed, HalfRemoved, FinishClone
<1>38. CASE CleanClone(h)
  BY <1>38, <1>a
  DEF FilesOK, Files, PathsApart, Untouched, Reach, Renamed, Removed, HalfRemoved, CleanClone
<1>39. CASE CheckPatch(h)
  BY <1>39, <1>a
  DEF FilesOK, Files, PathsApart, Untouched, Reach, Renamed, Removed, HalfRemoved, CheckPatch
<1>40. CASE ApplyPatch(h)
  BY <1>40, <1>a
  DEF FilesOK, Files, PathsApart, Untouched, Reach, Renamed, Removed, HalfRemoved, ApplyPatch
<1>41. CASE WritePatched(h)
  BY <1>41, <1>a
  DEF FilesOK, Files, PathsApart, Untouched, Reach, Renamed, Removed, HalfRemoved, WritePatched
<1>42. CASE CheckPush(h)
  BY <1>42, <1>a
  DEF FilesOK, Files, PathsApart, Untouched, Reach, Renamed, Removed, HalfRemoved, CheckPush
<1>43. CASE Push(h)
  BY <1>43, <1>a
  DEF FilesOK, Files, PathsApart, Untouched, Reach, Renamed, Removed, HalfRemoved, Push
<1>44. CASE ExportInit(h)
  BY <1>44, <1>a
  DEF FilesOK, Files, PathsApart, Untouched, Reach, Renamed, Removed, HalfRemoved, ExportInit
<1>45. CASE AskChunk(h)
  BY <1>45, <1>a
  DEF FilesOK, Files, PathsApart, Untouched, Reach, Renamed, Removed, HalfRemoved, AskChunk
<1>46. CASE ReadChunk(h)
  BY <1>46, <1>a
  DEF FilesOK, Files, PathsApart, Untouched, Reach, Renamed, Removed, HalfRemoved, ReadChunk
<1>47. CASE ExportComplete(h)
  BY <1>47, <1>a
  DEF FilesOK, Files, PathsApart, Untouched, Reach, Renamed, Removed, HalfRemoved,
      ExportComplete
<1>48. CASE Arrive(h)
  BY <1>48, <1>a
  DEF FilesOK, Files, PathsApart, Untouched, Reach, Renamed, Removed, HalfRemoved, Arrive
<1>49. CASE BudgetSpent(h)
  BY <1>49, <1>a
  DEF FilesOK, Files, PathsApart, Untouched, Reach, Renamed, Removed, HalfRemoved, BudgetSpent
<1>50. CASE StartList(h)
  BY <1>50, <1>a
  DEF FilesOK, Files, PathsApart, Untouched, Reach, Renamed, Removed, HalfRemoved, StartList,
      StartWalk
<1>51. CASE StartSearch(h)
  BY <1>51, <1>a
  DEF FilesOK, Files, PathsApart, Untouched, Reach, Renamed, Removed, HalfRemoved, StartSearch,
      StartWalk
<1>52. CASE WalkEnds(h)
  BY <1>52, <1>a
  DEF FilesOK, Files, PathsApart, Untouched, Reach, Renamed, Removed, HalfRemoved, WalkEnds,
      Late
<1>53. CASE ListNext(h)
  BY <1>53, <1>a
  DEF FilesOK, Files, PathsApart, Untouched, Reach, Renamed, Removed, HalfRemoved, ListNext
<1>54. CASE SearchNext(h)
  BY <1>54, <1>a
  DEF FilesOK, Files, PathsApart, Untouched, Reach, Renamed, Removed, HalfRemoved, SearchNext
<1>55. CASE Abandon(h)
  BY <1>55, <1>a
  DEF FilesOK, Files, PathsApart, Untouched, Reach, Renamed, Removed, HalfRemoved, Abandon
<1> QED
  BY <1>1, <1>2, <1>3, <1>4, <1>5, <1>6, <1>7, <1>8, <1>9, <1>10, <1>11,
     <1>12, <1>13, <1>14, <1>15, <1>16, <1>17, <1>18, <1>19, <1>20, <1>21, <1>22,
     <1>23, <1>24, <1>25, <1>26, <1>27, <1>28, <1>29, <1>30, <1>31, <1>32, <1>33,
     <1>34, <1>35, <1>36, <1>37, <1>38, <1>39, <1>40, <1>41, <1>42, <1>43, <1>44,
     <1>45, <1>46, <1>47, <1>48, <1>49, <1>50, <1>51, <1>52, <1>53, <1>54, <1>55
  DEF Served, Mutate, EditStep, GitStep, ReadStep

LEMMA RenameOk ==
  \A p, q, noreplace :
     RenameError(p, q, noreplace) = "ok" =>
        /\ InDir(p) /\ InDir(q) /\ Exists(p)
        /\ noreplace => ~Exists(q)
        /\ ~(host.cross /\ At(p) # At(q))
PROOF
  BY DEF RenameError

(***************************************************************************)
(* A user path comes to hold something only where its parent directory is. *)
(***************************************************************************)
Comes(f, p) == f[p] # Absent /\ ~Exists(p)
Entered(h) == \A p \in {Src(h), Dst(h)} : Comes(fs', p) => InDir(p) \/ parent'
Dropped(h) == parent => parent' \/ \A p \in Path : At(p) \in Nested => fs'[p] = Absent
Rooted(h) == Entered(h) /\ Dropped(h)

LEMMA RenamedComes ==
  ASSUME FilesOK
  PROVE  \A p, q \in Path : \A r \in Path \ {q} : ~Comes(Renamed(p, q), r)
PROOF
  BY RenamedAt DEF Comes, Exists, Renamed, FilesOK, Files

LEMMA WithoutComes ==
  \A f \in Files : \A p, r \in Path : Comes([f EXCEPT ![p] = Absent], r) => Comes(f, r)
PROOF
  BY DEF Comes, Files

LEMMA DataComes ==
  \A f \in Files : \A p, r \in Path : \A d \in Data :
     Comes([f EXCEPT ![p].data = d], r) => Comes(f, r)
PROOF
<1> TAKE f \in Files
<1> TAKE p, r \in Path
<1> TAKE d \in Data
<1>1. CASE p # r
  BY <1>1 DEF Files, Comes
<1>2. CASE p = r /\ f[p] = Absent
  <2>1. [f[p] EXCEPT !.data = d] = Absent
    BY <1>2, AbsentHasNoData
  <2> QED
    BY <1>2, <2>1 DEF Files, Comes
<1>3. CASE f[p] # Absent /\ p = r
  BY <1>3 DEF Comes
<1> QED
  BY <1>1, <1>2, <1>3

LEMMA SameComes ==
  \A p : ~Comes(fs, p)
PROOF
  BY DEF Comes, Exists

LEMMA EditFailsRoots ==
  ASSUME JobsOK, FilesOK, NEW h \in Handlers, NEW f \in Files, NEW k, NEW notes,
         EditFails(h, f, k, notes),
         \A p \in {Src(h), Dst(h)} : ~Comes(f, p)
  PROVE  Rooted(h)
PROOF
<1>1. Src(h) \in Path /\ Dst(h) \in Path /\ Staged(h) \in Path
  BY PathFacts
<1>2. fs' = f \/ fs' = [f EXCEPT ![Staged(h)] = Absent]
  BY DEF EditFails
<1>3. Entered(h)
  BY <1>1, <1>2, WithoutComes DEF Entered
<1>4. Dropped(h)
  BY DEF EditFails, DropParents, Dropped
<1> QED
  BY <1>3, <1>4 DEF Rooted

LEMMA ArrivesRooted ==
  ASSUME JobsOK, FilesOK, NEW h \in Handlers,
         Comes(fs', Dst(h)) => InDir(Dst(h)),
         Src(h) # Dst(h) => ~Comes(fs', Src(h)),
         parent => parent'
  PROVE  Rooted(h)
PROOF
<1>1. Entered(h)
  <2> SUFFICES ASSUME NEW p \in {Src(h), Dst(h)}, Comes(fs', p)
               PROVE  InDir(p)
    BY DEF Entered
  <2> QED
    OBVIOUS
<1> QED
  BY <1>1 DEF Rooted, Dropped

LEMMA GoneComes ==
  ASSUME FilesOK
  PROVE  \A p, r \in Path :
            /\ ~Comes(Removed(p), r)
            /\ \A f \in HalfRemoved(p) : ~Comes(f, r)
PROOF
  BY RemovedAt, HalfRemovedAt DEF Comes, Exists, Removed, FilesOK, Files

LEMMA ServedRoots ==
  ASSUME JobsOK, FilesOK, Backed, NEW h \in Handlers, Served(h)
  PROVE  Rooted(h)
PROOF
<1>a. PathsApart(h)
  BY PathsAreApart
<1>p. /\ Src(h) \in Path /\ Dst(h) \in Path /\ Staged(h) \in Path
      /\ Old(h) \in Path /\ Backup(h) \in Path
  BY <1>a DEF PathsApart
<1>1. CASE Start(h)
  BY <1>1, <1>a
  DEF FilesOK, Files, PathsApart, Rooted, Entered, Dropped, Comes, Exists, Start, rest, shared
<1>2. CASE CheckMoveCopy(h)
  BY <1>2, <1>a
  DEF FilesOK, Files, PathsApart, Rooted, Entered, Dropped, Comes, Exists, CheckMoveCopy, rest,
      shared
<1>3. CASE TryDirectMove(h)
  <2>1. parent' = parent
    BY <1>3 DEF TryDirectMove
  <2>2. CASE RenameError(Src(h), Dst(h), ~Asked(h, "overwrite")) = "ok"
    <3>1. fs' = Renamed(Src(h), Dst(h)) /\ InDir(Dst(h))
      BY <1>3, <2>2, RenameOk DEF TryDirectMove
    <3> QED
      BY <1>p, <2>1, <3>1, RenamedComes, ArrivesRooted
  <2>3. CASE RenameError(Src(h), Dst(h), ~Asked(h, "overwrite")) # "ok"
    <3>1. fs' = fs
      BY <1>3, <2>3 DEF TryDirectMove
    <3> QED
      BY <2>1, <3>1, SameComes, ArrivesRooted
  <2> QED
    BY <2>2, <2>3
<1>4. CASE Recheck(h)
  BY <1>4, <1>a
  DEF FilesOK, Files, PathsApart, Rooted, Entered, Dropped, Comes, Exists, Recheck, rest, shared
<1>5. CASE Displace(h)
  <2>1. parent' = parent
    BY <1>5 DEF Displace
  <2>2. \/ fs' = Renamed(Dst(h), Old(h))
        \/ fs' = [fs EXCEPT ![Staged(h)] = Absent]
        \/ fs' = fs
    BY <1>5 DEF Displace, CleanUp
  <2>3. Src(h) # Old(h) /\ Dst(h) # Old(h)
    BY <1>a DEF PathsApart
  <2>4. ~Comes(Renamed(Dst(h), Old(h)), Src(h)) /\ ~Comes(Renamed(Dst(h), Old(h)), Dst(h))
    BY <1>p, <2>3, RenamedComes
  <2>5. ~Comes(fs', Src(h)) /\ ~Comes(fs', Dst(h))
    BY <1>p, <2>2, <2>4, WithoutComes, SameComes DEF FilesOK
  <2> QED
    BY <2>1, <2>5, ArrivesRooted
<1>6. CASE MoveOver(h)
  <2>1. parent' = parent
    BY <1>6 DEF MoveOver
  <2>2. CASE RenameError(From(h), Dst(h), FALSE) = "ok"
    <3>1. InDir(Dst(h)) /\ From(h) \in Path
      BY <2>2, RenameOk, FromIsPath
    <3>2. \/ fs' = Renamed(From(h), Dst(h))
          \/ fs' = [Renamed(From(h), Dst(h)) EXCEPT ![Old(h)] = Absent]
      BY <1>6, <2>2 DEF MoveOver, AfterCommit, CleanUp
    <3>3. Renamed(From(h), Dst(h)) \in Files
      BY <1>p, <3>1, RenamedIsFiles
    <3>4. Src(h) # Dst(h) => ~Comes(Renamed(From(h), Dst(h)), Src(h))
      BY <1>p, <3>1, RenamedComes
    <3>5. Src(h) # Dst(h) => ~Comes(fs', Src(h))
      BY <1>p, <3>2, <3>3, <3>4, WithoutComes
    <3> QED
      BY <2>1, <3>1, <3>5, ArrivesRooted
  <2>3. CASE RenameError(From(h), Dst(h), FALSE) # "ok"
    <3>1. fs' = fs
      BY <1>6, <2>3 DEF MoveOver
    <3> QED
      BY <2>1, <3>1, SameComes, ArrivesRooted
  <2> QED
    BY <2>2, <2>3
<1>7. CASE Rollback(h)
  <2>1. parent' = parent
    BY <1>7 DEF Rollback
  <2>2. CASE RenameError(Old(h), Dst(h), TRUE) = "ok"
    <3>1. InDir(Dst(h))
      BY <2>2, RenameOk
    <3>2. \/ fs' = Renamed(Old(h), Dst(h))
          \/ fs' = [Renamed(Old(h), Dst(h)) EXCEPT ![Staged(h)] = Absent]
      BY <1>7, <2>2 DEF Rollback, CleanUp
    <3>3. Renamed(Old(h), Dst(h)) \in Files
      BY <1>p, RenamedIsFiles
    <3>4. Src(h) # Dst(h) => ~Comes(Renamed(Old(h), Dst(h)), Src(h))
      BY <1>p, RenamedComes
    <3>5. Src(h) # Dst(h) => ~Comes(fs', Src(h))
      BY <1>p, <3>2, <3>3, <3>4, WithoutComes
    <3> QED
      BY <2>1, <3>1, <3>5, ArrivesRooted
  <2>3. CASE RenameError(Old(h), Dst(h), TRUE) # "ok"
    <3>1. fs' = fs \/ fs' = [fs EXCEPT ![Staged(h)] = Absent]
      BY <1>7, <2>3 DEF Rollback, Removed
    <3>2. ~Comes(fs', Src(h)) /\ ~Comes(fs', Dst(h))
      BY <1>p, <3>1, SameComes, WithoutComes DEF FilesOK
    <3> QED
      BY <2>1, <3>2, ArrivesRooted
  <2> QED
    BY <2>2, <2>3
<1>8. CASE StageCopy(h)
  BY <1>8, <1>a
  DEF FilesOK, Files, PathsApart, Rooted, Entered, Dropped, Comes, Exists, StageCopy, rest,
      shared
<1>9. CASE FinishCopy(h)
  BY <1>9, <1>a
  DEF FilesOK, Files, PathsApart, Rooted, Entered, Dropped, Comes, Exists, FinishCopy, rest,
      CleanUp, shared
<1>10. CASE CommitStaged(h)
  BY <1>10, <1>a
  DEF FilesOK, Files, PathsApart, Rooted, Entered, Dropped, Comes, Exists, CommitStaged, rest,
      shared
<1>11. CASE InstallStaged(h)
  <2>1. parent' = parent
    BY <1>11 DEF InstallStaged
  <2>2. CASE RenameError(Staged(h), Dst(h), ~Asked(h, "overwrite")) = "ok"
    <3>1. InDir(Dst(h))
      BY <2>2, RenameOk
    <3>2. \/ fs' = Renamed(Staged(h), Dst(h))
          \/ fs' = [Renamed(Staged(h), Dst(h)) EXCEPT ![Old(h)] = Absent]
      BY <1>11, <2>2 DEF InstallStaged, AfterCommit, CleanUp
    <3>3. Renamed(Staged(h), Dst(h)) \in Files
      BY <1>p, RenamedIsFiles
    <3>4. Src(h) # Dst(h) => ~Comes(Renamed(Staged(h), Dst(h)), Src(h))
      BY <1>p, RenamedComes
    <3>5. Src(h) # Dst(h) => ~Comes(fs', Src(h))
      BY <1>p, <3>2, <3>3, <3>4, WithoutComes
    <3> QED
      BY <2>1, <3>1, <3>5, ArrivesRooted
  <2>3. CASE RenameError(Staged(h), Dst(h), ~Asked(h, "overwrite")) # "ok"
    <3>1. fs' = fs \/ fs' = [fs EXCEPT ![Staged(h)] = Absent]
      BY <1>11, <2>3 DEF InstallStaged, CleanUp
    <3>2. ~Comes(fs', Src(h)) /\ ~Comes(fs', Dst(h))
      BY <1>p, <3>1, SameComes, WithoutComes DEF FilesOK
    <3> QED
      BY <2>1, <3>2, ArrivesRooted
  <2> QED
    BY <2>2, <2>3
<1>12. CASE RemoveSource(h)
  <2>1. parent' = parent /\ (fs' = Removed(Src(h)) \/ fs' \in HalfRemoved(Src(h)))
    BY <1>12 DEF RemoveSource
  <2>2. ~Comes(fs', Src(h)) /\ ~Comes(fs', Dst(h))
    BY <1>p, <2>1, GoneComes
  <2> QED
    BY <2>1, <2>2, ArrivesRooted
<1>13. CASE CheckDelete(h)
  BY <1>13, <1>a
  DEF FilesOK, Files, PathsApart, Rooted, Entered, Dropped, Comes, Exists, CheckDelete, rest,
      shared
<1>14. CASE StartBackup(h)
  BY <1>14, <1>a
  DEF FilesOK, Files, PathsApart, Rooted, Entered, Dropped, Comes, Exists, StartBackup, rest,
      shared
<1>15. CASE FinishBackup(h)
  <2>1. parent' = parent
    BY <1>15 DEF FinishBackup
  <2>2. \/ fs' = fs
        \/ fs' = Removed(Backup(h))
        \/ \E d : fs' = [fs EXCEPT ![Backup(h)].data = d]
    BY <1>15 DEF FinishBackup
  <2>3. Src(h) # Backup(h) /\ Dst(h) # Backup(h)
    BY <1>a DEF PathsApart
  <2>4. ~Comes(fs', Src(h)) /\ ~Comes(fs', Dst(h))
    BY <1>p, <2>2, <2>3, SameComes, GoneComes DEF FilesOK, Files, Comes, Exists
  <2> QED
    BY <2>1, <2>4, ArrivesRooted
<1>16. CASE Remove(h)
  <2>1. parent' = parent /\ (fs' = Removed(Dst(h)) \/ fs' \in HalfRemoved(Dst(h)))
    BY <1>16 DEF Remove
  <2>2. ~Comes(fs', Src(h)) /\ ~Comes(fs', Dst(h))
    BY <1>p, <2>1, GoneComes
  <2> QED
    BY <2>1, <2>2, ArrivesRooted
<1>17. CASE ChangeMode(h)
  <2>1. parent' = parent /\ \A p \in Path \ {Dst(h)} : fs'[p] = fs[p]
    BY <1>17, <1>p DEF ChangeMode, FilesOK, Files
  <2>2. Comes(fs', Dst(h)) => FALSE
    BY <1>17, SameComes DEF ChangeMode, Comes
  <2> QED
    BY <1>p, <2>1, <2>2, ArrivesRooted DEF Comes, Exists
<1>18. CASE ChangeOwner(h)
  <2>1. parent' = parent /\ \A p \in Path \ {Dst(h)} : fs'[p] = fs[p]
    BY <1>18, <1>p DEF ChangeOwner, FilesOK, Files
  <2>2. Comes(fs', Dst(h)) => FALSE
    BY <1>18, SameComes DEF ChangeOwner, Comes
  <2> QED
    BY <1>p, <2>1, <2>2, ArrivesRooted DEF Comes, Exists
<1>19. CASE WriteRole(h)
  BY <1>19, <1>a
  DEF FilesOK, Files, PathsApart, Rooted, Entered, Dropped, Comes, Exists, WriteRole, shared
<1>20. CASE LoadTarget(h)
  BY <1>20, <1>a
  DEF FilesOK, Files, PathsApart, Rooted, Entered, Dropped, Comes, Exists, LoadTarget, shared
<1>21. CASE Validated(h)
  BY <1>21, <1>a
  DEF FilesOK, Files, PathsApart, Rooted, Entered, Dropped, Comes, Exists, Validated, EditDone,
      shared
<1>22. CASE MakeParents(h)
  BY <1>22, <1>a
  DEF FilesOK, Files, PathsApart, Rooted, Entered, Dropped, Comes, Exists, MakeParents, shared
<1>23. CASE MakeTemp(h)
  <2>1. CASE \E k : EditFails(h, fs, k, {})
    BY <1>p, <2>1, EditFailsRoots, SameComes DEF FilesOK
  <2>2. CASE parent' = parent /\ \E e : fs' = [fs EXCEPT ![Staged(h)] = e]
    <3>1. \A p \in Path \ {Staged(h)} : fs'[p] = fs[p]
      BY <2>2 DEF FilesOK, Files
    <3> QED
      BY <1>a, <1>p, <2>2, <3>1, ArrivesRooted DEF PathsApart, Comes, Exists
  <2> QED
    BY <1>23, <2>1, <2>2 DEF MakeTemp
<1>24. CASE Persist(h)
  <2>1. CASE RenameError(Staged(h), Dst(h), FALSE) = "ok"
    <3>1. fs' = Renamed(Staged(h), Dst(h)) /\ parent' = parent /\ InDir(Dst(h))
      BY <1>24, <2>1, RenameOk DEF Persist
    <3> QED
      BY <1>p, <3>1, RenamedComes, ArrivesRooted
  <2>2. CASE EditFails(h, fs, 0, {})
    BY <1>p, <2>2, EditFailsRoots, SameComes DEF FilesOK
  <2> QED
    BY <1>24, <2>1, <2>2 DEF Persist
<1>25. CASE Link(h)
  <2>1. CASE Free(h) /\ parent' = parent
    <3>1. \/ fs' = Renamed(Staged(h), Dst(h))
          \/ \E e : fs' = [fs EXCEPT ![Dst(h)] = e]
          \/ fs' = fs
      BY <1>25, <2>1 DEF Link, Linked, LinkedTwice
    <3>2. Src(h) # Dst(h) => ~Comes(fs', Src(h))
      <4>1. CASE fs' = Renamed(Staged(h), Dst(h))
        BY <1>p, <4>1, RenamedComes
      <4>2. CASE \E e : fs' = [fs EXCEPT ![Dst(h)] = e]
        BY <1>p, <4>2 DEF FilesOK, Files, Comes, Exists
      <4> QED
        BY <3>1, <4>1, <4>2, SameComes
    <3> QED
      BY <2>1, <3>2, ArrivesRooted DEF Free
  <2>2. CASE EditFails(h, fs, 0, {})
    BY <1>p, <2>2, EditFailsRoots, SameComes DEF FilesOK
  <2> QED
    BY <1>25, <2>1, <2>2 DEF Link
<1>26. CASE SudoLinkFails(h)
  <2>1. CASE Free(h) /\ parent' = parent /\ fs' = Renamed(Staged(h), Dst(h))
    BY <1>p, <2>1, RenamedComes, ArrivesRooted DEF Free
  <2>2. CASE EditFails(h, fs, 1, {})
    BY <1>p, <2>2, EditFailsRoots, SameComes DEF FilesOK
  <2>3. CASE Free(h) /\ parent' = parent /\ fs' = LinkedTwice(h)
    <3>1. Src(h) # Dst(h) => ~Comes(fs', Src(h))
      BY <1>p, <2>3 DEF LinkedTwice, FilesOK, Files, Comes, Exists
    <3> QED
      BY <2>3, <3>1, ArrivesRooted DEF Free
  <2> QED
    BY <1>26, <2>1, <2>2, <2>3 DEF SudoLinkFails, Linked
<1>27. CASE ReplaceReserved(h)
  <2>1. CASE RenameError(Staged(h), Dst(h), FALSE) = "ok" /\ fs' = Renamed(Staged(h), Dst(h))
             /\ parent' = parent
    BY <1>p, <2>1, RenameOk, RenamedComes, ArrivesRooted
  <2>2. CASE \E k : EditFails(h, fs, k, {})
    BY <1>p, <2>2, EditFailsRoots, SameComes DEF FilesOK
  <2>3. CASE \E k : EditFails(h, Removed(Dst(h)), k, {})
    BY <1>p, <2>3, EditFailsRoots, GoneComes, RemovedIsFiles
  <2> QED
    BY <1>27, <2>1, <2>2, <2>3 DEF ReplaceReserved
<1>28. CASE WriteInPlace(h)
  <2>1. CASE /\ parent' = parent
            /\ \E s \in {"torn", "mixed"} : fs' = [fs EXCEPT ![Dst(h)].data = <<h, s>>]
    <3>1. PICK d \in Data : fs' = [fs EXCEPT ![Dst(h)].data = d]
      BY <2>1, DataFacts
    <3> QED
      BY <1>p, <2>1, <3>1, DataComes, SameComes, ArrivesRooted DEF FilesOK
  <2>2. CASE EditFails(h, fs, 0, {})
    BY <1>p, <2>2, EditFailsRoots, SameComes DEF FilesOK
  <2> QED
    BY <1>28, <2>1, <2>2 DEF WriteInPlace
<1>29. CASE FinishInPlace(h)
  <2>1. \A p \in Path : ~Comes(fs', p)
    BY <1>29, InPlaceEnds DEF Comes, Exists
  <2> QED
    BY <1>29, <1>p, <2>1, InPlaceEnds, ArrivesRooted
<1>30. CASE Recover(h)
  <2>1. CASE \E k, notes : EditFails(h, fs, k, notes)
    BY <1>p, <2>1, EditFailsRoots, SameComes DEF FilesOK
  <2>2. CASE /\ w[h].pc = "recover"
            /\ \E notes :
                  EditFails(h, [fs EXCEPT ![Dst(h)].data = fs[Backup(h)].data], 0, notes)
    <3>1. fs[Backup(h)].data \in Data
      BY <1>p, <2>2, EntryFacts DEF Backed, BackedBy, Exists, FilesOK, Files, FullEntry
    <3>2. [fs EXCEPT ![Dst(h)].data = fs[Backup(h)].data] \in Files
      BY <1>p, <3>1, WithAnyData DEF FilesOK
    <3>3. \A p \in {Src(h), Dst(h)} : ~Comes([fs EXCEPT ![Dst(h)].data = fs[Backup(h)].data], p)
      BY <1>p, <3>1, DataComes, SameComes DEF FilesOK
    <3> QED
      BY <2>2, <3>2, <3>3, EditFailsRoots
  <2> QED
    BY <1>30, <2>1, <2>2 DEF Recover
<1>31. CASE SudoInstall(h)
  <2>1. CASE \E k : EditFails(h, fs, k, {})
    BY <1>p, <2>1, EditFailsRoots, SameComes DEF FilesOK
  <2>2. CASE (parent => parent') /\ \E e : fs' = [fs EXCEPT ![Staged(h)] = e]
    <3>1. Src(h) # Staged(h) /\ Dst(h) # Staged(h)
      BY <1>a DEF PathsApart
    <3>2. ~Comes(fs', Src(h)) /\ ~Comes(fs', Dst(h))
      BY <1>p, <2>2, <3>1 DEF FilesOK, Files, Comes, Exists
    <3> QED
      BY <2>2, <3>2, ArrivesRooted
  <2> QED
    BY <1>31, <2>1, <2>2 DEF SudoInstall
<1>32. CASE SudoMove(h)
  <2>1. CASE InDir(Dst(h)) /\ parent' = parent /\ fs' = Renamed(Staged(h), Dst(h))
    BY <1>p, <2>1, RenamedComes, ArrivesRooted
  <2>2. CASE parent' = parent /\ fs' = Removed(Staged(h))
    <3>1. ~Comes(fs', Src(h)) /\ ~Comes(fs', Dst(h))
      BY <1>p, <2>2, GoneComes
    <3> QED
      BY <2>2, <3>1, ArrivesRooted
  <2>3. CASE \E k : EditFails(h, fs, k, {})
    BY <1>p, <2>3, EditFailsRoots, SameComes DEF FilesOK
  <2> QED
    BY <1>32, <2>1, <2>2, <2>3 DEF SudoMove
<1>33. CASE ConsumeUpload(h)
  BY <1>33, <1>a
  DEF FilesOK, Files, PathsApart, Rooted, Entered, Dropped, Comes, Exists, ConsumeUpload, shared
<1>34. CASE Cancel(h)
  BY <1>34, <1>a
  DEF FilesOK, Files, PathsApart, Rooted, Entered, Dropped, Comes, Exists, Cancel, shared
<1>35. CASE CheckClone(h)
  BY <1>35, <1>a
  DEF FilesOK, Files, PathsApart, Rooted, Entered, Dropped, Comes, Exists, CheckClone, rest,
      shared
<1>36. CASE StartClone(h)
  BY <1>36, <1>a
  DEF FilesOK, Files, PathsApart, Rooted, Entered, Dropped, Comes, Exists, StartClone, rest,
      shared
<1>37. CASE FinishClone(h)
  <2>1. parent' = parent
    BY <1>37 DEF FinishClone
  <2>2. \/ fs' = fs
        \/ Exists(Dst(h)) /\ fs' = [fs EXCEPT ![Dst(h)] = w[h].seen]
        \/ fs' = [fs EXCEPT ![Dst(h)].data = <<h, "whole">>]
    BY <1>37 DEF FinishClone
  <2>3. <<h, "whole">> \in Data
    BY DataFacts
  <2>5. ASSUME Exists(Dst(h)), fs' = [fs EXCEPT ![Dst(h)] = w[h].seen]
        PROVE  ~Comes(fs', Src(h)) /\ ~Comes(fs', Dst(h))
    BY <1>p, <2>5 DEF Comes, Exists, FilesOK, Files
  <2>4. ~Comes(fs', Src(h)) /\ ~Comes(fs', Dst(h))
    BY <1>p, <2>2, <2>3, <2>5, SameComes, DataComes DEF FilesOK
  <2> QED
    BY <2>1, <2>4, ArrivesRooted
<1>38. CASE CleanClone(h)
  <2>1. parent' = parent /\ (fs' = Removed(Dst(h)) \/ fs' \in HalfRemoved(Dst(h)))
    BY <1>38 DEF CleanClone
  <2>2. ~Comes(fs', Src(h)) /\ ~Comes(fs', Dst(h))
    BY <1>p, <2>1, GoneComes
  <2> QED
    BY <2>1, <2>2, ArrivesRooted
<1>39. CASE CheckPatch(h)
  BY <1>39, <1>a
  DEF FilesOK, Files, PathsApart, Rooted, Entered, Dropped, Comes, Exists, CheckPatch, rest,
      shared
<1>40. CASE ApplyPatch(h)
  <2>1. parent' = parent /\ (fs' = fs \/ fs' = Removed(Dst(h)))
    BY <1>40 DEF ApplyPatch
  <2>2. ~Comes(fs', Src(h)) /\ ~Comes(fs', Dst(h))
    BY <1>p, <2>1, SameComes, GoneComes
  <2> QED
    BY <2>1, <2>2, ArrivesRooted
<1>41. CASE WritePatched(h)
  BY <1>41, <1>a
  DEF FilesOK, Files, PathsApart, Rooted, Entered, Dropped, Comes, Exists, WritePatched, rest,
      shared
<1>42. CASE CheckPush(h)
  BY <1>42, <1>a
  DEF FilesOK, Files, PathsApart, Rooted, Entered, Dropped, Comes, Exists, CheckPush, rest,
      shared
<1>43. CASE Push(h)
  BY <1>43, <1>a DEF FilesOK, Files, PathsApart, Rooted, Entered, Dropped, Comes, Exists, Push
<1>44. CASE ExportInit(h)
  BY <1>44, <1>a DEF FilesOK, Files, PathsApart, Rooted, Entered, Dropped, Comes, Exists, ExportInit
<1>45. CASE AskChunk(h)
  BY <1>45, <1>a
  DEF FilesOK, Files, PathsApart, Rooted, Entered, Dropped, Comes, Exists, AskChunk, rest,
      shared
<1>46. CASE ReadChunk(h)
  BY <1>46, <1>a DEF FilesOK, Files, PathsApart, Rooted, Entered, Dropped, Comes, Exists, ReadChunk
<1>47. CASE ExportComplete(h)
  BY <1>47, <1>a
  DEF FilesOK, Files, PathsApart, Rooted, Entered, Dropped, Comes, Exists, ExportComplete
<1>48. CASE Arrive(h)
  BY <1>48, <1>a
  DEF FilesOK, Files, PathsApart, Rooted, Entered, Dropped, Comes, Exists, Arrive, rest, shared
<1>49. CASE BudgetSpent(h)
  BY <1>49, <1>a
  DEF FilesOK, Files, PathsApart, Rooted, Entered, Dropped, Comes, Exists, BudgetSpent, rest,
      shared
<1>50. CASE StartList(h)
  BY <1>50, <1>a
  DEF FilesOK, Files, PathsApart, Rooted, Entered, Dropped, Comes, Exists, StartList, StartWalk,
      rest, shared
<1>51. CASE StartSearch(h)
  BY <1>51, <1>a
  DEF FilesOK, Files, PathsApart, Rooted, Entered, Dropped, Comes, Exists, StartSearch,
      StartWalk, rest, shared
<1>52. CASE WalkEnds(h)
  BY <1>52, <1>a
  DEF FilesOK, Files, PathsApart, Rooted, Entered, Dropped, Comes, Exists, WalkEnds, Late, rest,
      shared
<1>53. CASE ListNext(h)
  BY <1>53, <1>a
  DEF FilesOK, Files, PathsApart, Rooted, Entered, Dropped, Comes, Exists, ListNext, rest,
      shared
<1>54. CASE SearchNext(h)
  BY <1>54, <1>a
  DEF FilesOK, Files, PathsApart, Rooted, Entered, Dropped, Comes, Exists, SearchNext, rest,
      shared
<1>55. CASE Abandon(h)
  BY <1>55, <1>a
  DEF FilesOK, Files, PathsApart, Rooted, Entered, Dropped, Comes, Exists, Abandon, rest, shared
<1> QED
  BY <1>1, <1>2, <1>3, <1>4, <1>5, <1>6, <1>7, <1>8, <1>9, <1>10, <1>11,
     <1>12, <1>13, <1>14, <1>15, <1>16, <1>17, <1>18, <1>19, <1>20, <1>21, <1>22,
     <1>23, <1>24, <1>25, <1>26, <1>27, <1>28, <1>29, <1>30, <1>31, <1>32, <1>33,
     <1>34, <1>35, <1>36, <1>37, <1>38, <1>39, <1>40, <1>41, <1>42, <1>43, <1>44,
     <1>45, <1>46, <1>47, <1>48, <1>49, <1>50, <1>51, <1>52, <1>53, <1>54, <1>55
  DEF Served, Mutate, EditStep, GitStep, ReadStep

(***************************************************************************)
(* Where a job can be: by these steps the destination was seen free, or is *)
(* backed up.                                                              *)
(***************************************************************************)
MovePcs == {"direct", "recheck", "displace", "over", "rollback", "rollback_cross", "stage",
            "copying", "commit", "install", "unlink"}
EditPcs == {"validate", "backup", "backing", "replace", "temp", "link", "reserved", "persist",
            "in_place", "writing", "recover", "sudo_install", "sudo_move", "consume"}
BackedPcs == {"backup", "backing", "persist", "in_place", "writing", "recover", "sudo_move"}

Careful(h) ==
    /\ w[h].op \in {"move", "copy"} => w[h].pc \in MovePcs \cup {"check", "done"}
    /\ w[h].op = "edit" => w[h].pc \in EditPcs \cup {"check", "done"}
    /\ w[h].op \in {"move", "copy"} /\ ~Asked(h, "overwrite") /\ w[h].pc \in MovePcs =>
          w[h].src # w[h].dst
    /\ w[h].op \in {"move", "copy"} /\ ~Asked(h, "overwrite")
       /\ w[h].pc \in {"recheck", "displace", "over"} => host.cross
    /\ w[h].pc \in {"idle", "check", "direct", "recheck"} => w[h].from = "path"
    /\ w[h].op \in {"move", "copy"} /\ ~Asked(h, "overwrite")
       /\ w[h].pc \in {"displace", "over"} => w[h].from = "path"
    /\ w[h].op = "edit" /\ w[h].pc \in BackedPcs => ~Creating(h)
    /\ w[h].pc = "reserved" => ~host.links

(***************************************************************************)
(* What is left behind an answer.                                          *)
(***************************************************************************)

(* Which steps of a job may find a private file of its own.                *)
Tidy(h) ==
        /\ Exists(Staged(h)) =>
              w[h].pc \in {"copying", "commit", "displace", "over", "rollback",
                           "rollback_cross", "install", "link", "reserved", "persist",
                           "in_place", "writing", "recover", "sudo_move", "consume", "done"}
        /\ Exists(Staged(h)) /\ w[h].pc \in {"commit", "install", "displace", "over", "rollback",
                                                      "rollback_cross"} =>
              w[h].from = "staged"
        /\ w[h].pc = "rollback_cross" => w[h].from = "path"
        /\ Exists(Old(h)) =>
              w[h].pc \in {"over", "rollback", "rollback_cross", "unlink", "done"}
        /\ Exists(Old(h)) /\ w[h].pc = "unlink" => "reported" \in w[h].notes
        /\ w[h].result # "none" => w[h].pc = "done"
        /\ w[h].op \in {"move", "copy"} /\ w[h].result \in {"ok", "error"}
           /\ (Exists(Staged(h)) \/ Exists(Old(h))) =>
              w[h].notes \cap {"reported", "sync"} # {}

LEMMA TidyStep ==
  ASSUME JobsOK, FilesOK, Backed, NEW h \in Handlers, Careful(h), Tidy(h), Served(h)
  PROVE  Tidy(h)'
PROOF
<1>a. PathsApart(h)
  BY PathsAreApart
<1>b. Staged(h)' = Staged(h) /\ Old(h)' = Old(h)
  BY DEF Staged, Old
<1>e. w[h].pc \in EditPcs => w[h].op \notin {"move", "copy"}
  BY DEF Careful, EditPcs, MovePcs
<1>1. CASE Start(h)
  BY <1>1, <1>a, <1>b
  DEF JobsOK, Job, FilesOK, Files, PathsApart, Tidy, Exists, Renamed, Removed, Start
<1>2. CASE CheckMoveCopy(h)
  BY <1>2, <1>a, <1>b
  DEF JobsOK, Job, FilesOK, Files, PathsApart, Tidy, Exists, Renamed, Removed, CheckMoveCopy,
      Asked, Refuse, Answer, Goto
<1>3. CASE TryDirectMove(h)
  BY <1>3, <1>a, <1>b
  DEF JobsOK, Job, FilesOK, Files, PathsApart, Tidy, Exists, Renamed, Removed, TryDirectMove,
      Asked, SyncThen, Answer, Goto, Refuse
<1>4. CASE Recheck(h)
  BY <1>4, <1>a, <1>b
  DEF JobsOK, Job, FilesOK, Files, PathsApart, Tidy, Exists, Renamed, Removed, Recheck, Goto
<1>5. CASE Displace(h)
  <2>1. CASE w[h].pc = "displace" /\ fs' = Renamed(Dst(h), Old(h)) /\ Goto(h, "over")
    BY <1>a, <1>b, <2>1
    DEF JobsOK, Job, FilesOK, Files, PathsApart, Tidy, Exists, Renamed, Removed, Goto
  <2>2. CASE w[h].pc = "displace" /\ \E k : CleanUp(h, Staged(h), fs, k, "error")
    BY <1>a, <1>b, <2>2
    DEF JobsOK, Job, FilesOK, Files, PathsApart, Tidy, Exists, Renamed, Removed, CleanUp, Answer
  <2> QED
    BY <1>5, <2>1, <2>2 DEF Displace
<1>6. CASE MoveOver(h)
  <2>1. CASE /\ fs' = fs /\ w[h].pc = "over"
             /\ Goto(h, "rollback") \/ (Goto(h, "rollback_cross") /\ w[h].from = "path")
    BY <1>a, <1>b, <2>1
    DEF JobsOK, Job, FilesOK, Files, PathsApart, Tidy, Exists, Renamed, Removed, Goto
  <2>2. CASE /\ fs' = Renamed(From(h), Dst(h)) /\ w[h].pc = "over"
             /\ Answer(h, "error", {"sync"})
    BY <1>a, <1>b, <2>2
    DEF JobsOK, Job, FilesOK, Files, PathsApart, Tidy, Exists, Renamed, Removed, From, Answer
  <2>3. CASE w[h].pc = "over" /\ AfterCommit(h, Renamed(From(h), Dst(h)))
    BY <1>a, <1>b, <2>3
    DEF JobsOK, Job, FilesOK, Files, PathsApart, Tidy, Exists, Renamed, Removed, From,
        AfterCommit, CleanUp, Answer
  <2>4. RenameError(From(h), Dst(h), FALSE) = "EXDEV" => w[h].from = "path"
    BY FieldFacts, StagedIsBeside DEF From, Job
  <2> QED
    BY <1>6, <2>1, <2>2, <2>3, <2>4 DEF MoveOver
<1>7. CASE Rollback(h)
  <2>0. w[h].pc \in {"rollback", "rollback_cross"}
    BY <1>7 DEF Rollback
  <2>1. CASE /\ RenameError(Old(h), Dst(h), TRUE) = "ok" /\ w[h].pc = "rollback_cross"
             /\ fs' = Renamed(Old(h), Dst(h)) /\ Goto(h, "stage")
    BY <1>a, <1>b, <2>1
    DEF JobsOK, Job, FilesOK, Files, PathsApart, Tidy, Exists, Renamed, Removed, Goto
  <2>2. CASE CleanUp(h, Staged(h), Renamed(Old(h), Dst(h)), 0, "error")
    BY <1>a, <1>b, <2>0, <2>2
    DEF JobsOK, Job, FilesOK, Files, PathsApart, Tidy, Exists, Renamed, Removed, CleanUp, Answer
  <2>3. CASE (fs' = Removed(Staged(h)) \/ fs' = fs) /\ Answer(h, "error", {"reported"})
    BY <1>a, <1>b, <2>0, <2>3
    DEF JobsOK, Job, FilesOK, Files, PathsApart, Tidy, Exists, Renamed, Removed, Answer
  <2> QED
    BY <1>7, <2>1, <2>2, <2>3 DEF Rollback
<1>8. CASE StageCopy(h)
  BY <1>8, <1>a, <1>b
  DEF JobsOK, Job, FilesOK, Files, PathsApart, Tidy, Exists, Renamed, Removed, StageCopy,
      Refuse, Answer
<1>9. CASE FinishCopy(h)
  BY <1>9, <1>a, <1>b
  DEF JobsOK, Job, FilesOK, Files, PathsApart, Tidy, Exists, Renamed, Removed, FinishCopy,
      CleanUp, Answer
<1>10. CASE CommitStaged(h)
  <2>1. PICK pc \in {"displace", "install"} : w[h].pc = "commit" /\ fs' = fs /\ Goto(h, pc)
    BY <1>10 DEF CommitStaged
  <2> QED
    BY <1>a, <1>b, <2>1
    DEF JobsOK, Job, FilesOK, Files, PathsApart, Tidy, Exists, Renamed, Removed, Goto
<1>11. CASE InstallStaged(h)
  BY <1>11, <1>a, <1>b
  DEF JobsOK, Job, FilesOK, Files, PathsApart, Tidy, Exists, Renamed, Removed, InstallStaged,
      Asked, AfterCommit, Answer, CleanUp
<1>12. CASE RemoveSource(h)
  BY <1>12, <1>a, <1>b
  DEF JobsOK, Job, FilesOK, Files, PathsApart, Tidy, Exists, Renamed, Removed, RemoveSource,
      SyncThen, Answer
<1>13. CASE CheckDelete(h)
  BY <1>13, <1>a, <1>b
  DEF JobsOK, Job, FilesOK, Files, PathsApart, Tidy, Exists, Renamed, Removed, CheckDelete,
      Asked, Refuse, Goto, Answer
<1>14. CASE StartBackup(h)
  BY <1>14, <1>a, <1>b
  DEF JobsOK, Job, FilesOK, Files, PathsApart, Tidy, Exists, Renamed, Removed, StartBackup,
      Refuse, Answer
<1>15. CASE FinishBackup(h)
  BY <1>15, <1>a, <1>b
  DEF JobsOK, Job, FilesOK, Files, PathsApart, Tidy, Exists, Renamed, Removed, FinishBackup,
      Goto, Refuse, Answer
<1>16. CASE Remove(h)
  BY <1>16, <1>a, <1>b
  DEF JobsOK, Job, FilesOK, Files, PathsApart, Tidy, Exists, Renamed, Removed, Remove, Answer,
      Refuse
<1>17. CASE ChangeMode(h)
  BY <1>17, <1>a, <1>b
  DEF JobsOK, Job, FilesOK, Files, PathsApart, Tidy, Exists, Renamed, Removed, ChangeMode,
      Answer, Refuse
<1>18. CASE ChangeOwner(h)
  BY <1>18, <1>a, <1>b
  DEF JobsOK, Job, FilesOK, Files, PathsApart, Tidy, Exists, Renamed, Removed, ChangeOwner,
      Answer, Refuse
<1>19. CASE WriteRole(h)
  BY <1>19, <1>a, <1>b
  DEF JobsOK, Job, FilesOK, Files, PathsApart, Tidy, Exists, Renamed, Removed, WriteRole, Answer
<1>20. CASE LoadTarget(h)
  BY <1>20, <1>a, <1>b
  DEF JobsOK, Job, FilesOK, Files, PathsApart, Tidy, Exists, Renamed, Removed, LoadTarget,
      Asked, Refuse, Answer
<1>21. CASE Validated(h)
  BY <1>21, <1>a, <1>b, <1>e
  DEF JobsOK, Job, FilesOK, Files, PathsApart, EditPcs, Tidy, Exists, Renamed, Removed, Validated,
      Refuse, Asked, EditDone, Goto, Creating, Answer
<1>22. CASE MakeParents(h)
  BY <1>22, <1>a, <1>b, <1>e
  DEF JobsOK, Job, FilesOK, Files, PathsApart, EditPcs, Tidy, Exists, Renamed, Removed, MakeParents,
      Asked, Creating
<1>23. CASE MakeTemp(h)
  BY <1>23, <1>a, <1>b, <1>e
  DEF JobsOK, Job, FilesOK, Files, PathsApart, EditPcs, Tidy, Exists, Renamed, Removed, MakeTemp,
      Creating, Goto, EditFails, Answer, Asked
<1>24. CASE Persist(h)
  <2>1. CASE w[h].pc = "persist" /\ fs' = Renamed(Staged(h), Dst(h)) /\ EditDone(h, {})
    BY <1>a, <1>b, <1>e, <2>1
    DEF JobsOK, Job, FilesOK, Files, PathsApart, EditPcs, Tidy, Exists, Renamed, Removed, EditDone,
        Answer
  <2>2. CASE w[h].pc = "persist" /\ EditFails(h, fs, 0, {})
    BY <1>a, <1>b, <1>e, <2>2
    DEF JobsOK, Job, FilesOK, Files, PathsApart, EditPcs, Tidy, Exists, Renamed, Removed, EditFails,
        Answer
  <2> QED
    BY <1>24, <2>1, <2>2 DEF Persist
<1>25. CASE Link(h)
  <2>0. w[h].pc = "link"
    BY <1>25 DEF Link
  <2>1. CASE fs' = Renamed(Staged(h), Dst(h)) /\ EditDone(h, {})
    BY <1>a, <1>b, <1>e, <2>0, <2>1
    DEF JobsOK, Job, FilesOK, Files, PathsApart, EditPcs, Tidy, Exists, Renamed, Removed, EditDone,
        Answer
  <2>2. CASE /\ fs' = [fs EXCEPT ![Dst(h)] = [NewText(h, "agent") EXCEPT !.data = <<h, "empty">>]]
             /\ Goto(h, "reserved")
    BY <1>a, <1>b, <1>e, <2>0, <2>2
    DEF JobsOK, Job, FilesOK, Files, PathsApart, EditPcs, Tidy, Exists, Renamed, Removed, Goto
  <2>3. CASE EditFails(h, fs, 0, {})
    BY <1>a, <1>b, <1>e, <2>0, <2>3
    DEF JobsOK, Job, FilesOK, Files, PathsApart, EditPcs, Tidy, Exists, Renamed, Removed, EditFails,
        Answer
  <2>4. CASE fs' = LinkedTwice(h) /\ EditDone(h, {})
    BY <1>a, <1>b, <1>e, <2>0, <2>4
    DEF JobsOK, Job, FilesOK, Files, PathsApart, EditPcs, Tidy, Exists, LinkedTwice, EditDone, Answer
  <2> QED
    BY <1>25, <2>1, <2>2, <2>3, <2>4 DEF Link, Linked
<1>26. CASE SudoLinkFails(h)
  BY <1>26, <1>a, <1>b, <1>e
  DEF JobsOK, Job, FilesOK, Files, PathsApart, EditPcs, Tidy, Exists, Renamed, Removed, SudoLinkFails,
      Asked, EditFails, Answer
<1>27. CASE ReplaceReserved(h)
  <2>0. w[h].pc = "reserved"
    BY <1>27 DEF ReplaceReserved
  <2>1. CASE fs' = Renamed(Staged(h), Dst(h)) /\ EditDone(h, {})
    BY <1>a, <1>b, <1>e, <2>0, <2>1
    DEF JobsOK, Job, FilesOK, Files, PathsApart, EditPcs, Tidy, Exists, Renamed, Removed, EditDone,
        Answer
  <2>2. CASE \E k : EditFails(h, fs, k, {}) \/ EditFails(h, Removed(Dst(h)), k, {})
    BY <1>a, <1>b, <1>e, <2>0, <2>2
    DEF JobsOK, Job, FilesOK, Files, PathsApart, EditPcs, Tidy, Exists, Renamed, Removed, EditFails,
        Answer
  <2> QED
    BY <1>27, <2>1, <2>2 DEF ReplaceReserved
<1>28. CASE WriteInPlace(h)
  BY <1>28, <1>a, <1>b, <1>e
  DEF JobsOK, Job, FilesOK, Files, PathsApart, EditPcs, Tidy, Exists, Renamed, Removed, WriteInPlace,
      Goto, EditFails, Answer, Asked
<1>29. CASE FinishInPlace(h)
  <2>1. fs'[Staged(h)] # Absent => Exists(Staged(h))
    BY <1>29, <1>a, InPlaceEnds DEF PathsApart, Exists
  <2>2. fs'[Old(h)] # Absent => Exists(Old(h))
    BY <1>29, <1>a, InPlaceEnds DEF PathsApart, Exists
  <2>3. /\ w[h].pc = "writing"
        /\ EditDone(h, {}) \/ Goto(h, "recover")
    BY <1>29 DEF FinishInPlace
  <2> QED
    BY <1>b, <1>e, <2>1, <2>2, <2>3
    DEF JobsOK, Job, EditPcs, Tidy, Exists, EditDone, Goto, Answer
<1>30. CASE Recover(h)
  BY <1>30, <1>a, <1>b, <1>e
  DEF JobsOK, Job, FilesOK, Files, PathsApart, EditPcs, Tidy, Exists, Renamed, Removed, Recover,
      EditFails, Answer, Asked
<1>31. CASE SudoInstall(h)
  BY <1>31, <1>a, <1>b, <1>e
  DEF JobsOK, Job, FilesOK, Files, PathsApart, EditPcs, Tidy, Exists, Renamed, Removed, SudoInstall,
      Creating, Goto, EditFails, Answer, Asked
<1>32. CASE SudoMove(h)
  BY <1>32, <1>a, <1>b, <1>e
  DEF JobsOK, Job, FilesOK, Files, PathsApart, EditPcs, Tidy, Exists, Renamed, Removed, SudoMove,
      EditDone, EditFails, Answer, Asked
<1>33. CASE ConsumeUpload(h)
  BY <1>33, <1>a, <1>b, <1>e
  DEF JobsOK, Job, FilesOK, Files, PathsApart, EditPcs, Tidy, Exists, Renamed, Removed, ConsumeUpload,
      Answer
<1>34. CASE Cancel(h)
  BY <1>34, <1>a, <1>b
  DEF JobsOK, Job, FilesOK, Files, PathsApart, Tidy, Exists, Renamed, Removed, Cancel, Asked
<1>35. CASE CheckClone(h)
  BY <1>35, <1>a, <1>b
  DEF JobsOK, Job, FilesOK, Files, PathsApart, Tidy, Exists, Renamed, Removed, CheckClone,
      Refuse, Goto, Answer
<1>36. CASE StartClone(h)
  BY <1>36, <1>a, <1>b
  DEF JobsOK, Job, FilesOK, Files, PathsApart, Tidy, Exists, Renamed, Removed, StartClone, Goto
<1>37. CASE FinishClone(h)
  BY <1>37, <1>a, <1>b
  DEF JobsOK, Job, FilesOK, Files, PathsApart, Tidy, Exists, Renamed, Removed, FinishClone,
      Answer, Goto
<1>38. CASE CleanClone(h)
  BY <1>38, <1>a, <1>b
  DEF JobsOK, Job, FilesOK, Files, PathsApart, Tidy, Exists, Renamed, Removed, CleanClone,
      Answer
<1>39. CASE CheckPatch(h)
  BY <1>39, <1>a, <1>b
  DEF JobsOK, Job, FilesOK, Files, PathsApart, Tidy, Exists, Renamed, Removed, CheckPatch,
      Refuse, Asked, Answer, Goto
<1>40. CASE ApplyPatch(h)
  BY <1>40, <1>a, <1>b
  DEF JobsOK, Job, FilesOK, Files, PathsApart, Tidy, Exists, Renamed, Removed, ApplyPatch,
      Refuse, Answer
<1>41. CASE WritePatched(h)
  BY <1>41, <1>a, <1>b
  DEF JobsOK, Job, FilesOK, Files, PathsApart, Tidy, Exists, Renamed, Removed, WritePatched,
      Answer
<1>42. CASE CheckPush(h)
  BY <1>42, <1>a, <1>b
  DEF JobsOK, Job, FilesOK, Files, PathsApart, Tidy, Exists, Renamed, Removed, CheckPush, Asked,
      Refuse, Answer
<1>43. CASE Push(h)
  BY <1>43, <1>a, <1>b
  DEF JobsOK, Job, FilesOK, Files, PathsApart, Tidy, Exists, Renamed, Removed, Push, Answer
<1>44. CASE ExportInit(h)
  BY <1>44, <1>a, <1>b
  DEF JobsOK, Job, FilesOK, Files, PathsApart, Tidy, Exists, Renamed, Removed, ExportInit, Goto,
      Refuse, Answer
<1>45. CASE AskChunk(h)
  <2>1. w[h].pc = "exporting" /\ fs' = fs
    BY <1>45 DEF AskChunk
  <2>2. CASE Refuse(h)
    BY <1>a, <1>b, <2>1, <2>2
    DEF JobsOK, Job, FilesOK, Files, PathsApart, Tidy, Exists, Renamed, Removed, Refuse, Answer
  <2>3. CASE ~Refuse(h)
    <3>1. PICK t : w' = [w EXCEPT ![h] = [@ EXCEPT !.pc = "chunk", !.transfer = t]]
      BY <1>45, <2>3, ChunkIsAsked
    <3> QED
      BY <1>a, <1>b, <2>1, <3>1 DEF JobsOK, Job, Tidy, Exists
  <2> QED
    BY <2>2, <2>3
<1>46. CASE ReadChunk(h)
  <2>1. PICK f : w' = [w EXCEPT ![h].pc = "exporting", ![h].transfer.frames = f]
    BY <1>46, ChunkIsRead
  <2>2. w[h].pc = "chunk" /\ fs' = fs
    BY <1>46, ChunkIsRead
  <2> QED
    BY <2>1, <2>2, <1>a, <1>b DEF JobsOK, Job, Tidy, Exists
<1>47. CASE ExportComplete(h)
  BY <1>47, <1>a, <1>b
  DEF JobsOK, Job, FilesOK, Files, PathsApart, Tidy, Exists, Renamed, Removed, ExportComplete,
      Refuse, Answer
<1>48. CASE Arrive(h)
  BY <1>48, <1>a, <1>b
  DEF JobsOK, Job, FilesOK, Files, PathsApart, Tidy, Exists, Renamed, Removed, Arrive
<1>49. CASE BudgetSpent(h)
  BY <1>49, <1>a, <1>b
  DEF JobsOK, Job, FilesOK, Files, PathsApart, Tidy, Exists, Renamed, Removed, BudgetSpent
<1>50. CASE StartList(h)
  BY <1>50, <1>a, <1>b
  DEF JobsOK, Job, FilesOK, Files, PathsApart, Tidy, Exists, Renamed, Removed, StartList,
      StartWalk, Answer, Refuse
<1>51. CASE StartSearch(h)
  BY <1>51, <1>a, <1>b
  DEF JobsOK, Job, FilesOK, Files, PathsApart, Tidy, Exists, Renamed, Removed, StartSearch,
      StartWalk, Answer, Refuse
<1>52. CASE WalkEnds(h)
  BY <1>52, <1>a, <1>b
  DEF JobsOK, Job, FilesOK, Files, PathsApart, Tidy, Exists, Renamed, Removed, WalkEnds, Answer,
      Late
<1>53. CASE ListNext(h)
  BY <1>53, <1>b, WalkGoesOn DEF Tidy, Exists
<1>54. CASE SearchNext(h)
  BY <1>54, <1>b, WalkGoesOn DEF Tidy, Exists
<1>55. CASE Abandon(h)
  BY <1>55, <1>a, <1>b
  DEF JobsOK, Job, FilesOK, Files, PathsApart, Tidy, Exists, Renamed, Removed, Abandon
<1> QED
  BY <1>1, <1>2, <1>3, <1>4, <1>5, <1>6, <1>7, <1>8, <1>9, <1>10, <1>11,
     <1>12, <1>13, <1>14, <1>15, <1>16, <1>17, <1>18, <1>19, <1>20, <1>21, <1>22,
     <1>23, <1>24, <1>25, <1>26, <1>27, <1>28, <1>29, <1>30, <1>31, <1>32, <1>33,
     <1>34, <1>35, <1>36, <1>37, <1>38, <1>39, <1>40, <1>41, <1>42, <1>43, <1>44,
     <1>45, <1>46, <1>47, <1>48, <1>49, <1>50, <1>51, <1>52, <1>53, <1>54, <1>55
  DEF Served, Mutate, EditStep, GitStep, ReadStep

(* Where the parent directory is gone nothing is below it.                 *)
TreeInv == \A n \in Nested : Exists(<<n, "path">>) => parent

(***************************************************************************)
(* A scan that is not cut short has found every name that stayed.          *)
(***************************************************************************)
Told(h) ==
    /\ w[h].result # "none" => w[h].pc = "done"
    /\ w[h].pc \in {"queue", "walk"} => w[h].op \in {"list", "search"}
    /\ w[h].op \in {"list", "search"} => w[h].pc \in {"check", "queue", "walk", "done"}
    /\ w[h].pc = "walk" /\ w[h].notes \cap {"partial", "unmarked"} = {} =>
          w[h].scan.kept \subseteq w[h].scan.found \cup w[h].scan.todo
    /\ w[h].op \in {"list", "search"} /\ w[h].result = "ok"
       /\ w[h].notes \cap {"truncated", "partial", "not_started", "unmarked"} = {}
       => w[h].scan.kept \subseteq w[h].scan.found

LEMMA WalkStarts ==
  ASSUME JobsOK, TreeInv, NEW h \in Handlers, Told(h), StartWalk(h)
  PROVE  Told(h)'
PROOF
<1> DEFINE todo == {n \in Names \ Nested : Exists(<<n, "path">>)} \cup
                   (IF parent THEN Nested ELSE {})
           scan == [todo |-> todo, found |-> {}, kept |-> w[h].scan.kept \cap Present(h)]
<1>1. w[h].pc = "queue"
  BY DEF StartWalk
<1>2. CASE w' = [w EXCEPT ![h].pc = "walk", ![h].scan = scan]
  <2>1. Present(h) \subseteq todo
    BY DEF Present, Wanted, TreeInv
  <2>2. scan.kept \subseteq scan.found \cup scan.todo
    BY <2>1
  <2> HIDE DEF scan
  <2> QED
    BY <1>1, <1>2, <2>2 DEF JobsOK, Job, Told
<1>3. CASE Answer(h, "ok", {"not_started"}) \/ Refuse(h)
  BY <1>1, <1>3 DEF JobsOK, Job, Told, Answer, Refuse
<1> QED
  BY <1>2, <1>3 DEF StartWalk, JobsOK, Job

LEMMA VisitedScans ==
  ASSUME JobsOK, NEW h \in Handlers, Told(h), w[h].pc = "walk",
         NEW n \in Names, NEW hit \in BOOLEAN, NEW notes \in SUBSET Notes,
         Visited(h, n, hit, notes),
         ~hit => n \notin Present(h) \/ notes \cap {"partial", "unmarked"} # {}
  PROVE  Told(h)'
PROOF
<1> DEFINE found == w[h].scan.found \cup (IF hit THEN {n} ELSE {})
           full == hit /\ Cardinality(found) >= MaxList
           told == w[h].notes \cup notes \cup (IF full THEN {"truncated"} ELSE {})
           scan == [todo |-> w[h].scan.todo \ {n}, found |-> found,
                    kept |-> w[h].scan.kept \cap Present(h)]
<1>1. w[h] \in Job
  BY DEF JobsOK
<1>2. w'[h] = [w[h] EXCEPT !.pc = IF full THEN "done" ELSE "walk",
                           !.result = IF full THEN "ok" ELSE "none",
                           !.notes = told, !.scan = scan]
  BY DEF Visited, JobsOK, Job
<1>3. told \cap {"partial", "unmarked"} = {} =>
         scan.kept \subseteq scan.found \cup scan.todo
  <2> SUFFICES ASSUME told \cap {"partial", "unmarked"} = {}
               PROVE  scan.kept \subseteq scan.found \cup scan.todo
    OBVIOUS
  <2>1. w[h].notes \cap {"partial", "unmarked"} = {} /\ notes \cap {"partial", "unmarked"} = {}
    OBVIOUS
  <2>2. w[h].scan.kept \subseteq w[h].scan.found \cup w[h].scan.todo
    BY <2>1 DEF Told
  <2> QED
    BY <2>1, <2>2
<1>4. full => "truncated" \in told
  OBVIOUS
<1> HIDE DEF full, told, scan
<1> QED
  BY <1>1, <1>2, <1>3, <1>4 DEF Told, Job

LEMMA ScanStep ==
  ASSUME JobsOK, TreeInv, NEW h \in Handlers, Told(h), Served(h)
  PROVE  Told(h)'
PROOF
<1>1. CASE Start(h)
  BY <1>1 DEF JobsOK, Job, Told, Start
<1>2. CASE CheckMoveCopy(h)
  BY <1>2 DEF JobsOK, Job, Told, CheckMoveCopy, Asked, Refuse, Answer, Goto
<1>3. CASE TryDirectMove(h)
  BY <1>3 DEF JobsOK, Job, Told, TryDirectMove, Asked, SyncThen, Answer, Goto, Refuse
<1>4. CASE Recheck(h)
  BY <1>4 DEF JobsOK, Job, Told, Recheck, Goto
<1>5. CASE Displace(h)
  <2>1. /\ w[h].pc = "displace"
        /\ \/ Goto(h, "over")
           \/ Answer(h, "error", {})
           \/ Answer(h, "error", {"reported"})
    BY <1>5 DEF Displace, CleanUp
  <2> QED
    BY <2>1 DEF JobsOK, Job, Told, Goto, Answer
<1>6. CASE MoveOver(h)
  <2>1. /\ w[h].pc = "over"
        /\ \/ Goto(h, "rollback") \/ Goto(h, "rollback_cross")
           \/ Answer(h, "error", {"sync"})
           \/ AfterCommit(h, Renamed(From(h), Dst(h)))
    BY <1>6 DEF MoveOver
  <2> QED
    BY <2>1 DEF JobsOK, Job, Told, Goto, Answer, AfterCommit, CleanUp
<1>7. CASE Rollback(h)
  <2>1. /\ w[h].pc \in {"rollback", "rollback_cross"}
        /\ \/ Goto(h, "stage")
           \/ Answer(h, "error", {})
           \/ Answer(h, "error", {"reported"})
    BY <1>7 DEF Rollback, CleanUp
  <2> QED
    BY <2>1 DEF JobsOK, Job, Told, Goto, Answer
<1>8. CASE StageCopy(h)
  BY <1>8 DEF JobsOK, Job, Told, StageCopy, Refuse, Answer
<1>9. CASE FinishCopy(h)
  BY <1>9 DEF JobsOK, Job, Told, FinishCopy, CleanUp, Answer
<1>10. CASE CommitStaged(h)
  BY <1>10 DEF JobsOK, Job, Told, CommitStaged, Goto, Asked
<1>11. CASE InstallStaged(h)
  BY <1>11 DEF JobsOK, Job, Told, InstallStaged, Asked, AfterCommit, Answer, CleanUp
<1>12. CASE RemoveSource(h)
  BY <1>12 DEF JobsOK, Job, Told, RemoveSource, SyncThen, Answer
<1>13. CASE CheckDelete(h)
  BY <1>13 DEF JobsOK, Job, Told, CheckDelete, Asked, Refuse, Goto, Answer
<1>14. CASE StartBackup(h)
  BY <1>14 DEF JobsOK, Job, Told, StartBackup, Refuse, Answer
<1>15. CASE FinishBackup(h)
  BY <1>15 DEF JobsOK, Job, Told, FinishBackup, Goto, Refuse, Answer
<1>16. CASE Remove(h)
  BY <1>16 DEF JobsOK, Job, Told, Remove, Answer, Refuse
<1>17. CASE ChangeMode(h)
  BY <1>17 DEF JobsOK, Job, Told, ChangeMode, Answer, Refuse
<1>18. CASE ChangeOwner(h)
  BY <1>18 DEF JobsOK, Job, Told, ChangeOwner, Answer, Refuse
<1>19. CASE WriteRole(h)
  BY <1>19 DEF JobsOK, Job, Told, WriteRole, Answer
<1>20. CASE LoadTarget(h)
  BY <1>20 DEF JobsOK, Job, Told, LoadTarget, Asked, Refuse, Answer
<1>21. CASE Validated(h)
  BY <1>21 DEF JobsOK, Job, Told, Validated, Refuse, Asked, EditDone, Goto, Creating, Answer
<1>22. CASE MakeParents(h)
  BY <1>22 DEF JobsOK, Job, Told, MakeParents, Asked, Creating
<1>23. CASE MakeTemp(h)
  BY <1>23 DEF JobsOK, Job, Told, MakeTemp, Creating, Goto, EditFails, Answer, Asked
<1>24. CASE Persist(h)
  <2>0. w[h].pc = "persist"
    BY <1>24 DEF Persist
  <2>1. \/ EditDone(h, {})
        \/ Answer(h, "error", {})
        \/ Answer(h, "error", {"reported"})
    BY <1>24 DEF Persist, EditFails
  <2> QED
    BY <2>0, <2>1 DEF JobsOK, Job, Told, EditDone, Answer
<1>25. CASE Link(h)
  BY <1>25 DEF JobsOK, Job, Told, Link, EditDone, Goto, EditFails, Asked, Answer
<1>26. CASE SudoLinkFails(h)
  BY <1>26 DEF JobsOK, Job, Told, SudoLinkFails, Asked, EditFails, Answer
<1>27. CASE ReplaceReserved(h)
  <2>0. w[h].pc = "reserved"
    BY <1>27 DEF ReplaceReserved
  <2>1. \/ EditDone(h, {})
        \/ Answer(h, "error", {})
        \/ Answer(h, "error", {"reported"})
    BY <1>27 DEF ReplaceReserved, EditFails
  <2> QED
    BY <2>0, <2>1 DEF JobsOK, Job, Told, EditDone, Answer
<1>28. CASE WriteInPlace(h)
  BY <1>28 DEF JobsOK, Job, Told, WriteInPlace, Goto, EditFails, Answer, Asked
<1>29. CASE FinishInPlace(h)
  BY <1>29 DEF JobsOK, Job, Told, FinishInPlace, EditDone, Goto, Asked, Answer
<1>30. CASE Recover(h)
  BY <1>30 DEF JobsOK, Job, Told, Recover, EditFails, Answer, Asked
<1>31. CASE SudoInstall(h)
  BY <1>31 DEF JobsOK, Job, Told, SudoInstall, Creating, Goto, EditFails, Answer, Asked
<1>32. CASE SudoMove(h)
  BY <1>32 DEF JobsOK, Job, Told, SudoMove, EditDone, EditFails, Answer, Asked
<1>33. CASE ConsumeUpload(h)
  BY <1>33 DEF JobsOK, Job, Told, ConsumeUpload, Answer
<1>34. CASE Cancel(h)
  BY <1>34 DEF JobsOK, Job, Told, Cancel, Asked
<1>35. CASE CheckClone(h)
  BY <1>35 DEF JobsOK, Job, Told, CheckClone, Refuse, Goto, Answer
<1>36. CASE StartClone(h)
  BY <1>36 DEF JobsOK, Job, Told, StartClone, Goto
<1>37. CASE FinishClone(h)
  BY <1>37 DEF JobsOK, Job, Told, FinishClone, Answer, Goto
<1>38. CASE CleanClone(h)
  BY <1>38 DEF JobsOK, Job, Told, CleanClone, Answer
<1>39. CASE CheckPatch(h)
  BY <1>39 DEF JobsOK, Job, Told, CheckPatch, Refuse, Asked, Answer, Goto
<1>40. CASE ApplyPatch(h)
  BY <1>40 DEF JobsOK, Job, Told, ApplyPatch, Refuse, Answer
<1>41. CASE WritePatched(h)
  BY <1>41 DEF JobsOK, Job, Told, WritePatched, Answer
<1>42. CASE CheckPush(h)
  BY <1>42 DEF JobsOK, Job, Told, CheckPush, Asked, Refuse, Answer
<1>43. CASE Push(h)
  BY <1>43 DEF JobsOK, Job, Told, Push, Answer
<1>44. CASE ExportInit(h)
  BY <1>44 DEF JobsOK, Job, Told, ExportInit, Goto, Refuse, Answer
<1>45. CASE AskChunk(h)
  <2>1. w[h].pc = "exporting"
    BY <1>45 DEF AskChunk
  <2>2. CASE Refuse(h)
    BY <2>1, <2>2 DEF JobsOK, Job, Told, Refuse, Answer
  <2>3. CASE ~Refuse(h)
    <3>1. PICK t : w' = [w EXCEPT ![h] = [@ EXCEPT !.pc = "chunk", !.transfer = t]]
      BY <1>45, <2>3, ChunkIsAsked
    <3> QED
      BY <2>1, <3>1 DEF JobsOK, Job, Told
  <2> QED
    BY <2>2, <2>3
<1>46. CASE ReadChunk(h)
  <2>1. PICK f : w' = [w EXCEPT ![h].pc = "exporting", ![h].transfer.frames = f]
    BY <1>46, ChunkIsRead
  <2>2. w[h].pc = "chunk" /\ fs' = fs
    BY <1>46, ChunkIsRead
  <2> QED
    BY <2>1, <2>2 DEF JobsOK, Job, Told
<1>47. CASE ExportComplete(h)
  BY <1>47 DEF JobsOK, Job, Told, ExportComplete, Refuse, Answer
<1>48. CASE Arrive(h)
  BY <1>48 DEF JobsOK, Job, Told, Arrive
<1>49. CASE BudgetSpent(h)
  BY <1>49 DEF JobsOK, Job, Told, BudgetSpent
<1>50. CASE StartList(h)
  <2>1. StartWalk(h)
    BY <1>50 DEF StartList
  <2> QED
    BY <2>1, WalkStarts
<1>51. CASE StartSearch(h)
  <2>1. StartWalk(h)
    BY <1>51 DEF StartSearch
  <2> QED
    BY <2>1, WalkStarts
<1>52. CASE WalkEnds(h)
  BY <1>52 DEF JobsOK, Job, Told, WalkEnds, Answer, Late
<1>53. CASE ListNext(h)
  <2>1. PICK n \in w[h].scan.todo :
           \/ Visited(h, n, Wanted(h, <<n, "path">>), {})
           \/ Visited(h, n, TRUE, {"partial"})
           \/ Visited(h, n, FALSE, {"unmarked"})
    BY <1>53 DEF ListNext
  <2>2. n \in Names /\ w[h].pc = "walk"
    BY <1>53, FieldFacts DEF ListNext, Visits, Scan
  <2>3. Wanted(h, <<n, "path">>) \in BOOLEAN /\ (n \in Present(h) => Wanted(h, <<n, "path">>))
    BY DEF Wanted, Present, Exists
  <2>4. {} \in SUBSET Notes /\ {"partial"} \in SUBSET Notes /\ {"unmarked"} \in SUBSET Notes
    BY DEF Notes
  <2> QED
    BY <2>1, <2>2, <2>3, <2>4, VisitedScans
<1>54. CASE SearchNext(h)
  <2>1. PICK n \in w[h].scan.todo :
           \/ Visited(h, n, Wanted(h, <<n, "path">>), {})
           \/ Visited(h, n, FALSE, {"partial"})
    BY <1>54 DEF SearchNext
  <2>2. n \in Names /\ w[h].pc = "walk"
    BY <1>54, FieldFacts DEF SearchNext, Visits, Scan
  <2>3. Wanted(h, <<n, "path">>) \in BOOLEAN /\ (n \in Present(h) => Wanted(h, <<n, "path">>))
    BY DEF Wanted, Present, Exists
  <2>4. {} \in SUBSET Notes /\ {"partial"} \in SUBSET Notes
    BY DEF Notes
  <2> QED
    BY <2>1, <2>2, <2>3, <2>4, VisitedScans
<1>55. CASE Abandon(h)
  BY <1>55 DEF JobsOK, Job, Told, Abandon
<1> QED
  BY <1>1, <1>2, <1>3, <1>4, <1>5, <1>6, <1>7, <1>8, <1>9, <1>10, <1>11,
     <1>12, <1>13, <1>14, <1>15, <1>16, <1>17, <1>18, <1>19, <1>20, <1>21, <1>22,
     <1>23, <1>24, <1>25, <1>26, <1>27, <1>28, <1>29, <1>30, <1>31, <1>32, <1>33,
     <1>34, <1>35, <1>36, <1>37, <1>38, <1>39, <1>40, <1>41, <1>42, <1>43, <1>44,
     <1>45, <1>46, <1>47, <1>48, <1>49, <1>50, <1>51, <1>52, <1>53, <1>54, <1>55
  DEF Served, Mutate, EditStep, GitStep, ReadStep

(***************************************************************************)
(* Backups stay while needed, and a chunk is waited for by its request.    *)
(***************************************************************************)

LEMMA BackedStep ==
  ASSUME JobsOK, FilesOK, NEW h \in Handlers, BackedBy(h), Served(h)
  PROVE  BackedBy(h)'
PROOF
<1>a. PathsApart(h)
  BY PathsAreApart
<1>b. Backup(h)' = Backup(h)
  BY DEF Backup
<1>1. CASE Start(h)
  BY <1>1, <1>a, <1>b
  DEF JobsOK, Job, FilesOK, Files, PathsApart, BackedBy, Exists, Renamed, Removed, Start
<1>2. CASE CheckMoveCopy(h)
  BY <1>2, <1>a, <1>b
  DEF JobsOK, Job, FilesOK, Files, PathsApart, BackedBy, Exists, Renamed, Removed,
      CheckMoveCopy, Asked, Refuse, Answer, Goto
<1>3. CASE TryDirectMove(h)
  BY <1>3, <1>a, <1>b
  DEF JobsOK, Job, FilesOK, Files, PathsApart, BackedBy, Exists, Renamed, Removed,
      TryDirectMove, Asked, SyncThen, Answer, Goto, Refuse
<1>4. CASE Recheck(h)
  BY <1>4, <1>a, <1>b
  DEF JobsOK, Job, FilesOK, Files, PathsApart, BackedBy, Exists, Renamed, Removed, Recheck, Goto
<1>5. CASE Displace(h)
  <2>1. CASE w[h].pc = "displace" /\ fs' = Renamed(Dst(h), Old(h)) /\ Goto(h, "over")
    BY <1>a, <1>b, <2>1
    DEF JobsOK, Job, FilesOK, Files, PathsApart, BackedBy, Exists, Renamed, Removed, Goto
  <2>2. CASE w[h].pc = "displace" /\ \E k : CleanUp(h, Staged(h), fs, k, "error")
    BY <1>a, <1>b, <2>2
    DEF JobsOK, Job, FilesOK, Files, PathsApart, BackedBy, Exists, Renamed, Removed, CleanUp,
        Answer
  <2> QED
    BY <1>5, <2>1, <2>2 DEF Displace
<1>6. CASE MoveOver(h)
  <2>1. CASE /\ fs' = fs /\ w[h].pc = "over"
             /\ Goto(h, "rollback") \/ (Goto(h, "rollback_cross") /\ w[h].from = "path")
    BY <1>a, <1>b, <2>1
    DEF JobsOK, Job, FilesOK, Files, PathsApart, BackedBy, Exists, Renamed, Removed, Goto
  <2>2. CASE /\ fs' = Renamed(From(h), Dst(h)) /\ w[h].pc = "over"
             /\ Answer(h, "error", {"sync"})
    BY <1>a, <1>b, <2>2
    DEF JobsOK, Job, FilesOK, Files, PathsApart, BackedBy, Exists, Renamed, Removed, From,
        Answer
  <2>3. CASE w[h].pc = "over" /\ AfterCommit(h, Renamed(From(h), Dst(h)))
    BY <1>a, <1>b, <2>3
    DEF JobsOK, Job, FilesOK, Files, PathsApart, BackedBy, Exists, Renamed, Removed, From,
        AfterCommit, CleanUp, Answer
  <2>4. RenameError(From(h), Dst(h), FALSE) = "EXDEV" => w[h].from = "path"
    BY FieldFacts, StagedIsBeside DEF From, Job
  <2> QED
    BY <1>6, <2>1, <2>2, <2>3, <2>4 DEF MoveOver
<1>7. CASE Rollback(h)
  <2>0. w[h].pc \in {"rollback", "rollback_cross"}
    BY <1>7 DEF Rollback
  <2>1. CASE /\ RenameError(Old(h), Dst(h), TRUE) = "ok" /\ w[h].pc = "rollback_cross"
             /\ fs' = Renamed(Old(h), Dst(h)) /\ Goto(h, "stage")
    BY <1>a, <1>b, <2>1
    DEF JobsOK, Job, FilesOK, Files, PathsApart, BackedBy, Exists, Renamed, Removed, Goto
  <2>2. CASE CleanUp(h, Staged(h), Renamed(Old(h), Dst(h)), 0, "error")
    BY <1>a, <1>b, <2>0, <2>2
    DEF JobsOK, Job, FilesOK, Files, PathsApart, BackedBy, Exists, Renamed, Removed, CleanUp,
        Answer
  <2>3. CASE (fs' = Removed(Staged(h)) \/ fs' = fs) /\ Answer(h, "error", {"reported"})
    BY <1>a, <1>b, <2>0, <2>3
    DEF JobsOK, Job, FilesOK, Files, PathsApart, BackedBy, Exists, Renamed, Removed, Answer
  <2> QED
    BY <1>7, <2>1, <2>2, <2>3 DEF Rollback
<1>8. CASE StageCopy(h)
  BY <1>8, <1>a, <1>b
  DEF JobsOK, Job, FilesOK, Files, PathsApart, BackedBy, Exists, Renamed, Removed, StageCopy,
      Refuse, Answer
<1>9. CASE FinishCopy(h)
  BY <1>9, <1>a, <1>b
  DEF JobsOK, Job, FilesOK, Files, PathsApart, BackedBy, Exists, Renamed, Removed, FinishCopy,
      CleanUp, Answer
<1>10. CASE CommitStaged(h)
  <2>1. PICK pc \in {"displace", "install"} : w[h].pc = "commit" /\ fs' = fs /\ Goto(h, pc)
    BY <1>10 DEF CommitStaged
  <2> QED
    BY <1>a, <1>b, <2>1
    DEF JobsOK, Job, FilesOK, Files, PathsApart, BackedBy, Exists, Renamed, Removed, Goto
<1>11. CASE InstallStaged(h)
  BY <1>11, <1>a, <1>b
  DEF JobsOK, Job, FilesOK, Files, PathsApart, BackedBy, Exists, Renamed, Removed,
      InstallStaged, Asked, AfterCommit, Answer, CleanUp
<1>12. CASE RemoveSource(h)
  BY <1>12, <1>a, <1>b
  DEF JobsOK, Job, FilesOK, Files, PathsApart, BackedBy, Exists, Renamed, Removed, RemoveSource,
      SyncThen, Answer
<1>13. CASE CheckDelete(h)
  BY <1>13, <1>a, <1>b
  DEF JobsOK, Job, FilesOK, Files, PathsApart, BackedBy, Exists, Renamed, Removed, CheckDelete,
      Asked, Refuse, Goto, Answer
<1>14. CASE StartBackup(h)
  BY <1>14, <1>a, <1>b
  DEF JobsOK, Job, FilesOK, Files, PathsApart, BackedBy, Exists, Renamed, Removed, StartBackup,
      Refuse, Answer
<1>15. CASE FinishBackup(h)
  BY <1>15, <1>a, <1>b
  DEF JobsOK, Job, FilesOK, Files, PathsApart, BackedBy, Exists, Renamed, Removed, FinishBackup,
      Goto, Refuse, Answer
<1>16. CASE Remove(h)
  BY <1>16, <1>a, <1>b
  DEF JobsOK, Job, FilesOK, Files, PathsApart, BackedBy, Exists, Renamed, Removed, Remove,
      Answer, Refuse
<1>17. CASE ChangeMode(h)
  BY <1>17, <1>a, <1>b
  DEF JobsOK, Job, FilesOK, Files, PathsApart, BackedBy, Exists, Renamed, Removed, ChangeMode,
      Answer, Refuse
<1>18. CASE ChangeOwner(h)
  BY <1>18, <1>a, <1>b
  DEF JobsOK, Job, FilesOK, Files, PathsApart, BackedBy, Exists, Renamed, Removed, ChangeOwner,
      Answer, Refuse
<1>19. CASE WriteRole(h)
  BY <1>19, <1>a, <1>b
  DEF JobsOK, Job, FilesOK, Files, PathsApart, BackedBy, Exists, Renamed, Removed, WriteRole,
      Answer
<1>20. CASE LoadTarget(h)
  BY <1>20, <1>a, <1>b
  DEF JobsOK, Job, FilesOK, Files, PathsApart, BackedBy, Exists, Renamed, Removed, LoadTarget,
      Asked, Refuse, Answer
<1>21. CASE Validated(h)
  BY <1>21, <1>a, <1>b
  DEF JobsOK, Job, FilesOK, Files, PathsApart, BackedBy, Exists, Renamed, Removed, Validated,
      Refuse, Asked, EditDone, Goto, Creating, Answer
<1>22. CASE MakeParents(h)
  BY <1>22, <1>a, <1>b
  DEF JobsOK, Job, FilesOK, Files, PathsApart, BackedBy, Exists, Renamed, Removed, MakeParents,
      Asked, Creating
<1>23. CASE MakeTemp(h)
  <2>1. CASE w[h].pc = "temp" /\ \E k : EditFails(h, fs, k, {})
    BY <2>1 DEF JobsOK, Job, BackedBy, EditFails, Answer
  <2>2. CASE /\ \E e : fs' = [fs EXCEPT ![Staged(h)] = e]
             /\ \/ Goto(h, "in_place") /\ Exists(Backup(h))
                \/ Goto(h, "link") \/ Goto(h, "persist")
    BY <1>a, <1>b, <2>2 DEF JobsOK, Job, FilesOK, Files, PathsApart, BackedBy, Exists, Goto
  <2> QED
    BY <1>23, <2>1, <2>2 DEF MakeTemp, MayWriteInPlace
<1>24. CASE Persist(h)
  <2>1. CASE w[h].pc = "persist" /\ fs' = Renamed(Staged(h), Dst(h)) /\ EditDone(h, {})
    BY <1>a, <1>b, <2>1
    DEF JobsOK, Job, FilesOK, Files, PathsApart, BackedBy, Exists, Renamed, Removed, EditDone,
        Answer
  <2>2. CASE w[h].pc = "persist" /\ EditFails(h, fs, 0, {})
    BY <1>a, <1>b, <2>2
    DEF JobsOK, Job, FilesOK, Files, PathsApart, BackedBy, Exists, Renamed, Removed, EditFails,
        Answer
  <2> QED
    BY <1>24, <2>1, <2>2 DEF Persist
<1>25. CASE Link(h)
  <2>0. w[h].pc = "link"
    BY <1>25 DEF Link
  <2>1. CASE fs' = Renamed(Staged(h), Dst(h)) /\ EditDone(h, {})
    BY <1>a, <1>b, <2>0, <2>1
    DEF JobsOK, Job, FilesOK, Files, PathsApart, BackedBy, Exists, Renamed, Removed, EditDone,
        Answer
  <2>2. CASE /\ fs' = [fs EXCEPT ![Dst(h)] = [NewText(h, "agent") EXCEPT !.data = <<h, "empty">>]]
             /\ Goto(h, "reserved")
    BY <1>a, <1>b, <2>0, <2>2
    DEF JobsOK, Job, FilesOK, Files, PathsApart, BackedBy, Exists, Renamed, Removed, Goto
  <2>3. CASE EditFails(h, fs, 0, {})
    BY <1>a, <1>b, <2>0, <2>3
    DEF JobsOK, Job, FilesOK, Files, PathsApart, BackedBy, Exists, Renamed, Removed, EditFails,
        Answer
  <2>4. CASE fs' = LinkedTwice(h) /\ EditDone(h, {})
    BY <1>a, <1>b, <2>0, <2>4
    DEF JobsOK, Job, FilesOK, Files, PathsApart, BackedBy, Exists, LinkedTwice, EditDone, Answer
  <2> QED
    BY <1>25, <2>1, <2>2, <2>3, <2>4 DEF Link, Linked
<1>26. CASE SudoLinkFails(h)
  BY <1>26, <1>a, <1>b
  DEF JobsOK, Job, FilesOK, Files, PathsApart, BackedBy, Exists, Renamed, Removed,
      SudoLinkFails, Asked, EditFails, Answer
<1>27. CASE ReplaceReserved(h)
  <2>0. w[h].pc = "reserved"
    BY <1>27 DEF ReplaceReserved
  <2>1. CASE fs' = Renamed(Staged(h), Dst(h)) /\ EditDone(h, {})
    BY <1>a, <1>b, <2>0, <2>1
    DEF JobsOK, Job, FilesOK, Files, PathsApart, BackedBy, Exists, Renamed, Removed, EditDone,
        Answer
  <2>2. CASE \E k : EditFails(h, fs, k, {}) \/ EditFails(h, Removed(Dst(h)), k, {})
    BY <1>a, <1>b, <2>0, <2>2
    DEF JobsOK, Job, FilesOK, Files, PathsApart, BackedBy, Exists, Renamed, Removed, EditFails,
        Answer
  <2> QED
    BY <1>27, <2>1, <2>2 DEF ReplaceReserved
<1>28. CASE WriteInPlace(h)
  BY <1>28, <1>a, <1>b
  DEF JobsOK, Job, FilesOK, Files, PathsApart, BackedBy, Exists, Renamed, Removed, WriteInPlace,
      Goto, EditFails, Answer, Asked
<1>29. CASE FinishInPlace(h)
  BY <1>29, <1>a, <1>b
  DEF JobsOK, Job, FilesOK, Files, PathsApart, BackedBy, Exists, Renamed, Removed,
      FinishInPlace, EditDone, Goto, Asked, Answer
<1>30. CASE Recover(h)
  BY <1>30, <1>a, <1>b
  DEF JobsOK, Job, FilesOK, Files, PathsApart, BackedBy, Exists, Renamed, Removed, Recover,
      EditFails, Answer, Asked
<1>31. CASE SudoInstall(h)
  BY <1>31, <1>a, <1>b
  DEF JobsOK, Job, FilesOK, Files, PathsApart, BackedBy, Exists, Renamed, Removed, SudoInstall,
      Creating, Goto, EditFails, Answer, Asked
<1>32. CASE SudoMove(h)
  BY <1>32, <1>a, <1>b
  DEF JobsOK, Job, FilesOK, Files, PathsApart, BackedBy, Exists, Renamed, Removed, SudoMove,
      EditDone, EditFails, Answer, Asked
<1>33. CASE ConsumeUpload(h)
  BY <1>33, <1>a, <1>b
  DEF JobsOK, Job, FilesOK, Files, PathsApart, BackedBy, Exists, Renamed, Removed,
      ConsumeUpload, Answer
<1>34. CASE Cancel(h)
  BY <1>34, <1>a, <1>b
  DEF JobsOK, Job, FilesOK, Files, PathsApart, BackedBy, Exists, Renamed, Removed, Cancel, Asked
<1>35. CASE CheckClone(h)
  BY <1>35, <1>a, <1>b
  DEF JobsOK, Job, FilesOK, Files, PathsApart, BackedBy, Exists, Renamed, Removed, CheckClone,
      Refuse, Goto, Answer
<1>36. CASE StartClone(h)
  BY <1>36, <1>a, <1>b
  DEF JobsOK, Job, FilesOK, Files, PathsApart, BackedBy, Exists, Renamed, Removed, StartClone,
      Goto
<1>37. CASE FinishClone(h)
  BY <1>37, <1>a, <1>b
  DEF JobsOK, Job, FilesOK, Files, PathsApart, BackedBy, Exists, Renamed, Removed, FinishClone,
      Answer, Goto
<1>38. CASE CleanClone(h)
  BY <1>38, <1>a, <1>b
  DEF JobsOK, Job, FilesOK, Files, PathsApart, BackedBy, Exists, Renamed, Removed, CleanClone,
      Answer
<1>39. CASE CheckPatch(h)
  BY <1>39, <1>a, <1>b
  DEF JobsOK, Job, FilesOK, Files, PathsApart, BackedBy, Exists, Renamed, Removed, CheckPatch,
      Refuse, Asked, Answer, Goto
<1>40. CASE ApplyPatch(h)
  BY <1>40, <1>a, <1>b
  DEF JobsOK, Job, FilesOK, Files, PathsApart, BackedBy, Exists, Renamed, Removed, ApplyPatch,
      Refuse, Answer
<1>41. CASE WritePatched(h)
  BY <1>41, <1>a, <1>b
  DEF JobsOK, Job, FilesOK, Files, PathsApart, BackedBy, Exists, Renamed, Removed, WritePatched,
      Answer
<1>42. CASE CheckPush(h)
  BY <1>42, <1>a, <1>b
  DEF JobsOK, Job, FilesOK, Files, PathsApart, BackedBy, Exists, Renamed, Removed, CheckPush,
      Asked, Refuse, Answer
<1>43. CASE Push(h)
  BY <1>43, <1>a, <1>b
  DEF JobsOK, Job, FilesOK, Files, PathsApart, BackedBy, Exists, Renamed, Removed, Push, Answer
<1>44. CASE ExportInit(h)
  BY <1>44, <1>a, <1>b
  DEF JobsOK, Job, FilesOK, Files, PathsApart, BackedBy, Exists, Renamed, Removed, ExportInit,
      Goto, Refuse, Answer
<1>45. CASE AskChunk(h)
  <2>1. w[h].pc = "exporting" /\ fs' = fs
    BY <1>45 DEF AskChunk
  <2>2. CASE Refuse(h)
    BY <1>a, <1>b, <2>1, <2>2
    DEF JobsOK, Job, FilesOK, Files, PathsApart, BackedBy, Exists, Renamed, Removed, Refuse,
        Answer
  <2>3. CASE ~Refuse(h)
    <3>1. PICK i \in 0..(Chunks - 1) :
             w' = [w EXCEPT ![h].pc = "chunk", ![h].transfer.index = i,
                            ![h].transfer.by = exports[w[h].dst].by,
                            ![h].transfer.path = exports[w[h].dst].path,
                            ![h].transfer.asks = @ + 1]
      BY <1>45, <2>3 DEF AskChunk
    <3> QED
      BY <1>a, <1>b, <2>1, <3>1
      DEF JobsOK, Job, FilesOK, Files, PathsApart, BackedBy, Exists, Renamed, Removed
  <2> QED
    BY <2>2, <2>3
<1>46. CASE ReadChunk(h)
  <2>1. PICK f : w' = [w EXCEPT ![h].pc = "exporting", ![h].transfer.frames = f]
    BY <1>46, ChunkIsRead
  <2>2. w[h].pc = "chunk" /\ fs' = fs
    BY <1>46, ChunkIsRead
  <2> QED
    BY <2>1, <2>2, <1>a, <1>b DEF JobsOK, Job, BackedBy, Exists
<1>47. CASE ExportComplete(h)
  BY <1>47, <1>a, <1>b
  DEF JobsOK, Job, FilesOK, Files, PathsApart, BackedBy, Exists, Renamed, Removed,
      ExportComplete, Refuse, Answer
<1>48. CASE Arrive(h)
  BY <1>48, <1>a, <1>b
  DEF JobsOK, Job, FilesOK, Files, PathsApart, BackedBy, Exists, Renamed, Removed, Arrive
<1>49. CASE BudgetSpent(h)
  BY <1>49, <1>a, <1>b
  DEF JobsOK, Job, FilesOK, Files, PathsApart, BackedBy, Exists, Renamed, Removed, BudgetSpent
<1>50. CASE StartList(h)
  BY <1>50, <1>a, <1>b
  DEF JobsOK, Job, FilesOK, Files, PathsApart, BackedBy, Exists, Renamed, Removed, StartList,
      StartWalk, Answer, Refuse
<1>51. CASE StartSearch(h)
  BY <1>51, <1>a, <1>b
  DEF JobsOK, Job, FilesOK, Files, PathsApart, BackedBy, Exists, Renamed, Removed, StartSearch,
      StartWalk, Answer, Refuse
<1>52. CASE WalkEnds(h)
  BY <1>52, <1>a, <1>b
  DEF JobsOK, Job, FilesOK, Files, PathsApart, BackedBy, Exists, Renamed, Removed, WalkEnds,
      Answer, Late
<1>53. CASE ListNext(h)
  BY <1>53, <1>b, WalkGoesOn DEF BackedBy, Exists
<1>54. CASE SearchNext(h)
  BY <1>54, <1>b, WalkGoesOn DEF BackedBy, Exists
<1>55. CASE Abandon(h)
  BY <1>55, <1>a, <1>b
  DEF JobsOK, Job, FilesOK, Files, PathsApart, BackedBy, Exists, Renamed, Removed, Abandon
<1> QED
  BY <1>1, <1>2, <1>3, <1>4, <1>5, <1>6, <1>7, <1>8, <1>9, <1>10, <1>11,
     <1>12, <1>13, <1>14, <1>15, <1>16, <1>17, <1>18, <1>19, <1>20, <1>21, <1>22,
     <1>23, <1>24, <1>25, <1>26, <1>27, <1>28, <1>29, <1>30, <1>31, <1>32, <1>33,
     <1>34, <1>35, <1>36, <1>37, <1>38, <1>39, <1>40, <1>41, <1>42, <1>43, <1>44,
     <1>45, <1>46, <1>47, <1>48, <1>49, <1>50, <1>51, <1>52, <1>53, <1>54, <1>55
  DEF Served, Mutate, EditStep, GitStep, ReadStep

LEMMA AskingStep ==
  ASSUME JobsOK, SharedOK, NEW h \in Handlers, Asking(h), Served(h)
  PROVE  Asking(h)'
PROOF
<1>1. CASE Start(h)
  BY <1>1 DEF JobsOK, Job, Asking, Start
<1>2. CASE CheckMoveCopy(h)
  BY <1>2 DEF JobsOK, Job, Asking, CheckMoveCopy, Asked, Refuse, Answer, Goto
<1>3. CASE TryDirectMove(h)
  BY <1>3 DEF JobsOK, Job, Asking, TryDirectMove, Asked, SyncThen, Answer, Goto, Refuse
<1>4. CASE Recheck(h)
  BY <1>4 DEF JobsOK, Job, Asking, Recheck, Goto
<1>5. CASE Displace(h)
  <2>1. /\ w[h].pc = "displace"
        /\ \/ Goto(h, "over")
           \/ Answer(h, "error", {})
           \/ Answer(h, "error", {"reported"})
    BY <1>5 DEF Displace, CleanUp
  <2> QED
    BY <2>1 DEF JobsOK, Job, Asking, Goto, Answer
<1>6. CASE MoveOver(h)
  <2>1. /\ w[h].pc = "over"
        /\ \/ Goto(h, "rollback") \/ Goto(h, "rollback_cross")
           \/ Answer(h, "error", {"sync"})
           \/ AfterCommit(h, Renamed(From(h), Dst(h)))
    BY <1>6 DEF MoveOver
  <2> QED
    BY <2>1 DEF JobsOK, Job, Asking, Goto, Answer, AfterCommit, CleanUp
<1>7. CASE Rollback(h)
  <2>1. /\ w[h].pc \in {"rollback", "rollback_cross"}
        /\ \/ Goto(h, "stage")
           \/ Answer(h, "error", {})
           \/ Answer(h, "error", {"reported"})
    BY <1>7 DEF Rollback, CleanUp
  <2> QED
    BY <2>1 DEF JobsOK, Job, Asking, Goto, Answer
<1>8. CASE StageCopy(h)
  BY <1>8 DEF JobsOK, Job, Asking, StageCopy, Refuse, Answer
<1>9. CASE FinishCopy(h)
  BY <1>9 DEF JobsOK, Job, Asking, FinishCopy, CleanUp, Answer
<1>10. CASE CommitStaged(h)
  BY <1>10 DEF JobsOK, Job, Asking, CommitStaged, Goto, Asked
<1>11. CASE InstallStaged(h)
  BY <1>11 DEF JobsOK, Job, Asking, InstallStaged, Asked, AfterCommit, Answer, CleanUp
<1>12. CASE RemoveSource(h)
  BY <1>12 DEF JobsOK, Job, Asking, RemoveSource, SyncThen, Answer
<1>13. CASE CheckDelete(h)
  BY <1>13 DEF JobsOK, Job, Asking, CheckDelete, Asked, Refuse, Goto, Answer
<1>14. CASE StartBackup(h)
  BY <1>14 DEF JobsOK, Job, Asking, StartBackup, Refuse, Answer
<1>15. CASE FinishBackup(h)
  BY <1>15 DEF JobsOK, Job, Asking, FinishBackup, Goto, Refuse, Answer
<1>16. CASE Remove(h)
  BY <1>16 DEF JobsOK, Job, Asking, Remove, Answer, Refuse
<1>17. CASE ChangeMode(h)
  BY <1>17 DEF JobsOK, Job, Asking, ChangeMode, Answer, Refuse
<1>18. CASE ChangeOwner(h)
  BY <1>18 DEF JobsOK, Job, Asking, ChangeOwner, Answer, Refuse
<1>19. CASE WriteRole(h)
  BY <1>19 DEF JobsOK, Job, Asking, WriteRole, Answer
<1>20. CASE LoadTarget(h)
  BY <1>20 DEF JobsOK, Job, Asking, LoadTarget, Asked, Refuse, Answer
<1>21. CASE Validated(h)
  BY <1>21 DEF JobsOK, Job, Asking, Validated, Refuse, Asked, EditDone, Goto, Creating, Answer
<1>22. CASE MakeParents(h)
  BY <1>22 DEF JobsOK, Job, Asking, MakeParents, Asked, Creating
<1>23. CASE MakeTemp(h)
  BY <1>23 DEF JobsOK, Job, Asking, MakeTemp, Creating, Goto, EditFails, Answer, Asked
<1>24. CASE Persist(h)
  <2>1. \/ EditDone(h, {})
        \/ Answer(h, "error", {})
        \/ Answer(h, "error", {"reported"})
    BY <1>24 DEF Persist, EditFails
  <2> QED
    BY <2>1 DEF JobsOK, Job, Asking, EditDone, Answer
<1>25. CASE Link(h)
  BY <1>25 DEF JobsOK, Job, Asking, Link, EditDone, Goto, EditFails, Asked, Answer
<1>26. CASE SudoLinkFails(h)
  BY <1>26 DEF JobsOK, Job, Asking, SudoLinkFails, Asked, EditFails, Answer
<1>27. CASE ReplaceReserved(h)
  <2>1. \/ EditDone(h, {})
        \/ Answer(h, "error", {})
        \/ Answer(h, "error", {"reported"})
    BY <1>27 DEF ReplaceReserved, EditFails
  <2> QED
    BY <2>1 DEF JobsOK, Job, Asking, EditDone, Answer
<1>28. CASE WriteInPlace(h)
  BY <1>28 DEF JobsOK, Job, Asking, WriteInPlace, Goto, EditFails, Answer, Asked
<1>29. CASE FinishInPlace(h)
  BY <1>29 DEF JobsOK, Job, Asking, FinishInPlace, EditDone, Goto, Asked, Answer
<1>30. CASE Recover(h)
  BY <1>30 DEF JobsOK, Job, Asking, Recover, EditFails, Answer, Asked
<1>31. CASE SudoInstall(h)
  BY <1>31 DEF JobsOK, Job, Asking, SudoInstall, Creating, Goto, EditFails, Answer, Asked
<1>32. CASE SudoMove(h)
  BY <1>32 DEF JobsOK, Job, Asking, SudoMove, EditDone, EditFails, Answer, Asked
<1>33. CASE ConsumeUpload(h)
  BY <1>33 DEF JobsOK, Job, Asking, ConsumeUpload, Answer
<1>34. CASE Cancel(h)
  BY <1>34 DEF JobsOK, Job, Asking, Cancel, Asked
<1>35. CASE CheckClone(h)
  BY <1>35 DEF JobsOK, Job, Asking, CheckClone, Refuse, Goto, Answer
<1>36. CASE StartClone(h)
  BY <1>36 DEF JobsOK, Job, Asking, StartClone, Goto
<1>37. CASE FinishClone(h)
  BY <1>37 DEF JobsOK, Job, Asking, FinishClone, Answer, Goto
<1>38. CASE CleanClone(h)
  BY <1>38 DEF JobsOK, Job, Asking, CleanClone, Answer
<1>39. CASE CheckPatch(h)
  BY <1>39 DEF JobsOK, Job, Asking, CheckPatch, Refuse, Asked, Answer, Goto
<1>40. CASE ApplyPatch(h)
  BY <1>40 DEF JobsOK, Job, Asking, ApplyPatch, Refuse, Answer
<1>41. CASE WritePatched(h)
  BY <1>41 DEF JobsOK, Job, Asking, WritePatched, Answer
<1>42. CASE CheckPush(h)
  BY <1>42 DEF JobsOK, Job, Asking, CheckPush, Asked, Refuse, Answer
<1>43. CASE Push(h)
  BY <1>43 DEF JobsOK, Job, Asking, Push, Answer
<1>44. CASE ExportInit(h)
  BY <1>44 DEF JobsOK, Job, Asking, ExportInit, Goto, Refuse, Answer
<1>45. CASE AskChunk(h)
  <2>1. CASE exports[w[h].dst] = NoSession
    BY <1>45, <2>1 DEF AskChunk, Refuse, Answer, JobsOK, Job, Asking
  <2>2. CASE exports[w[h].dst] # NoSession
    <3>1. PICK i \in 0..(Chunks - 1) :
             w' = [w EXCEPT ![h].pc = "chunk", ![h].transfer.index = i,
                            ![h].transfer.by = exports[w[h].dst].by,
                            ![h].transfer.path = exports[w[h].dst].path,
                            ![h].transfer.asks = @ + 1]
      BY <1>45, <2>2 DEF AskChunk
    <3>2. /\ w'[h].transfer.by = exports[w[h].dst].by
          /\ w'[h].transfer.path = exports[w[h].dst].path
      BY <3>1 DEF JobsOK, Job, Transfer
    <3> QED
      BY <2>2, <3>2, FieldFacts DEF SharedOK, Open, Asking
  <2> QED
    BY <2>1, <2>2
<1>46. CASE ReadChunk(h)
  <2>1. PICK f : w' = [w EXCEPT ![h].pc = "exporting", ![h].transfer.frames = f]
    BY <1>46, ChunkIsRead
  <2>2. w[h].pc = "chunk" /\ fs' = fs
    BY <1>46, ChunkIsRead
  <2> QED
    BY <2>1, <2>2 DEF JobsOK, Job, Asking
<1>47. CASE ExportComplete(h)
  BY <1>47 DEF JobsOK, Job, Asking, ExportComplete, Refuse, Answer
<1>48. CASE Arrive(h)
  BY <1>48 DEF JobsOK, Job, Asking, Arrive
<1>49. CASE BudgetSpent(h)
  BY <1>49 DEF JobsOK, Job, Asking, BudgetSpent
<1>50. CASE StartList(h)
  BY <1>50 DEF JobsOK, Job, Asking, StartList, StartWalk, Answer, Refuse
<1>51. CASE StartSearch(h)
  BY <1>51 DEF JobsOK, Job, Asking, StartSearch, StartWalk, Answer, Refuse
<1>52. CASE WalkEnds(h)
  BY <1>52 DEF JobsOK, Job, Asking, WalkEnds, Answer, Late
<1>53. CASE ListNext(h)
  BY <1>53, WalkGoesOn DEF Asking
<1>54. CASE SearchNext(h)
  BY <1>54, WalkGoesOn DEF Asking
<1>55. CASE Abandon(h)
  BY <1>55 DEF JobsOK, Job, Asking, Abandon
<1> QED
  BY <1>1, <1>2, <1>3, <1>4, <1>5, <1>6, <1>7, <1>8, <1>9, <1>10, <1>11,
     <1>12, <1>13, <1>14, <1>15, <1>16, <1>17, <1>18, <1>19, <1>20, <1>21, <1>22,
     <1>23, <1>24, <1>25, <1>26, <1>27, <1>28, <1>29, <1>30, <1>31, <1>32, <1>33,
     <1>34, <1>35, <1>36, <1>37, <1>38, <1>39, <1>40, <1>41, <1>42, <1>43, <1>44,
     <1>45, <1>46, <1>47, <1>48, <1>49, <1>50, <1>51, <1>52, <1>53, <1>54, <1>55
  DEF Served, Mutate, EditStep, GitStep, ReadStep

LEMMA ServedShares ==
  ASSUME JobsOK, FilesOK, SharedOK, NEW h \in Handlers, Asking(h), Served(h)
  PROVE  SharedOK'
PROOF
<1>1. CASE Start(h)
  BY <1>1 DEF SharedOK, Start, rest, shared
<1>2. CASE CheckMoveCopy(h)
  BY <1>2 DEF SharedOK, CheckMoveCopy, rest, shared
<1>3. CASE TryDirectMove(h)
  BY <1>3 DEF SharedOK, TryDirectMove, rest, shared
<1>4. CASE Recheck(h)
  BY <1>4 DEF SharedOK, Recheck, rest, shared
<1>5. CASE Displace(h)
  BY <1>5 DEF SharedOK, Displace, rest, shared
<1>6. CASE MoveOver(h)
  BY <1>6 DEF SharedOK, MoveOver, rest, shared
<1>7. CASE Rollback(h)
  BY <1>7 DEF SharedOK, Rollback, rest, shared
<1>8. CASE StageCopy(h)
  BY <1>8 DEF SharedOK, StageCopy, rest, shared
<1>9. CASE FinishCopy(h)
  BY <1>9 DEF SharedOK, FinishCopy, rest, shared
<1>10. CASE CommitStaged(h)
  BY <1>10 DEF SharedOK, CommitStaged, rest, shared
<1>11. CASE InstallStaged(h)
  BY <1>11 DEF SharedOK, InstallStaged, rest, shared
<1>12. CASE RemoveSource(h)
  BY <1>12 DEF SharedOK, RemoveSource, rest, shared
<1>13. CASE CheckDelete(h)
  BY <1>13 DEF SharedOK, CheckDelete, rest, shared
<1>14. CASE StartBackup(h)
  BY <1>14 DEF SharedOK, StartBackup, rest, shared
<1>15. CASE FinishBackup(h)
  BY <1>15 DEF SharedOK, FinishBackup, rest, shared
<1>16. CASE Remove(h)
  BY <1>16 DEF SharedOK, Remove, rest, shared
<1>17. CASE ChangeMode(h)
  BY <1>17 DEF SharedOK, ChangeMode, rest, shared
<1>18. CASE ChangeOwner(h)
  BY <1>18 DEF SharedOK, ChangeOwner, rest, shared
<1>19. CASE WriteRole(h)
  BY <1>19 DEF SharedOK, WriteRole, shared
<1>20. CASE LoadTarget(h)
  BY <1>20 DEF SharedOK, LoadTarget, shared
<1>21. CASE Validated(h)
  BY <1>21 DEF SharedOK, Validated, shared
<1>22. CASE MakeParents(h)
  BY <1>22 DEF SharedOK, MakeParents, shared
<1>23. CASE MakeTemp(h)
  BY <1>23 DEF SharedOK, MakeTemp, shared, EditFails, DropParents
<1>24. CASE Persist(h)
  BY <1>24 DEF SharedOK, Persist, shared, EditFails, DropParents
<1>25. CASE Link(h)
  BY <1>25 DEF SharedOK, Link, shared, EditFails, DropParents
<1>26. CASE SudoLinkFails(h)
  BY <1>26 DEF SharedOK, SudoLinkFails, shared, EditFails, DropParents
<1>27. CASE ReplaceReserved(h)
  BY <1>27 DEF SharedOK, ReplaceReserved, shared, EditFails, DropParents
<1>28. CASE WriteInPlace(h)
  BY <1>28 DEF SharedOK, WriteInPlace, shared, EditFails, DropParents
<1>29. CASE FinishInPlace(h)
  BY <1>29 DEF SharedOK, FinishInPlace, shared
<1>30. CASE Recover(h)
  BY <1>30 DEF SharedOK, Recover, shared, EditFails, DropParents
<1>31. CASE SudoInstall(h)
  BY <1>31 DEF SharedOK, SudoInstall, shared, EditFails, DropParents
<1>32. CASE SudoMove(h)
  BY <1>32 DEF SharedOK, SudoMove, shared, EditFails, DropParents
<1>33. CASE ConsumeUpload(h)
  BY <1>33 DEF SharedOK, ConsumeUpload, shared
<1>34. CASE Cancel(h)
  BY <1>34 DEF SharedOK, Cancel, shared
<1>35. CASE CheckClone(h)
  BY <1>35 DEF SharedOK, CheckClone, rest, shared
<1>36. CASE StartClone(h)
  BY <1>36 DEF SharedOK, StartClone, rest, shared
<1>37. CASE FinishClone(h)
  BY <1>37 DEF SharedOK, FinishClone, rest, shared
<1>38. CASE CleanClone(h)
  BY <1>38 DEF SharedOK, CleanClone, rest, shared
<1>39. CASE CheckPatch(h)
  BY <1>39 DEF SharedOK, CheckPatch, rest, shared
<1>40. CASE ApplyPatch(h)
  BY <1>40 DEF SharedOK, ApplyPatch, rest, shared
<1>41. CASE WritePatched(h)
  BY <1>41 DEF SharedOK, WritePatched, rest, shared
<1>42. CASE CheckPush(h)
  BY <1>42 DEF SharedOK, CheckPush, rest, shared
<1>43. CASE Push(h)
  <2>1. <<h, "whole">> \in Data
    BY DataFacts
  <2>2. UNCHANGED <<host, parent, exports>> /\ remote' \in {remote, <<h, "whole">>}
    BY <1>43 DEF Push
  <2> QED
    BY <2>1, <2>2 DEF SharedOK
<1>44. CASE ExportInit(h)
  <2> DEFINE swept == [id \in Names |-> IF exports[id].old THEN NoSession ELSE exports[id]]
             new == [by |-> h, next |-> 0, hashed |-> <<>>, path |-> w[h].src, old |-> FALSE]
  <2>1. NoSession \in Session /\ new \in Session /\ Open(new)
    BY FieldFacts DEF NoSession, Session, Open
  <2>2. swept \in [Names -> Session] /\ \A id \in Names : Open(swept[id])
    BY <2>1 DEF SharedOK, Open
  <2>3. exports' = exports \/ exports' = swept \/ exports' = [swept EXCEPT ![w[h].dst] = new]
    BY <1>44 DEF ExportInit
  <2>4. UNCHANGED <<host, parent, remote>>
    BY <1>44 DEF ExportInit
  <2> HIDE DEF swept, new
  <2> QED
    BY <2>1, <2>2, <2>3, <2>4 DEF SharedOK
<1>45. CASE AskChunk(h)
  BY <1>45 DEF SharedOK, AskChunk, rest, shared
<1>46. CASE ReadChunk(h)
  <2>1. UNCHANGED <<host, parent, remote>>
    BY <1>46 DEF ReadChunk
  <2>2. CASE exports' = exports
    BY <2>1, <2>2 DEF SharedOK
  <2>3. CASE exports' # exports
    <3> DEFINE s == exports[w[h].dst]
               file == <<w[h].transfer.path, "path">>
               new == [s EXCEPT !.next = s.next + 1, !.hashed = Append(s.hashed, fs[file].data)]
    <3>1. /\ s.by = w[h].transfer.by /\ Exists(file)
          /\ exports' = [exports EXCEPT ![w[h].dst].next = @ + 1,
                                        ![w[h].dst].hashed = Append(@, fs[file].data)]
      BY <1>46, <2>3 DEF ReadChunk
    <3>2. s \in Session
      BY FieldFacts DEF SharedOK
    <3>3. fs[file].data \in Data
      <4>1. file \in Path
        <5>1. w[h].transfer.path \in Names
          BY <1>46 DEF ReadChunk, Asking
        <5> QED
          BY <5>1 DEF Path
      <4> QED
        BY <3>1, <4>1, EntryFacts DEF Exists, FilesOK, Files, FullEntry
    <3>4. Append(s.hashed, fs[file].data) \in Seq(Data)
      BY <3>2, <3>3 DEF Session
    <3>5. new \in Session /\ Open(new)
      <4>1. new \in Session
        <5> DEFINE n == s.next + 1
                   chain == Append(s.hashed, fs[file].data)
        <5>1. n \in Nat /\ chain \in Seq(Data)
          BY <3>2, <3>4 DEF Session
        <5>2. new = [s EXCEPT !.next = n, !.hashed = chain]
          OBVIOUS
        <5> HIDE DEF n, chain, new
        <5> QED
          BY <3>2, <5>1, <5>2 DEF Session
      <4>2. s.by \in Handlers /\ s.path \in Names
        <5>1. w[h].transfer.by \in Handlers
          BY <1>46 DEF ReadChunk, Asking
        <5>2. s # NoSession
          BY <3>1, <5>1, NobodyAssumption DEF NoSession
        <5> QED
          BY <5>2, FieldFacts DEF SharedOK, Open
      <4> QED
        BY <4>1, <4>2, <3>2 DEF Session, Open
    <3>6. exports' = [exports EXCEPT ![w[h].dst] = new]
      BY <3>1, <3>2, FieldFacts DEF SharedOK, Session
    <3> QED
      BY <2>1, <3>5, <3>6 DEF SharedOK
  <2> QED
    BY <2>2, <2>3
<1>47. CASE ExportComplete(h)
  <2>1. NoSession \in Session /\ Open(NoSession)
    BY DEF NoSession, Session, Open
  <2> QED
    BY <1>47, <2>1 DEF SharedOK, ExportComplete
<1>48. CASE Arrive(h)
  BY <1>48 DEF SharedOK, Arrive, rest, shared
<1>49. CASE BudgetSpent(h)
  BY <1>49 DEF SharedOK, BudgetSpent, rest, shared
<1>50. CASE StartList(h)
  BY <1>50 DEF SharedOK, StartList, StartWalk, rest, shared
<1>51. CASE StartSearch(h)
  BY <1>51 DEF SharedOK, StartSearch, StartWalk, rest, shared
<1>52. CASE WalkEnds(h)
  BY <1>52 DEF SharedOK, WalkEnds, Late, rest, shared
<1>53. CASE ListNext(h)
  BY <1>53 DEF SharedOK, ListNext, rest, shared
<1>54. CASE SearchNext(h)
  BY <1>54 DEF SharedOK, SearchNext, rest, shared
<1>55. CASE Abandon(h)
  BY <1>55 DEF SharedOK, Abandon, rest, shared
<1> QED
  BY <1>1, <1>2, <1>3, <1>4, <1>5, <1>6, <1>7, <1>8, <1>9, <1>10, <1>11,
     <1>12, <1>13, <1>14, <1>15, <1>16, <1>17, <1>18, <1>19, <1>20, <1>21, <1>22,
     <1>23, <1>24, <1>25, <1>26, <1>27, <1>28, <1>29, <1>30, <1>31, <1>32, <1>33,
     <1>34, <1>35, <1>36, <1>37, <1>38, <1>39, <1>40, <1>41, <1>42, <1>43, <1>44,
     <1>45, <1>46, <1>47, <1>48, <1>49, <1>50, <1>51, <1>52, <1>53, <1>54, <1>55
  DEF Served, Mutate, EditStep, GitStep, ReadStep

LEMMA ServedHost ==
  ASSUME NEW h, Served(h)
  PROVE  host' = host
PROOF
<1>1. Start(h) => host' = host
  BY DEF Start, rest, shared
<1>2. Mutate(h) => host' = host
  BY DEF Mutate, rest, shared,
      CheckMoveCopy, TryDirectMove, Recheck, Displace, MoveOver, Rollback, StageCopy,
      FinishCopy, CommitStaged, InstallStaged, RemoveSource, CheckDelete, StartBackup,
      FinishBackup, Remove, ChangeMode, ChangeOwner
<1>3. EditStep(h) => host' = host
  BY DEF EditStep, rest, shared,
      WriteRole, LoadTarget, Validated, MakeParents, MakeTemp, Persist, Link, SudoLinkFails,
      ReplaceReserved, WriteInPlace, FinishInPlace, Recover, SudoInstall, SudoMove,
      ConsumeUpload, Cancel
<1>4. GitStep(h) => host' = host
  BY DEF GitStep, rest, shared,
      CheckClone, StartClone, FinishClone, CleanClone, CheckPatch, ApplyPatch, WritePatched,
      CheckPush, Push
<1>5. ReadStep(h) => host' = host
  BY DEF ReadStep, rest, shared,
      ExportInit, AskChunk, ReadChunk, ExportComplete, Arrive, BudgetSpent, StartList,
      StartSearch, WalkEnds, ListNext, SearchNext, Abandon, StartWalk
<1> QED
  BY <1>1, <1>2, <1>3, <1>4, <1>5 DEF Served

(***************************************************************************)
(* What a request that may not replace anything has found out.             *)
(***************************************************************************)
LEMMA CrossError ==
  \A p, q, noreplace : RenameError(p, q, noreplace) = "EXDEV" => host.cross
PROOF
  BY DEF RenameError

LEMMA CarefulStep ==
  ASSUME JobsOK, NEW h \in Handlers, Careful(h), Served(h)
  PROVE  Careful(h)'
PROOF
<1>h. host' = host
  BY ServedHost
<1>1. CASE Start(h)
  BY <1>1, <1>h, CrossError
  DEF JobsOK, Job, Careful, Asked, Creating, MovePcs, EditPcs, BackedPcs, Start
<1>2. CASE CheckMoveCopy(h)
  <2>0. w[h].pc = "check" /\ w[h].op \in {"move", "copy"}
    BY <1>2 DEF CheckMoveCopy
  <2>1. CASE Refuse(h)
    BY <1>h, <1>h, <2>0, <2>1
    DEF JobsOK, Job, Careful, Asked, Creating, MovePcs, EditPcs, BackedPcs, Refuse, Answer
  <2>2. CASE /\ w[h].src # w[h].dst
             /\ Goto(h, IF w[h].op = "move" THEN "direct" ELSE "stage")
    BY <1>h, <1>h, <2>0, <2>2
    DEF JobsOK, Job, Careful, Asked, Creating, MovePcs, EditPcs, BackedPcs, Goto
  <2>3. CASE Answer(h, "ok", {})
    BY <1>h, <1>h, <2>0, <2>3
    DEF JobsOK, Job, Careful, Asked, Creating, MovePcs, EditPcs, BackedPcs, Answer
  <2> QED
    BY <1>2, <2>1, <2>2, <2>3 DEF CheckMoveCopy
<1>3. CASE TryDirectMove(h)
  BY <1>3, <1>h, CrossError
  DEF JobsOK, Job, Careful, Asked, Creating, MovePcs, EditPcs, BackedPcs, TryDirectMove,
      SyncThen, Answer, Exists, Goto, Refuse
<1>4. CASE Recheck(h)
  BY <1>4, <1>h, CrossError
  DEF JobsOK, Job, Careful, Asked, Creating, MovePcs, EditPcs, BackedPcs, Recheck, Goto, Exists
<1>5. CASE Displace(h)
  <2>1. /\ w[h].pc = "displace"
        /\ \/ Goto(h, "over")
           \/ Answer(h, "error", {})
           \/ Answer(h, "error", {"reported"})
    BY <1>5 DEF Displace, CleanUp
  <2> QED
    BY <1>h, <2>1
    DEF JobsOK, Job, Careful, Asked, Creating, MovePcs, EditPcs, BackedPcs, Goto, Answer
<1>6. CASE MoveOver(h)
  <2>1. /\ w[h].pc = "over"
        /\ \/ Goto(h, "rollback") \/ Goto(h, "rollback_cross")
           \/ Answer(h, "error", {"sync"})
           \/ AfterCommit(h, Renamed(From(h), Dst(h)))
    BY <1>6 DEF MoveOver
  <2> QED
    BY <1>h, <2>1
    DEF JobsOK, Job, Careful, Asked, Creating, MovePcs, EditPcs, BackedPcs, Goto, Answer,
        AfterCommit, CleanUp
<1>7. CASE Rollback(h)
  <2>1. /\ w[h].pc \in {"rollback", "rollback_cross"}
        /\ \/ Goto(h, "stage")
           \/ Answer(h, "error", {})
           \/ Answer(h, "error", {"reported"})
    BY <1>7 DEF Rollback, CleanUp
  <2> QED
    BY <1>h, <2>1
    DEF JobsOK, Job, Careful, Asked, Creating, MovePcs, EditPcs, BackedPcs, Goto, Answer
<1>8. CASE StageCopy(h)
  BY <1>8, <1>h, CrossError
  DEF JobsOK, Job, Careful, Asked, Creating, MovePcs, EditPcs, BackedPcs, StageCopy, Exists,
      Refuse, Answer
<1>9. CASE FinishCopy(h)
  BY <1>9, <1>h, CrossError
  DEF JobsOK, Job, Careful, Asked, Creating, MovePcs, EditPcs, BackedPcs, FinishCopy, CleanUp,
      Answer
<1>10. CASE CommitStaged(h)
  BY <1>10, <1>h, CrossError
  DEF JobsOK, Job, Careful, Asked, Creating, MovePcs, EditPcs, BackedPcs, CommitStaged, Goto,
      Exists
<1>11. CASE InstallStaged(h)
  BY <1>11, <1>h, CrossError
  DEF JobsOK, Job, Careful, Asked, Creating, MovePcs, EditPcs, BackedPcs, InstallStaged,
      AfterCommit, Answer, CleanUp
<1>12. CASE RemoveSource(h)
  BY <1>12, <1>h, CrossError
  DEF JobsOK, Job, Careful, Asked, Creating, MovePcs, EditPcs, BackedPcs, RemoveSource, Exists,
      SyncThen, Answer
<1>13. CASE CheckDelete(h)
  BY <1>13, <1>h, CrossError
  DEF JobsOK, Job, Careful, Asked, Creating, MovePcs, EditPcs, BackedPcs, CheckDelete, Exists,
      Refuse, Goto, Answer
<1>14. CASE StartBackup(h)
  BY <1>14, <1>h, CrossError
  DEF JobsOK, Job, Careful, Asked, Creating, MovePcs, EditPcs, BackedPcs, StartBackup, Exists,
      Refuse, Answer
<1>15. CASE FinishBackup(h)
  BY <1>15, <1>h, CrossError
  DEF JobsOK, Job, Careful, Asked, Creating, MovePcs, EditPcs, BackedPcs, FinishBackup, Goto,
      Refuse, Answer
<1>16. CASE Remove(h)
  BY <1>16, <1>h, CrossError
  DEF JobsOK, Job, Careful, Asked, Creating, MovePcs, EditPcs, BackedPcs, Remove, Exists,
      Answer, Refuse
<1>17. CASE ChangeMode(h)
  BY <1>17, <1>h, CrossError
  DEF JobsOK, Job, Careful, Asked, Creating, MovePcs, EditPcs, BackedPcs, ChangeMode, Exists,
      Answer, Refuse
<1>18. CASE ChangeOwner(h)
  BY <1>18, <1>h, CrossError
  DEF JobsOK, Job, Careful, Asked, Creating, MovePcs, EditPcs, BackedPcs, ChangeOwner, Exists,
      Answer, Refuse
<1>19. CASE WriteRole(h)
  BY <1>19, <1>h, CrossError
  DEF JobsOK, Job, Careful, Asked, Creating, MovePcs, EditPcs, BackedPcs, WriteRole, Answer
<1>20. CASE LoadTarget(h)
  BY <1>20, <1>h, CrossError
  DEF JobsOK, Job, Careful, Asked, Creating, MovePcs, EditPcs, BackedPcs, LoadTarget, Exists,
      Refuse, Answer
<1>21. CASE Validated(h)
  BY <1>21, <1>h, CrossError
  DEF JobsOK, Job, Careful, Asked, Creating, MovePcs, EditPcs, BackedPcs, Validated, Refuse,
      EditDone, Goto, Answer
<1>22. CASE MakeParents(h)
  BY <1>22, <1>h, CrossError
  DEF JobsOK, Job, Careful, Asked, Creating, MovePcs, EditPcs, BackedPcs, MakeParents
<1>23. CASE MakeTemp(h)
  BY <1>23, <1>h, CrossError
  DEF JobsOK, Job, Careful, Asked, Creating, MovePcs, EditPcs, BackedPcs, MakeTemp, Goto,
      EditFails, Answer
<1>24. CASE Persist(h)
  <2>0. w[h].pc = "persist"
    BY <1>24 DEF Persist
  <2>1. \/ EditDone(h, {})
        \/ Answer(h, "error", {})
        \/ Answer(h, "error", {"reported"})
    BY <1>24 DEF Persist, EditFails
  <2> QED
    BY <1>h, <2>0, <2>1
    DEF JobsOK, Job, Careful, Asked, Creating, MovePcs, EditPcs, BackedPcs, EditDone, Answer
<1>25. CASE Link(h)
  BY <1>25, <1>h, CrossError
  DEF JobsOK, Job, Careful, Asked, Creating, MovePcs, EditPcs, BackedPcs, Link, EditDone, Goto,
      EditFails, Answer
<1>26. CASE SudoLinkFails(h)
  BY <1>26, <1>h, CrossError
  DEF JobsOK, Job, Careful, Asked, Creating, MovePcs, EditPcs, BackedPcs, SudoLinkFails,
      EditFails, Answer
<1>27. CASE ReplaceReserved(h)
  <2>0. w[h].pc = "reserved"
    BY <1>27 DEF ReplaceReserved
  <2>1. \/ EditDone(h, {})
        \/ Answer(h, "error", {})
        \/ Answer(h, "error", {"reported"})
    BY <1>27 DEF ReplaceReserved, EditFails
  <2> QED
    BY <1>h, <2>0, <2>1
    DEF JobsOK, Job, Careful, Asked, Creating, MovePcs, EditPcs, BackedPcs, EditDone, Answer
<1>28. CASE WriteInPlace(h)
  BY <1>28, <1>h, CrossError
  DEF JobsOK, Job, Careful, Asked, Creating, MovePcs, EditPcs, BackedPcs, WriteInPlace, Exists,
      Goto, EditFails, Answer
<1>29. CASE FinishInPlace(h)
  BY <1>29, <1>h, CrossError
  DEF JobsOK, Job, Careful, Asked, Creating, MovePcs, EditPcs, BackedPcs, FinishInPlace,
      EditDone, Goto, Answer
<1>30. CASE Recover(h)
  BY <1>30, <1>h, CrossError
  DEF JobsOK, Job, Careful, Asked, Creating, MovePcs, EditPcs, BackedPcs, Recover, Exists,
      EditFails, Answer
<1>31. CASE SudoInstall(h)
  BY <1>31, <1>h, CrossError
  DEF JobsOK, Job, Careful, Asked, Creating, MovePcs, EditPcs, BackedPcs, SudoInstall, Goto,
      EditFails, Answer
<1>32. CASE SudoMove(h)
  BY <1>32, <1>h, CrossError
  DEF JobsOK, Job, Careful, Asked, Creating, MovePcs, EditPcs, BackedPcs, SudoMove, Exists,
      EditDone, EditFails, Answer
<1>33. CASE ConsumeUpload(h)
  BY <1>33, <1>h, CrossError
  DEF JobsOK, Job, Careful, Asked, Creating, MovePcs, EditPcs, BackedPcs, ConsumeUpload, Answer
<1>34. CASE Cancel(h)
  BY <1>34, <1>h, CrossError
  DEF JobsOK, Job, Careful, Asked, Creating, MovePcs, EditPcs, BackedPcs, Cancel
<1>35. CASE CheckClone(h)
  BY <1>35, <1>h, CrossError
  DEF JobsOK, Job, Careful, Asked, Creating, MovePcs, EditPcs, BackedPcs, CheckClone, Exists,
      Refuse, Goto, Answer
<1>36. CASE StartClone(h)
  BY <1>36, <1>h, CrossError
  DEF JobsOK, Job, Careful, Asked, Creating, MovePcs, EditPcs, BackedPcs, StartClone, Exists,
      Goto
<1>37. CASE FinishClone(h)
  BY <1>37, <1>h, CrossError
  DEF JobsOK, Job, Careful, Asked, Creating, MovePcs, EditPcs, BackedPcs, FinishClone, Exists,
      Answer, Goto
<1>38. CASE CleanClone(h)
  BY <1>38, <1>h, CrossError
  DEF JobsOK, Job, Careful, Asked, Creating, MovePcs, EditPcs, BackedPcs, CleanClone, Exists,
      Answer
<1>39. CASE CheckPatch(h)
  BY <1>39, <1>h, CrossError
  DEF JobsOK, Job, Careful, Asked, Creating, MovePcs, EditPcs, BackedPcs, CheckPatch, Refuse,
      Answer, Goto
<1>40. CASE ApplyPatch(h)
  BY <1>40, <1>h, CrossError
  DEF JobsOK, Job, Careful, Asked, Creating, MovePcs, EditPcs, BackedPcs, ApplyPatch, Refuse,
      Answer
<1>41. CASE WritePatched(h)
  BY <1>41, <1>h, CrossError
  DEF JobsOK, Job, Careful, Asked, Creating, MovePcs, EditPcs, BackedPcs, WritePatched, Exists,
      Answer
<1>42. CASE CheckPush(h)
  BY <1>42, <1>h, CrossError
  DEF JobsOK, Job, Careful, Asked, Creating, MovePcs, EditPcs, BackedPcs, CheckPush, Refuse,
      Answer
<1>43. CASE Push(h)
  BY <1>43, <1>h, CrossError
  DEF JobsOK, Job, Careful, Asked, Creating, MovePcs, EditPcs, BackedPcs, Push, Answer
<1>44. CASE ExportInit(h)
  BY <1>44, <1>h, CrossError
  DEF JobsOK, Job, Careful, Asked, Creating, MovePcs, EditPcs, BackedPcs, ExportInit, Exists,
      Goto, Refuse, Answer
<1>45. CASE AskChunk(h)
  <2>1. w[h].pc = "exporting"
    BY <1>45 DEF AskChunk
  <2>2. CASE Refuse(h)
    BY <1>h, <2>1, <2>2
    DEF JobsOK, Job, Careful, Asked, Creating, MovePcs, EditPcs, BackedPcs, Refuse, Answer
  <2>3. CASE ~Refuse(h)
    <3>1. PICK t : w' = [w EXCEPT ![h] = [@ EXCEPT !.pc = "chunk", !.transfer = t]]
      BY <1>45, <2>3, ChunkIsAsked
    <3> QED
      BY <1>h, <2>1, <3>1 DEF JobsOK, Job, Careful, Asked, Creating, MovePcs, EditPcs, BackedPcs
  <2> QED
    BY <2>2, <2>3
<1>46. CASE ReadChunk(h)
  <2>1. w[h].pc = "chunk" /\ \E f : w' = [w EXCEPT ![h].pc = "exporting", ![h].transfer.frames = f]
    BY <1>46, ChunkIsRead
  <2>2. /\ w'[h].op = w[h].op /\ w'[h].pc = "exporting" /\ w'[h].flags = w[h].flags
        /\ w'[h].src = w[h].src /\ w'[h].dst = w[h].dst
    BY <2>1 DEF JobsOK, Job
  <2> QED
    BY <1>h, <2>1, <2>2 DEF Careful, MovePcs, EditPcs, BackedPcs
<1>47. CASE ExportComplete(h)
  BY <1>47, <1>h, CrossError
  DEF JobsOK, Job, Careful, Asked, Creating, MovePcs, EditPcs, BackedPcs, ExportComplete,
      Refuse, Answer
<1>48. CASE Arrive(h)
  BY <1>48, <1>h, CrossError
  DEF JobsOK, Job, Careful, Asked, Creating, MovePcs, EditPcs, BackedPcs, Arrive
<1>49. CASE BudgetSpent(h)
  BY <1>49, <1>h, CrossError
  DEF JobsOK, Job, Careful, Asked, Creating, MovePcs, EditPcs, BackedPcs, BudgetSpent
<1>50. CASE StartList(h)
  BY <1>50, <1>h, CrossError
  DEF JobsOK, Job, Careful, Asked, Creating, MovePcs, EditPcs, BackedPcs, StartList, StartWalk,
      Exists, Answer, Refuse
<1>51. CASE StartSearch(h)
  BY <1>51, <1>h, CrossError
  DEF JobsOK, Job, Careful, Asked, Creating, MovePcs, EditPcs, BackedPcs, StartSearch,
      StartWalk, Exists, Answer, Refuse
<1>52. CASE WalkEnds(h)
  BY <1>52, <1>h, CrossError
  DEF JobsOK, Job, Careful, Asked, Creating, MovePcs, EditPcs, BackedPcs, WalkEnds, Answer, Late
<1>53. CASE ListNext(h)
  BY <1>53, WalkGoesOn DEF Careful
<1>54. CASE SearchNext(h)
  BY <1>54, WalkGoesOn DEF Careful
<1>55. CASE Abandon(h)
  BY <1>55, <1>h, CrossError
  DEF JobsOK, Job, Careful, Asked, Creating, MovePcs, EditPcs, BackedPcs, Abandon
<1> QED
  BY <1>1, <1>2, <1>3, <1>4, <1>5, <1>6, <1>7, <1>8, <1>9, <1>10, <1>11,
     <1>12, <1>13, <1>14, <1>15, <1>16, <1>17, <1>18, <1>19, <1>20, <1>21, <1>22,
     <1>23, <1>24, <1>25, <1>26, <1>27, <1>28, <1>29, <1>30, <1>31, <1>32, <1>33,
     <1>34, <1>35, <1>36, <1>37, <1>38, <1>39, <1>40, <1>41, <1>42, <1>43, <1>44,
     <1>45, <1>46, <1>47, <1>48, <1>49, <1>50, <1>51, <1>52, <1>53, <1>54, <1>55
  DEF Served, Mutate, EditStep, GitStep, ReadStep

(* A request that may not destroy what it finds.                           *)
Cautious(h) ==
    \/ w[h].op \in {"move", "copy"} /\ ~Asked(h, "overwrite")
    \/ w[h].op = "edit" /\ Creating(h) /\ host.links
Spared(h) == \A p \in {Dst(h), Old(h)} : Exists(p) => Held(fs[p].data, fs')

LEMMA SparedAlone ==
  ASSUME JobsOK, NEW h \in Handlers, fs'[Dst(h)] = fs[Dst(h)], fs'[Old(h)] = fs[Old(h)]
  PROVE  Spared(h)
PROOF
  BY PathFacts DEF Spared, Held, Exists

(* Into a place that was free.                                             *)
LEMMA SparedByMove ==
  ASSUME JobsOK, FilesOK, NEW h \in Handlers, NEW q \in Path, NEW f \in Files,
         q # Dst(h), q # Old(h), ~Exists(Dst(h)), f = Renamed(q, Dst(h)),
         fs'[Old(h)] = f[Old(h)] \/ ~Exists(Old(h))
  PROVE  Spared(h)
PROOF
<1>1. PathsApart(h)
  BY PathsAreApart
<1>2. Old(h) \in Path \ {q, Dst(h)}
  BY <1>1 DEF PathsApart
<1>3. f[Old(h)] = fs[Old(h)]
  BY <1>1, <1>2, RenamedAt DEF PathsApart
<1> QED
  BY <1>2, <1>3 DEF Spared, Held, Exists

LEMMA ServedSpares ==
  ASSUME JobsOK, FilesOK, NEW h \in Handlers, Careful(h), Tidy(h), Cautious(h), Served(h)
  PROVE  Spared(h)
PROOF
<1>a. PathsApart(h)
  BY PathsAreApart
<1>p. /\ Src(h) \in Path /\ Dst(h) \in Path /\ Staged(h) \in Path
      /\ Old(h) \in Path /\ Backup(h) \in Path
  BY <1>a DEF PathsApart
<1>s. fs' = fs => Spared(h)
  BY SparedAlone
<1>t. \A p \in {Staged(h), Backup(h)} : \A e : fs' = [fs EXCEPT ![p] = e] => Spared(h)
  <2> TAKE p \in {Staged(h), Backup(h)}
  <2> TAKE e
  <2> HAVE fs' = [fs EXCEPT ![p] = e]
  <2>1. p # Dst(h) /\ p # Old(h)
    BY <1>a DEF PathsApart
  <2>2. fs'[Dst(h)] = fs[Dst(h)] /\ fs'[Old(h)] = fs[Old(h)]
    BY <1>p, <2>1 DEF FilesOK, Files
  <2> QED
    BY <2>2, SparedAlone
<1>u. \A k, result : CleanUp(h, Staged(h), fs, k, result) => Spared(h)
  BY <1>s, <1>t DEF CleanUp
<1>v. \A k, notes : EditFails(h, fs, k, notes) => Spared(h)
  BY <1>s, <1>t DEF EditFails
<1>c. \/ /\ w[h].op \in {"move", "copy"} /\ ~Asked(h, "overwrite")
         /\ w[h].pc \in {"direct", "recheck", "displace", "over", "rollback", "rollback_cross",
                         "stage", "copying", "commit", "install", "unlink", "check", "done"}
      \/ /\ w[h].op = "edit" /\ Creating(h) /\ host.links
         /\ w[h].pc \in {"validate", "replace", "temp", "link", "sudo_install", "consume",
                         "check", "done"}
  BY DEF Careful, Cautious, MovePcs, EditPcs, BackedPcs
<1>1. CASE Start(h)
  BY <1>1, <1>s, <1>t, <1>u, <1>v, <1>c DEF Start, rest, shared
<1>2. CASE CheckMoveCopy(h)
  BY <1>2, <1>s, <1>t, <1>u, <1>v, <1>c DEF CheckMoveCopy, rest, shared
<1>3. CASE TryDirectMove(h)
  <2>0. w[h].pc = "direct" /\ ~Asked(h, "overwrite")
    BY <1>3, <1>c DEF TryDirectMove
  <2>1. CASE fs' = Renamed(Src(h), Dst(h)) /\ RenameError(Src(h), Dst(h), TRUE) = "ok"
    <3>1. Exists(Src(h)) /\ ~Exists(Dst(h))
      BY <2>1, RenameOk
    <3>2. Src(h) # Dst(h) /\ Src(h) # Old(h)
      BY <1>a, <3>1 DEF PathsApart
    <3> QED
      BY <1>p, <2>1, <3>1, <3>2, SparedByMove, RenamedIsFiles
  <2> QED
    BY <1>3, <1>s, <2>0, <2>1 DEF TryDirectMove
<1>4. CASE Recheck(h)
  BY <1>4, <1>s, <1>t, <1>u, <1>v, <1>c DEF Recheck, rest, shared
<1>5. CASE Displace(h)
  <2>1. CASE fs' = Renamed(Dst(h), Old(h)) /\ RenameError(Dst(h), Old(h), TRUE) = "ok"
    <3>1. ~Exists(Old(h))
      BY <2>1, RenameOk
    <3>2. fs'[Old(h)] = fs[Dst(h)]
      BY <1>a, <2>1, RenamedAt DEF PathsApart
    <3> QED
      BY <1>p, <3>1, <3>2 DEF Spared, Held, Exists
  <2> QED
    BY <1>5, <1>u, <2>1 DEF Displace
<1>6. CASE MoveOver(h)
  <2>1. w[h].pc = "over"
    BY <1>6 DEF MoveOver
  <2>2. /\ w[h].op \in {"move", "copy"} /\ ~Asked(h, "overwrite")
        /\ w[h].src # w[h].dst /\ w[h].from = "path" /\ host.cross
    BY <1>c, <2>1 DEF Careful, MovePcs
  <2>3. From(h) = Src(h) /\ At(Src(h)) # At(Dst(h))
    BY <2>2 DEF From, At, Src, Dst
  <2>4. RenameError(From(h), Dst(h), FALSE) # "ok"
    BY <2>2, <2>3, RenameOk
  <2> QED
    BY <1>6, <1>s, <2>4 DEF MoveOver
<1>7. CASE Rollback(h)
  <2>1. CASE RenameError(Old(h), Dst(h), TRUE) = "ok"
    <3>1. ~Exists(Dst(h))
      BY <2>1, RenameOk
    <3>2. \/ fs' = Renamed(Old(h), Dst(h))
          \/ fs' = [Renamed(Old(h), Dst(h)) EXCEPT ![Staged(h)] = Absent]
      BY <1>7, <2>1 DEF Rollback, CleanUp
    <3>3. Renamed(Old(h), Dst(h))[Dst(h)] = fs[Old(h)]
      BY <1>a, RenamedAt DEF PathsApart
    <3>4. Renamed(Old(h), Dst(h)) \in Files /\ Staged(h) # Dst(h)
      BY <1>a, <1>p, RenamedIsFiles DEF PathsApart
    <3>5. fs'[Dst(h)] = fs[Old(h)]
      BY <1>p, <3>2, <3>3, <3>4 DEF Files
    <3> QED
      BY <1>p, <3>1, <3>5 DEF Spared, Held, Exists
  <2>2. CASE RenameError(Old(h), Dst(h), TRUE) # "ok"
    BY <1>7, <1>s, <1>t, <2>2 DEF Rollback, Removed
  <2> QED
    BY <2>1, <2>2
<1>8. CASE StageCopy(h)
  BY <1>8, <1>s, <1>t, <1>u, <1>v, <1>c DEF StageCopy, rest, shared
<1>9. CASE FinishCopy(h)
  <2>1. CASE \E d : fs' = [fs EXCEPT ![Staged(h)].data = d]
    BY <1>t, <2>1
  <2> QED
    BY <1>9, <1>u, <2>1 DEF FinishCopy
<1>10. CASE CommitStaged(h)
  BY <1>10, <1>s, <1>t, <1>u, <1>v, <1>c DEF CommitStaged, rest, shared
<1>11. CASE InstallStaged(h)
  <2>0. w[h].pc = "install" /\ ~Asked(h, "overwrite")
    BY <1>11, <1>c DEF InstallStaged
  <2>1. CASE RenameError(Staged(h), Dst(h), TRUE) = "ok"
    <3>1. ~Exists(Dst(h)) /\ ~Exists(Old(h))
      BY <2>0, <2>1, RenameOk DEF Tidy
    <3>2. Staged(h) # Dst(h) /\ Staged(h) # Old(h)
      BY <1>a DEF PathsApart
    <3> QED
      BY <1>p, <3>1, <3>2, SparedByMove, RenamedIsFiles
  <2>2. CASE RenameError(Staged(h), Dst(h), TRUE) # "ok"
    BY <1>11, <1>u, <2>0, <2>2 DEF InstallStaged
  <2> QED
    BY <2>1, <2>2
<1>12. CASE RemoveSource(h)
  <2>0. w[h].pc = "unlink"
    BY <1>12 DEF RemoveSource
  <2>1. Src(h) # Dst(h) /\ Src(h) # Old(h)
    BY <1>a, <1>c, <2>0 DEF Careful, MovePcs, Src, Dst, PathsApart
  <2>2. fs' = Removed(Src(h)) \/ fs' \in HalfRemoved(Src(h))
    BY <1>12 DEF RemoveSource
  <2>3. fs'[Dst(h)] = fs[Dst(h)] /\ fs'[Old(h)] = fs[Old(h)]
    BY <1>p, <2>1, <2>2, RemovedAt, HalfRemovedAt
  <2> QED
    BY <2>3, SparedAlone
<1>13. CASE CheckDelete(h)
  BY <1>13, <1>s, <1>t, <1>u, <1>v, <1>c DEF CheckDelete, rest, shared
<1>14. CASE StartBackup(h)
  BY <1>14, <1>s, <1>t, <1>u, <1>v, <1>c DEF StartBackup, rest, shared
<1>15. CASE FinishBackup(h)
  BY <1>15, <1>s, <1>t, <1>u, <1>v, <1>c DEF FinishBackup, rest, shared
<1>16. CASE Remove(h)
  BY <1>16, <1>s, <1>t, <1>u, <1>v, <1>c DEF Remove, rest, shared
<1>17. CASE ChangeMode(h)
  BY <1>17, <1>s, <1>t, <1>u, <1>v, <1>c DEF ChangeMode, rest, shared
<1>18. CASE ChangeOwner(h)
  BY <1>18, <1>s, <1>t, <1>u, <1>v, <1>c DEF ChangeOwner, rest, shared
<1>19. CASE WriteRole(h)
  BY <1>19, <1>s, <1>t, <1>u, <1>v, <1>c DEF WriteRole, shared
<1>20. CASE LoadTarget(h)
  BY <1>20, <1>s, <1>t, <1>u, <1>v, <1>c DEF LoadTarget, shared
<1>21. CASE Validated(h)
  BY <1>21, <1>s, <1>t, <1>u, <1>v, <1>c DEF Validated, shared
<1>22. CASE MakeParents(h)
  BY <1>22, <1>s, <1>t, <1>u, <1>v, <1>c DEF MakeParents, shared
<1>23. CASE MakeTemp(h)
  BY <1>23, <1>s, <1>t, <1>u, <1>v, <1>c DEF MakeTemp, shared
<1>24. CASE Persist(h)
  BY <1>24, <1>s, <1>t, <1>u, <1>v, <1>c DEF Persist, shared
<1>25. CASE Link(h)
  <2>0. w[h].pc = "link" /\ host.links
    BY <1>25, <1>c DEF Link
  <2>1. CASE ~Exists(Dst(h)) /\ fs' = Renamed(Staged(h), Dst(h))
    <3>1. Staged(h) # Dst(h) /\ Staged(h) # Old(h)
      BY <1>a DEF PathsApart
    <3> QED
      BY <1>p, <2>1, <3>1, SparedByMove, RenamedIsFiles
  <2>2. CASE ~Exists(Dst(h)) /\ fs' = LinkedTwice(h)
    <3>1. fs'[Old(h)] = fs[Old(h)]
      BY <1>a, <2>2 DEF PathsApart, LinkedTwice, FilesOK, Files
    <3> QED
      BY <1>p, <2>2, <3>1 DEF Spared, Held, Exists
  <2> QED
    BY <1>25, <1>v, <2>0, <2>1, <2>2 DEF Link, Linked, Free
<1>26. CASE SudoLinkFails(h)
  <2>1. CASE ~Exists(Dst(h)) /\ fs' = Renamed(Staged(h), Dst(h))
    <3>1. Staged(h) # Dst(h) /\ Staged(h) # Old(h)
      BY <1>a DEF PathsApart
    <3> QED
      BY <1>p, <2>1, <3>1, SparedByMove, RenamedIsFiles
  <2>2. CASE ~Exists(Dst(h)) /\ fs' = LinkedTwice(h)
    <3>1. fs'[Old(h)] = fs[Old(h)]
      BY <1>a, <2>2 DEF PathsApart, LinkedTwice, FilesOK, Files
    <3> QED
      BY <1>p, <2>2, <3>1 DEF Spared, Held, Exists
  <2> QED
    BY <1>26, <1>v, <2>1, <2>2 DEF SudoLinkFails, Linked, Free
<1>27. CASE ReplaceReserved(h)
  BY <1>27, <1>s, <1>t, <1>u, <1>v, <1>c DEF ReplaceReserved, shared
<1>28. CASE WriteInPlace(h)
  BY <1>28, <1>s, <1>t, <1>u, <1>v, <1>c DEF WriteInPlace, shared
<1>29. CASE FinishInPlace(h)
  BY <1>29, <1>s, <1>t, <1>u, <1>v, <1>c DEF FinishInPlace, shared
<1>30. CASE Recover(h)
  BY <1>30, <1>s, <1>t, <1>u, <1>v, <1>c DEF Recover, shared
<1>31. CASE SudoInstall(h)
  BY <1>31, <1>s, <1>t, <1>u, <1>v, <1>c DEF SudoInstall, shared
<1>32. CASE SudoMove(h)
  BY <1>32, <1>s, <1>t, <1>u, <1>v, <1>c DEF SudoMove, shared
<1>33. CASE ConsumeUpload(h)
  BY <1>33, <1>s, <1>t, <1>u, <1>v, <1>c DEF ConsumeUpload, shared
<1>34. CASE Cancel(h)
  BY <1>34, <1>s, <1>t, <1>u, <1>v, <1>c DEF Cancel, shared
<1>35. CASE CheckClone(h)
  BY <1>35, <1>s, <1>t, <1>u, <1>v, <1>c DEF CheckClone, rest, shared
<1>36. CASE StartClone(h)
  BY <1>36, <1>s, <1>t, <1>u, <1>v, <1>c DEF StartClone, rest, shared
<1>37. CASE FinishClone(h)
  BY <1>37, <1>s, <1>t, <1>u, <1>v, <1>c DEF FinishClone, rest, shared
<1>38. CASE CleanClone(h)
  BY <1>38, <1>s, <1>t, <1>u, <1>v, <1>c DEF CleanClone, rest, shared
<1>39. CASE CheckPatch(h)
  BY <1>39, <1>s, <1>t, <1>u, <1>v, <1>c DEF CheckPatch, rest, shared
<1>40. CASE ApplyPatch(h)
  BY <1>40, <1>s, <1>t, <1>u, <1>v, <1>c DEF ApplyPatch, rest, shared
<1>41. CASE WritePatched(h)
  BY <1>41, <1>s, <1>t, <1>u, <1>v, <1>c DEF WritePatched, rest, shared
<1>42. CASE CheckPush(h)
  BY <1>42, <1>s, <1>t, <1>u, <1>v, <1>c DEF CheckPush, rest, shared
<1>43. CASE Push(h)
  BY <1>43, <1>s, <1>t, <1>u, <1>v, <1>c DEF Push
<1>44. CASE ExportInit(h)
  BY <1>44, <1>s, <1>t, <1>u, <1>v, <1>c DEF ExportInit
<1>45. CASE AskChunk(h)
  BY <1>45, <1>s, <1>t, <1>u, <1>v, <1>c DEF AskChunk, rest, shared
<1>46. CASE ReadChunk(h)
  BY <1>46, <1>s, <1>t, <1>u, <1>v, <1>c DEF ReadChunk
<1>47. CASE ExportComplete(h)
  BY <1>47, <1>s, <1>t, <1>u, <1>v, <1>c DEF ExportComplete
<1>48. CASE Arrive(h)
  BY <1>48, <1>s, <1>t, <1>u, <1>v, <1>c DEF Arrive, rest, shared
<1>49. CASE BudgetSpent(h)
  BY <1>49, <1>s, <1>t, <1>u, <1>v, <1>c DEF BudgetSpent, rest, shared
<1>50. CASE StartList(h)
  BY <1>50, <1>s, <1>t, <1>u, <1>v, <1>c DEF StartList, StartWalk, rest, shared
<1>51. CASE StartSearch(h)
  BY <1>51, <1>s, <1>t, <1>u, <1>v, <1>c DEF StartSearch, StartWalk, rest, shared
<1>52. CASE WalkEnds(h)
  BY <1>52, <1>s, <1>t, <1>u, <1>v, <1>c DEF WalkEnds, Late, rest, shared
<1>53. CASE ListNext(h)
  BY <1>53, <1>s, <1>t, <1>u, <1>v, <1>c DEF ListNext, rest, shared
<1>54. CASE SearchNext(h)
  BY <1>54, <1>s, <1>t, <1>u, <1>v, <1>c DEF SearchNext, rest, shared
<1>55. CASE Abandon(h)
  BY <1>55, <1>s, <1>t, <1>u, <1>v, <1>c DEF Abandon, rest, shared
<1> QED
  BY <1>1, <1>2, <1>3, <1>4, <1>5, <1>6, <1>7, <1>8, <1>9, <1>10, <1>11,
     <1>12, <1>13, <1>14, <1>15, <1>16, <1>17, <1>18, <1>19, <1>20, <1>21, <1>22,
     <1>23, <1>24, <1>25, <1>26, <1>27, <1>28, <1>29, <1>30, <1>31, <1>32, <1>33,
     <1>34, <1>35, <1>36, <1>37, <1>38, <1>39, <1>40, <1>41, <1>42, <1>43, <1>44,
     <1>45, <1>46, <1>47, <1>48, <1>49, <1>50, <1>51, <1>52, <1>53, <1>54, <1>55
  DEF Served, Mutate, EditStep, GitStep, ReadStep

(***************************************************************************)
(* Exports: a session belongs to one request and hashes what it sent.      *)
(***************************************************************************)

(* No other export has the same identifier; the client has no frame before *)
(* those it precedes; the frames are the hashed chunks; none is ahead.     *)
Alone(h) == \A g \in Handlers \ {h} : w[g].op = "export" => w[g].dst # w[h].dst
NotAhead(f) == \A k \in DOMAIN f : \A i \in 0..(f[k][1] - 1) : Before(f, k, i)
Covers(f, s) ==
    \A i \in 1..Len(s) : \E k \in DOMAIN f : f[k] = <<i - 1, s[i]>> /\ ~Before(f, k, i - 1)
Below(f, n) == \A k \in DOMAIN f : f[k][1] < n
Frames == Seq(Nat \X Data)

(* The session of an identifier is of an export that was begun.            *)
Owned(id) ==
    exports[id] # NoSession =>
       /\ w[exports[id].by].op = "export" /\ w[exports[id].by].dst = id
       /\ w[exports[id].by].pc \notin {"idle", "check"}
       /\ Len(exports[id].hashed) = exports[id].next

(* What the client of an export may be waiting for.                        *)
Asks(h) ==
    /\ w[h].pc \in {"idle", "check"} => w[h].transfer = NoTransfer
    /\ w[h].pc = "idle" => w[h].op = "none"
    /\ w[h].pc \in {"exporting", "chunk"} => w[h].op = "export"
    /\ w[h].pc \in {"exporting", "chunk"} => w[h].transfer.digest = <<>>
    /\ w[h].pc = "chunk" /\ Alone(h) => w[h].transfer.by = h

(* What it has received, as long as it alone uses the identifier.          *)
Receives(h) ==
    w[h].op = "export" /\ Alone(h) /\ NotAhead(w[h].transfer.frames) =>
       /\ exports[w[h].dst] # NoSession =>
             /\ Covers(w[h].transfer.frames, exports[w[h].dst].hashed)
             /\ Below(w[h].transfer.frames, exports[w[h].dst].next)
       /\ w[h].transfer.digest # <<>> =>
             /\ Len(w[h].transfer.digest) = Chunks
             /\ Covers(w[h].transfer.frames, w[h].transfer.digest)

(* What a step of h may do to its export.                                  *)
Passes(h) ==
    /\ w[h].pc # "idle" =>
          w'[h].op = w[h].op /\ w'[h].dst = w[h].dst /\ w'[h].pc \notin {"idle", "check"}
    /\ w[h].pc = "idle" => w'[h].pc = "check"
    /\ \/ ExportInit(h) \/ AskChunk(h) \/ ReadChunk(h) \/ ExportComplete(h)
       \/ exports' = exports /\ w'[h].transfer = w[h].transfer
          /\ w'[h].pc \notin {"exporting", "chunk"}

LEMMA ServedPasses ==
  ASSUME JobsOK, NEW h \in Handlers, Served(h)
  PROVE  Passes(h)
PROOF
<1>1. CASE Start(h)
  BY <1>1 DEF JobsOK, Job, Passes, Start, rest, shared
<1>2. CASE CheckMoveCopy(h)
  BY <1>2 DEF JobsOK, Job, Passes, CheckMoveCopy, Asked, rest, Refuse, Answer, Goto, shared
<1>3. CASE TryDirectMove(h)
  BY <1>3
  DEF JobsOK, Job, Passes, TryDirectMove, Asked, rest, SyncThen, Answer, Goto, Refuse, shared
<1>4. CASE Recheck(h)
  BY <1>4 DEF JobsOK, Job, Passes, Recheck, Goto, rest, shared
<1>5. CASE Displace(h)
  <2>1. /\ w[h].pc = "displace"
        /\ \/ Goto(h, "over")
           \/ Answer(h, "error", {})
           \/ Answer(h, "error", {"reported"})
    BY <1>5 DEF Displace, CleanUp
  <2>9. exports' = exports
    BY <1>5 DEF Displace, rest, shared
  <2> QED
    BY <2>9, <2>1 DEF JobsOK, Job, Passes, Goto, Answer
<1>6. CASE MoveOver(h)
  <2>1. /\ w[h].pc = "over"
        /\ \/ Goto(h, "rollback") \/ Goto(h, "rollback_cross")
           \/ Answer(h, "error", {"sync"})
           \/ AfterCommit(h, Renamed(From(h), Dst(h)))
    BY <1>6 DEF MoveOver
  <2>9. exports' = exports
    BY <1>6 DEF MoveOver, rest, shared
  <2> QED
    BY <2>9, <2>1 DEF JobsOK, Job, Passes, Goto, Answer, AfterCommit, CleanUp
<1>7. CASE Rollback(h)
  <2>1. /\ w[h].pc \in {"rollback", "rollback_cross"}
        /\ \/ Goto(h, "stage")
           \/ Answer(h, "error", {})
           \/ Answer(h, "error", {"reported"})
    BY <1>7 DEF Rollback, CleanUp
  <2>9. exports' = exports
    BY <1>7 DEF Rollback, rest, shared
  <2> QED
    BY <2>9, <2>1 DEF JobsOK, Job, Passes, Goto, Answer
<1>8. CASE StageCopy(h)
  BY <1>8 DEF JobsOK, Job, Passes, StageCopy, rest, Refuse, shared, Answer
<1>9. CASE FinishCopy(h)
  BY <1>9 DEF JobsOK, Job, Passes, FinishCopy, rest, CleanUp, shared, Answer
<1>10. CASE CommitStaged(h)
  BY <1>10 DEF JobsOK, Job, Passes, CommitStaged, Goto, Asked, rest, shared
<1>11. CASE InstallStaged(h)
  BY <1>11 DEF JobsOK, Job, Passes, InstallStaged, rest, Asked, AfterCommit, Answer, CleanUp, shared
<1>12. CASE RemoveSource(h)
  BY <1>12 DEF JobsOK, Job, Passes, RemoveSource, rest, SyncThen, Answer, shared
<1>13. CASE CheckDelete(h)
  BY <1>13 DEF JobsOK, Job, Passes, CheckDelete, rest, Asked, Refuse, Goto, shared, Answer
<1>14. CASE StartBackup(h)
  BY <1>14 DEF JobsOK, Job, Passes, StartBackup, rest, Refuse, shared, Answer
<1>15. CASE FinishBackup(h)
  BY <1>15 DEF JobsOK, Job, Passes, FinishBackup, rest, Goto, Refuse, shared, Answer
<1>16. CASE Remove(h)
  BY <1>16 DEF JobsOK, Job, Passes, Remove, rest, Answer, Refuse, shared
<1>17. CASE ChangeMode(h)
  BY <1>17 DEF JobsOK, Job, Passes, ChangeMode, rest, Answer, Refuse, shared
<1>18. CASE ChangeOwner(h)
  BY <1>18 DEF JobsOK, Job, Passes, ChangeOwner, rest, Answer, Refuse, shared
<1>19. CASE WriteRole(h)
  BY <1>19 DEF JobsOK, Job, Passes, WriteRole, Answer, shared
<1>20. CASE LoadTarget(h)
  BY <1>20 DEF JobsOK, Job, Passes, LoadTarget, Asked, Refuse, shared, Answer
<1>21. CASE Validated(h)
  BY <1>21
  DEF JobsOK, Job, Passes, Validated, Refuse, Asked, EditDone, Goto, Creating, shared, Answer
<1>22. CASE MakeParents(h)
  BY <1>22 DEF JobsOK, Job, Passes, MakeParents, Asked, Creating, shared
<1>23. CASE MakeTemp(h)
  BY <1>23 DEF JobsOK, Job, Passes, MakeTemp, Creating, shared, Goto, EditFails, Answer, Asked
<1>24. CASE Persist(h)
  <2>0. w[h].pc = "persist"
    BY <1>24 DEF Persist
  <2>1. \/ EditDone(h, {})
        \/ Answer(h, "error", {})
        \/ Answer(h, "error", {"reported"})
    BY <1>24 DEF Persist, EditFails
  <2>9. exports' = exports
    BY <1>24 DEF Persist, rest, shared
  <2> QED
    BY <2>9, <2>0, <2>1 DEF JobsOK, Job, Passes, EditDone, Answer
<1>25. CASE Link(h)
  BY <1>25 DEF JobsOK, Job, Passes, Link, shared, EditDone, Goto, EditFails, Asked, Answer
<1>26. CASE SudoLinkFails(h)
  BY <1>26 DEF JobsOK, Job, Passes, SudoLinkFails, Asked, shared, EditFails, Answer
<1>27. CASE ReplaceReserved(h)
  <2>0. w[h].pc = "reserved"
    BY <1>27 DEF ReplaceReserved
  <2>1. \/ EditDone(h, {})
        \/ Answer(h, "error", {})
        \/ Answer(h, "error", {"reported"})
    BY <1>27 DEF ReplaceReserved, EditFails
  <2>9. exports' = exports
    BY <1>27 DEF ReplaceReserved, rest, shared
  <2> QED
    BY <2>9, <2>0, <2>1 DEF JobsOK, Job, Passes, EditDone, Answer
<1>28. CASE WriteInPlace(h)
  BY <1>28 DEF JobsOK, Job, Passes, WriteInPlace, shared, Goto, EditFails, Answer, Asked
<1>29. CASE FinishInPlace(h)
  BY <1>29 DEF JobsOK, Job, Passes, FinishInPlace, shared, EditDone, Goto, Asked, Answer
<1>30. CASE Recover(h)
  BY <1>30 DEF JobsOK, Job, Passes, Recover, shared, EditFails, Answer, Asked
<1>31. CASE SudoInstall(h)
  BY <1>31 DEF JobsOK, Job, Passes, SudoInstall, Creating, shared, Goto, EditFails, Answer, Asked
<1>32. CASE SudoMove(h)
  BY <1>32 DEF JobsOK, Job, Passes, SudoMove, shared, EditDone, EditFails, Answer, Asked
<1>33. CASE ConsumeUpload(h)
  BY <1>33 DEF JobsOK, Job, Passes, ConsumeUpload, Answer, shared
<1>34. CASE Cancel(h)
  BY <1>34 DEF JobsOK, Job, Passes, Cancel, Asked, shared
<1>35. CASE CheckClone(h)
  BY <1>35 DEF JobsOK, Job, Passes, CheckClone, Refuse, Goto, rest, Answer, shared
<1>36. CASE StartClone(h)
  BY <1>36 DEF JobsOK, Job, Passes, StartClone, rest, Goto, shared
<1>37. CASE FinishClone(h)
  BY <1>37 DEF JobsOK, Job, Passes, FinishClone, rest, Answer, Goto, shared
<1>38. CASE CleanClone(h)
  BY <1>38 DEF JobsOK, Job, Passes, CleanClone, rest, Answer, shared
<1>39. CASE CheckPatch(h)
  BY <1>39 DEF JobsOK, Job, Passes, CheckPatch, rest, Refuse, Asked, Answer, Goto, shared
<1>40. CASE ApplyPatch(h)
  BY <1>40 DEF JobsOK, Job, Passes, ApplyPatch, rest, Refuse, shared, Answer
<1>41. CASE WritePatched(h)
  BY <1>41 DEF JobsOK, Job, Passes, WritePatched, rest, Answer, shared
<1>42. CASE CheckPush(h)
  BY <1>42 DEF JobsOK, Job, Passes, CheckPush, Asked, Refuse, rest, Answer, shared
<1>43. CASE Push(h)
  BY <1>43 DEF JobsOK, Job, Passes, Push, Answer
<1>44. CASE ExportInit(h)
  <2>1. w[h].pc = "check" /\ (Goto(h, "exporting") \/ Refuse(h))
    BY <1>44 DEF ExportInit
  <2>2. w'[h].op = w[h].op /\ w'[h].dst = w[h].dst /\ w'[h].pc \in {"exporting", "done"}
    BY <2>1 DEF JobsOK, Job, Goto, Refuse, Answer
  <2> QED
    BY <1>44, <2>1, <2>2 DEF Passes
<1>45. CASE AskChunk(h)
  <2>1. w[h].pc = "exporting"
    BY <1>45 DEF AskChunk
  <2>2. CASE Refuse(h)
    BY <1>45, <2>1, <2>2 DEF JobsOK, Job, Passes, Refuse, Answer
  <2>3. CASE ~Refuse(h)
    <3>1. PICK i \in 0..(Chunks - 1) :
             w' = [w EXCEPT ![h].pc = "chunk", ![h].transfer.index = i,
                            ![h].transfer.by = exports[w[h].dst].by,
                            ![h].transfer.path = exports[w[h].dst].path,
                            ![h].transfer.asks = @ + 1]
      BY <1>45, <2>3 DEF AskChunk
    <3> QED
      BY <1>45, <2>1, <3>1 DEF JobsOK, Job, Passes
  <2> QED
    BY <2>2, <2>3
<1>46. CASE ReadChunk(h)
  <2>1. PICK f : w' = [w EXCEPT ![h].pc = "exporting", ![h].transfer.frames = f]
    BY <1>46, ChunkIsRead
  <2>2. w[h].pc = "chunk" /\ fs' = fs
    BY <1>46, ChunkIsRead
  <2> QED
    BY <2>1, <2>2, <1>46 DEF JobsOK, Job, Passes
<1>47. CASE ExportComplete(h)
  BY <1>47 DEF JobsOK, Job, Passes, ExportComplete, Refuse, Answer
<1>48. CASE Arrive(h)
  BY <1>48 DEF JobsOK, Job, Passes, Arrive, rest, shared
<1>49. CASE BudgetSpent(h)
  BY <1>49 DEF JobsOK, Job, Passes, BudgetSpent, rest, shared
<1>50. CASE StartList(h)
  BY <1>50 DEF JobsOK, Job, Passes, StartList, StartWalk, rest, Answer, Refuse, shared
<1>51. CASE StartSearch(h)
  BY <1>51 DEF JobsOK, Job, Passes, StartSearch, StartWalk, rest, Answer, Refuse, shared
<1>52. CASE WalkEnds(h)
  BY <1>52 DEF JobsOK, Job, Passes, WalkEnds, Answer, Late, rest, shared
<1>53. CASE ListNext(h)
  <2>1. PICK n, hit, notes : Visited(h, n, hit, notes)
    BY <1>53 DEF ListNext
  <2>2. w[h].pc = "walk" /\ exports' = exports
    BY <1>53 DEF ListNext, Visits, rest, shared
  <2>3. /\ w'[h].op = w[h].op /\ w'[h].dst = w[h].dst /\ w'[h].transfer = w[h].transfer
        /\ w'[h].pc \in {"walk", "done"}
    BY <2>1 DEF Visited, JobsOK, Job
  <2> QED
    BY <2>2, <2>3 DEF Passes
<1>54. CASE SearchNext(h)
  <2>1. PICK n, hit, notes : Visited(h, n, hit, notes)
    BY <1>54 DEF SearchNext
  <2>2. w[h].pc = "walk" /\ exports' = exports
    BY <1>54 DEF SearchNext, Visits, rest, shared
  <2>3. /\ w'[h].op = w[h].op /\ w'[h].dst = w[h].dst /\ w'[h].transfer = w[h].transfer
        /\ w'[h].pc \in {"walk", "done"}
    BY <2>1 DEF Visited, JobsOK, Job
  <2> QED
    BY <2>2, <2>3 DEF Passes
<1>55. CASE Abandon(h)
  BY <1>55 DEF JobsOK, Job, Passes, Abandon, rest, shared
<1> QED
  BY <1>1, <1>2, <1>3, <1>4, <1>5, <1>6, <1>7, <1>8, <1>9, <1>10, <1>11,
     <1>12, <1>13, <1>14, <1>15, <1>16, <1>17, <1>18, <1>19, <1>20, <1>21, <1>22,
     <1>23, <1>24, <1>25, <1>26, <1>27, <1>28, <1>29, <1>30, <1>31, <1>32, <1>33,
     <1>34, <1>35, <1>36, <1>37, <1>38, <1>39, <1>40, <1>41, <1>42, <1>43, <1>44,
     <1>45, <1>46, <1>47, <1>48, <1>49, <1>50, <1>51, <1>52, <1>53, <1>54, <1>55
  DEF Served, Mutate, EditStep, GitStep, ReadStep

LEMMA AppendFacts ==
  ASSUME NEW S, NEW f \in Seq(S), NEW e \in S
  PROVE  /\ Append(f, e) \in Seq(S) /\ Len(Append(f, e)) = Len(f) + 1
         /\ DOMAIN f = 1..Len(f) /\ DOMAIN Append(f, e) = 1..(Len(f) + 1)
         /\ \A k \in 1..Len(f) : Append(f, e)[k] = f[k]
         /\ Append(f, e)[Len(f) + 1] = e
         /\ Len(f) \in Nat
PROOF
  OBVIOUS

LEMMA BeforeGrows ==
  ASSUME NEW f \in Frames, NEW e \in Nat \X Data
  PROVE  \A k \in 1..Len(f) : \A i : Before(Append(f, e), k, i) <=> Before(f, k, i)
PROOF
<1> TAKE k \in 1..Len(f)
<1> TAKE i
<1>1. \A j \in 1..(k - 1) : Append(f, e)[j] = f[j]
  BY AppendFacts DEF Frames
<1> QED
  BY <1>1 DEF Before

LEMMA CoversGrows ==
  ASSUME NEW f \in Frames, NEW s, NEW e \in Nat \X Data, Covers(f, s)
  PROVE  Covers(Append(f, e), s)
PROOF
<1> SUFFICES ASSUME NEW i \in 1..Len(s)
             PROVE  \E k \in DOMAIN Append(f, e) : Append(f, e)[k] = <<i - 1, s[i]>>
                                                   /\ ~Before(Append(f, e), k, i - 1)
  BY DEF Covers
<1>1. PICK k \in DOMAIN f : f[k] = <<i - 1, s[i]>> /\ ~Before(f, k, i - 1)
  BY DEF Covers
<1>2. k \in 1..Len(f) /\ k \in DOMAIN Append(f, e) /\ Append(f, e)[k] = f[k]
  BY <1>1, AppendFacts DEF Frames
<1>3. ~Before(Append(f, e), k, i - 1)
  BY <1>1, <1>2, BeforeGrows
<1> QED
  BY <1>1, <1>2, <1>3

LEMMA BelowGrows ==
  ASSUME NEW f \in Frames, NEW e \in Nat \X Data, NEW n \in Nat, Below(f, n), e[1] < n
  PROVE  Below(Append(f, e), n)
PROOF
<1> DEFINE fnew == Append(f, e)
<1>1. /\ DOMAIN f = 1..Len(f) /\ DOMAIN fnew = 1..(Len(f) + 1) /\ fnew[Len(f) + 1] = e
      /\ Len(f) \in Nat /\ \A k \in 1..Len(f) : fnew[k] = f[k]
  BY DEF Frames
<1> HIDE DEF fnew
<1> SUFFICES ASSUME NEW k \in DOMAIN fnew PROVE fnew[k][1] < n
  BY DEF Below, fnew
<1>2. CASE k \in 1..Len(f)
  BY <1>1, <1>2 DEF Below
<1>3. CASE k = Len(f) + 1
  BY <1>1, <1>3
<1>4. DOMAIN fnew = 1..(Len(f) + 1) /\ Len(f) \in Nat
  BY <1>1
<1>5. k \in 1..Len(f) \/ k = Len(f) + 1
  BY <1>4
<1> QED
  BY <1>2, <1>3, <1>5

LEMMA CoversNext ==
  ASSUME NEW f \in Frames, NEW s \in Seq(Data), NEW d \in Data, Covers(f, s), Below(f, Len(s))
  PROVE  Covers(Append(f, <<Len(s), d>>), Append(s, d))
PROOF
<1> DEFINE e == <<Len(s), d>>
           g == Append(f, e)
<1>1. e \in Nat \X Data
  OBVIOUS
<1> HIDE DEF e
<1>2. /\ DOMAIN f = 1..Len(f) /\ DOMAIN g = 1..(Len(f) + 1) /\ g[Len(f) + 1] = e
      /\ Len(f) \in Nat /\ \A k \in 1..Len(f) : g[k] = f[k]
  BY <1>1, AppendFacts DEF Frames
<1>3. Covers(g, s)
  BY <1>1, CoversGrows
<1> HIDE DEF g
<1>4. Len(Append(s, d)) = Len(s) + 1 /\ Len(s) \in Nat
      /\ \A i \in 1..Len(s) : Append(s, d)[i] = s[i]
      /\ Append(s, d)[Len(s) + 1] = d
  OBVIOUS
<1>5. ASSUME NEW i \in 1..Len(s)
      PROVE  \E k \in DOMAIN g : g[k] = <<i - 1, Append(s, d)[i]>> /\ ~Before(g, k, i - 1)
  BY <1>3, <1>4, <1>5 DEF Covers
<1>6. \E k \in DOMAIN g : g[k] = <<Len(s), d>> /\ ~Before(g, k, Len(s))
  <2>1. g[Len(f) + 1] = <<Len(s), d>>
    BY <1>2 DEF e
  <2>2. ~Before(g, Len(f) + 1, Len(s))
    <3> SUFFICES ASSUME NEW j \in 1..(Len(f) + 1 - 1), g[j][1] = Len(s) PROVE FALSE
      BY DEF Before
    <3>1. j \in 1..Len(f)
      BY <1>2
    <3>2. f[j][1] < Len(s) /\ g[j] = f[j]
      BY <1>2, <3>1 DEF Below
    <3> QED
      BY <1>4, <3>2
  <2>3. Len(f) + 1 \in DOMAIN g
    BY <1>2
  <2> QED
    BY <2>1, <2>2, <2>3
<1>7. ASSUME NEW i \in 1..Len(Append(s, d))
      PROVE  \E k \in DOMAIN g : g[k] = <<i - 1, Append(s, d)[i]>> /\ ~Before(g, k, i - 1)
  <2>1. CASE i \in 1..Len(s)
    BY <1>5, <2>1
  <2>2. CASE i = Len(s) + 1
    <3>1. i - 1 = Len(s) /\ Append(s, d)[i] = d
      BY <1>4, <2>2
    <3> QED
      BY <1>6, <3>1
  <2> QED
    BY <1>4, <2>1, <2>2
<1> QED
  BY <1>7 DEF Covers, g, e

LEMMA NotAheadShrinks ==
  ASSUME NEW f \in Frames, NEW e \in Nat \X Data, NotAhead(Append(f, e))
  PROVE  /\ NotAhead(f)
         /\ \A n \in Nat : Below(f, n) => e[1] <= n
PROOF
<1> DEFINE g == Append(f, e)
<1>1. /\ DOMAIN f = 1..Len(f) /\ DOMAIN g = 1..(Len(f) + 1) /\ g[Len(f) + 1] = e
      /\ Len(f) \in Nat /\ \A k \in 1..Len(f) : g[k] = f[k]
  BY AppendFacts DEF Frames
<1>2. \A k \in 1..Len(f) : \A i : Before(g, k, i) <=> Before(f, k, i)
  BY BeforeGrows
<1>3. NotAhead(g)
  OBVIOUS
<1> HIDE DEF g
<1>4. NotAhead(f)
  BY <1>1, <1>2, <1>3 DEF NotAhead
<1>5. ASSUME NEW n \in Nat, Below(f, n), ~(e[1] <= n) PROVE FALSE
  <2>1. n \in 0..(g[Len(f) + 1][1] - 1)
    BY <1>1, <1>5
  <2>2. Before(g, Len(f) + 1, n)
    BY <1>1, <1>3, <2>1 DEF NotAhead
  <2>3. PICK j \in 1..(Len(f) + 1 - 1) : g[j][1] = n
    BY <2>2 DEF Before
  <2>4. j \in 1..Len(f) /\ f[j][1] = n
    BY <1>1, <2>3
  <2> QED
    BY <1>1, <1>5, <2>4 DEF Below
<1> QED
  BY <1>4, <1>5

LEMMA AloneEarlier ==
  ASSUME NEW g \in Handlers, NEW h \in Handlers, Own(g), Passes(g), Asks(g),
         h # g \/ w[h].pc # "idle", Alone(h)'
  PROVE  Alone(h)
PROOF
<1> SUFFICES ASSUME NEW k \in Handlers \ {h}, w[k].op = "export"
             PROVE  w[k].dst # w[h].dst
  BY DEF Alone
<1>1. w'[k].op = "export" /\ w'[k].dst = w[k].dst
  BY DEF Own, Passes, Asks
<1>2. w'[h].dst = w[h].dst
  BY DEF Own, Passes
<1> QED
  BY <1>1, <1>2 DEF Alone

LEMMA OwnerStays ==
  ASSUME NEW g \in Handlers, Own(g), Passes(g), NEW id \in Names, SharedOK, Owned(id),
         exports[id] # NoSession
  PROVE  LET b == exports[id].by
         IN  /\ b \in Handlers
             /\ w'[b].op = "export" /\ w'[b].dst = id /\ w'[b].pc \notin {"idle", "check"}
             /\ w[b].op = "export" /\ w[b].dst = id /\ w[b].pc \notin {"idle", "check"}
PROOF
<1> DEFINE b == exports[id].by
<1>1. b \in Handlers
  BY DEF SharedOK, Open
<1>2. w[b].op = "export" /\ w[b].dst = id /\ w[b].pc \notin {"idle", "check"}
  BY DEF Owned
<1>3. b # g => w'[b] = w[b]
  BY <1>1 DEF Own
<1>4. b = g => w'[b].op = w[b].op /\ w'[b].dst = w[b].dst /\ w'[b].pc \notin {"idle", "check"}
  BY <1>2 DEF Passes
<1> QED
  BY <1>1, <1>2, <1>3, <1>4

(* A session changes at the hands of its own requests, and of the sweep.   *)
LEMMA SessionsElsewhere ==
  ASSUME JobsOK, SharedOK, NEW g \in Handlers, Passes(g), Asks(g), NEW id \in Names,
         w[g].op = "export" => w[g].dst # id
  PROVE  exports'[id] \in {exports[id], NoSession}
PROOF
<1>1. w[g].dst \in Names
  BY FieldFacts
<1>2. CASE ExportInit(g)
  BY <1>1, <1>2 DEF ExportInit, SharedOK
<1>3. CASE AskChunk(g)
  BY <1>3 DEF AskChunk, rest, shared
<1>4. CASE ReadChunk(g)
  BY <1>1, <1>4 DEF ReadChunk, Asks, SharedOK
<1>5. CASE ExportComplete(g)
  BY <1>1, <1>5 DEF ExportComplete, Asks, SharedOK
<1> QED
  BY <1>2, <1>3, <1>4, <1>5 DEF Passes

LEMMA AskedChunk ==
  ASSUME JobsOK, NEW h \in Handlers, AskChunk(h)
  PROVE  /\ w[h].pc = "exporting" /\ exports' = exports
         /\ \/ w'[h].pc = "done" /\ w'[h].transfer = w[h].transfer
            \/ /\ w'[h].pc = "chunk" /\ exports[w[h].dst] # NoSession
               /\ w'[h].transfer.by = exports[w[h].dst].by
               /\ w'[h].transfer.frames = w[h].transfer.frames
               /\ w'[h].transfer.digest = w[h].transfer.digest
PROOF
<1>1. w[h].pc = "exporting" /\ exports' = exports
  BY DEF AskChunk, rest, shared
<1>2. CASE exports[w[h].dst] = NoSession
  <2>1. Refuse(h)
    BY <1>2 DEF AskChunk
  <2> QED
    BY <1>1, <2>1, AnswerFacts DEF Refuse
<1>3. CASE exports[w[h].dst] # NoSession
  <2>1. PICK i \in 0..(Chunks - 1) :
           w' = [w EXCEPT ![h].pc = "chunk", ![h].transfer.index = i,
                          ![h].transfer.by = exports[w[h].dst].by,
                          ![h].transfer.path = exports[w[h].dst].path,
                          ![h].transfer.asks = @ + 1]
    BY <1>3 DEF AskChunk
  <2> QED
    BY <1>1, <1>3, <2>1 DEF JobsOK, Job, Transfer
<1> QED
  BY <1>2, <1>3

LEMMA ChunkRead ==
  ASSUME JobsOK, FilesOK, SharedOK, NEW h \in Handlers, Asking(h), ReadChunk(h)
  PROVE  /\ w[h].pc = "chunk" /\ w'[h].pc = "exporting"
         /\ w'[h].transfer.digest = w[h].transfer.digest
         /\ w'[h].transfer.by = w[h].transfer.by
         /\ \/ exports' = exports /\ w'[h].transfer.frames = w[h].transfer.frames
            \/ \E d \in Data :
                  /\ w'[h].transfer.frames =
                        Append(w[h].transfer.frames, <<w[h].transfer.index, d>>)
                  /\ IF exports[w[h].dst].by = w[h].transfer.by
                        /\ w[h].transfer.index = exports[w[h].dst].next
                     THEN exports' = [exports EXCEPT
                             ![w[h].dst].next = @ + 1,
                             ![w[h].dst].hashed = Append(@, d)]
                     ELSE exports' = exports
PROOF
<1> DEFINE t == w[h].transfer
           s == exports[w[h].dst]
           file == <<t.path, "path">>
           readable == Exists(file) /\ fs[file].kind = "file"
           frames == IF readable THEN Append(t.frames, <<t.index, fs[file].data>>) ELSE t.frames
<1>1. w[h].pc = "chunk"
  BY DEF ReadChunk
<1>2. w' = [w EXCEPT ![h].pc = "exporting", ![h].transfer.frames = frames]
  BY DEF ReadChunk
<1>3. exports' = IF readable /\ s.by = t.by /\ t.index = s.next
                 THEN [exports EXCEPT ![w[h].dst].next = @ + 1,
                                      ![w[h].dst].hashed = Append(@, fs[file].data)]
                 ELSE exports
  BY DEF ReadChunk, Hashed
<1>4. readable => fs[file].data \in Data
  <2>2. file \in Path
    BY <1>1 DEF Asking, Path
  <2> QED
    BY <2>2, EntryFacts DEF Exists, FilesOK, Files, FullEntry
<1> HIDE DEF readable, frames
<1>5. /\ w'[h].pc = "exporting" /\ w'[h].transfer.frames = frames
      /\ w'[h].transfer.digest = w[h].transfer.digest
      /\ w'[h].transfer.by = w[h].transfer.by
  BY <1>2 DEF JobsOK, Job, Transfer
<1>6. CASE readable
  BY <1>1, <1>3, <1>4, <1>5, <1>6 DEF frames
<1>7. CASE ~readable
  BY <1>1, <1>3, <1>5, <1>7 DEF frames
<1> QED
  BY <1>6, <1>7

LEMMA ExportCompleted ==
  ASSUME JobsOK, SharedOK, NEW h \in Handlers, ExportComplete(h)
  PROVE  LET s == exports[w[h].dst]
         IN  /\ w[h].pc = "exporting" /\ w'[h].pc = "done"
             /\ exports' = [exports EXCEPT ![w[h].dst] = NoSession]
             /\ w'[h].transfer.frames = w[h].transfer.frames
             /\ \/ w'[h].transfer.digest = w[h].transfer.digest
                \/ w'[h].transfer.digest = <<>>
                \/ /\ s # NoSession /\ s.next = Chunks
                   /\ w'[h].transfer.digest = s.hashed
PROOF
<1>1. w[h].pc = "exporting" /\ exports' = [exports EXCEPT ![w[h].dst] = NoSession]
  BY DEF ExportComplete
<1>2. CASE exports[w[h].dst] = NoSession
  <2>1. Refuse(h)
    BY <1>2 DEF ExportComplete
  <2> QED
    BY <1>1, <2>1, AnswerFacts DEF Refuse
<1>3. CASE exports[w[h].dst] # NoSession
  BY <1>1, <1>3 DEF ExportComplete, JobsOK, Job, Transfer
<1> QED
  BY <1>2, <1>3

LEMMA ExportStarted ==
  ASSUME JobsOK, SharedOK, NEW h \in Handlers, ExportInit(h)
  PROVE  /\ w[h].pc = "check" /\ w[h].op = "export" /\ w'[h].transfer = w[h].transfer
         /\ w'[h].pc \in {"exporting", "done"}
         /\ \A id \in Names :
               \/ exports'[id] \in {exports[id], NoSession}
               \/ /\ id = w[h].dst /\ exports'[id].by = h /\ w'[h].pc = "exporting"
                  /\ exports'[id].hashed = <<>> /\ exports'[id].next = 0
PROOF
<1>1. w[h].pc = "check" /\ w[h].op = "export"
  BY DEF ExportInit
<1>2. Goto(h, "exporting") \/ Refuse(h)
  BY DEF ExportInit
<1>3. w'[h].transfer = w[h].transfer /\ w'[h].pc \in {"exporting", "done"}
  BY <1>2 DEF Goto, Refuse, Answer, JobsOK, Job
<1>4. Goto(h, "exporting") => w'[h].pc = "exporting"
  BY DEF Goto, JobsOK, Job
<1>5. \A id \in Names :
         \/ exports'[id] \in {exports[id], NoSession}
         \/ /\ id = w[h].dst /\ exports'[id].by = h /\ Goto(h, "exporting")
            /\ exports'[id].hashed = <<>> /\ exports'[id].next = 0
  BY FieldFacts DEF ExportInit, SharedOK
<1> QED
  BY <1>1, <1>3, <1>4, <1>5

Sessions == \A id \in Names : Owned(id)
Clients == \A h \in Handlers : Asks(h) /\ Receives(h) /\ Asking(h)

LEMMA SessionsStep ==
  ASSUME JobsOK, FilesOK, SharedOK, Sessions, Clients,
         NEW g \in Handlers, Own(g), Passes(g)
  PROVE  Sessions'
PROOF
<1> SUFFICES ASSUME NEW id \in Names PROVE Owned(id)'
  BY DEF Sessions
<1>0. Owned(id) /\ Asks(g) /\ Asking(g) /\ w[g].dst \in Names
  BY FieldFacts DEF Sessions, Clients
<1>1. CASE exports'[id] = NoSession
  BY <1>1 DEF Owned
<1>2. CASE exports'[id] = exports[id] /\ exports[id] # NoSession
  <2>1. Len(exports[id].hashed) = exports[id].next
    BY <1>0, <1>2 DEF Owned
  <2> QED
    BY <1>0, <1>2, <2>1, OwnerStays DEF Owned
<1>3. CASE ExportInit(g) /\ exports'[id] \notin {exports[id], NoSession}
  <2>1. /\ id = w[g].dst /\ exports'[id].by = g /\ w'[g].pc = "exporting"
        /\ exports'[id].hashed = <<>> /\ exports'[id].next = 0
        /\ w[g].pc = "check" /\ w[g].op = "export"
    BY <1>3, ExportStarted
  <2>2. w'[g].op = "export" /\ w'[g].dst = id
    BY <2>1 DEF Passes
  <2> QED
    BY <2>1, <2>2 DEF Owned
<1>4. CASE ReadChunk(g) /\ exports'[id] # exports[id]
  <2> DEFINE s == exports[id]
  <2>1. PICK d \in Data : /\ w[g].dst = id
                          /\ exports[id].by = w[g].transfer.by
                          /\ exports' = [exports EXCEPT ![id].next = @ + 1,
                                                        ![id].hashed = Append(@, d)]
    <3>1. PICK d \in Data : /\ exports[w[g].dst].by = w[g].transfer.by
                            /\ exports' = [exports EXCEPT ![w[g].dst].next = @ + 1,
                                                          ![w[g].dst].hashed = Append(@, d)]
      BY <1>0, <1>4, ChunkRead
    <3>2. w[g].dst = id
      BY <1>0, <1>4, <3>1 DEF SharedOK
    <3> QED
      BY <3>1, <3>2
  <2>2. w[g].transfer.by \in Handlers
    BY <1>0, <1>4 DEF Asking, ReadChunk
  <2>3. exports[id] # NoSession
    BY <2>1, <2>2, NobodyAssumption DEF NoSession
  <2>4. exports[id] \in Session
    BY DEF SharedOK
  <2>5. /\ exports'[id].by = exports[id].by
        /\ exports'[id].next = exports[id].next + 1
        /\ exports'[id].hashed = Append(exports[id].hashed, d)
    BY <2>1, <2>4 DEF SharedOK, Session
  <2>6. Len(exports'[id].hashed) = exports'[id].next
    BY <1>0, <2>3, <2>4, <2>5 DEF Owned, Session
  <2> QED
    BY <1>0, <2>3, <2>5, <2>6, OwnerStays DEF Owned
<1>5. CASE AskChunk(g)
  BY <1>1, <1>2, <1>5, AskedChunk
<1>6. CASE ExportComplete(g)
  <2>1. exports'[id] \in {exports[id], NoSession}
    BY <1>0, <1>6 DEF ExportComplete, SharedOK
  <2> QED
    BY <1>1, <1>2, <2>1
<1> QED
  BY <1>1, <1>2, <1>3, <1>4, <1>5, <1>6 DEF Passes

LEMMA AsksStep ==
  ASSUME JobsOK, FilesOK, SharedOK, Sessions, Clients,
         NEW g \in Handlers, Own(g), Passes(g), NEW h \in Handlers
  PROVE  Asks(h)'
PROOF
<1>0. Asks(h) /\ Asking(h) /\ Asks(g)
  BY DEF Clients
<1>1. CASE h # g
  <2>1. w'[h] = w[h]
    BY <1>1 DEF Own
  <2>2. Alone(h)' => Alone(h)
    BY <1>0, <1>1, AloneEarlier
  <2> QED
    BY <1>0, <2>1, <2>2 DEF Asks
<1>2. CASE h = g /\ w[h].pc = "idle"
  <2>1. w'[h].pc = "check" /\ w'[h].transfer = w[h].transfer
    BY <1>2 DEF Passes, ExportInit, AskChunk, ReadChunk, ExportComplete
  <2> QED
    BY <1>0, <1>2, <2>1 DEF Asks
<1>3. CASE h = g /\ w[h].pc # "idle"
  <2>1. /\ w'[h].op = w[h].op /\ w'[h].dst = w[h].dst /\ w'[h].pc \notin {"idle", "check"}
    BY <1>3 DEF Passes
  <2>2. CASE ExportInit(h)
    BY <1>0, <2>1, <2>2, ExportStarted DEF Asks, NoTransfer
  <2>3. CASE AskChunk(h)
    <3>1. w'[h].pc = "chunk" /\ Alone(h)' => w'[h].transfer.by = h
      <4> SUFFICES ASSUME w'[h].pc = "chunk", Alone(h)' PROVE w'[h].transfer.by = h
        OBVIOUS
      <4> DEFINE b == exports[w[h].dst].by
      <4>1. exports[w[h].dst] # NoSession /\ w'[h].transfer.by = b
        BY <2>3, AskedChunk
      <4>2. w[h].dst \in Names /\ Owned(w[h].dst)
        BY FieldFacts DEF Sessions
      <4>3. b \in Handlers /\ w'[b].op = "export" /\ w'[b].dst = w[h].dst
        BY <1>3, <4>1, <4>2, OwnerStays
      <4>4. b = h
        BY <2>1, <4>3 DEF Alone
      <4> QED
        BY <4>1, <4>4
    <3> QED
      BY <1>0, <2>1, <2>3, <3>1, AskedChunk DEF Asks
  <2>4. CASE ReadChunk(h)
    BY <1>0, <2>1, <2>4, ChunkRead DEF Asks
  <2>5. CASE ExportComplete(h)
    BY <1>0, <2>1, <2>5, ExportCompleted DEF Asks
  <2>6. CASE w'[h].pc \notin {"exporting", "chunk"}
    BY <2>1, <2>6 DEF Asks
  <2> QED
    BY <1>3, <2>2, <2>3, <2>4, <2>5, <2>6 DEF Passes
<1> QED
  BY <1>1, <1>2, <1>3

LEMMA NothingCovered ==
  /\ Covers(<<>>, <<>>)
  /\ \A n : Below(<<>>, n)
PROOF
  BY DEF Covers, Below

LEMMA ReceivesStep ==
  ASSUME JobsOK, FilesOK, SharedOK, Sessions, Clients, JobsOK', SharedOK',
         NEW g \in Handlers, Own(g), Passes(g), NEW h \in Handlers
  PROVE  Receives(h)'
PROOF
<1>0. Asks(h) /\ Asking(h) /\ Asks(g) /\ Receives(h) /\ w[h].dst \in Names
      /\ Owned(w[h].dst)
  BY FieldFacts DEF Clients, Sessions
<1>1. CASE h # g
  <2> SUFFICES ASSUME w'[h].op = "export", Alone(h)', NotAhead(w'[h].transfer.frames)
               PROVE  /\ exports'[w'[h].dst] # NoSession =>
                            /\ Covers(w'[h].transfer.frames, exports'[w'[h].dst].hashed)
                            /\ Below(w'[h].transfer.frames, exports'[w'[h].dst].next)
                      /\ w'[h].transfer.digest # <<>> =>
                            /\ Len(w'[h].transfer.digest) = Chunks
                            /\ Covers(w'[h].transfer.frames, w'[h].transfer.digest)
    BY DEF Receives, NotAhead, Covers, Below, Before
  <2>1. w'[h] = w[h]
    BY <1>1 DEF Own
  <2>2. Alone(h)
    BY <1>0, <1>1, AloneEarlier
  <2>3. w[g].op = "export" => w[g].dst # w[h].dst
    BY <1>1, <2>2 DEF Alone
  <2>4. exports'[w[h].dst] \in {exports[w[h].dst], NoSession}
    BY <1>0, <2>3, SessionsElsewhere
  <2> QED
    BY <1>0, <2>1, <2>2, <2>4 DEF Receives
<1>2. CASE h = g /\ w[h].pc = "idle"
  <2>1. exports' = exports /\ w'[h].transfer = NoTransfer /\ w'[h].pc = "check"
    BY <1>0, <1>2 DEF Passes, Asks, ExportInit, AskChunk, ReadChunk, ExportComplete
  <2>2. Alone(h)' /\ w'[h].op = "export" => exports'[w'[h].dst] = NoSession
    <3> SUFFICES ASSUME Alone(h)', exports[w'[h].dst] # NoSession PROVE FALSE
      BY <2>1
    <3> DEFINE id == w'[h].dst
               b == exports[id].by
    <3>1. id \in Names
      BY DEF JobsOK, Job
    <3>2. Owned(id)
      BY <3>1 DEF Sessions
    <3>3. /\ b \in Handlers /\ w'[b].op = "export" /\ w'[b].dst = id
          /\ w'[b].pc \notin {"idle", "check"}
      BY <1>2, <3>1, <3>2, OwnerStays
    <3>4. b # h
      BY <2>1, <3>3
    <3> QED
      BY <3>3, <3>4 DEF Alone
  <2> QED
    BY <2>1, <2>2 DEF Receives, NoTransfer, NotAhead, Covers, Below, Before
<1>3. CASE h = g /\ w[h].pc # "idle"
  <2>1. w'[h].op = w[h].op /\ w'[h].dst = w[h].dst
    BY <1>3 DEF Passes
  <2> SUFFICES ASSUME w[h].op = "export", Alone(h)', NotAhead(w'[h].transfer.frames)
               PROVE  /\ exports'[w[h].dst] # NoSession =>
                            /\ Covers(w'[h].transfer.frames, exports'[w[h].dst].hashed)
                            /\ Below(w'[h].transfer.frames, exports'[w[h].dst].next)
                      /\ w'[h].transfer.digest # <<>> =>
                            /\ Len(w'[h].transfer.digest) = Chunks
                            /\ Covers(w'[h].transfer.frames, w'[h].transfer.digest)
    BY <2>1 DEF Receives, NotAhead, Covers, Below, Before
  <2>2. Alone(h)
    BY <1>0, <1>3, AloneEarlier
  <2> DEFINE id == w[h].dst
             f == w[h].transfer.frames
             s == exports[id]
  <2>3. NotAhead(f) =>
           /\ s # NoSession => Covers(f, s.hashed) /\ Below(f, s.next)
           /\ w[h].transfer.digest # <<>> =>
                 Len(w[h].transfer.digest) = Chunks /\ Covers(f, w[h].transfer.digest)
    BY <1>0, <2>2 DEF Receives
  <2>4. f \in Frames /\ w[h].transfer.index \in Nat /\ s \in Session
    BY <1>0, FieldFacts DEF Transfer, Frames, SharedOK
  <2>5. CASE exports'[id] \in {s, NoSession} /\ w'[h].transfer = w[h].transfer
    BY <2>3, <2>5
  <2>6. CASE ExportInit(h)
    <3>1. CASE exports'[id] \in {s, NoSession}
      BY <2>5, <2>6, <3>1, ExportStarted
    <3>2. CASE exports'[id] \notin {s, NoSession}
      <4>1. exports'[id].hashed = <<>> /\ w[h].pc = "check" /\ w'[h].transfer = w[h].transfer
        BY <1>0, <2>6, <3>2, ExportStarted
      <4>2. w'[h].transfer.frames = <<>> /\ w'[h].transfer.digest = <<>>
        BY <1>0, <4>1 DEF Asks, NoTransfer
      <4> QED
        BY <4>1, <4>2, NothingCovered
    <3> QED
      BY <3>1, <3>2
  <2>7. CASE AskChunk(h)
    BY <2>3, <2>7, AskedChunk
  <2>8. CASE ExportComplete(h)
    <3>1. /\ exports'[id] = NoSession /\ w'[h].transfer.frames = f
          /\ \/ w'[h].transfer.digest = w[h].transfer.digest
             \/ w'[h].transfer.digest = <<>>
             \/ s # NoSession /\ s.next = Chunks /\ w'[h].transfer.digest = s.hashed
      BY <1>0, <2>8, ExportCompleted DEF SharedOK
    <3>2. s # NoSession => Len(s.hashed) = s.next
      BY <1>0 DEF Owned
    <3> QED
      BY <2>3, <3>1, <3>2
  <2>9. CASE ReadChunk(h)
    <3>1. w[h].transfer.digest = <<>> /\ w'[h].transfer.digest = <<>> /\ w[h].transfer.by = h
      BY <1>0, <2>2, <2>9, ChunkRead DEF Asks
    <3>2. CASE exports' = exports /\ w'[h].transfer.frames = f
      BY <2>3, <3>1, <3>2
    <3>3. CASE ~(exports' = exports /\ w'[h].transfer.frames = f)
      <4> DEFINE i == w[h].transfer.index
      <4>1. PICK d \in Data :
               /\ w'[h].transfer.frames = Append(f, <<i, d>>)
               /\ IF s.by = w[h].transfer.by /\ i = s.next
                  THEN exports' = [exports EXCEPT ![id].next = @ + 1,
                                                  ![id].hashed = Append(@, d)]
                  ELSE exports' = exports
        BY <1>0, <2>9, <3>3, ChunkRead
      <4> DEFINE e == <<i, d>>
                 fnew == Append(f, e)
      <4>2. e \in Nat \X Data /\ e[1] = i
        BY <2>4
      <4> HIDE DEF e
      <4>3. NotAhead(fnew)
        BY <4>1 DEF e
      <4> SUFFICES ASSUME exports'[id] # NoSession
                   PROVE  Covers(fnew, exports'[id].hashed) /\ Below(fnew, exports'[id].next)
        BY <3>1, <4>1 DEF e
      <4>4. NotAhead(f) /\ \A n \in Nat : Below(f, n) => i <= n
        BY <2>4, <4>2, <4>3, NotAheadShrinks
      <4>5. s # NoSession
        <5>1. CASE exports' = exports
          BY <5>1
        <5>2. CASE s.by = w[h].transfer.by
          BY <3>1, <5>2, NobodyAssumption DEF NoSession
        <5> QED
          BY <4>1, <5>1, <5>2
      <4>6. s.by = h
        <5> DEFINE b == s.by
        <5>1. b \in Handlers /\ w[b].op = "export" /\ w[b].dst = id
          BY <1>0, <1>3, <4>5, OwnerStays
        <5> QED
          BY <2>2, <5>1 DEF Alone
      <4>7. Covers(f, s.hashed) /\ Below(f, s.next) /\ s.next \in Nat
        BY <2>3, <2>4, <4>4, <4>5 DEF Session
      <4>8. i <= s.next
        BY <4>4, <4>7
      <4>9. \A n \in Nat : Below(f, n) /\ i < n => Below(fnew, n)
        BY <2>4, <4>2, BelowGrows
      <4>10. CASE i = s.next
        <5>1. exports' = [exports EXCEPT ![id].next = @ + 1, ![id].hashed = Append(@, d)]
          BY <3>1, <4>1, <4>6, <4>10
        <5>2. exports'[id].next = s.next + 1 /\ exports'[id].hashed = Append(s.hashed, d)
          BY <1>0, <2>4, <5>1 DEF SharedOK, Session
        <5>3. Len(s.hashed) = s.next /\ s.hashed \in Seq(Data)
          BY <1>0, <2>4, <4>5 DEF Owned, Session
        <5>4. Covers(fnew, Append(s.hashed, d))
          BY <2>4, <4>7, <4>10, <5>3, CoversNext DEF e
        <5>5. Below(f, s.next + 1)
          <6>1. \A k \in DOMAIN f : f[k][1] \in Nat
            BY <2>4 DEF Frames
          <6> QED
            BY <4>7, <6>1 DEF Below
        <5>6. Below(fnew, s.next + 1)
          BY <2>4, <4>7, <4>9, <4>10, <5>5
        <5> QED
          BY <5>2, <5>4, <5>6
      <4>11. CASE i # s.next
        <5>1. exports' = exports /\ i < s.next
          <6>1. exports' = exports
            BY <4>1, <4>11
          <6>2. i \in Nat /\ s.next \in Nat
            BY <2>4, <4>7
          <6> QED
            BY <4>8, <4>11, <6>1, <6>2
        <5>2. Covers(fnew, s.hashed)
          BY <2>4, <4>2, <4>7, CoversGrows
        <5> QED
          BY <4>7, <4>9, <5>1, <5>2
      <4> QED
        BY <4>10, <4>11
    <3> QED
      BY <3>2, <3>3
  <2>10. CASE exports' = exports /\ w'[h].transfer = w[h].transfer
    BY <2>5, <2>10
  <2> QED
    BY <1>3, <2>6, <2>7, <2>8, <2>9, <2>10 DEF Passes
<1> QED
  BY <1>1, <1>2, <1>3

(***************************************************************************)
(* What a step of one handler leaves alone of another's.                   *)
(***************************************************************************)
LEMMA OthersPaths ==
  ASSUME JobsOK, FilesOK, NEW h \in Handlers, NEW g \in Handlers, g # h, Untouched(h),
         NEW p \in {Staged(g), Old(g), Backup(g)}
  PROVE  p \in Path /\ (fs'[p] = fs[p] \/ Finished(h, p)) /\ (Exists(p)' <=> Exists(p))
PROOF
<1>1. p \in Path /\ p \notin Reach(h)
  <2>1. p \in Path
    BY PathFacts
  <2>2. p[1] = g /\ p[2] # "path"
    BY DEF Staged, Old, Backup
  <2>3. \A q \in {Staged(h), Old(h), Backup(h)} : q[1] = h
    BY DEF Staged, Old, Backup
  <2>4. \A q \in {Src(h), Dst(h)} : q[2] = "path"
    BY DEF Src, Dst
  <2> QED
    BY <2>1, <2>2, <2>3, <2>4 DEF Reach
<1>2. fs'[p] = fs[p] \/ Finished(h, p)
  BY <1>1 DEF Untouched
<1>3. Finished(h, p) => fs'[p] # Absent
  <2> SUFFICES ASSUME Finished(h, p) PROVE fs'[p] # Absent
    OBVIOUS
  <2>1. fs[p] \in Entry /\ fs[p] # Absent /\ <<h, "whole">> \in Data
    BY <1>1, DataFacts DEF FilesOK, Files, Finished, Exists
  <2> QED
    BY <2>1, DataChange DEF Finished
<1>4. Exists(p)' <=> fs'[p] # Absent
  BY DEF Exists
<1> QED
  BY <1>1, <1>2, <1>3, <1>4 DEF Exists, Finished

LEMMA OthersKeep ==
  ASSUME JobsOK, FilesOK, NEW h \in Handlers, NEW g \in Handlers, g # h,
         Untouched(h), Own(h), host' = host
  PROVE  /\ BackedBy(g) => BackedBy(g)'
         /\ Tidy(g) => Tidy(g)'
         /\ Told(g) => Told(g)'
         /\ Careful(g) => Careful(g)'
PROOF
<1>1. w'[g] = w[g]
  BY DEF Own
<1>2. \A p \in {Staged(g), Old(g), Backup(g)} : Exists(p)' <=> Exists(p)
  BY OthersPaths
<1>3. /\ Exists(Staged(g))' <=> Exists(Staged(g))
      /\ Exists(Old(g))' <=> Exists(Old(g))
      /\ Exists(Backup(g))' <=> Exists(Backup(g))
  BY <1>2 DEF Staged, Old, Backup
<1>4. BackedBy(g) => BackedBy(g)'
  BY <1>1, <1>3 DEF BackedBy
<1>6. Tidy(g) => Tidy(g)'
  BY <1>1, <1>3 DEF Tidy
<1>7. Told(g) => Told(g)'
  BY <1>1 DEF Told
<1>8. Careful(g) => Careful(g)'
  BY <1>1 DEF Careful, Asked, Creating
<1> QED
  BY <1>4, <1>6, <1>7, <1>8

LEMMA TreeStep ==
  ASSUME JobsOK, FilesOK, TreeInv, NEW h \in Handlers, Untouched(h), Rooted(h)
  PROVE  TreeInv'
PROOF
<1> SUFFICES ASSUME NEW n \in Nested, fs'[<<n, "path">>] # Absent
             PROVE  parent'
  BY DEF TreeInv, Exists
<1> DEFINE p == <<n, "path">>
<1>1. p \in Path /\ At(p) = n
  BY NamesAssumption DEF Path, At
<1>2. parent => parent'
  BY <1>1 DEF Rooted, Dropped
<1>3. Exists(p) => parent
  BY DEF TreeInv
<1>4. InDir(p) => parent
  BY <1>1 DEF InDir
<1>5. CASE p \in Reach(h)
  <2>1. p \in {Src(h), Dst(h)}
    BY <1>5 DEF Reach, Staged, Old, Backup
  <2>2. Comes(fs', p) => InDir(p) \/ parent'
    BY <2>1 DEF Rooted, Entered
  <2>3. Comes(fs', p) \/ Exists(p)
    BY DEF Comes
  <2> QED
    BY <1>2, <1>3, <1>4, <2>2, <2>3
<1>6. CASE p \notin Reach(h)
  <2>1. Exists(p)
    BY <1>1, <1>6 DEF Untouched, Finished, Exists
  <2> QED
    BY <1>2, <1>3, <2>1
<1> QED
  BY <1>5, <1>6

(***************************************************************************)
(* The invariant                                                           *)
(***************************************************************************)

(* Every part but TreeInv and Sessions is about one handler.               *)
Inv ==
    /\ JobsOK /\ FilesOK /\ SharedOK
    /\ TreeInv
    /\ Sessions /\ Clients
    /\ \A h \in Handlers : BackedBy(h) /\ Tidy(h) /\ Told(h) /\ Careful(h)

LEMMA InitInv == Init => Inv
PROOF
<1> SUFFICES ASSUME Init PROVE Inv
  OBVIOUS
<1> DEFINE n == CHOOSE m \in Names : TRUE
<1>1. n \in Names
  BY NamesAssumption
<1> HIDE DEF n
<1>2. w = [h \in Handlers |-> Idle(n)]
  BY DEF Init, n
<1>3. Idle(n) \in Job
  BY <1>1, AbsentIsEntry
  DEF Idle, Job, NoTransfer, NoScan, Transfer, Scan, Results, Ops, Pcs, Data
<1>4. JobsOK
  BY <1>2, <1>3 DEF JobsOK
<1>5. PICK user \in [Names -> UNION {UserEntries(m) : m \in Names}] :
         /\ \A m \in Names : user[m] \in UserEntries(m)
                             /\ (m \in Nested /\ ~parent => user[m] = Absent)
         /\ fs = [p \in Path |-> IF p[2] = "path" THEN user[p[1]] ELSE Absent]
  BY DEF Init
<1>6. \A m \in Names : user[m] \in Entry
  BY <1>5 DEF UserEntries
<1>7. \A p \in Path : p[2] = "path" => p[1] \in Names
  BY DEF Path
<1>8. FilesOK
  BY <1>5, <1>6, <1>7, AbsentIsEntry DEF FilesOK, Files
<1>9. SharedOK
  <2>1. NoSession \in Session /\ Open(NoSession)
    BY DEF NoSession, Session, Open
  <2>2. <<n, "whole">> \in Data
    BY <1>1 DEF Data
  <2> QED
    BY <2>1, <2>2 DEF Init, SharedOK, n
<1>10. TreeInv
  <2> SUFFICES ASSUME NEW m \in Nested, ~parent PROVE fs[<<m, "path">>] = Absent
    BY DEF TreeInv, Exists
  <2>1. m \in Names /\ <<m, "path">> \in Path
    BY NamesAssumption DEF Path
  <2> QED
    BY <1>5, <2>1
<1>11. \A h \in Handlers : ~Exists(Staged(h)) /\ ~Exists(Old(h))
  BY <1>5, <1>4, PathFacts DEF Exists, Staged, Old
<1>12. \A h \in Handlers : BackedBy(h) /\ Tidy(h) /\ Told(h) /\ Careful(h)
  BY <1>2, <1>11
  DEF Idle, BackedBy, Tidy, Told, Careful, Asked, MovePcs, EditPcs, BackedPcs
<1>13. Sessions
  BY DEF Init, Sessions, Owned
<1>14. Clients
  BY <1>2 DEF Idle, NoTransfer, Clients, Asks, Receives, Asking
<1> QED
  BY <1>4, <1>8, <1>9, <1>10, <1>12, <1>13, <1>14 DEF Inv

LEMMA ServedInv ==
  ASSUME Inv, NEW h \in Handlers, Served(h)
  PROVE  Inv'
PROOF
<1>1. JobsOK /\ FilesOK /\ SharedOK /\ TreeInv /\ Backed /\ Sessions /\ Clients
  BY DEF Inv, Backed
<1>2. BackedBy(h) /\ Tidy(h) /\ Told(h) /\ Careful(h) /\ Asking(h)
  BY DEF Inv, Clients
<1>3. Own(h)
  BY <1>1, <1>2, ServedIsOwn DEF TypeOK
<1>4. Untouched(h) /\ host' = host /\ Passes(h)
  BY <1>1, ServedTouches, ServedHost, ServedPasses
<1>5. FilesOK' /\ JobsOK'
  BY <1>1, <1>3, ServedIsFiles DEF Own
<1>6. SharedOK'
  BY <1>1, <1>2, ServedShares
<1>7. TreeInv'
  BY <1>1, <1>4, ServedRoots, TreeStep
<1>8. BackedBy(h)' /\ Tidy(h)' /\ Told(h)' /\ Careful(h)' /\ Asking(h)'
  BY <1>1, <1>2, BackedStep, TidyStep, ScanStep, CarefulStep, AskingStep
<1>9. ASSUME NEW g \in Handlers
      PROVE  BackedBy(g)' /\ Tidy(g)' /\ Told(g)' /\ Careful(g)'
  <2>1. CASE g = h
    BY <1>8, <2>1
  <2>2. CASE g # h
    <3>1. BackedBy(g) /\ Tidy(g) /\ Told(g) /\ Careful(g)
      BY DEF Inv
    <3> QED
      BY <1>1, <1>3, <1>4, <2>2, <3>1, OthersKeep
  <2> QED
    BY <2>1, <2>2
<1>10. Sessions'
  BY <1>1, <1>3, <1>4, SessionsStep
<1>11. Clients'
  <2> SUFFICES ASSUME NEW g \in Handlers PROVE Asks(g)' /\ Receives(g)' /\ Asking(g)'
    BY DEF Clients
  <2>1. Asks(g)'
    BY <1>1, <1>3, <1>4, AsksStep
  <2>2. Receives(g)'
    BY <1>1, <1>3, <1>4, <1>5, <1>6, ReceivesStep
  <2>3. Asking(g)'
    <3>1. CASE g = h
      BY <1>8, <3>1
    <3>2. CASE g # h
      <4>1. w'[g] = w[g] /\ Asking(g)
        BY <1>1, <1>3, <3>2 DEF Own, Clients
      <4> QED
        BY <4>1 DEF Asking
    <3> QED
      BY <3>1, <3>2
  <2> QED
    BY <2>1, <2>2, <2>3
<1> QED
  BY <1>5, <1>6, <1>7, <1>9, <1>10, <1>11 DEF Inv

LEMMA AgesInv ==
  ASSUME Inv, NEW id \in Names, Ages(id)
  PROVE  Inv'
PROOF
<1>0. exports[id] \in Session /\ Open(exports[id]) /\ exports[id] # NoSession
  BY DEF Inv, SharedOK, Ages
<1> DEFINE aged == [exports[id] EXCEPT !.old = TRUE]
<1>1. exports' = [exports EXCEPT ![id] = aged]
  BY DEF Ages
<1>2. /\ aged \in Session /\ Open(aged) /\ aged # NoSession
      /\ aged.by = exports[id].by /\ aged.next = exports[id].next
      /\ aged.hashed = exports[id].hashed
  BY <1>0 DEF Session, Open, NoSession
<1> HIDE DEF aged
<1>3. w' = w /\ fs' = fs /\ parent' = parent /\ host' = host
  BY DEF Ages
<1>4. SharedOK'
  BY <1>1, <1>2 DEF Ages, Inv, SharedOK
<1>5. ASSUME NEW m \in Names
      PROVE  /\ exports'[m] = NoSession <=> exports[m] = NoSession
             /\ exports[m] # NoSession =>
                   /\ exports'[m].by = exports[m].by /\ exports'[m].next = exports[m].next
                   /\ exports'[m].hashed = exports[m].hashed
  BY <1>0, <1>1, <1>2 DEF Inv, SharedOK
<1>6. Sessions'
  BY <1>3, <1>5 DEF Inv, Sessions, Owned
<1>7. Clients'
  <2> SUFFICES ASSUME NEW h \in Handlers PROVE Asks(h)' /\ Receives(h)' /\ Asking(h)'
    BY DEF Clients
  <2>1. Asks(h) /\ Receives(h) /\ Asking(h) /\ w[h].dst \in Names
    BY FieldFacts DEF Inv, Clients
  <2>2. Asks(h)' /\ Asking(h)'
    BY <1>3, <2>1 DEF Asks, Asking, Alone
  <2>3. Receives(h)'
    BY <1>3, <1>5, <2>1 DEF Receives, Alone
  <2> QED
    BY <2>2, <2>3
<1> QED
  BY <1>3, <1>4, <1>6, <1>7
  DEF Inv, JobsOK, FilesOK, TreeInv, BackedBy, Tidy, Told, Careful, Exists, Asked,
      Creating, Staged, Old, Backup

LEMMA StutterInv ==
  ASSUME Inv, UNCHANGED vars
  PROVE  Inv'
PROOF
<1>1. Sessions' /\ Clients'
  BY DEF Inv, vars, Sessions, Owned, Clients, Asks, Receives, Asking, Alone
<1> QED
  BY <1>1 DEF Inv, vars, JobsOK, FilesOK, SharedOK, TreeInv, BackedBy, Tidy, Told,
              Careful, Exists, Asked, Creating, Staged, Old, Backup

LEMMA InvHolds == Spec => []Inv
PROOF
<1>1. Inv /\ [Next]_vars => Inv'
  <2> SUFFICES ASSUME Inv, [Next]_vars PROVE Inv'
    OBVIOUS
  <2>1. ASSUME NEW h \in Handlers,
               Start(h) \/ Mutate(h) \/ EditStep(h) \/ GitStep(h) \/ ReadStep(h)
        PROVE  Inv'
    BY <2>1, ServedInv DEF Served
  <2> QED
    BY <2>1, AgesInv, StutterInv DEF Next
<1> QED
  BY <1>1, InitInv, PTL DEF Spec

(* No staged copy and no original that was set aside stays behind after an *)
(* answer that does not say so, unless its sync failed (fsmutate.rs).      *)
THEOREM ResidueReportedHolds == Spec => []ResidueReported
PROOF
<1>1. Inv => ResidueReported
  BY DEF Inv, Tidy, ResidueReported
<1> QED
  BY <1>1, InvHolds, PTL

(* A listing or a search that was neither truncated nor partial names      *)
(* every path that was there all along, whatever comes and goes meanwhile. *)
THEOREM ScanTellsTruthHolds == Spec => []ScanTellsTruth
PROOF
<1>1. Inv => ScanTellsTruth
  BY DEF Inv, Told, ScanTellsTruth
<1> QED
  BY <1>1, InvHolds, PTL

(* The digest that ends an export covers every chunk once, as its client   *)
(* first received it, while nobody else uses the identifier (export.rs).   *)
THEOREM DigestIsOfFramesHolds == Spec => []DigestIsOfFrames
PROOF
<1>1. Inv => DigestIsOfFrames
  <2> SUFFICES ASSUME Inv, NEW h \in Handlers,
                      w[h].op = "export", w[h].transfer.digest # <<>>, Alone(h),
                      NotAhead(w[h].transfer.frames)
               PROVE  /\ Len(w[h].transfer.digest) = Chunks
                      /\ Covers(w[h].transfer.frames, w[h].transfer.digest)
    BY DEF DigestIsOfFrames, Alone, NotAhead, Covers
  <2> QED
    BY DEF Inv, Clients, Receives
<1> QED
  BY <1>1, InvHolds, PTL

(* No step of a move or a copy that may not overwrite, or of an edit that  *)
(* creates, loses what it finds at its destination (fsmutate.rs, edit.rs). *)
THEOREM NoOverwriteKeepsHolds == Spec => NoOverwriteKeeps
PROOF
<1> DEFINE Keeps ==
      \A h \in Handlers :
          /\ w'[h] # w[h]
          /\ \/ w[h].op \in {"move", "copy"} /\ ~Asked(h, "overwrite")
             \/ w[h].op = "edit" /\ Creating(h) /\ host.links
          => \A p \in {Dst(h), Old(h)} : Exists(p) => Held(fs[p].data, fs')
<1>1. Inv /\ [Next]_vars => Keeps
  <2> SUFFICES ASSUME Inv, [Next]_vars, NEW h \in Handlers, w'[h] # w[h], Cautious(h)
               PROVE  Spared(h)
    BY DEF Cautious, Spared
  <2>1. PICK g \in Handlers : Served(g)
    BY DEF Next, Served, Ages, vars
  <2>2. g = h
    <3>1. JobsOK /\ FilesOK /\ SharedOK /\ Asking(g)
      BY DEF Inv, Clients
    <3>2. Own(g)
      BY <2>1, <3>1, ServedIsOwn DEF TypeOK
    <3> QED
      BY <3>2 DEF Own
  <2> QED
    BY <2>1, <2>2, ServedSpares DEF Inv
<1>2. Inv /\ [Next]_vars => [Keeps]_vars
  BY <1>1
<1> QED
  BY <1>1, InvHolds, PTL DEF Spec, NoOverwriteKeeps

(***************************************************************************)
(* Whole texts. Until a backup holds one, only a copy that is not finished *)
(* holds part of a text.                                                   *)
(***************************************************************************)
Spoilt(d) == d[2] \in {"torn", "mixed"}
Kept == IF host.links THEN {"whole"} ELSE {"whole", "empty"}
Recoverable == \E h \in Handlers : Exists(Backup(h)) /\ fs[Backup(h)].data[2] \in Kept
Copying(h) == w[h].pc \in {"copying", "backing"}
Copied(h) == IF w[h].pc = "copying" THEN Staged(h) ELSE Backup(h)

(* A copy that is being made or that was given up.                         *)
Unfinished(p) ==
    \E h \in Handlers : \/ p = Staged(h) /\ w[h].pc \in {"copying", "done"}
                        \/ p = Backup(h) /\ w[h].pc \in {"backing", "done"}
Unspoilt ==
    /\ \A p \in Path : Exists(p) /\ fs[p].kind = "file" /\ Spoilt(fs[p].data) => Unfinished(p)
    /\ \A h \in Handlers : Copying(h) /\ fs[Copied(h)].kind = "file" => ~Spoilt(w[h].read)
NoneEmpty ==
    host.links => /\ \A p \in Path : Exists(p) => fs[p].data[2] # "empty"
                  /\ \A h \in Handlers : Copying(h) => w[h].read[2] # "empty"
BackupPcs == {"backup", "backing"}
TextPcs == {"validate", "replace", "temp", "in_place", "writing", "recover"}

(* What a job that copies or writes has at its private paths.              *)
Saved(h) ==
    /\ w[h].pc \in BackupPcs => w[h].op \in {"delete", "edit"}
    /\ w[h].pc \in TextPcs => w[h].op = "edit"
    /\ Copying(h) => Exists(Copied(h)) /\ fs[Copied(h)].data = <<h, "mixed">>
    /\ Exists(Backup(h)) =>
          /\ w[h].pc \notin {"idle", "check", "validate", "backup"}
          /\ w[h].op = "edit" => fs[Backup(h)].kind = "file"
          /\ fs[Backup(h)].data[2] # "torn"
(* What a clone has found at its destination.                              *)
Cloned(h) ==
    w[h].pc = "cloning" /\ w[h].seen # Absent =>
       w[h].seen.kind = "dir" /\ (host.links => w[h].seen.data[2] # "empty")
Whole ==
    /\ NoneEmpty /\ (Recoverable \/ Unspoilt)
    /\ \A h \in Handlers : Saved(h) /\ Cloned(h)

(* What a step that copies nothing may leave at the paths of its job.      *)
Paths(h) == {Src(h), Dst(h), Staged(h), Old(h), Backup(h)}
Alike(e, f) == e.kind = f.kind /\ e.data = f.data
Left(h, e, p) ==
    \/ e = Absent
    \/ \E q \in Paths(h) : Exists(q) /\ Alike(e, fs[q])
    \/ e.data[2] = "whole"
    \/ ~host.links /\ e.data[2] = "empty"
    \/ e.kind = "dir" /\ Spoilt(e.data)
    \/ w[h].pc = "in_place" /\ p = Dst(h) /\ Spoilt(e.data)
CopyStep(h) == StageCopy(h) \/ FinishCopy(h) \/ StartBackup(h) \/ FinishBackup(h)
Leaving(h, f) == f \in Files /\ \A p \in Paths(h) : Left(h, f[p], p)

LEMMA PathsArePaths ==
  ASSUME JobsOK
  PROVE  \A h \in Handlers : Paths(h) \subseteq Path
PROOF
  BY PathFacts DEF Paths

LEMMA LeavingFs ==
  ASSUME FilesOK
  PROVE  \A h : Leaving(h, fs)
PROOF
  BY DEF Leaving, Left, Alike, Exists, FilesOK

LEMMA LeavingPut ==
  ASSUME JobsOK, FilesOK
  PROVE  \A h \in Handlers : \A f : \A p \in Path : \A e \in Entry :
            Leaving(h, f) /\ Left(h, e, p) => Leaving(h, [f EXCEPT ![p] = e])
PROOF
<1> TAKE h \in Handlers
<1> TAKE f
<1> TAKE p \in Path
<1> TAKE e \in Entry
<1> HAVE Leaving(h, f) /\ Left(h, e, p)
<1>1. [f EXCEPT ![p] = e] \in Files
  BY WithEntry DEF Leaving
<1>2. \A q \in Paths(h) : [f EXCEPT ![p] = e][q] = (IF q = p THEN e ELSE f[q])
  BY PathsArePaths DEF Leaving, Files
<1>3. \A q \in Paths(h) : Left(h, f[q], q)
  BY DEF Leaving
<1> QED
  BY <1>1, <1>2, <1>3 DEF Leaving

LEMMA LeavingWithout ==
  ASSUME JobsOK, FilesOK
  PROVE  \A h \in Handlers : \A f : \A p \in Path :
            Leaving(h, f) => Leaving(h, [f EXCEPT ![p] = Absent])
PROOF
<1>1. \A h : \A p : Left(h, Absent, p)
  BY DEF Left
<1> QED
  BY <1>1, LeavingPut, AbsentIsEntry

LEMMA LeavingRenamed ==
  ASSUME JobsOK, FilesOK
  PROVE  \A h \in Handlers : \A p, q \in Paths(h) :
            Leaving(h, Renamed(p, q)) /\ Leaving(h, Removed(p))
PROOF
<1> TAKE h \in Handlers
<1> TAKE p, q \in Paths(h)
<1>1. p \in Path /\ q \in Path /\ fs[p] \in Entry
  BY PathsArePaths DEF FilesOK, Files
<1>2. Left(h, fs[p], q)
  BY DEF Left, Alike, Exists
<1> DEFINE put == [fs EXCEPT ![q] = fs[p]]
<1>3. Leaving(h, put)
  BY <1>1, <1>2, LeavingFs, LeavingPut
<1>4. Renamed(p, q) = [put EXCEPT ![p] = Absent]
  BY DEF Renamed
<1> HIDE DEF put
<1>5. Leaving(h, Renamed(p, q))
  <2>1. Leaving(h, [put EXCEPT ![p] = Absent])
    BY <1>1, <1>3, LeavingWithout, Zenon
  <2> QED
    BY <1>4, <2>1
<1>6. Leaving(h, Removed(p))
  BY <1>1, LeavingFs, LeavingWithout DEF Removed
<1> QED
  BY <1>5, <1>6

LEMMA LeavingHalf ==
  ASSUME JobsOK, FilesOK
  PROVE  \A h \in Handlers : \A p \in Path : \A f \in HalfRemoved(p) : Leaving(h, f)
PROOF
<1> TAKE h \in Handlers
<1> TAKE p \in Path
<1> TAKE f \in HalfRemoved(p)
<1>1. CASE f = fs
  BY <1>1, LeavingFs
<1>2. CASE f # fs
  <2> DEFINE d == [fs[p].data EXCEPT ![2] = "mixed"]
             e == [fs[p] EXCEPT !.data = d]
  <2>1. fs[p] # Absent /\ fs[p].kind = "dir" /\ f = [fs EXCEPT ![p].data[2] = "mixed"]
    BY <1>2 DEF HalfRemoved, Exists
  <2>2. fs[p] \in FullEntry
    BY <2>1, EntryFacts DEF FilesOK, Files
  <2>3. d = <<fs[p].data[1], "mixed">> /\ d \in Data
    BY <2>2, SpoiltData DEF FullEntry, Data
  <2>4. f = [fs EXCEPT ![p] = e]
    BY <2>1
  <2> HIDE DEF d
  <2>5. e \in Entry /\ e.kind = "dir" /\ e.data = d
    BY <2>1, <2>2, <2>3 DEF FullEntry, Entry
  <2>6. Left(h, e, p)
    BY <2>3, <2>5 DEF Left, Spoilt
  <2> HIDE DEF e
  <2> QED
    BY <2>4, <2>5, <2>6, LeavingFs, LeavingPut
<1> QED
  BY <1>1, <1>2

LEMMA LeavingCleanUp ==
  ASSUME JobsOK, FilesOK
  PROVE  \A h \in Handlers : \A p \in Path : \A f, k, result :
            Leaving(h, f) /\ CleanUp(h, p, f, k, result) => Leaving(h, fs')
PROOF
  BY LeavingWithout DEF CleanUp

LEMMA LeavingEditFails ==
  ASSUME JobsOK, FilesOK
  PROVE  \A h \in Handlers : \A f, k, notes :
            Leaving(h, f) /\ EditFails(h, f, k, notes) => Leaving(h, fs')
PROOF
  BY LeavingWithout, PathFacts DEF EditFails

LEMMA LeavingAfterCommit ==
  ASSUME JobsOK, FilesOK
  PROVE  \A h \in Handlers : \A f :
            Leaving(h, f) /\ AfterCommit(h, f) => Leaving(h, fs')
PROOF
<1> TAKE h \in Handlers
<1> TAKE f
<1> HAVE Leaving(h, f) /\ AfterCommit(h, f)
<1>1. Old(h) \in Path
  BY PathFacts
<1>2. Leaving(h, [f EXCEPT ![Old(h)] = Absent])
  BY <1>1, LeavingWithout
<1>3. \/ fs' = [f EXCEPT ![Old(h)] = Absent]
      \/ fs' = f
      \/ CleanUp(h, Old(h), f, 0, "ok")
  BY DEF AfterCommit
<1> QED
  BY <1>1, <1>2, <1>3, LeavingCleanUp

LEMMA ServedLeaves ==
  ASSUME JobsOK, FilesOK, Backed, NEW h \in Handlers, Saved(h), Cloned(h), Served(h)
  PROVE  CopyStep(h) \/ Leaving(h, fs')
PROOF
<1>a. /\ Src(h) \in Paths(h) /\ Dst(h) \in Paths(h) /\ Staged(h) \in Paths(h)
      /\ Old(h) \in Paths(h) /\ Backup(h) \in Paths(h) /\ From(h) \in Paths(h)
  BY DEF Paths, From
<1>p. /\ Src(h) \in Path /\ Dst(h) \in Path /\ Staged(h) \in Path
      /\ Old(h) \in Path /\ Backup(h) \in Path /\ From(h) \in Path
  BY PathFacts, FromIsPath
<1>s. Leaving(h, fs) /\ (fs' = fs => Leaving(h, fs'))
  BY LeavingFs
<1>r. \A p, q \in Paths(h) : Leaving(h, Renamed(p, q)) /\ Leaving(h, Removed(p))
  BY LeavingRenamed
<1>e. \A p \in Path : \A e \in Entry :
         Left(h, e, p) => Leaving(h, [fs EXCEPT ![p] = e])
  BY LeavingFs, LeavingPut
<1>u. \A p \in Path : \A f, k, result :
         Leaving(h, f) /\ CleanUp(h, p, f, k, result) => Leaving(h, fs')
  BY LeavingCleanUp
<1>v. \A f, k, notes : Leaving(h, f) /\ EditFails(h, f, k, notes) => Leaving(h, fs')
  BY LeavingEditFails
<1>l. Leaving(h, LinkedTwice(h))
  <2>1. fs[Staged(h)] \in Entry /\ Left(h, fs[Staged(h)], Dst(h))
    BY <1>a, <1>p DEF Left, Alike, Exists, FilesOK, Files
  <2> QED
    BY <1>p, <1>e, <2>1 DEF LinkedTwice
<1>m. \A f : Leaving(h, f) /\ AfterCommit(h, f) => Leaving(h, fs')
  BY LeavingAfterCommit
<1>1. CASE Start(h)
  BY <1>1, <1>a, <1>p, <1>s, <1>r, <1>u, <1>v DEF Start, rest, shared
<1>2. CASE CheckMoveCopy(h)
  BY <1>2, <1>a, <1>p, <1>s, <1>r, <1>u, <1>v DEF CheckMoveCopy, rest, shared
<1>3. CASE TryDirectMove(h)
  BY <1>3, <1>a, <1>p, <1>s, <1>r, <1>u, <1>v DEF TryDirectMove, rest, shared
<1>4. CASE Recheck(h)
  BY <1>4, <1>a, <1>p, <1>s, <1>r, <1>u, <1>v DEF Recheck, rest, shared
<1>5. CASE Displace(h)
  BY <1>5, <1>a, <1>p, <1>s, <1>r, <1>u, <1>v DEF Displace, rest, shared
<1>6. CASE MoveOver(h)
  <2>1. Leaving(h, Renamed(From(h), Dst(h)))
    BY <1>a, <1>r
  <2> QED
    BY <1>6, <1>s, <1>m, <2>1 DEF MoveOver
<1>7. CASE Rollback(h)
  BY <1>7, <1>a, <1>p, <1>s, <1>r, <1>u, <1>v DEF Rollback, rest, shared
<1>8. CASE StageCopy(h)
  BY <1>8 DEF CopyStep
<1>9. CASE FinishCopy(h)
  BY <1>9 DEF CopyStep
<1>10. CASE CommitStaged(h)
  BY <1>10, <1>a, <1>p, <1>s, <1>r, <1>u, <1>v DEF CommitStaged, rest, shared
<1>11. CASE InstallStaged(h)
  <2>1. Leaving(h, Renamed(Staged(h), Dst(h)))
    BY <1>a, <1>r
  <2> QED
    BY <1>11, <1>p, <1>s, <1>m, <1>u, <2>1 DEF InstallStaged
<1>12. CASE RemoveSource(h)
  BY <1>12, <1>a, <1>p, <1>r, LeavingHalf DEF RemoveSource
<1>13. CASE CheckDelete(h)
  BY <1>13, <1>a, <1>p, <1>s, <1>r, <1>u, <1>v DEF CheckDelete, rest, shared
<1>14. CASE StartBackup(h)
  BY <1>14 DEF CopyStep
<1>15. CASE FinishBackup(h)
  BY <1>15 DEF CopyStep
<1>16. CASE Remove(h)
  BY <1>16, <1>a, <1>p, <1>r, LeavingHalf DEF Remove
<1>17. CASE ChangeMode(h)
  <2>1. CASE fs' = fs
    BY <1>s, <2>1
  <2>2. CASE fs' # fs
    <3> DEFINE e == [fs[Dst(h)] EXCEPT !.mode = 1 - fs[Dst(h)].mode]
    <3>1. Exists(Dst(h)) /\ fs' = [fs EXCEPT ![Dst(h)] = e]
      BY <1>17, <2>2 DEF ChangeMode
    <3>2. fs[Dst(h)] \in FullEntry
      BY <1>p, <3>1, EntryFacts DEF FilesOK, Files, Exists
    <3>3. e \in Entry /\ Alike(e, fs[Dst(h)])
      BY <3>2 DEF FullEntry, Entry, Alike
    <3> HIDE DEF e
    <3> QED
      BY <1>a, <1>p, <1>e, <3>1, <3>3 DEF Left
  <2> QED
    BY <2>1, <2>2
<1>18. CASE ChangeOwner(h)
  <2>1. CASE fs' = fs
    BY <1>s, <2>1
  <2>2. CASE fs' # fs
    <3> DEFINE e == [fs[Dst(h)] EXCEPT !.owner = "other"]
    <3>1. Exists(Dst(h)) /\ fs' = [fs EXCEPT ![Dst(h)] = e]
      BY <1>18, <2>2 DEF ChangeOwner
    <3>2. fs[Dst(h)] \in FullEntry
      BY <1>p, <3>1, EntryFacts DEF FilesOK, Files, Exists
    <3>3. e \in Entry /\ Alike(e, fs[Dst(h)])
      BY <3>2 DEF FullEntry, Entry, Alike
    <3> HIDE DEF e
    <3> QED
      BY <1>a, <1>p, <1>e, <3>1, <3>3 DEF Left
  <2> QED
    BY <2>1, <2>2
<1>19. CASE WriteRole(h)
  BY <1>19, <1>a, <1>p, <1>s, <1>r, <1>u, <1>v DEF WriteRole, shared
<1>20. CASE LoadTarget(h)
  BY <1>20, <1>a, <1>p, <1>s, <1>r, <1>u, <1>v DEF LoadTarget, shared
<1>21. CASE Validated(h)
  BY <1>21, <1>a, <1>p, <1>s, <1>r, <1>u, <1>v DEF Validated, shared
<1>22. CASE MakeParents(h)
  BY <1>22, <1>a, <1>p, <1>s, <1>r, <1>u, <1>v DEF MakeParents, shared
<1>23. CASE MakeTemp(h)
  <2> DEFINE owner == IF Creating(h) THEN "agent" ELSE w[h].seen.owner
             keeps == host.root \/ owner = "agent"
             e == NewText(h, IF keeps THEN owner ELSE "agent")
  <2>1. \/ fs' = [fs EXCEPT ![Staged(h)] = e]
        \/ \E k : EditFails(h, fs, k, {})
    BY <1>23 DEF MakeTemp
  <2>2. (IF keeps THEN owner ELSE "agent") \in {"agent", "other"}
    BY FieldFacts, EntryFacts DEF Creating, FullEntry
  <2>3. e \in Entry /\ e.data[2] = "whole"
    BY <2>2, NewTextIsEntry DEF NewText
  <2> HIDE DEF e
  <2>4. Left(h, e, Staged(h))
    BY <2>3 DEF Left
  <2> QED
    BY <1>p, <1>e, <1>s, <1>v, <2>1, <2>3, <2>4
<1>24. CASE Persist(h)
  BY <1>24, <1>a, <1>p, <1>s, <1>r, <1>u, <1>v DEF Persist, shared
<1>25. CASE Link(h)
  <2> DEFINE e == [NewText(h, "agent") EXCEPT !.data = <<h, "empty">>]
  <2>1. \/ fs' = Renamed(Staged(h), Dst(h)) \/ fs' = LinkedTwice(h)
        \/ ~host.links /\ fs' = [fs EXCEPT ![Dst(h)] = e]
        \/ EditFails(h, fs, 0, {})
    BY <1>25 DEF Link, Linked
  <2>2. NewText(h, "agent") \in Entry /\ NewText(h, "agent") # Absent
    BY NewTextIsEntry
  <2>3. e \in Entry
    BY <2>2, DataChange, DataFacts
  <2>4. e.data[2] = "empty"
    BY DEF NewText
  <2> HIDE DEF e
  <2>5. ~host.links => Left(h, e, Dst(h))
    BY <2>4 DEF Left
  <2> QED
    BY <1>a, <1>p, <1>e, <1>l, <1>r, <1>s, <1>v, <2>1, <2>3, <2>5
<1>26. CASE SudoLinkFails(h)
  BY <1>26, <1>a, <1>l, <1>r, <1>s, <1>v DEF SudoLinkFails, Linked
<1>27. CASE ReplaceReserved(h)
  BY <1>27, <1>a, <1>p, <1>s, <1>r, <1>u, <1>v DEF ReplaceReserved, shared
<1>28. CASE WriteInPlace(h)
  <2>1. CASE EditFails(h, fs, 0, {})
    BY <1>s, <1>v, <2>1
  <2>2. CASE ~EditFails(h, fs, 0, {})
    <3>1. PICK s \in {"torn", "mixed"} : fs' = [fs EXCEPT ![Dst(h)].data = <<h, s>>]
      BY <1>28, <2>2 DEF WriteInPlace
    <3> DEFINE e == [fs[Dst(h)] EXCEPT !.data = <<h, s>>]
    <3>2. fs[Dst(h)] \in Entry /\ fs[Dst(h)] # Absent
      BY <1>28, <1>p, <2>2 DEF WriteInPlace, Exists, FilesOK, Files
    <3>3. e \in Entry
      BY <3>2, DataChange, DataFacts
    <3>4. e.data = <<h, s>>
      BY <3>2, EntryFacts DEF FullEntry
    <3>5. fs' = [fs EXCEPT ![Dst(h)] = e]
      BY <3>1
    <3> HIDE DEF e
    <3>6. Left(h, e, Dst(h))
      BY <1>28, <3>4 DEF WriteInPlace, Left, Spoilt
    <3> QED
      BY <1>p, <1>e, <3>3, <3>5, <3>6
  <2> QED
    BY <2>1, <2>2
<1>29. CASE FinishInPlace(h)
  <2> SUFFICES ASSUME NEW p \in Paths(h) PROVE Left(h, fs'[p], p)
    BY ServedIsFiles DEF Leaving, FilesOK
  <2>1. p \in Path
    BY PathsArePaths
  <2>2. \/ fs'[p] = Absent
        \/ fs[p] # Absent /\ fs'[p] = [fs[p] EXCEPT !.data = <<h, "whole">>]
        \/ fs'[p] = fs[p]
    BY <1>29, <2>1, InPlaceEnds DEF Exists
  <2>3. CASE fs'[p] \in {Absent, fs[p]}
    BY <2>3 DEF Left, Alike, Exists
  <2>4. CASE fs[p] # Absent /\ fs'[p] = [fs[p] EXCEPT !.data = <<h, "whole">>]
    <3>1. fs[p] \in FullEntry
      BY <2>1, <2>4, EntryFacts DEF FilesOK, Files
    <3>2. fs'[p].data[2] = "whole"
      BY <2>4, <3>1 DEF FullEntry
    <3> QED
      BY <3>2 DEF Left
  <2> QED
    BY <2>2, <2>3, <2>4
<1>30. CASE Recover(h)
  <2> DEFINE e == [fs[Dst(h)] EXCEPT !.data = fs[Backup(h)].data]
  <2>1. \/ /\ fs[Dst(h)] # Absent /\ fs[Dst(h)].kind = "file"
           /\ \E notes : EditFails(h, [fs EXCEPT ![Dst(h)] = e], 0, notes)
        \/ \E k, notes : EditFails(h, fs, k, notes)
    BY <1>30 DEF Recover, Exists
  <2>2. ASSUME fs[Dst(h)] # Absent, fs[Dst(h)].kind = "file"
        PROVE  e \in Entry /\ Left(h, e, Dst(h))
    <3>1. fs[Backup(h)] # Absent
      BY <1>30 DEF Recover, Backed, BackedBy, Exists
    <3>2. fs[Dst(h)] \in FullEntry /\ fs[Backup(h)] \in FullEntry
      BY <1>p, <2>2, <3>1, EntryFacts DEF FilesOK, Files
    <3>3. e \in Entry /\ e.kind = "file" /\ e.data = fs[Backup(h)].data
      BY <2>2, <3>2 DEF FullEntry, Entry
    <3> HIDE DEF e
    <3>4. fs[Backup(h)].kind = "file"
      BY <1>30, <3>1 DEF Recover, Saved, TextPcs, Exists
    <3>5. Alike(e, fs[Backup(h)])
      BY <3>3, <3>4 DEF Alike
    <3> QED
      BY <1>a, <3>1, <3>3, <3>5 DEF Left, Exists
  <2> HIDE DEF e
  <2> QED
    BY <1>p, <1>e, <1>s, <1>v, <2>1, <2>2
<1>31. CASE SudoInstall(h)
  <2> DEFINE e == NewText(h, IF Creating(h) THEN "other" ELSE w[h].seen.owner)
  <2>1. \/ fs' = [fs EXCEPT ![Staged(h)] = e]
        \/ \E k : EditFails(h, fs, k, {})
    BY <1>31 DEF SudoInstall
  <2>2. (IF Creating(h) THEN "other" ELSE w[h].seen.owner) \in {"agent", "other"}
    BY FieldFacts, EntryFacts DEF Creating, FullEntry
  <2>3. e \in Entry /\ e.data[2] = "whole"
    BY <2>2, NewTextIsEntry DEF NewText
  <2> HIDE DEF e
  <2>4. Left(h, e, Staged(h))
    BY <2>3 DEF Left
  <2> QED
    BY <1>p, <1>e, <1>s, <1>v, <2>1, <2>3, <2>4
<1>32. CASE SudoMove(h)
  <2>1. Leaving(h, Removed(Staged(h))) /\ Leaving(h, Renamed(Staged(h), Dst(h)))
    BY <1>a, <1>r
  <2>2. \/ fs' = Removed(Staged(h))
        \/ fs' = Renamed(Staged(h), Dst(h))
        \/ \E k : EditFails(h, fs, k, {})
    BY <1>32 DEF SudoMove
  <2> QED
    BY <1>s, <1>v, <2>1, <2>2
<1>33. CASE ConsumeUpload(h)
  BY <1>33, <1>a, <1>p, <1>s, <1>r, <1>u, <1>v DEF ConsumeUpload, shared
<1>34. CASE Cancel(h)
  BY <1>34, <1>a, <1>p, <1>s, <1>r, <1>u, <1>v DEF Cancel, shared
<1>35. CASE CheckClone(h)
  BY <1>35, <1>a, <1>p, <1>s, <1>r, <1>u, <1>v DEF CheckClone, rest, shared
<1>36. CASE StartClone(h)
  <2> DEFINE e == [kind |-> "dir", data |-> <<h, "torn">>, owner |-> "agent", mode |-> 0]
  <2>1. fs' = fs \/ fs' = [fs EXCEPT ![Dst(h)] = e]
    BY <1>36 DEF StartClone
  <2>2. e \in Entry
    <3>1. <<h, "torn">> \in Data
      BY DataFacts
    <3> QED
      BY <3>1 DEF Entry
  <2>3. e.kind = "dir" /\ e.data = <<h, "torn">>
    OBVIOUS
  <2> HIDE DEF e
  <2>4. Left(h, e, Dst(h))
    BY <2>3 DEF Left, Spoilt
  <2> QED
    BY <1>p, <1>e, <1>s, <2>1, <2>2, <2>4
<1>37. CASE FinishClone(h)
  <2> DEFINE e == [fs[Dst(h)] EXCEPT !.data = <<h, "whole">>]
  <2>1. \/ fs' = fs
        \/ w[h].pc = "cloning" /\ fs' = [fs EXCEPT ![Dst(h)] = w[h].seen]
        \/ fs[Dst(h)] # Absent /\ fs' = [fs EXCEPT ![Dst(h)] = e]
    BY <1>37 DEF FinishClone, Exists
  <2>2. ASSUME fs[Dst(h)] # Absent
        PROVE  e \in Entry /\ Left(h, e, Dst(h))
    <3>1. fs[Dst(h)] \in FullEntry
      BY <1>p, <2>2, EntryFacts DEF FilesOK, Files
    <3> QED
      BY <3>1, DataFacts DEF FullEntry, Entry, Left
  <2> HIDE DEF e
  <2>3. w[h].pc = "cloning" => w[h].seen \in Entry /\ Left(h, w[h].seen, Dst(h))
    <3>1. w[h].seen # Absent => w[h].seen.data[2] \in {"whole", "torn", "empty", "mixed"}
      BY FieldFacts, EntryFacts DEF FullEntry, Data
    <3> QED
      BY <3>1, FieldFacts DEF Cloned, Left, Spoilt
  <2> QED
    BY <1>p, <1>e, <1>s, <2>1, <2>2, <2>3
<1>38. CASE CleanClone(h)
  BY <1>38, <1>a, <1>p, <1>r, LeavingHalf DEF CleanClone
<1>39. CASE CheckPatch(h)
  BY <1>39, <1>a, <1>p, <1>s, <1>r, <1>u, <1>v DEF CheckPatch, rest, shared
<1>40. CASE ApplyPatch(h)
  BY <1>40, <1>a, <1>p, <1>s, <1>r, <1>u, <1>v DEF ApplyPatch, rest, shared
<1>41. CASE WritePatched(h)
  <2> DEFINE e == [w[h].seen EXCEPT !.data = <<h, "whole">>, !.owner = "agent"]
  <2>1. fs' = fs \/ fs' = [fs EXCEPT ![Dst(h)] = e]
    BY <1>41 DEF WritePatched
  <2>2. CASE w[h].seen # Absent
    <3>1. w[h].seen \in FullEntry
      BY <2>2, FieldFacts, EntryFacts
    <3>2. e \in Entry /\ Left(h, e, Dst(h))
      BY <3>1, DataFacts DEF FullEntry, Entry, Left
    <3> HIDE DEF e
    <3> QED
      BY <1>p, <1>e, <1>s, <2>1, <3>2
  <2>3. CASE w[h].seen = Absent
    <3>1. e = Absent
      BY <2>3 DEF Absent
    <3>2. e \in Entry /\ Left(h, e, Dst(h))
      BY <3>1, AbsentIsEntry DEF Left
    <3> HIDE DEF e
    <3> QED
      BY <1>p, <1>e, <1>s, <2>1, <3>2
  <2> QED
    BY <2>2, <2>3
<1>42. CASE CheckPush(h)
  BY <1>42, <1>a, <1>p, <1>s, <1>r, <1>u, <1>v DEF CheckPush, rest, shared
<1>43. CASE Push(h)
  BY <1>43, <1>a, <1>p, <1>s, <1>r, <1>u, <1>v DEF Push
<1>44. CASE ExportInit(h)
  BY <1>44, <1>a, <1>p, <1>s, <1>r, <1>u, <1>v DEF ExportInit
<1>45. CASE AskChunk(h)
  BY <1>45, <1>a, <1>p, <1>s, <1>r, <1>u, <1>v DEF AskChunk, rest, shared
<1>46. CASE ReadChunk(h)
  BY <1>46, <1>a, <1>p, <1>s, <1>r, <1>u, <1>v DEF ReadChunk
<1>47. CASE ExportComplete(h)
  BY <1>47, <1>a, <1>p, <1>s, <1>r, <1>u, <1>v DEF ExportComplete
<1>48. CASE Arrive(h)
  BY <1>48, <1>a, <1>p, <1>s, <1>r, <1>u, <1>v DEF Arrive, rest, shared
<1>49. CASE BudgetSpent(h)
  BY <1>49, <1>a, <1>p, <1>s, <1>r, <1>u, <1>v DEF BudgetSpent, rest, shared
<1>50. CASE StartList(h)
  BY <1>50, <1>a, <1>p, <1>s, <1>r, <1>u, <1>v DEF StartList, StartWalk, rest, shared
<1>51. CASE StartSearch(h)
  BY <1>51, <1>a, <1>p, <1>s, <1>r, <1>u, <1>v DEF StartSearch, StartWalk, rest, shared
<1>52. CASE WalkEnds(h)
  BY <1>52, <1>a, <1>p, <1>s, <1>r, <1>u, <1>v DEF WalkEnds, Late, rest, shared
<1>53. CASE ListNext(h)
  BY <1>53, <1>a, <1>p, <1>s, <1>r, <1>u, <1>v DEF ListNext, rest, shared
<1>54. CASE SearchNext(h)
  BY <1>54, <1>a, <1>p, <1>s, <1>r, <1>u, <1>v DEF SearchNext, rest, shared
<1>55. CASE Abandon(h)
  BY <1>55, <1>a, <1>p, <1>s, <1>r, <1>u, <1>v DEF Abandon, rest, shared
<1> QED
  BY <1>1, <1>2, <1>3, <1>4, <1>5, <1>6, <1>7, <1>8, <1>9, <1>10, <1>11,
     <1>12, <1>13, <1>14, <1>15, <1>16, <1>17, <1>18, <1>19, <1>20, <1>21, <1>22,
     <1>23, <1>24, <1>25, <1>26, <1>27, <1>28, <1>29, <1>30, <1>31, <1>32, <1>33,
     <1>34, <1>35, <1>36, <1>37, <1>38, <1>39, <1>40, <1>41, <1>42, <1>43, <1>44,
     <1>45, <1>46, <1>47, <1>48, <1>49, <1>50, <1>51, <1>52, <1>53, <1>54, <1>55
  DEF Served, Mutate, EditStep, GitStep, ReadStep

(* Where a step of a job goes.                                             *)
Turns(h) ==
    /\ w[h].pc # "done" /\ w'[h].pc # "idle"
    /\ w[h].pc # "idle" => w'[h].op = w[h].op
    /\ w'[h].pc = "check" => w[h].pc = "idle"
    /\ w'[h].pc = "cloning" => StartClone(h)
    /\ w'[h].pc = "validate" => w[h].pc = "check"
    /\ w'[h].pc = "backup" => w[h].pc \in {"check", "validate"}
    /\ w'[h].pc \in BackupPcs => w'[h].op \in {"delete", "edit"}
    /\ w'[h].pc \in TextPcs => w'[h].op = "edit"
    /\ \/ CopyStep(h)
       \/ /\ w[h].pc \notin {"copying", "backup", "backing"}
          /\ w'[h].pc \notin {"copying", "backing"}

LEMMA ServedTurns ==
  ASSUME JobsOK, NEW h \in Handlers, Saved(h), Served(h)
  PROVE  Turns(h)
PROOF
<1>a. /\ w[h].pc \in BackupPcs => w[h].op \in {"delete", "edit"}
      /\ w[h].pc \in TextPcs => w[h].op = "edit"
  BY DEF Saved
<1>1. CASE Start(h)
  BY <1>1, <1>a DEF JobsOK, Job, Turns, BackupPcs, TextPcs, Start
<1>2. CASE CheckMoveCopy(h)
  BY <1>2, <1>a
  DEF JobsOK, Job, Turns, BackupPcs, TextPcs, CheckMoveCopy, Asked, Refuse, Answer, Goto
<1>3. CASE TryDirectMove(h)
  BY <1>3, <1>a
  DEF JobsOK, Job, Turns, BackupPcs, TextPcs, TryDirectMove, Asked, SyncThen, Answer, Goto,
      Refuse
<1>4. CASE Recheck(h)
  BY <1>4, <1>a DEF JobsOK, Job, Turns, BackupPcs, TextPcs, Recheck, Goto
<1>5. CASE Displace(h)
  <2>1. /\ w[h].pc = "displace"
        /\ \/ Goto(h, "over")
           \/ Answer(h, "error", {})
           \/ Answer(h, "error", {"reported"})
    BY <1>5 DEF Displace, CleanUp
  <2> QED
    BY <1>a, <2>1 DEF JobsOK, Job, Turns, BackupPcs, TextPcs, Goto, Answer
<1>6. CASE MoveOver(h)
  <2>1. /\ w[h].pc = "over"
        /\ \/ Goto(h, "rollback") \/ Goto(h, "rollback_cross")
           \/ Answer(h, "error", {"sync"})
           \/ AfterCommit(h, Renamed(From(h), Dst(h)))
    BY <1>6 DEF MoveOver
  <2> QED
    BY <1>a, <2>1 DEF JobsOK, Job, Turns, BackupPcs, TextPcs, Goto, Answer, AfterCommit, CleanUp
<1>7. CASE Rollback(h)
  <2>1. /\ w[h].pc \in {"rollback", "rollback_cross"}
        /\ \/ Goto(h, "stage")
           \/ Answer(h, "error", {})
           \/ Answer(h, "error", {"reported"})
    BY <1>7 DEF Rollback, CleanUp
  <2> QED
    BY <1>a, <2>1 DEF JobsOK, Job, Turns, BackupPcs, TextPcs, Goto, Answer
<1>8. CASE StageCopy(h)
  <2>1. w[h].pc = "stage" /\ CopyStep(h)
    BY <1>8 DEF StageCopy, CopyStep
  <2>2. CASE Refuse(h)
    BY <1>a, <2>1, <2>2 DEF JobsOK, Job, Turns, BackupPcs, TextPcs, Refuse, Answer
  <2>3. CASE w' = [w EXCEPT ![h].pc = "copying", ![h].read = fs[Src(h)].data]
    <3>1. w'[h].pc = "copying" /\ w'[h].op = w[h].op
      BY <2>3 DEF JobsOK, Job
    <3>2. w'[h].pc \notin {"idle", "check", "validate", "backup"} \cup BackupPcs \cup TextPcs
      BY <3>1 DEF BackupPcs, TextPcs
    <3> QED
      BY <2>1, <3>1, <3>2 DEF Turns
  <2> QED
    BY <1>8, <2>2, <2>3 DEF StageCopy
<1>9. CASE FinishCopy(h)
  BY <1>9, <1>a DEF CopyStep, JobsOK, Job, Turns, BackupPcs, TextPcs, FinishCopy, CleanUp, Answer
<1>10. CASE CommitStaged(h)
  BY <1>10, <1>a DEF JobsOK, Job, Turns, BackupPcs, TextPcs, CommitStaged, Goto, Asked
<1>11. CASE InstallStaged(h)
  BY <1>11, <1>a
  DEF JobsOK, Job, Turns, BackupPcs, TextPcs, InstallStaged, Asked, AfterCommit, Answer, CleanUp
<1>12. CASE RemoveSource(h)
  BY <1>12, <1>a DEF JobsOK, Job, Turns, BackupPcs, TextPcs, RemoveSource, SyncThen, Answer
<1>13. CASE CheckDelete(h)
  BY <1>13, <1>a
  DEF JobsOK, Job, Turns, BackupPcs, TextPcs, CheckDelete, Asked, Refuse, Goto, Answer
<1>14. CASE StartBackup(h)
  <2>1. w[h].pc = "backup" /\ CopyStep(h)
    BY <1>14 DEF StartBackup, CopyStep
  <2>2. CASE Refuse(h)
    BY <1>a, <2>1, <2>2 DEF JobsOK, Job, Turns, BackupPcs, TextPcs, Refuse, Answer
  <2>3. CASE w' = [w EXCEPT ![h].pc = "backing", ![h].read = fs[Dst(h)].data]
    <3>1. w'[h].pc = "backing" /\ w'[h].op = w[h].op
      BY <2>3 DEF JobsOK, Job
    <3>2. w'[h].pc \notin {"idle", "check", "validate", "backup"} \cup TextPcs
      BY <3>1 DEF TextPcs
    <3>3. w'[h].op \in {"delete", "edit"}
      BY <1>a, <2>1, <3>1 DEF BackupPcs
    <3> QED
      BY <2>1, <3>1, <3>2, <3>3 DEF Turns
  <2> QED
    BY <1>14, <2>2, <2>3 DEF StartBackup
<1>15. CASE FinishBackup(h)
  BY <1>15, <1>a
  DEF CopyStep, JobsOK, Job, Turns, BackupPcs, TextPcs, FinishBackup, Goto, Refuse, Answer
<1>16. CASE Remove(h)
  BY <1>16, <1>a DEF JobsOK, Job, Turns, BackupPcs, TextPcs, Remove, Answer, Refuse
<1>17. CASE ChangeMode(h)
  BY <1>17, <1>a DEF JobsOK, Job, Turns, BackupPcs, TextPcs, ChangeMode, Answer, Refuse
<1>18. CASE ChangeOwner(h)
  BY <1>18, <1>a DEF JobsOK, Job, Turns, BackupPcs, TextPcs, ChangeOwner, Answer, Refuse
<1>19. CASE WriteRole(h)
  BY <1>19, <1>a DEF JobsOK, Job, Turns, BackupPcs, TextPcs, WriteRole, Answer
<1>20. CASE LoadTarget(h)
  BY <1>20, <1>a DEF JobsOK, Job, Turns, BackupPcs, TextPcs, LoadTarget, Asked, Refuse, Answer
<1>21. CASE Validated(h)
  BY <1>21, <1>a
  DEF JobsOK, Job, Turns, BackupPcs, TextPcs, Validated, Refuse, Asked, EditDone, Goto,
      Creating, Answer
<1>22. CASE MakeParents(h)
  BY <1>22, <1>a DEF JobsOK, Job, Turns, BackupPcs, TextPcs, MakeParents, Asked, Creating
<1>23. CASE MakeTemp(h)
  BY <1>23, <1>a
  DEF JobsOK, Job, Turns, BackupPcs, TextPcs, MakeTemp, Creating, Goto, EditFails, Answer, Asked
<1>24. CASE Persist(h)
  <2>0. w[h].pc = "persist"
    BY <1>24 DEF Persist
  <2>1. \/ EditDone(h, {})
        \/ Answer(h, "error", {})
        \/ Answer(h, "error", {"reported"})
    BY <1>24 DEF Persist, EditFails
  <2> QED
    BY <1>a, <2>0, <2>1 DEF JobsOK, Job, Turns, BackupPcs, TextPcs, EditDone, Answer
<1>25. CASE Link(h)
  BY <1>25, <1>a
  DEF JobsOK, Job, Turns, BackupPcs, TextPcs, Link, EditDone, Goto, EditFails, Asked, Answer
<1>26. CASE SudoLinkFails(h)
  BY <1>26, <1>a DEF JobsOK, Job, Turns, BackupPcs, TextPcs, SudoLinkFails, Asked, EditFails, Answer
<1>27. CASE ReplaceReserved(h)
  <2>0. w[h].pc = "reserved"
    BY <1>27 DEF ReplaceReserved
  <2>1. \/ EditDone(h, {})
        \/ Answer(h, "error", {})
        \/ Answer(h, "error", {"reported"})
    BY <1>27 DEF ReplaceReserved, EditFails
  <2> QED
    BY <1>a, <2>0, <2>1 DEF JobsOK, Job, Turns, BackupPcs, TextPcs, EditDone, Answer
<1>28. CASE WriteInPlace(h)
  BY <1>28, <1>a
  DEF JobsOK, Job, Turns, BackupPcs, TextPcs, WriteInPlace, Goto, EditFails, Answer, Asked
<1>29. CASE FinishInPlace(h)
  BY <1>29, <1>a
  DEF JobsOK, Job, Turns, BackupPcs, TextPcs, FinishInPlace, EditDone, Goto, Asked, Answer
<1>30. CASE Recover(h)
  BY <1>30, <1>a DEF JobsOK, Job, Turns, BackupPcs, TextPcs, Recover, EditFails, Answer, Asked
<1>31. CASE SudoInstall(h)
  BY <1>31, <1>a
  DEF JobsOK, Job, Turns, BackupPcs, TextPcs, SudoInstall, Creating, Goto, EditFails, Answer,
      Asked
<1>32. CASE SudoMove(h)
  BY <1>32, <1>a
  DEF JobsOK, Job, Turns, BackupPcs, TextPcs, SudoMove, EditDone, EditFails, Answer, Asked
<1>33. CASE ConsumeUpload(h)
  BY <1>33, <1>a DEF JobsOK, Job, Turns, BackupPcs, TextPcs, ConsumeUpload, Answer
<1>34. CASE Cancel(h)
  BY <1>34, <1>a DEF JobsOK, Job, Turns, BackupPcs, TextPcs, Cancel, Asked
<1>35. CASE CheckClone(h)
  BY <1>35, <1>a DEF JobsOK, Job, Turns, BackupPcs, TextPcs, CheckClone, Refuse, Goto, Answer
<1>36. CASE StartClone(h)
  BY <1>36, <1>a DEF JobsOK, Job, Turns, BackupPcs, TextPcs, StartClone, Goto
<1>37. CASE FinishClone(h)
  BY <1>37, <1>a DEF JobsOK, Job, Turns, BackupPcs, TextPcs, FinishClone, Answer, Goto
<1>38. CASE CleanClone(h)
  BY <1>38, <1>a DEF JobsOK, Job, Turns, BackupPcs, TextPcs, CleanClone, Answer
<1>39. CASE CheckPatch(h)
  BY <1>39, <1>a DEF JobsOK, Job, Turns, BackupPcs, TextPcs, CheckPatch, Refuse, Asked, Answer, Goto
<1>40. CASE ApplyPatch(h)
  BY <1>40, <1>a DEF JobsOK, Job, Turns, BackupPcs, TextPcs, ApplyPatch, Refuse, Answer
<1>41. CASE WritePatched(h)
  BY <1>41, <1>a DEF JobsOK, Job, Turns, BackupPcs, TextPcs, WritePatched, Answer
<1>42. CASE CheckPush(h)
  BY <1>42, <1>a DEF JobsOK, Job, Turns, BackupPcs, TextPcs, CheckPush, Asked, Refuse, Answer
<1>43. CASE Push(h)
  BY <1>43, <1>a DEF JobsOK, Job, Turns, BackupPcs, TextPcs, Push, Answer
<1>44. CASE ExportInit(h)
  BY <1>44, <1>a DEF JobsOK, Job, Turns, BackupPcs, TextPcs, ExportInit, Goto, Refuse, Answer
<1>45. CASE AskChunk(h)
  <2>1. w[h].pc = "exporting"
    BY <1>45 DEF AskChunk
  <2>2. CASE Refuse(h)
    BY <1>a, <2>1, <2>2 DEF JobsOK, Job, Turns, BackupPcs, TextPcs, Refuse, Answer
  <2>3. CASE ~Refuse(h)
    <3>1. PICK i \in 0..(Chunks - 1) :
             w' = [w EXCEPT ![h].pc = "chunk", ![h].transfer.index = i,
                            ![h].transfer.by = exports[w[h].dst].by,
                            ![h].transfer.path = exports[w[h].dst].path,
                            ![h].transfer.asks = @ + 1]
      BY <1>45, <2>3 DEF AskChunk
    <3> QED
      BY <1>a, <2>1, <3>1 DEF JobsOK, Job, Turns, BackupPcs, TextPcs
  <2> QED
    BY <2>2, <2>3
<1>46. CASE ReadChunk(h)
  <2>1. w[h].pc = "chunk" /\ \E f : w' = [w EXCEPT ![h].pc = "exporting", ![h].transfer.frames = f]
    BY <1>46, ChunkIsRead
  <2>2. w'[h].op = w[h].op /\ w'[h].pc = "exporting"
    BY <2>1 DEF JobsOK, Job
  <2> QED
    BY <2>1, <2>2 DEF Turns, BackupPcs, TextPcs
<1>47. CASE ExportComplete(h)
  BY <1>47, <1>a DEF JobsOK, Job, Turns, BackupPcs, TextPcs, ExportComplete, Refuse, Answer
<1>48. CASE Arrive(h)
  BY <1>48, <1>a DEF JobsOK, Job, Turns, BackupPcs, TextPcs, Arrive
<1>49. CASE BudgetSpent(h)
  BY <1>49, <1>a DEF JobsOK, Job, Turns, BackupPcs, TextPcs, BudgetSpent
<1>50. CASE StartList(h)
  BY <1>50, <1>a DEF JobsOK, Job, Turns, BackupPcs, TextPcs, StartList, StartWalk, Answer, Refuse
<1>51. CASE StartSearch(h)
  BY <1>51, <1>a DEF JobsOK, Job, Turns, BackupPcs, TextPcs, StartSearch, StartWalk, Answer, Refuse
<1>52. CASE WalkEnds(h)
  BY <1>52, <1>a DEF JobsOK, Job, Turns, BackupPcs, TextPcs, WalkEnds, Answer, Late
<1>53. CASE ListNext(h)
  BY <1>53, WalkGoesOn DEF Turns, BackupPcs, TextPcs
<1>54. CASE SearchNext(h)
  BY <1>54, WalkGoesOn DEF Turns, BackupPcs, TextPcs
<1>55. CASE Abandon(h)
  BY <1>55, <1>a DEF JobsOK, Job, Turns, BackupPcs, TextPcs, Abandon
<1> QED
  BY <1>1, <1>2, <1>3, <1>4, <1>5, <1>6, <1>7, <1>8, <1>9, <1>10, <1>11,
     <1>12, <1>13, <1>14, <1>15, <1>16, <1>17, <1>18, <1>19, <1>20, <1>21, <1>22,
     <1>23, <1>24, <1>25, <1>26, <1>27, <1>28, <1>29, <1>30, <1>31, <1>32, <1>33,
     <1>34, <1>35, <1>36, <1>37, <1>38, <1>39, <1>40, <1>41, <1>42, <1>43, <1>44,
     <1>45, <1>46, <1>47, <1>48, <1>49, <1>50, <1>51, <1>52, <1>53, <1>54, <1>55
  DEF Served, Mutate, EditStep, GitStep, ReadStep

(* What the steps of a copy leave.                                         *)
Only(c) == \A p \in Path \ {c} : fs'[p] = fs[p]
Starts(h, q, c) ==
    /\ Exists(q) /\ w'[h].read = fs[q].data /\ Only(c)
    /\ fs'[c] # Absent /\ fs'[c].kind = fs[q].kind /\ fs'[c].data = <<h, "mixed">>
Ends(h, q, c) ==
    /\ Only(c)
    /\ \/ fs'[c] = Absent
       \/ fs'[c] = fs[c] /\ w'[h].pc = "done"
       \/ fs'[c].kind = fs[c].kind /\ fs'[c].data \in Copies(w[h].read, q)

LEMMA CopyOf ==
  ASSUME FilesOK, NEW c \in Path, NEW q \in Path, NEW h \in Handlers, Exists(q),
         fs' = [fs EXCEPT ![c] = [fs[q] EXCEPT !.data = <<h, "mixed">>, !.owner = "agent"]]
  PROVE  /\ Only(c)
         /\ fs'[c] # Absent /\ fs'[c].kind = fs[q].kind /\ fs'[c].data = <<h, "mixed">>
PROOF
<1> DEFINE e == [fs[q] EXCEPT !.data = <<h, "mixed">>, !.owner = "agent"]
<1>1. fs[q] \in Entry /\ fs[q] # Absent
  BY DEF FilesOK, Files, Exists
<1>2. fs[q] \in FullEntry
  BY <1>1, EntryFacts
<1>3. e.kind = fs[q].kind /\ e.data = <<h, "mixed">>
  BY <1>2 DEF FullEntry
<1>4. e # Absent
  BY <1>2 DEF FullEntry, Absent
<1>5. fs' = [fs EXCEPT ![c] = e]
  OBVIOUS
<1> HIDE DEF e
<1>6. fs'[c] = e /\ Only(c)
  BY <1>5 DEF FilesOK, Files, Only
<1> QED
  BY <1>3, <1>4, <1>6

LEMMA CopyFilled ==
  ASSUME FilesOK, NEW c \in Path, NEW d \in Data, Exists(c),
         fs' = [fs EXCEPT ![c].data = d]
  PROVE  Only(c) /\ fs'[c].kind = fs[c].kind /\ fs'[c].data = d
PROOF
<1>1. fs[c] \in Entry /\ fs[c] # Absent
  BY DEF FilesOK, Files, Exists
<1>2. fs[c] \in FullEntry
  BY <1>1, EntryFacts
<1> QED
  BY <1>2 DEF FullEntry, Only, FilesOK, Files

LEMMA CopySteps ==
  ASSUME JobsOK, FilesOK, NEW h \in Handlers, Saved(h), CopyStep(h)
  PROVE  \/ ~Copying(h) /\ w'[h].pc \notin {"copying", "backing"} /\ fs' = fs
         \/ w[h].pc = "stage" /\ w'[h].pc = "copying" /\ Starts(h, Src(h), Staged(h))
         \/ w[h].pc = "backup" /\ w'[h].pc = "backing" /\ Starts(h, Dst(h), Backup(h))
            /\ (w[h].op = "edit" => fs[Dst(h)].kind = "file")
         \/ /\ Copying(h) /\ w'[h].pc \notin {"copying", "backing"}
            /\ \E q \in {Src(h), Dst(h)} : Ends(h, q, Copied(h))
PROOF
<1>a. Src(h) \in Path /\ Dst(h) \in Path /\ Staged(h) \in Path /\ Backup(h) \in Path
  BY PathFacts
<1>b. w[h].read \in Data
  BY FieldFacts
<1>1. CASE StageCopy(h)
  <2>1. w[h].pc = "stage"
    BY <1>1 DEF StageCopy
  <2>2. CASE Refuse(h) /\ fs' = fs
    <3>1. w'[h].pc = "done"
      BY <2>2, AnswerFacts DEF Refuse
    <3> QED
      BY <2>1, <2>2, <3>1 DEF Copying
  <2>3. CASE ~(Refuse(h) /\ fs' = fs)
    <3>1. /\ Exists(Src(h))
          /\ fs' = [fs EXCEPT ![Staged(h)] =
                      [fs[Src(h)] EXCEPT !.data = <<h, "mixed">>, !.owner = "agent"]]
          /\ w' = [w EXCEPT ![h].pc = "copying", ![h].read = fs[Src(h)].data]
      BY <1>1, <2>3 DEF StageCopy
    <3>2. w'[h].pc = "copying" /\ w'[h].read = fs[Src(h)].data
      BY <3>1 DEF JobsOK, Job
    <3> QED
      BY <1>a, <2>1, <3>1, <3>2, CopyOf DEF Starts
  <2> QED
    BY <2>2, <2>3
<1>2. CASE StartBackup(h)
  <2>1. w[h].pc = "backup"
    BY <1>2 DEF StartBackup
  <2>2. CASE Refuse(h) /\ fs' = fs
    <3>1. w'[h].pc = "done"
      BY <2>2, AnswerFacts DEF Refuse
    <3> QED
      BY <2>1, <2>2, <3>1 DEF Copying
  <2>3. CASE ~(Refuse(h) /\ fs' = fs)
    <3>1. /\ Exists(Dst(h)) /\ (w[h].op = "edit" => fs[Dst(h)].kind = "file")
          /\ fs' = [fs EXCEPT ![Backup(h)] =
                      [fs[Dst(h)] EXCEPT !.data = <<h, "mixed">>, !.owner = "agent"]]
          /\ w' = [w EXCEPT ![h].pc = "backing", ![h].read = fs[Dst(h)].data]
      BY <1>2, <2>3 DEF StartBackup
    <3>2. w'[h].pc = "backing" /\ w'[h].read = fs[Dst(h)].data
      BY <3>1 DEF JobsOK, Job
    <3> QED
      BY <1>a, <2>1, <3>1, <3>2, CopyOf DEF Starts
  <2> QED
    BY <2>2, <2>3
<1>3. CASE FinishCopy(h)
  <2>1. w[h].pc = "copying" /\ Copied(h) = Staged(h) /\ Exists(Staged(h)) /\ Copying(h)
    BY <1>3 DEF FinishCopy, Copied, Copying, Saved
  <2>2. CASE CleanUp(h, Staged(h), fs, 1, "error")
    <3>1. w'[h].pc = "done"
      BY <2>2, AnswerFacts DEF CleanUp
    <3>2. fs' = fs \/ fs' = [fs EXCEPT ![Staged(h)] = Absent]
      BY <2>2 DEF CleanUp
    <3>3. Only(Staged(h)) /\ (fs'[Staged(h)] = fs[Staged(h)] \/ fs'[Staged(h)] = Absent)
      BY <1>a, <3>2 DEF Only, FilesOK, Files
    <3> QED
      BY <2>1, <3>1, <3>3 DEF Ends
  <2>3. CASE ~CleanUp(h, Staged(h), fs, 1, "error")
    <3>1. PICK d \in Copies(w[h].read, Src(h)) : fs' = [fs EXCEPT ![Staged(h)].data = d]
      BY <1>3, <2>3 DEF FinishCopy
    <3>2. w' = [w EXCEPT ![h].pc = "commit", ![h].from = "staged"]
      BY <1>3, <2>3 DEF FinishCopy
    <3>3. w'[h].pc = "commit"
      BY <3>2 DEF JobsOK, Job
    <3>4. d \in Data
      BY <1>a, <1>b, CopiesAreData
    <3> QED
      BY <1>a, <2>1, <3>1, <3>3, <3>4, CopyFilled DEF Ends
  <2> QED
    BY <2>2, <2>3
<1>4. CASE FinishBackup(h)
  <2>1. w[h].pc = "backing" /\ Copied(h) = Backup(h) /\ Exists(Backup(h)) /\ Copying(h)
    BY <1>4 DEF FinishBackup, Copied, Copying, Saved
  <2>2. CASE Refuse(h) /\ (fs' = fs \/ fs' = Removed(Backup(h)))
    <3>1. w'[h].pc = "done"
      BY <2>2, AnswerFacts DEF Refuse
    <3>2. Only(Backup(h)) /\ (fs'[Backup(h)] = fs[Backup(h)] \/ fs'[Backup(h)] = Absent)
      BY <1>a, <2>2 DEF Only, FilesOK, Files, Removed
    <3> QED
      BY <2>1, <3>1, <3>2 DEF Ends
  <2>3. CASE ~(Refuse(h) /\ (fs' = fs \/ fs' = Removed(Backup(h))))
    <3>1. PICK d \in Copies(w[h].read, Dst(h)) : fs' = [fs EXCEPT ![Backup(h)].data = d]
      BY <1>4, <2>3 DEF FinishBackup
    <3>2. Goto(h, IF w[h].op = "delete" THEN "remove" ELSE "replace")
      BY <1>4, <2>3 DEF FinishBackup
    <3>3. w'[h].pc \in {"remove", "replace"}
      BY <3>2 DEF Goto, JobsOK, Job
    <3>4. d \in Data
      BY <1>a, <1>b, CopiesAreData
    <3> QED
      BY <1>a, <2>1, <3>1, <3>3, <3>4, CopyFilled DEF Ends
  <2> QED
    BY <2>2, <2>3
<1> QED
  BY <1>1, <1>2, <1>3, <1>4 DEF CopyStep

LEMMA BackupSteps ==
  ASSUME JobsOK, FilesOK, NEW h \in Handlers, Saved(h), Untouched(h), Turns(h)
  PROVE  \/ fs'[Backup(h)] = fs[Backup(h)]
         \/ /\ w[h].pc = "backup" /\ w'[h].pc = "backing" /\ Starts(h, Dst(h), Backup(h))
            /\ w[h].op = "edit" => fs[Dst(h)].kind = "file"
         \/ w[h].pc = "backing" /\ \E q \in {Src(h), Dst(h)} : Ends(h, q, Backup(h))
PROOF
<1>a. PathsApart(h)
  BY PathsAreApart
<1>1. CASE CopyStep(h)
  <2>1. Backup(h) \in Path \ {Staged(h)}
    BY <1>a DEF PathsApart
  <2>2. \A q : Starts(h, q, Staged(h)) \/ Ends(h, q, Staged(h)) => fs'[Backup(h)] = fs[Backup(h)]
    BY <2>1 DEF Starts, Ends, Only
  <2>3. Copying(h) => \/ Copied(h) = Staged(h)
                      \/ w[h].pc = "backing" /\ Copied(h) = Backup(h)
    BY DEF Copying, Copied
  <2> QED
    BY <1>1, <2>2, <2>3, CopySteps
<1>2. CASE w[h].pc \notin {"copying", "backup", "backing"}
  <2>1. Backup(h) \in Path \ Reach(h)
    BY <1>a, <1>2 DEF PathsApart, Reach
  <2>2. fs'[Backup(h)] = fs[Backup(h)] \/ Finished(h, Backup(h))
    BY <2>1 DEF Untouched
  <2>3. ~Finished(h, Backup(h))
    BY DEF Finished, Saved
  <2> QED
    BY <2>2, <2>3
<1> QED
  BY <1>1, <1>2 DEF Turns

LEMMA CopiesAreNotTorn ==
  \A d, p : \A c \in Copies(d, p) :
     /\ c[2] # "torn"
     /\ d[2] # "empty" => c[2] # "empty"
     /\ Spoilt(c) => \/ Spoilt(d)
                     \/ Exists(p) /\ fs[p].kind = "file" /\ Spoilt(fs[p].data)
PROOF
  BY DEF Copies, Spoilt

LEMMA SavedStep ==
  ASSUME JobsOK, FilesOK, NEW h \in Handlers, Saved(h), Untouched(h), Turns(h)
  PROVE  Saved(h)'
PROOF
<1>1. /\ w'[h].pc \in BackupPcs => w'[h].op \in {"delete", "edit"}
      /\ w'[h].pc \in TextPcs => w'[h].op = "edit"
  BY DEF Turns
<1>2. ASSUME w'[h].pc \in {"copying", "backing"}
      PROVE  Exists(Copied(h))' /\ fs'[Copied(h)'].data = <<h, "mixed">>
  <2>1. CopyStep(h)
    BY <1>2 DEF Turns
  <2>2. \/ w'[h].pc = "copying" /\ Starts(h, Src(h), Staged(h))
        \/ w'[h].pc = "backing" /\ Starts(h, Dst(h), Backup(h))
    BY <1>2, <2>1, CopySteps
  <2>3. Copied(h)' = IF w'[h].pc = "copying" THEN Staged(h) ELSE Backup(h)
    BY DEF Copied, Staged, Backup
  <2> QED
    BY <2>2, <2>3 DEF Starts, Exists
<1>3. ASSUME fs'[Backup(h)] # Absent
      PROVE  /\ w'[h].pc \notin {"idle", "check", "validate", "backup"}
             /\ w'[h].op = "edit" => fs'[Backup(h)].kind = "file"
             /\ fs'[Backup(h)].data[2] # "torn"
  <2>1. ASSUME Exists(Backup(h))
        PROVE  /\ w'[h].pc \notin {"idle", "check", "validate", "backup"}
               /\ w'[h].op = w[h].op
    BY <2>1 DEF Saved, Turns
  <2>2. CASE fs'[Backup(h)] = fs[Backup(h)]
    BY <1>3, <2>1, <2>2 DEF Saved, Exists
  <2>3. CASE /\ w[h].pc = "backup" /\ w'[h].pc = "backing" /\ Starts(h, Dst(h), Backup(h))
             /\ w[h].op = "edit" => fs[Dst(h)].kind = "file"
    BY <2>3 DEF Starts, Turns
  <2>4. CASE w[h].pc = "backing" /\ \E q \in {Src(h), Dst(h)} : Ends(h, q, Backup(h))
    <3>1. PICK q \in {Src(h), Dst(h)} : Ends(h, q, Backup(h))
      BY <2>4
    <3>2. Exists(Backup(h))
      BY <2>4 DEF Saved, Copying, Copied
    <3>3. CASE fs'[Backup(h)] = fs[Backup(h)]
      BY <2>1, <3>2, <3>3 DEF Saved
    <3>4. CASE /\ fs'[Backup(h)].kind = fs[Backup(h)].kind
               /\ fs'[Backup(h)].data \in Copies(w[h].read, q)
      BY <2>1, <3>2, <3>4, CopiesAreNotTorn DEF Saved
    <3> QED
      BY <1>3, <3>1, <3>3, <3>4 DEF Ends
  <2> QED
    BY <2>2, <2>3, <2>4, BackupSteps
<1>4. Backup(h)' = Backup(h)
  BY DEF Backup
<1> QED
  BY <1>1, <1>2, <1>3, <1>4 DEF Saved, Copying, Exists

LEMMA SavedOthers ==
  ASSUME JobsOK, FilesOK, NEW h \in Handlers, NEW g \in Handlers, g # h, Untouched(h), Own(h),
         Saved(g)
  PROVE  /\ Saved(g)'
         /\ Exists(Backup(g)) => fs'[Backup(g)] = fs[Backup(g)]
         /\ Copying(g) => fs'[Copied(g)] = fs[Copied(g)] /\ Copied(g)' = Copied(g)
PROOF
<1>1. w'[g] = w[g]
  BY DEF Own
<1>2. \A p \in {Staged(g), Old(g), Backup(g)} :
         (fs'[p] = fs[p] \/ Finished(h, p)) /\ (Exists(p)' <=> Exists(p))
  BY OthersPaths
<1>3. Exists(Backup(g)) => fs'[Backup(g)] = fs[Backup(g)]
  BY <1>2 DEF Saved, Finished
<1>4. fs'[Backup(g)] # Absent => Exists(Backup(g))
  BY <1>2 DEF Finished, Exists
<1>5. Copied(g)' = Copied(g)
  BY <1>1 DEF Copied, Staged, Backup
<1>6. Copying(g) => fs'[Copied(g)] = fs[Copied(g)]
  <2> SUFFICES ASSUME Copying(g) PROVE fs'[Copied(g)] = fs[Copied(g)]
    OBVIOUS
  <2>1. fs[Copied(g)].data = <<g, "mixed">> /\ Copied(g) \in {Staged(g), Old(g), Backup(g)}
    BY DEF Saved, Copied
  <2>2. ~Finished(h, Copied(g))
    BY <2>1 DEF Finished
  <2> QED
    BY <1>2, <2>1, <2>2
<1>7. Saved(g)'
  BY <1>1, <1>3, <1>4, <1>5, <1>6 DEF Saved, Copying, Exists, Backup
<1> QED
  BY <1>3, <1>5, <1>6, <1>7

(* The effect of a step on every path.                                     *)
Apart(h) ==
    /\ ~Copying(h) /\ w'[h].pc \notin {"copying", "backing"}
    /\ \A p \in Path : \/ fs'[p] = fs[p] \/ Finished(h, p)
                       \/ p \in Paths(h) /\ Left(h, fs'[p], p)
CopyBegun(h) ==
    /\ ~Copying(h) /\ w'[h].pc \in {"copying", "backing"}
    /\ \E q \in {Src(h), Dst(h)} : Starts(h, q, Copied(h)')
CopyEnded(h) ==
    /\ Copying(h) /\ w'[h].pc \notin {"copying", "backing"}
    /\ \E q \in {Src(h), Dst(h)} : Ends(h, q, Copied(h))

LEMMA ServedEffects ==
  ASSUME JobsOK, FilesOK, Backed, NEW h \in Handlers, Saved(h), Cloned(h), Untouched(h),
         Turns(h), Served(h)
  PROVE  Apart(h) \/ CopyBegun(h) \/ CopyEnded(h)
PROOF
<1>1. CASE CopyStep(h)
  <2>1. /\ w'[h].pc = "copying" => Copied(h)' = Staged(h)
        /\ w'[h].pc = "backing" => Copied(h)' = Backup(h)
    BY DEF Copied, Staged, Backup
  <2>2. w[h].pc \in {"stage", "backup"} => ~Copying(h)
    BY DEF Copying
  <2> QED
    BY <1>1, <2>1, <2>2, CopySteps DEF Apart, CopyBegun, CopyEnded
<1>2. CASE ~CopyStep(h)
  <2>1. ~Copying(h) /\ w'[h].pc \notin {"copying", "backing"}
    BY <1>2 DEF Turns, Copying
  <2>2. \A p \in Paths(h) : Left(h, fs'[p], p)
    BY <1>2, ServedLeaves DEF Leaving
  <2>3. \A p \in Path \ Paths(h) : fs'[p] = fs[p] \/ Finished(h, p)
    BY DEF Untouched, Reach, Paths
  <2> QED
    BY <2>1, <2>2, <2>3 DEF Apart
<1> QED
  BY <1>1, <1>2

LEMMA FinishedIsWhole ==
  ASSUME FilesOK, NEW h \in Handlers, NEW p \in Path, Finished(h, p)
  PROVE  Exists(p) /\ fs'[p] # Absent /\ fs'[p].kind = fs[p].kind /\ fs'[p].data[2] = "whole"
PROOF
<1>1. fs[p] \in Entry /\ fs[p] # Absent
  BY DEF Finished, Exists, FilesOK, Files
<1>2. fs[p] \in FullEntry
  BY <1>1, EntryFacts
<1>3. fs'[p] = [fs[p] EXCEPT !.data = <<h, "whole">>]
  BY DEF Finished
<1>4. <<h, "whole">> \in Data
  BY DataFacts
<1>5. fs'[p] # Absent
  BY <1>1, <1>3, <1>4, DataChange
<1>6. fs'[p].kind = fs[p].kind /\ fs'[p].data = <<h, "whole">>
  BY <1>2, <1>3 DEF FullEntry
<1> QED
  BY <1>5, <1>6 DEF Finished

LEMMA RecoverableStep ==
  ASSUME JobsOK, FilesOK, NEW h \in Handlers, \A g \in Handlers : Saved(g),
         Untouched(h), Own(h), Turns(h), host' = host, Recoverable
  PROVE  Recoverable'
PROOF
<1>1. PICK g \in Handlers : Exists(Backup(g)) /\ fs[Backup(g)].data[2] \in Kept
  BY DEF Recoverable
<1>2. fs'[Backup(g)] = fs[Backup(g)]
  <2>1. CASE g # h
    BY <1>1, <2>1, SavedOthers
  <2>2. CASE g = h
    <3>1. w[h].pc # "backup"
      BY <1>1, <2>2 DEF Saved
    <3>2. w[h].pc # "backing"
      BY <1>1, <2>2 DEF Saved, Copying, Copied, Kept
    <3> QED
      BY <2>2, <3>1, <3>2, BackupSteps
  <2> QED
    BY <2>1, <2>2
<1>3. Backup(g)' = Backup(g) /\ Kept' = Kept
  BY DEF Backup, Kept
<1> QED
  BY <1>1, <1>2, <1>3 DEF Recoverable, Exists

LEMMA NoneEmptyStep ==
  ASSUME JobsOK, FilesOK, NEW h \in Handlers, \A g \in Handlers : Saved(g), NoneEmpty,
         Own(h), host' = host, Apart(h) \/ CopyBegun(h) \/ CopyEnded(h)
  PROVE  NoneEmpty'
PROOF
<1> SUFFICES ASSUME host.links PROVE NoneEmpty'
  BY DEF NoneEmpty
<1>a. \A p \in Path : Exists(p) => fs[p].data[2] # "empty"
  BY DEF NoneEmpty
<1>b. \A g \in Handlers : Copying(g) => w[g].read[2] # "empty"
  BY DEF NoneEmpty
<1>c. Src(h) \in Path /\ Dst(h) \in Path /\ Paths(h) \subseteq Path
  BY PathFacts, PathsArePaths
<1>1. ASSUME NEW p \in Path, fs'[p] # Absent
      PROVE  fs'[p].data[2] # "empty"
  <2>1. CASE fs'[p] = fs[p]
    BY <1>a, <1>1, <2>1 DEF Exists
  <2>2. CASE Finished(h, p)
    BY <2>2, FinishedIsWhole
  <2>3. CASE Left(h, fs'[p], p)
    BY <1>a, <1>c, <1>1, <2>3 DEF Left, Alike, Spoilt
  <2>4. CASE CopyBegun(h)
    BY <2>1, <2>4 DEF CopyBegun, Starts, Only
  <2>5. CASE CopyEnded(h)
    <3>1. PICK q \in {Src(h), Dst(h)} : Ends(h, q, Copied(h))
      BY <2>5 DEF CopyEnded
    <3>2. w[h].read[2] # "empty"
      BY <1>b, <2>5 DEF CopyEnded
    <3>3. CASE fs'[p].data \in Copies(w[h].read, q)
      BY <3>2, <3>3, CopiesAreNotTorn
    <3> QED
      BY <1>1, <2>1, <3>1, <3>3 DEF Ends, Only
  <2> QED
    BY <2>1, <2>2, <2>3, <2>4, <2>5 DEF Apart
<1>2. ASSUME NEW g \in Handlers, w'[g].pc \in {"copying", "backing"}
      PROVE  w'[g].read[2] # "empty"
  <2>1. CASE g # h
    BY <1>b, <1>2, <2>1 DEF Own, Copying
  <2>2. CASE g = h
    <3>1. PICK q \in {Src(h), Dst(h)} : Starts(h, q, Copied(h)')
      BY <1>2, <2>2 DEF Apart, CopyBegun, CopyEnded
    <3> QED
      BY <1>a, <1>c, <2>2, <3>1 DEF Starts
  <2> QED
    BY <2>1, <2>2
<1> QED
  BY <1>1, <1>2 DEF NoneEmpty, Exists, Copying

LEMMA ClonedStep ==
  ASSUME JobsOK, FilesOK, NEW h \in Handlers, \A g \in Handlers : Cloned(g), NoneEmpty,
         Own(h), Turns(h), host' = host
  PROVE  \A g \in Handlers : Cloned(g)'
PROOF
<1>1. \A g \in Handlers \ {h} : Cloned(g)'
  BY DEF Own, Cloned
<1>2. ASSUME w'[h].pc = "cloning", w'[h].seen # Absent
      PROVE  w'[h].seen.kind = "dir" /\ (host.links => w'[h].seen.data[2] # "empty")
  <2>1. StartClone(h)
    BY <1>2 DEF Turns
  <2>2. w'[h].seen = fs[Dst(h)] /\ MayBeEmpty(Dst(h))
    BY <1>2, <2>1 DEF StartClone, Goto, JobsOK, Job
  <2>3. Exists(Dst(h)) /\ Dst(h) \in Path
    BY <1>2, <2>2, PathFacts DEF Exists
  <2> QED
    BY <2>2, <2>3 DEF MayBeEmpty, NoneEmpty
<1> QED
  BY <1>1, <1>2 DEF Cloned

(* A user path is never a copy that is not finished.                       *)
LEMMA UnfinishedIsPrivate ==
  ASSUME JobsOK, NEW p, Unfinished(p)
  PROVE  \E g \in Handlers : /\ w[g].pc \in {"copying", "backing", "done"}
                             /\ p \in {Staged(g), Backup(g)}
                             /\ Copying(g) => p = Copied(g)
PROOF
<1>1. PICK g \in Handlers : \/ p = Staged(g) /\ w[g].pc \in {"copying", "done"}
                            \/ p = Backup(g) /\ w[g].pc \in {"backing", "done"}
  BY DEF Unfinished
<1> QED
  BY <1>1 DEF Copying, Copied

LEMMA UnspoiltStep ==
  ASSUME JobsOK, FilesOK, Backed, NEW h \in Handlers, \A g \in Handlers : Saved(g),
         NoneEmpty, Unspoilt, ~Recoverable, Own(h), Untouched(h), Turns(h),
         Apart(h) \/ CopyBegun(h) \/ CopyEnded(h)
  PROVE  Unspoilt'
PROOF
<1>a. \A p \in Path : Exists(p) /\ fs[p].kind = "file" /\ Spoilt(fs[p].data) => Unfinished(p)
  BY DEF Unspoilt
<1>b. \A g \in Handlers : Copying(g) /\ fs[Copied(g)].kind = "file" => ~Spoilt(w[g].read)
  BY DEF Unspoilt
<1>c. Src(h) \in Path /\ Dst(h) \in Path /\ Backup(h) \in Path /\ Paths(h) \subseteq Path
  BY PathFacts, PathsArePaths
<1>d. w[h].pc # "done"
  BY DEF Turns
<1>e. \A q \in {Src(h), Dst(h)} :
         Exists(q) /\ fs[q].kind = "file" => ~Spoilt(fs[q].data)
  <2> SUFFICES ASSUME NEW q \in {Src(h), Dst(h)}, Unfinished(q) PROVE FALSE
    BY <1>a, <1>c
  <2>1. PICK g \in Handlers : q \in {Staged(g), Backup(g)}
    BY UnfinishedIsPrivate
  <2> QED
    BY <2>1 DEF Src, Dst, Staged, Backup
<1>f. ASSUME NEW p \in Path, Unfinished(p)
      PROVE  \/ Unfinished(p)'
             \/ Copying(h) /\ p = Copied(h)
  <2>1. PICK g \in Handlers : \/ p = Staged(g) /\ w[g].pc \in {"copying", "done"}
                              \/ p = Backup(g) /\ w[g].pc \in {"backing", "done"}
    BY <1>f DEF Unfinished
  <2>2. CASE g # h
    <3>1. w'[g] = w[g] /\ Staged(g)' = Staged(g) /\ Backup(g)' = Backup(g)
      BY <2>2 DEF Own, Staged, Backup
    <3> QED
      BY <2>1, <3>1 DEF Unfinished
  <2>3. CASE g = h
    BY <1>d, <2>1, <2>3 DEF Copying, Copied
  <2> QED
    BY <2>2, <2>3
<1>g. ASSUME NEW q \in Paths(h), Exists(q), fs[q].kind = "file", Spoilt(fs[q].data)
      PROVE  Copying(h) /\ q = Copied(h)
  <2>1. PICK g \in Handlers : /\ w[g].pc \in {"copying", "backing", "done"}
                              /\ q \in {Staged(g), Backup(g)}
                              /\ Copying(g) => q = Copied(g)
    BY <1>a, <1>c, <1>g, UnfinishedIsPrivate
  <2>2. g = h
    BY <1>g, <2>1 DEF Paths, Src, Dst, Staged, Old, Backup
  <2> QED
    BY <1>d, <2>1, <2>2 DEF Copying
<1>i. w[h].pc # "in_place"
  <2> SUFFICES ASSUME w[h].pc = "in_place" PROVE FALSE
    OBVIOUS
  <2>1. Exists(Backup(h)) /\ w[h].op = "edit"
    BY DEF Backed, BackedBy, Saved, TextPcs
  <2>2. fs[Backup(h)].kind = "file" /\ fs[Backup(h)].data[2] # "torn"
    BY <2>1 DEF Saved
  <2>3. fs[Backup(h)].data[2] \notin Kept
    BY <2>1 DEF Recoverable
  <2>4. fs[Backup(h)].data \in Data
    BY <1>c, <2>1, EntryFacts DEF FilesOK, Files, Exists, FullEntry
  <2>5. fs[Backup(h)].data[2] = "mixed"
    BY <1>c, <2>1, <2>2, <2>3, <2>4 DEF Data, Kept, NoneEmpty
  <2>6. Copying(h)
    BY <1>g, <2>1, <2>2, <2>5 DEF Paths, Spoilt
  <2> QED
    BY <2>6 DEF Copying
<1>1. ASSUME NEW p \in Path, fs'[p] # Absent, fs'[p].kind = "file", Spoilt(fs'[p].data)
      PROVE  Unfinished(p)'
  <2>1. CASE fs'[p] = fs[p] /\ ~(Copying(h) /\ p = Copied(h))
    <3>1. Unfinished(p)
      BY <1>a, <1>1, <2>1 DEF Exists
    <3> QED
      BY <1>f, <2>1, <3>1
  <2>2. CASE Apart(h)
    <3>1. ~Copying(h)
      BY <2>2 DEF Apart
    <3>2. ~Finished(h, p)
      BY <1>1, FinishedIsWhole DEF Spoilt
    <3>3. p \in Paths(h) => ~Left(h, fs'[p], p)
      BY <1>1, <1>g, <1>i, <3>1 DEF Left, Alike, Spoilt
    <3> QED
      BY <2>1, <2>2, <3>1, <3>2, <3>3 DEF Apart
  <2>3. CASE CopyBegun(h)
    <3>1. PICK q \in {Src(h), Dst(h)} : Starts(h, q, Copied(h)')
      BY <2>3 DEF CopyBegun
    <3>2. p # Copied(h)' => fs'[p] = fs[p]
      BY <3>1 DEF Starts, Only
    <3>3. \/ w'[h].pc = "copying" /\ Copied(h)' = Staged(h)'
          \/ w'[h].pc = "backing" /\ Copied(h)' = Backup(h)'
      BY <2>3 DEF CopyBegun, Copied
    <3>4. p = Copied(h)' => Unfinished(p)'
      BY <3>3 DEF Unfinished
    <3>5. ~Copying(h)
      BY <2>3 DEF CopyBegun
    <3> QED
      BY <2>1, <3>2, <3>4, <3>5
  <2>4. CASE CopyEnded(h)
    <3>1. PICK q \in {Src(h), Dst(h)} : Ends(h, q, Copied(h))
      BY <2>4 DEF CopyEnded
    <3>2. Copying(h)
      BY <2>4 DEF CopyEnded
    <3>3. p # Copied(h) => fs'[p] = fs[p]
      BY <3>1 DEF Ends, Only
    <3>4. CASE p = Copied(h) /\ w'[h].pc = "done"
      BY <3>4 DEF Copied, Unfinished, Staged, Backup
    <3>5. CASE p = Copied(h) /\ fs'[p].kind = fs[p].kind /\ fs'[p].data \in Copies(w[h].read, q)
      <4>1. ~Spoilt(w[h].read)
        BY <1>b, <1>1, <3>2, <3>5
      <4> QED
        BY <1>1, <1>e, <3>5, <4>1, CopiesAreNotTorn
    <3> QED
      BY <1>1, <2>1, <3>1, <3>3, <3>4, <3>5 DEF Ends
  <2> QED
    BY <2>2, <2>3, <2>4
<1>2. ASSUME NEW g \in Handlers, w'[g].pc \in {"copying", "backing"},
             fs'[Copied(g)'].kind = "file"
      PROVE  ~Spoilt(w'[g].read)
  <2>1. CASE g # h
    <3>1. w'[g] = w[g] /\ Copying(g)
      BY <1>2, <2>1 DEF Own, Copying
    <3>2. fs'[Copied(g)'] = fs[Copied(g)]
      BY <2>1, <3>1, SavedOthers
    <3> QED
      BY <1>b, <1>2, <3>1, <3>2
  <2>2. CASE g = h
    <3>1. PICK q \in {Src(h), Dst(h)} : Starts(h, q, Copied(h)')
      BY <1>2, <2>2 DEF Apart, CopyBegun, CopyEnded
    <3>2. Exists(q) /\ fs[q].kind = "file" /\ w'[h].read = fs[q].data
      BY <1>2, <2>2, <3>1 DEF Starts
    <3> QED
      BY <1>e, <2>2, <3>2
  <2> QED
    BY <2>1, <2>2
<1> QED
  BY <1>1, <1>2 DEF Unspoilt, Exists, Copying

LEMMA WholeInit == Init => Whole
PROOF
<1> SUFFICES ASSUME Init PROVE Whole
  OBVIOUS
<1>1. PICK user \in [Names -> UNION {UserEntries(m) : m \in Names}] :
         /\ \A m \in Names : user[m] \in UserEntries(m)
                             /\ (m \in Nested /\ ~parent => user[m] = Absent)
         /\ fs = [p \in Path |-> IF p[2] = "path" THEN user[p[1]] ELSE Absent]
  BY DEF Init
<1>2. \A m \in Names : user[m] # Absent => user[m].data[2] = "whole"
  BY <1>1 DEF UserEntries
<1>3. \A p \in Path : p[2] = "path" => p[1] \in Names
  BY DEF Path
<1>4. \A p \in Path : Exists(p) => fs[p].data[2] = "whole"
  BY <1>1, <1>2, <1>3 DEF Exists
<1>5. JobsOK
  BY InitInv DEF Inv
<1>6. \A h \in Handlers : Backup(h) \in Path /\ Backup(h)[2] # "path"
  BY <1>5, PathFacts DEF Backup
<1>7. \A h \in Handlers : ~Exists(Backup(h))
  BY <1>1, <1>6 DEF Exists
<1>8. \A h \in Handlers : w[h].pc = "idle"
  BY DEF Init, Idle
<1>9. \A h \in Handlers : ~Copying(h) /\ Saved(h) /\ Cloned(h)
  BY <1>7, <1>8 DEF Copying, Saved, Cloned, BackupPcs, TextPcs
<1> QED
  BY <1>4, <1>9 DEF Whole, NoneEmpty, Unspoilt, Spoilt

LEMMA WholeStep ==
  ASSUME Inv, Whole, NEW h \in Handlers, Served(h)
  PROVE  Whole'
PROOF
<1>1. JobsOK /\ FilesOK /\ SharedOK /\ Backed /\ Asking(h)
  BY DEF Inv, Backed, Clients
<1>2. /\ NoneEmpty /\ (Recoverable \/ Unspoilt)
      /\ \A g \in Handlers : Saved(g) /\ Cloned(g)
  BY DEF Whole
<1>3. Own(h) /\ Untouched(h) /\ host' = host
  BY <1>1, ServedIsOwn, ServedTouches, ServedHost DEF TypeOK
<1>4. Turns(h)
  BY <1>1, <1>2, ServedTurns
<1>5. Apart(h) \/ CopyBegun(h) \/ CopyEnded(h)
  BY <1>1, <1>2, <1>3, <1>4, ServedEffects
<1>6. ASSUME NEW g \in Handlers PROVE Saved(g)' /\ Cloned(g)'
  BY <1>1, <1>2, <1>3, <1>4, SavedStep, SavedOthers, ClonedStep
<1>7. NoneEmpty'
  BY <1>1, <1>2, <1>3, <1>5, NoneEmptyStep
<1>8. Recoverable' \/ Unspoilt'
  <2>1. CASE Recoverable
    BY <1>1, <1>2, <1>3, <1>4, <2>1, RecoverableStep
  <2>2. CASE ~Recoverable
    BY <1>1, <1>2, <1>3, <1>4, <1>5, <2>2, UnspoiltStep
  <2> QED
    BY <2>1, <2>2
<1> QED
  BY <1>6, <1>7, <1>8 DEF Whole

LEMMA WholeStays ==
  ASSUME Whole, w' = w, fs' = fs, host' = host
  PROVE  Whole'
PROOF
<1>1. \A p : Unfinished(p)' <=> Unfinished(p)
  BY DEF Unfinished, Staged, Backup
<1>2. \A h \in Handlers :
         Copying(h)' = Copying(h) /\ Copied(h)' = Copied(h) /\ Backup(h)' = Backup(h)
  BY DEF Copying, Copied, Staged, Backup
<1>3. NoneEmpty'
  BY <1>2 DEF Whole, NoneEmpty, Exists
<1>4. Recoverable => Recoverable'
  BY <1>2 DEF Recoverable, Exists, Kept
<1>5. Unspoilt => Unspoilt'
  BY <1>1, <1>2 DEF Unspoilt, Exists
<1>6. \A h \in Handlers : (Saved(h) => Saved(h)') /\ (Cloned(h) => Cloned(h)')
  BY <1>2 DEF Saved, Cloned, Exists
<1> QED
  BY <1>3, <1>4, <1>5, <1>6 DEF Whole

LEMMA WholeHolds == Spec => []Whole
PROOF
<1>1. Inv /\ Whole /\ [Next]_vars => Whole'
  <2> SUFFICES ASSUME Inv, Whole, [Next]_vars PROVE Whole'
    OBVIOUS
  <2>1. ASSUME NEW h \in Handlers,
               Start(h) \/ Mutate(h) \/ EditStep(h) \/ GitStep(h) \/ ReadStep(h)
        PROVE  Whole'
    BY <2>1, WholeStep DEF Served
  <2>2. ASSUME NEW id \in Names, Ages(id)
        PROVE  Whole'
    BY <2>2, WholeStays DEF Ages
  <2>3. CASE UNCHANGED vars
    BY <2>3, WholeStays DEF vars
  <2> QED
    BY <2>1, <2>2, <2>3 DEF Next
<1> QED
  BY <1>1, WholeInit, InvHolds, PTL DEF Spec

(* Whatever the order of the handlers and wherever they stop: a file that  *)
(* a user sees holds part of a text only while a backup holds a whole one, *)
(* or, without hard links, the empty file that a creation reserves. The    *)
(* write in place of edit.rs is the only one into an existing file.        *)
THEOREM WholeOrRecoverableHolds == Spec => []WholeOrRecoverable
PROOF
<1>1. Inv /\ Whole => WholeOrRecoverable
  <2> SUFFICES ASSUME Inv, Whole, NEW n \in Names, fs[<<n, "path">>] # Absent,
                      fs[<<n, "path">>].kind = "file", Spoilt(fs[<<n, "path">>].data)
               PROVE  Recoverable
    BY DEF WholeOrRecoverable, Recoverable, Kept, Spoilt
  <2> DEFINE p == <<n, "path">>
  <2>1. p \in Path /\ Exists(p)
    BY DEF Path, Exists
  <2>2. ASSUME Unspoilt PROVE FALSE
    <3>1. Unfinished(p)
      BY <2>1, <2>2 DEF Unspoilt
    <3>2. PICK g \in Handlers : p \in {Staged(g), Backup(g)}
      BY <3>1, UnfinishedIsPrivate DEF Inv
    <3> QED
      BY <3>2 DEF Staged, Backup
  <2> QED
    BY <2>2 DEF Whole
<1> QED
  BY <1>1, InvHolds, WholeHolds, PTL

=============================================================================
