---------------------------- MODULE FileMutations ----------------------------
(***************************************************************************)
(* fsmutate.rs: move, copy, delete, chmod and chown. A rename that cannot  *)
(* be done directly moves the old destination aside, renames and rolls     *)
(* back if that fails; across volumes the source is staged beside the      *)
(* destination first.                                                      *)
(***************************************************************************)
EXTENDS HostFiles

(* The checks before anything changes. To move a path onto itself is done  *)
(* at once, to copy it is refused.                                         *)
CheckMoveCopy(h) ==
    LET same == w[h].src = w[h].dst
        refused == IF same THEN w[h].op = "copy"
                   ELSE Exists(Dst(h)) /\ ~Asked(h, "overwrite")
    IN  /\ w[h].pc = "check" /\ w[h].op \in {"move", "copy"}
        /\ UNCHANGED <<fs, parent, faults, rest>>
        /\ \/ (~Exists(Src(h)) \/ refused) /\ Refuse(h)
           \/ Exists(Src(h)) /\ ~refused /\ same /\ Answer(h, "ok", {})
           \/ /\ Exists(Src(h)) /\ ~refused /\ ~same
              /\ Goto(h, IF w[h].op = "move" THEN "direct" ELSE "stage")

(* After the directory entry has changed its parents are synced; if that   *)
(* fails the answer is an error.                                           *)
SyncThen(h, next) ==
    \/ NoFault /\ next
    \/ Fault /\ Answer(h, "error", {"sync"})

TryDirectMove(h) ==
    LET e == RenameError(Src(h), Dst(h), ~Asked(h, "overwrite"))
    IN  /\ w[h].pc = "direct"
        /\ UNCHANGED <<parent, rest>>
        /\ \/ /\ e = "ok"
              /\ fs' = Renamed(Src(h), Dst(h))
              /\ SyncThen(h, Answer(h, "ok", {}))
           \/ /\ e # "ok"
              /\ UNCHANGED <<fs, faults>>
              /\ IF e = "EXDEV" \/ (Asked(h, "overwrite") /\ Exists(Dst(h)))
                 THEN Goto(h, "recheck") ELSE Refuse(h)

(* Looks at the destination again, whether or not it may be overwritten.   *)
Recheck(h) ==
    /\ w[h].pc = "recheck"
    /\ Goto(h, IF Exists(Dst(h)) THEN "displace" ELSE "stage")
    /\ UNCHANGED <<fs, parent, faults, rest>>

From(h) == IF w[h].from = "path" THEN Src(h) ELSE Staged(h)

(* try_move_over_existing with the source, commit_staged with the copy.    *)
Displace(h) ==
    LET e == RenameError(Dst(h), Old(h), TRUE)
    IN  /\ w[h].pc = "displace"
        /\ UNCHANGED <<parent, rest>>
        /\ \/ /\ e = "ok" /\ NoFault
              /\ fs' = Renamed(Dst(h), Old(h))
              /\ Goto(h, "over")
           \/ /\ e # "ok" \/ faults < MaxFaults
              /\ CleanUp(h, Staged(h), fs, IF e = "ok" THEN 1 ELSE 0, "error")

(* What happens to the request once the destination is installed.          *)
AfterCommit(h, f) ==
    IF w[h].op = "move" /\ w[h].from = "staged"
    THEN \/ /\ NoFault
            /\ fs' = [f EXCEPT ![Old(h)] = Absent]
            /\ w' = [w EXCEPT ![h].pc = "unlink"]
         \/ /\ Fault
            /\ f[Old(h)] # Absent
            /\ fs' = f
            /\ w' = [w EXCEPT ![h].pc = "unlink",
                             ![h].notes = {"reported"}]
    ELSE CleanUp(h, Old(h), f, 0, "ok")

MoveOver(h) ==
    LET e == RenameError(From(h), Dst(h), FALSE)
    IN  /\ w[h].pc = "over"
        /\ UNCHANGED <<parent, rest>>
        /\ IF e = "ok"
           THEN \/ AfterCommit(h, Renamed(From(h), Dst(h)))
                \/ /\ fs' = Renamed(From(h), Dst(h))
                   /\ Fault
                   /\ Answer(h, "error", {"sync"})
           ELSE /\ Goto(h, IF e = "EXDEV" THEN "rollback_cross" ELSE "rollback")
                /\ UNCHANGED <<fs, faults>>

(* Puts the old destination back unless something has taken its place.     *)
Rollback(h) ==
    LET e == RenameError(Old(h), Dst(h), TRUE)
        f == IF e = "ok" THEN Renamed(Old(h), Dst(h)) ELSE fs
    IN  /\ w[h].pc \in {"rollback", "rollback_cross"}
        /\ UNCHANGED <<parent, rest>>
        /\ \/ /\ e = "ok" /\ w[h].pc = "rollback_cross"
              /\ fs' = f
              /\ Goto(h, "stage") /\ NoFault
           \/ /\ e = "ok" /\ w[h].pc = "rollback"
              /\ CleanUp(h, Staged(h), f, 0, "error")
           \/ /\ e # "ok"
              /\ \/ fs' = Removed(Staged(h)) /\ NoFault
                 \/ Exists(Staged(h)) /\ UNCHANGED fs /\ Fault
              /\ Answer(h, "error", {"reported"})

(* staged_copy: copy_entry in two steps, as the source may change while it *)
(* is read. A copied directory is one content.                             *)
StageCopy(h) ==
    /\ w[h].pc = "stage"
    /\ UNCHANGED <<parent, faults, rest>>
    /\ IF Exists(Src(h)) /\ InDir(Staged(h))
       THEN /\ fs' = [fs EXCEPT ![Staged(h)] =
                        [fs[Src(h)] EXCEPT !.data = <<h, "mixed">>, !.owner = "agent"]]
            /\ w' = [w EXCEPT ![h].pc = "copying", ![h].read = fs[Src(h)].data]
       ELSE UNCHANGED fs /\ Refuse(h)

FinishCopy(h) ==
    /\ w[h].pc = "copying"
    /\ UNCHANGED <<parent, rest>>
    /\ \/ /\ NoFault
          /\ \E d \in Copies(w[h].read, Src(h)) : fs' = [fs EXCEPT ![Staged(h)].data = d]
          /\ w' = [w EXCEPT ![h].pc = "commit", ![h].from = "staged"]
       \/ /\ faults < MaxFaults
          /\ CleanUp(h, Staged(h), fs, 1, "error")

(* commit_staged: how the copy replaces the destination.                   *)
CommitStaged(h) ==
    /\ w[h].pc = "commit"
    /\ Goto(h, IF Asked(h, "overwrite") /\ Exists(Dst(h))
                  /\ "dir" \in {fs[Staged(h)].kind, fs[Dst(h)].kind}
               THEN "displace" ELSE "install")
    /\ UNCHANGED <<fs, parent, faults, rest>>

InstallStaged(h) ==
    /\ w[h].pc = "install"
    /\ UNCHANGED <<parent, rest>>
    /\ IF RenameError(Staged(h), Dst(h), ~Asked(h, "overwrite")) = "ok"
       THEN \/ AfterCommit(h, Renamed(Staged(h), Dst(h)))
            \/ /\ fs' = Renamed(Staged(h), Dst(h))
               /\ Fault
               /\ Answer(h, "error", {"sync"})
       ELSE CleanUp(h, Staged(h), fs, 0, "error")

(* The source of a move across volumes, once the copy is in place. The     *)
(* answer about a source that stays forgets an earlier warning.            *)
RemoveSourceAsError(h) ==   \* defect: a source that stays fails the move
    /\ w[h].pc = "unlink"
    /\ UNCHANGED <<parent, rest>>
    /\ \/ /\ Exists(Src(h))
          /\ fs' = Removed(Src(h))
          /\ SyncThen(h, Answer(h, "ok", {}))
       \/ /\ IF Exists(Src(h)) THEN Fault ELSE NoFault
          /\ fs' \in HalfRemoved(Src(h))
          /\ Refuse(h)

RemoveSource(h) ==
    /\ w[h].pc = "unlink"
    /\ UNCHANGED <<parent, rest>>
    /\ \/ /\ Exists(Src(h))
          /\ fs' = Removed(Src(h))
          /\ SyncThen(h, Answer(h, "ok", {}))
       \/ /\ IF Exists(Src(h)) THEN Fault ELSE NoFault
          /\ fs' \in HalfRemoved(Src(h))
          /\ w' = [w EXCEPT ![h].pc = "done", ![h].result = "committed", ![h].notes = {}]

CheckDelete(h) ==
    /\ w[h].pc = "check" /\ w[h].op = "delete"
    /\ UNCHANGED <<fs, parent, faults, rest>>
    /\ IF ~Exists(Dst(h)) \/ (fs[Dst(h)].kind = "dir" /\ ~Asked(h, "recursive"))
       THEN Refuse(h)
       ELSE Goto(h, IF Asked(h, "own") THEN "remove" ELSE "backup")

(* backup_file, backup_dir and the fs::copy of an edit.                    *)
StartBackup(h) ==
    /\ w[h].pc = "backup"
    /\ UNCHANGED <<parent, faults, rest>>
    /\ IF Exists(Dst(h)) /\ (w[h].op = "edit" => fs[Dst(h)].kind = "file")
       THEN /\ fs' = [fs EXCEPT ![Backup(h)] =
                        [fs[Dst(h)] EXCEPT !.data = <<h, "mixed">>, !.owner = "agent"]]
            /\ w' = [w EXCEPT ![h].pc = "backing", ![h].read = fs[Dst(h)].data]
       ELSE UNCHANGED fs /\ Refuse(h)

FinishBackup(h) ==
    /\ w[h].pc = "backing"
    /\ UNCHANGED <<parent, rest>>
    /\ \/ /\ NoFault
          /\ \E d \in Copies(w[h].read, Dst(h)) : fs' = [fs EXCEPT ![Backup(h)].data = d]
          /\ Goto(h, IF w[h].op = "delete" THEN "remove" ELSE "replace")
       \/ /\ Fault
          /\ fs' = IF w[h].op = "delete" THEN Removed(Backup(h)) ELSE fs
          /\ Refuse(h)

Remove(h) ==
    /\ w[h].pc = "remove"
    /\ UNCHANGED <<parent, rest>>
    /\ \/ /\ Exists(Dst(h))
          /\ NoFault
          /\ fs' = Removed(Dst(h))
          /\ Answer(h, "ok", {})
       \/ /\ IF Exists(Dst(h)) THEN Fault ELSE NoFault
          /\ fs' \in HalfRemoved(Dst(h))
          /\ Refuse(h)

(* chmod needs the owner, chown the superuser.                             *)
ChangeMode(h) ==
    /\ w[h].pc = "check" /\ w[h].op = "chmod"
    /\ UNCHANGED <<parent, faults, rest>>
    /\ IF Exists(Dst(h)) /\ (host.root \/ fs[Dst(h)].owner = "agent")
       THEN /\ fs' = [fs EXCEPT ![Dst(h)].mode = 1 - @]
            /\ Answer(h, "ok", {})
       ELSE UNCHANGED fs /\ Refuse(h)

ChangeOwner(h) ==
    /\ w[h].pc = "check" /\ w[h].op = "chown"
    /\ UNCHANGED <<parent, faults, rest>>
    /\ IF Exists(Dst(h)) /\ host.root
       THEN /\ fs' = [fs EXCEPT ![Dst(h)].owner = "other"]
            /\ Answer(h, "ok", {})
       ELSE UNCHANGED fs /\ Refuse(h)

Mutate(h) ==
    \/ CheckMoveCopy(h) \/ TryDirectMove(h) \/ Recheck(h)
    \/ Displace(h) \/ MoveOver(h) \/ Rollback(h)
    \/ StageCopy(h) \/ FinishCopy(h) \/ CommitStaged(h) \/ InstallStaged(h)
    \/ RemoveSource(h)
    \/ CheckDelete(h) \/ StartBackup(h) \/ FinishBackup(h) \/ Remove(h)
    \/ ChangeMode(h) \/ ChangeOwner(h)
=============================================================================
