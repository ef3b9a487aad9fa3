-------------------------------- MODULE Edits --------------------------------
(***************************************************************************)
(* edit.rs and edit_upload.rs: load the target, transform its text, let a  *)
(* validator (a child process, awaited) judge the candidate, back the old  *)
(* text up and install the new one by a rename, by a creation that must    *)
(* not replace anything, in place when ownership cannot be kept, or by     *)
(* privileged helpers (awaited too).                                       *)
(***************************************************************************)
EXTENDS HostFiles

Creating(h) == w[h].seen = Absent

(* Directories made, or noted as missing, for a creation go if it fails,    *)
(* when they are empty; one that cannot be removed stays without a word.   *)
DropParents(h, f) ==
    parent' \in {parent, parent /\ (w[h].made => \E p \in Path : At(p) \in Nested /\ f[p] # Absent)}

(* An edit that fails after k I/O errors removes its temporary file and the *)
(* parents. A temporary file that cannot be removed stays: a sudo edit     *)
(* says so, any other drops it silently.                                   *)
EditFails(h, f, k, notes) ==
    LET clean == [f EXCEPT ![Staged(h)] = Absent]
    IN  \/ /\ faults' = faults + k
           /\ fs' = clean
           /\ DropParents(h, clean)
           /\ Answer(h, "error", notes)
        \/ /\ f[Staged(h)] # Absent
           /\ faults + k < MaxFaults
           /\ faults' = faults + k + 1
           /\ fs' = f
           /\ DropParents(h, f)
           /\ Answer(h, "error", notes \cup (IF Asked(h, "sudo") THEN {"reported"} ELSE {}))

(* A completed upload goes on to remove its session.                       *)
EditDone(h, notes) ==
    IF Asked(h, "upload")
    THEN w' = [w EXCEPT ![h].pc = "consume", ![h].notes = @ \cup notes]
    ELSE Answer(h, "ok", notes)

(* edit_upload::file: writes one role file of the session.                 *)
WriteRole(h) ==
    /\ w[h].pc = "check" /\ w[h].op = "role"
    /\ \E r \in {"old", "new"} : roles' = roles \cup {r}
    /\ Answer(h, "ok", {})
    /\ UNCHANGED <<fs, parent, faults, shared>>

(* The role files that a completed upload needs, then the target itself.   *)
(* The edit may turn out to change nothing.                                *)
LoadTarget(h) ==
    /\ w[h].pc = "check" /\ w[h].op = "edit"
    /\ \/ /\ ~(Asked(h, "upload") /\ "new" \notin roles)
          /\ IF Exists(Dst(h)) THEN fs[Dst(h)].kind = "file" ELSE Asked(h, "create")
          /\ w' = [w EXCEPT ![h].pc = "validate", ![h].seen = fs[Dst(h)]]
       \/ Refuse(h)
    /\ UNCHANGED <<fs, parent, faults, roles, shared>>

(* The validator has decided: 0, another status, or no answer in time.     *)
Validated(h) ==
    /\ w[h].pc = "validate"
    /\ \/ Refuse(h)
       \/ IF Asked(h, "dry_run") THEN EditDone(h, {})
          ELSE Goto(h, IF Creating(h) \/ Asked(h, "no_backup") THEN "replace" ELSE "backup")
    /\ UNCHANGED <<fs, parent, faults, roles, shared>>

(* ensure_parent_dirs makes what is missing; sudo only notes it.           *)
MakeParents(h) ==
    /\ w[h].pc = "replace"
    /\ w' = [w EXCEPT ![h].pc = IF Asked(h, "sudo") THEN "sudo_install" ELSE "temp",
                      ![h].made = w[h].dst \in Nested /\ ~parent
                                  /\ (Asked(h, "sudo") => Creating(h))]
    /\ parent' = (parent \/ (~Asked(h, "sudo") /\ w[h].dst \in Nested))
    /\ UNCHANGED <<fs, faults, roles, shared>>

NewText(h, owner) ==
    [kind |-> "file", data |-> <<h, "whole">>, owner |-> owner,
     mode |-> IF Creating(h) THEN 0 ELSE w[h].seen.mode]

(* defect: an edit that keeps no backup may write in place too.            *)
MayWriteInPlaceUnbacked(h) == Exists(Dst(h))

(* require_recovery_backup: writing in place needs the file and its backup. *)
MayWriteInPlace(h) == Exists(Dst(h)) /\ Exists(Backup(h))

(* The candidate beside the target, with the metadata that was loaded. An  *)
(* owner that cannot be restored means writing in place.                   *)
MakeTemp(h) ==
    LET owner == IF Creating(h) THEN "agent" ELSE w[h].seen.owner
        keeps == host.root \/ owner = "agent"
        inPlace == ~keeps /\ MayWriteInPlace(h)
    IN  /\ w[h].pc = "temp"
        /\ UNCHANGED <<roles, shared>>
        /\ \/ /\ InDir(Staged(h)) /\ (keeps \/ inPlace)
              /\ fs' = [fs EXCEPT ![Staged(h)] =
                          NewText(h, IF keeps THEN owner ELSE "agent")]
              /\ Goto(h, CASE ~keeps -> "in_place"
                           [] keeps /\ Creating(h) -> "link"
                           [] OTHER -> "persist")
              /\ UNCHANGED <<parent, faults>>
           \/ /\ ~(InDir(Staged(h)) /\ (keeps \/ inPlace))
              /\ EditFails(h, fs, 0, {})
           \/ /\ faults < MaxFaults
              /\ EditFails(h, fs, 1, {})

Persist(h) ==
    /\ w[h].pc = "persist"
    /\ UNCHANGED <<roles, shared>>
    /\ IF RenameError(Staged(h), Dst(h), FALSE) = "ok"
       THEN /\ fs' = Renamed(Staged(h), Dst(h))
            /\ EditDone(h, {})
            /\ UNCHANGED <<parent, faults>>
       ELSE EditFails(h, fs, 0, {})

(* install_file_no_replace: a hard link, or an exclusive reservation which *)
(* is then renamed over. The temporary name of a linked file is unlinked;  *)
(* if that fails the creation is ok all the same and nothing is said.      *)
Linked(h) == Renamed(Staged(h), Dst(h))
LinkedTwice(h) == [fs EXCEPT ![Dst(h)] = fs[Staged(h)]]
Free(h) == ~Exists(Dst(h)) /\ InDir(Dst(h))
Link(h) ==
    /\ w[h].pc = "link"
    /\ UNCHANGED <<roles, shared>>
    /\ \/ /\ Free(h) /\ host.links
          /\ \/ fs' = Linked(h) /\ NoFault
             \/ fs' = LinkedTwice(h) /\ Fault
          /\ EditDone(h, {})
          /\ UNCHANGED parent
       \/ /\ Free(h) /\ ~host.links
          /\ fs' = [fs EXCEPT ![Dst(h)] = [NewText(h, "agent") EXCEPT !.data = <<h, "empty">>]]
          /\ Goto(h, "reserved")
          /\ UNCHANGED <<parent, faults>>
       \/ /\ ~Free(h)
          /\ EditFails(h, fs, 0, {})

(* A sudo creation does the same in a helper, which may fail or time out;  *)
(* the temporary file is removed after that, or the answer tells of it.    *)
SudoLinkFails(h) ==
    /\ w[h].pc = "link" /\ Asked(h, "sudo") /\ Free(h)
    /\ UNCHANGED <<roles, shared>>
    /\ \/ /\ faults < MaxFaults
          /\ EditFails(h, fs, 1, {})
       \/ /\ host.links /\ UNCHANGED parent
          /\ \/ /\ Fault
                /\ fs' = Linked(h)
                /\ Answer(h, "error", {"timeout"})
             \/ /\ faults + 2 <= MaxFaults /\ faults' = faults + 2
                /\ fs' = LinkedTwice(h)
                /\ Answer(h, "error", {"timeout", "reported"})

(* A reservation that is still there goes if the rename fails; if it does  *)
(* not, nothing is said and the empty file stays.                          *)
ReplaceReserved(h) ==
    LET error == RenameError(Staged(h), Dst(h), FALSE)
        mine == Exists(Dst(h)) /\ fs[Dst(h)].data = <<h, "empty">>
        k == IF error = "ok" THEN 1 ELSE 0
    IN  /\ w[h].pc = "reserved"
        /\ UNCHANGED <<roles, shared>>
        /\ \/ /\ error = "ok"
              /\ fs' = Renamed(Staged(h), Dst(h))
              /\ EditDone(h, {})
              /\ UNCHANGED <<parent, faults>>
           \/ /\ faults + k <= MaxFaults
              /\ EditFails(h, IF mine THEN Removed(Dst(h)) ELSE fs, k, {})
           \/ /\ mine /\ faults + k < MaxFaults
              /\ EditFails(h, fs, k + 1, {})

(* The target is opened and overwritten; another writer may be at it.      *)
WriteInPlace(h) ==
    /\ w[h].pc = "in_place"
    /\ UNCHANGED <<roles, shared>>
    /\ IF Exists(Dst(h)) /\ fs[Dst(h)].kind = "file"
       THEN /\ \E s \in {"torn"} \cup (IF fs[Dst(h)].data[2] = "torn" THEN {"mixed"} ELSE {}) :
                  fs' = [fs EXCEPT ![Dst(h)].data = <<h, s>>]
            /\ Goto(h, "writing")
            /\ UNCHANGED <<parent, faults>>
       ELSE EditFails(h, fs, 0, {})

(* The write ends on the file that was opened, wherever it is by then; the *)
(* temporary file goes, or stays without a word.                           *)
FinishInPlace(h) ==
    LET written == [p \in Path |->
                      IF fs[p] # Absent /\ p # Staged(h) /\ fs[p].data = <<h, "torn">>
                      THEN [fs[p] EXCEPT !.data = <<h, "whole">>] ELSE fs[p]]
    IN  /\ w[h].pc = "writing"
        /\ UNCHANGED <<parent, roles, shared>>
        /\ \/ /\ NoFault
              /\ fs' = [written EXCEPT ![Staged(h)] = Absent]
              /\ EditDone(h, {})
           \/ /\ Fault
              /\ fs' = written
              /\ EditDone(h, {})
           \/ /\ Fault
              /\ UNCHANGED fs
              /\ Goto(h, "recover")

(* write_with_recovery: the backup goes back over the path, if that works; *)
(* the answer is an error and says which.                                  *)
Recover(h) ==
    LET there == Exists(Dst(h)) /\ fs[Dst(h)].kind = "file"
        k == IF there THEN 1 ELSE 0
    IN  /\ w[h].pc = "recover"
        /\ UNCHANGED <<roles, shared>>
        /\ \/ /\ there
              /\ EditFails(h, [fs EXCEPT ![Dst(h)].data = fs[Backup(h)].data], 0, {"restored"})
           \/ /\ faults + k <= MaxFaults
              /\ EditFails(h, fs, k, {"reported"})

(* sudo install [-D]: a helper that may fail or time out; what it has made *)
(* is removed, or the answer tells of it.                                  *)
SudoInstall(h) ==
    LET possible == Creating(h) \/ InDir(Staged(h))
        installed == [fs EXCEPT ![Staged(h)] =
                        NewText(h, IF Creating(h) THEN "other" ELSE w[h].seen.owner)]
    IN  /\ w[h].pc = "sudo_install"
        /\ UNCHANGED <<roles, shared>>
        /\ \/ /\ possible
              /\ fs' = installed
              /\ parent' = (parent \/ w[h].dst \in Nested)
              /\ Goto(h, IF Creating(h) THEN "link" ELSE "sudo_move")
              /\ UNCHANGED faults
           \/ /\ ~possible
              /\ EditFails(h, fs, 0, {})
           \/ /\ possible /\ faults < MaxFaults
              /\ EditFails(h, fs, 1, {})
           \/ /\ possible /\ faults + 2 <= MaxFaults
              /\ faults' = faults + 2
              /\ fs' = installed
              /\ parent' = (parent \/ w[h].dst \in Nested)
              /\ Answer(h, "error", {"reported"})

(* sudo mv -f: a target that has become a directory takes the file in.     *)
SudoMove(h) ==
    LET into == Exists(Dst(h)) /\ fs[Dst(h)].kind = "dir"
        moved == IF into THEN Removed(Staged(h)) ELSE Renamed(Staged(h), Dst(h))
    IN  /\ w[h].pc = "sudo_move"
        /\ UNCHANGED <<roles, shared>>
        /\ \/ /\ InDir(Dst(h))
              /\ fs' = moved
              /\ EditDone(h, IF into THEN {"inside"} ELSE {})
              /\ UNCHANGED <<parent, faults>>
           \/ /\ ~InDir(Dst(h)) \/ faults < MaxFaults
              /\ EditFails(h, fs, IF InDir(Dst(h)) THEN 1 ELSE 0, {})
           \/ /\ InDir(Dst(h)) /\ faults < MaxFaults
              /\ Fault
              /\ fs' = moved
              /\ Answer(h, "error", {"timeout"})
              /\ UNCHANGED parent

(* edit_upload::complete removes the session after an edit that was ok.    *)
ConsumeUpload(h) ==
    /\ w[h].pc = "consume"
    /\ \/ roles' = {} /\ NoFault /\ Answer(h, "ok", {})
       \/ UNCHANGED roles /\ Fault /\ Answer(h, "ok", {"reported"})
    /\ UNCHANGED <<fs, parent, shared>>

(* The request is cancelled while it awaits a child: nothing of what sudo  *)
(* has installed is removed.                                               *)
Cancel(h) ==
    /\ \/ w[h].pc \in {"validate", "sudo_install", "sudo_move"}
       \/ w[h].pc = "link" /\ Asked(h, "sudo")
    /\ w' = [w EXCEPT ![h].pc = "done"]
    /\ UNCHANGED <<fs, parent, faults, roles, shared>>

EditStep(h) ==
    \/ WriteRole(h) \/ LoadTarget(h) \/ Validated(h)
    \/ MakeParents(h) \/ MakeTemp(h) \/ Persist(h)
    \/ Link(h) \/ SudoLinkFails(h) \/ ReplaceReserved(h)
    \/ WriteInPlace(h) \/ FinishInPlace(h) \/ Recover(h)
    \/ SudoInstall(h) \/ SudoMove(h)
    \/ ConsumeUpload(h) \/ Cancel(h)
=============================================================================
