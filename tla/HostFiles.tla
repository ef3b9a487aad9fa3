------------------------------ MODULE HostFiles ------------------------------
(***************************************************************************)
(* The files of the host as the mutation and edit handlers of the agent    *)
(* meet on them (fsmutate.rs, edit.rs, edit_upload.rs): user paths, the     *)
(* siblings the handlers create next to a destination (random names, so    *)
(* private to the handler), and the system calls of fsutil.rs and std::fs. *)
(* A handler runs on its own thread and takes no lock: each system call at *)
(* which two handlers can meet is one step.                                *)
(***************************************************************************)
EXTENDS Naturals, Sequences, FiniteSets

CONSTANTS Names,      \* user paths
          Nested,     \* those whose parent directory may be missing
          Handlers,   \* requests, each served once
          MaxFaults,  \* bound on I/O errors
          Chunks,     \* of an exported file
          MaxExports, \* MAX_EXPORT_SESSIONS
          Permits,    \* SCAN_PERMITS
          MaxList     \* file_ops_max_list_entries

ASSUME NamesAssumption == Names # {} /\ Nested \subseteq Names
ASSUME NobodyAssumption == 0 \notin Handlers   \* 0: a session of nobody
ASSUME BoundsAssumption ==
    MaxFaults \in Nat /\ {Chunks, MaxExports, Permits, MaxList} \subseteq Nat \ {0}

VARIABLES host,       \* fixed: are the names on different volumes, do hard
                      \* links work, may the agent change owners
          fs,         \* what each path holds
          parent,     \* does the parent directory of the Nested names exist
          faults,     \* I/O errors so far
          roles,      \* role files of the edit upload session
          remote,     \* the commit at a branch of a remote repository
          exports,    \* export sessions by transfer id (a name stands for one)
          w           \* program counter and locals of each handler

vars == <<host, fs, parent, faults, roles, remote, exports, w>>

(* A content is named by who wrote it; it is whole, being written in place *)
(* ("torn"), a reservation ("empty") or a copy of a torn one ("mixed").    *)
Data == (Names \cup Handlers) \X {"whole", "torn", "empty", "mixed"}
Absent == [kind |-> "none"]
Entry == {Absent} \cup [kind : {"file", "dir"}, data : Data,
                        owner : {"agent", "other"}, mode : 0..1]
Path == (Names \X {"path"}) \cup (Handlers \X {"staged", "old", "backup"})

At(p) == IF p[2] = "path" THEN p[1] ELSE w[p[1]].dst
Src(h) == <<w[h].src, "path">>
Dst(h) == <<w[h].dst, "path">>
Staged(h) == <<h, "staged">>
Old(h) == <<h, "old">>
Backup(h) == <<h, "backup">>

Exists(p) == fs[p] # Absent
InDir(p) == At(p) \in Nested => parent

(* What a copy of the open file with content d, found at p, may hold when  *)
(* a writer in place is at the file.                                       *)
Copies(d, p) ==
    {IF d[2] = "torn" THEN <<d[1], "mixed">> ELSE d} \cup
    (IF Exists(p) /\ fs[p].kind = "file" /\ fs[p].data[2] = "torn"
     THEN {<<d[1], "mixed">>} ELSE {})

(* A removal that fails may have emptied a directory in part.              *)
HalfRemoved(p) ==
    {fs} \cup (IF Exists(p) /\ fs[p].kind = "dir"
               THEN {[fs EXCEPT ![p].data[2] = "mixed"]} ELSE {})

(* rename(2), and renameat2(2) with RENAME_NOREPLACE: the volumes are      *)
(* compared before the last components are looked up. A directory neither  *)
(* replaces nor is replaced, as one that is not empty: only a clone looks  *)
(* whether one is.                                                         *)
RenameErrorReplacing(from, to, noreplace) ==   \* defect: plain rename(2)
    CASE ~InDir(from) \/ ~InDir(to) \/ ~Exists(from) -> "ENOENT"
      [] InDir(from) /\ InDir(to) /\ Exists(from)
           /\ host.cross /\ At(from) # At(to) -> "EXDEV"
      [] OTHER -> "ok"

RenameError(from, to, noreplace) ==
    CASE ~InDir(from) \/ ~InDir(to) -> "ENOENT"
      [] InDir(from) /\ InDir(to) /\ host.cross /\ At(from) # At(to) -> "EXDEV"
      [] OTHER -> CASE ~Exists(from) -> "ENOENT"
                    [] Exists(from) /\ noreplace /\ Exists(to) -> "EEXIST"
                    [] Exists(from) /\ ~noreplace /\ Exists(to)
                         /\ "dir" \in {fs[from].kind, fs[to].kind} -> "EKIND"
                    [] OTHER -> "ok"

Renamed(from, to) == [fs EXCEPT ![to] = fs[from], ![from] = Absent]
Removed(p) == [fs EXCEPT ![p] = Absent]

Fault == faults < MaxFaults /\ faults' = faults + 1
NoFault == UNCHANGED faults

Goto(h, pc) == w' = [w EXCEPT ![h].pc = pc]

(* The answer of a handler, and what it says besides.                      *)
Answer(h, result, notes) ==
    w' = [w EXCEPT ![h].pc = "done", ![h].result = result, ![h].notes = @ \cup notes]
Refuse(h) == Answer(h, "error", {})

(* cleanup_entry of a private path after k errors; its own failure goes    *)
(* into the answer.                                                        *)
CleanUpSilently(h, p, f, k, result) ==   \* defect: its failure is not told
    /\ faults' \in (faults + k)..(IF faults + k < MaxFaults THEN faults + k + 1 ELSE faults + k)
    /\ fs' = IF faults' = faults + k THEN [f EXCEPT ![p] = Absent] ELSE f
    /\ Answer(h, result, {})

CleanUp(h, p, f, k, result) ==
    \/ /\ faults' = faults + k
       /\ fs' = [f EXCEPT ![p] = Absent]
       /\ Answer(h, result, {})
    \/ /\ f[p] # Absent
       /\ faults + k < MaxFaults
       /\ faults' = faults + k + 1
       /\ fs' = f
       /\ Answer(h, result, {"reported"})

Request == [op : {"none", "move", "copy", "delete", "chmod", "chown", "edit", "role",
                  "clone", "patch", "push", "export", "list", "search"},
            src : Names, dst : Names, flags : SUBSET
            {"overwrite", "recursive", "own", "create", "no_backup", "sudo", "dry_run",
             "upload", "force", "expected"}]
(* What a client of an export has asked, received and been told at the end; *)
(* what a scan has still to visit, has found, and was there at every step.  *)
NoTransfer == [asks |-> 0, index |-> 0, by |-> 0, path |-> 0, frames |-> <<>>, digest |-> <<>>]
NoScan == [todo |-> {}, found |-> {}, kept |-> {}]
Idle(n) == [op |-> "none", src |-> n, dst |-> n, flags |-> {}, pc |-> "idle",
            from |-> "path", seen |-> Absent, read |-> <<n, "whole">>, made |-> FALSE,
            result |-> "none", notes |-> {},
            transfer |-> NoTransfer, scan |-> NoScan]

Asked(h, flag) == flag \in w[h].flags

shared == <<host, remote, exports>>
rest == <<roles, shared>>
=============================================================================
