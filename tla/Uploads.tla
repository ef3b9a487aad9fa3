------------------------------- MODULE Uploads -------------------------------
(***************************************************************************)
(* The upload operations of the agent, upload.rs with the file commits of  *)
(* fsutil.rs: upload_init, upload_chunk (and the binary transfer frames),  *)
(* upload_complete and upload_file.  Every handler runs on a thread of its *)
(* own (spawn_blocking) and none takes a lock, so the steps below are the  *)
(* system calls at which two handlers can interleave.                      *)
(*                                                                         *)
(* One upload id and one destination: the handlers meet in the session     *)
(* directory (meta.json, the parts, assembled.bin) and on the destination. *)
(* Names point to inodes, because a hard link, an open handle and a file   *)
(* opened with truncation can reach the same bytes under two names.        *)
(***************************************************************************)
EXTENDS Naturals, Sequences

CONSTANTS
  Workers,    \* handler threads
  Inodes,     \* a set of naturals, large enough for the names and handles
  Chunks,     \* number of chunk indexes, a bound on MAX_CHUNK_INDEX
  Sent,       \* chunk index -> what the hub may send for it
  Intended,   \* the content the hub's sha256 stands for
  Sizes,      \* values of total_size, 0 when the hub does not declare one
  MaxOps,     \* bound on the requests of a behaviour
  MaxCrashes  \* bound on the crashes of a behaviour

ASSUME InodesAreNumbers == Inodes \subseteq Nat \ {0}
ASSUME CountsAreNumbers == Chunks \in Nat /\ Sizes \subseteq Nat
\* The mark of a reserved destination is no content (see Placeholder).
ASSUME MarkIsUnsent == \A i \in 1 .. Chunks : "placeholder" \notin Sent[i]

None == 0       \* a name that does not exist
Hole == "hole"  \* what a file holds where nobody wrote
Old == <<"old">>
Placeholder == <<"placeholder">>  \* what expect says of a reserved destination
Single == <<"single">>  \* the content of a single-request upload

VARIABLES
  pc, job,          \* the handlers: next system call, and local variables
  dir, meta, parts, \* the session directory: exists, meta.json, index -> part
  assembled, dest,  \* the inodes of assembled.bin and of the destination
  file,             \* inode -> content
  cross, links,     \* is the destination on another volume; does it link
  ops, crashes,     \* counters, for the bounds
  creations,        \* files put where none was allowed to be replaced
  expect, promised, \* observation: what the destination should hold, and
                    \* whether a sha256 was given for it
  shared            \* observation: assembled.bin had two users at a time

session == <<dir, meta, parts>>
volume == <<cross, links>>
vars == <<pc, job, session, assembled, dest, file, volume, ops, crashes,
          creations, expect, promised, shared>>

Index == 1 .. Chunks
NoMeta == [here |-> FALSE, overwrite |-> FALSE, size |-> 0]
Blank == [overwrite |-> FALSE, size |-> 0, sha |-> FALSE, index |-> 0,
          count |-> 0, got |-> <<>>, fd |-> None, own |-> None,
          mark |-> None, copied |-> FALSE, live |-> FALSE]

Listed == {assembled, dest} \cup {job[w].fd : w \in Workers}
            \cup {job[w].own : w \in Workers}
Fresh(i) == i \notin Listed /\ \A j \in Inodes \ Listed : i <= j

\* The bytes of an inode go with its last name and its last handle.
Store(f) == file' = [i \in Inodes |-> IF i \in Listed' THEN f[i] ELSE <<>>]

\* A write of data at offset pos, which may be past the end of the file.
Written(content, pos, data) ==
  [k \in 1 .. (IF Len(content) > pos + Len(data) THEN Len(content)
               ELSE pos + Len(data)) |->
     IF k > pos /\ k <= pos + Len(data) THEN data[k - pos]
     ELSE IF k <= Len(content) THEN content[k] ELSE Hole]

Chunked(w) == job[w].count > 0
Source(w) == IF job[w].own # None THEN job[w].own ELSE assembled

Go(w, step) == pc' = [pc EXCEPT ![w] = step]
End(w) ==
  /\ pc' = [pc EXCEPT ![w] = "idle"]
  /\ job' = [job EXCEPT ![w] = Blank]

Init ==
  /\ pc = [w \in Workers |-> "idle"]
  /\ job = [w \in Workers |-> Blank]
  /\ dir = FALSE /\ meta = NoMeta /\ parts = <<>>
  /\ assembled = None
  /\ \/ dest = None /\ file = [i \in Inodes |-> <<>>] /\ creations = 0
     \/ \E i \in Inodes : /\ \A j \in Inodes : i <= j
                         /\ dest = i
                         /\ file = [j \in Inodes |-> IF j = i THEN Old ELSE <<>>]
                         /\ creations = 1
  /\ cross \in BOOLEAN /\ links \in BOOLEAN
  /\ ops = 0 /\ crashes = 0
  /\ expect = Old /\ promised = FALSE /\ shared = FALSE

-----------------------------------------------------------------------------
(* The requests.  A handler answers an error by ending. *)

Begin(w, step, j) ==
  /\ pc[w] = "idle"
  /\ ops < MaxOps
  /\ ops' = ops + 1
  /\ Go(w, step)
  /\ job' = [job EXCEPT ![w] = j]
  /\ UNCHANGED <<session, assembled, dest, file, volume, crashes,
                 creations, expect, promised, shared>>

UploadInit(w) ==
  \E o \in BOOLEAN, n \in Sizes :
    Begin(w, "init", [Blank EXCEPT !.overwrite = o, !.size = n])
UploadChunk(w) ==
  \E i \in Index : \E d \in Sent[i] :
    Begin(w, "chunk", [Blank EXCEPT !.index = i, !.got = <<d>>])
UploadComplete(w) ==
  \E h \in BOOLEAN : Begin(w, "complete", [Blank EXCEPT !.sha = h])
UploadFile(w) ==
  \E o \in BOOLEAN :
    Begin(w, "prepare", [Blank EXCEPT !.overwrite = o, !.got = Single])

\* What a step inside the session directory leaves alone.
SessionStep == UNCHANGED <<volume, ops, crashes, dest, creations, expect, promised>>

Refused(w) ==
  /\ pc[w] \in {"init", "prepare", "final"}
  /\ dest # None /\ ~job[w].overwrite
  /\ End(w)
  /\ SessionStep /\ UNCHANGED <<session, assembled, shared>> /\ Store(file)

MayProceed(w) == dest = None \/ job[w].overwrite

Checked(w) ==
  /\ pc[w] = "init" /\ MayProceed(w)
  /\ Go(w, "meta")
  /\ SessionStep /\ UNCHANGED <<job, session, assembled, file, shared>>

\* The parts of an earlier session with this id stay where they are.
WriteMeta(w) ==
  /\ pc[w] = "meta"
  /\ dir' = TRUE
  /\ meta' = [here |-> TRUE, overwrite |-> job[w].overwrite, size |-> job[w].size]
  /\ End(w)
  /\ SessionStep /\ UNCHANGED <<parts, assembled, shared>> /\ Store(file)

Unknown(w) ==
  /\ pc[w] \in {"chunk", "complete"}
  /\ ~meta.here
  /\ dir' = (dir \/ pc[w] = "complete")
  /\ End(w)
  /\ SessionStep /\ UNCHANGED <<meta, parts, assembled, shared>> /\ Store(file)

Known(w) ==
  /\ pc[w] = "chunk" /\ meta.here
  /\ Go(w, "truncate")
  /\ SessionStep /\ UNCHANGED <<job, session, assembled, file, shared>>

\* defect: the index of a chunk counts from zero, the name from one.
PartShifted(i, content) ==
  [j \in DOMAIN parts \cup {i + 1} |-> IF j = i + 1 THEN content ELSE parts[j]]

\* fs::write opens with truncation and then writes.
Part(i, content) ==
  [j \in DOMAIN parts \cup {i} |-> IF j = i THEN content ELSE parts[j]]

TruncatePart(w) ==
  /\ pc[w] = "truncate"
  /\ dir' = TRUE
  /\ parts' = Part(job[w].index, <<>>)
  /\ job' = [job EXCEPT ![w].live = TRUE]
  /\ Go(w, "write")
  /\ SessionStep /\ UNCHANGED <<meta, assembled, file, shared>>

\* The write can fail, and the handle of a part that was removed meanwhile has
\* no name to write to.
WritePart(w) ==
  /\ pc[w] = "write"
  /\ \/ job[w].live /\ parts' = Part(job[w].index, job[w].got)
     \/ UNCHANGED parts
  /\ End(w)
  /\ SessionStep /\ UNCHANGED <<dir, meta, assembled, shared>> /\ Store(file)

-----------------------------------------------------------------------------
(* upload_complete, up to the finalization. *)

ReadMeta(w) ==
  /\ pc[w] = "complete" /\ meta.here
  /\ dir' = TRUE
  /\ job' = [job EXCEPT ![w].overwrite = meta.overwrite, ![w].size = meta.size]
  /\ Go(w, "list")
  /\ SessionStep /\ UNCHANGED <<meta, parts, assembled, file, shared>>

ListParts(w) ==
  /\ pc[w] = "list"
  /\ \/ /\ \E n \in Index : /\ DOMAIN parts = 1 .. n
                            /\ job' = [job EXCEPT ![w].count = n]
        /\ Go(w, "create")
     \/ /\ \A n \in Index : DOMAIN parts # 1 .. n
        /\ End(w)
  /\ SessionStep /\ UNCHANGED <<session, assembled, shared>> /\ Store(file)

\* Who could still install what assembled.bin names.
BeforeCommit == {"assemble", "check", "final", "install", "reserved"}
Overlaps(w) ==
  \/ assembled # None /\ assembled = dest
  \/ \E v \in Workers \ {w} : Chunked(v) /\ pc[v] \in BeforeCommit

\* File::create: truncates the inode the name has, else makes one.
CreateAssembled(w) ==
  /\ pc[w] = "create"
  /\ \/ /\ ~dir
        /\ End(w)
        /\ UNCHANGED <<assembled, dest, shared>>
        /\ Store(file)
     \/ /\ dir
        /\ UNCHANGED dest
        /\ \E i \in Inodes :
             /\ IF assembled = None THEN Fresh(i) ELSE i = assembled
             /\ assembled' = i
             /\ job' = [job EXCEPT ![w].fd = i]
             /\ Store([file EXCEPT ![i] = <<>>])
        /\ shared' = (shared \/ Overlaps(w))
        /\ Go(w, "assemble")
  /\ SessionStep /\ UNCHANGED session

\* The digest is of the bytes read; they are written behind the own offset.
AppendPart(w) ==
  LET i == job[w].index + 1 IN
  /\ pc[w] = "assemble"
  /\ job[w].index < job[w].count
  /\ i \in DOMAIN parts
  /\ job' = [job EXCEPT ![w].index = i, ![w].got = @ \o parts[i]]
  /\ Go(w, IF i = job[w].count THEN "check" ELSE "assemble")
  /\ SessionStep /\ UNCHANGED <<session, assembled, shared>>
  /\ Store([file EXCEPT ![job[w].fd] = Written(@, Len(job[w].got), parts[i])])

AssemblyFails(w) ==
  /\ pc[w] = "assemble"
  /\ End(w)
  /\ SessionStep /\ UNCHANGED <<session, assembled, shared>> /\ Store(file)

\* defect: the digest is not compared.
AcceptedUnread(w) == job[w].size = 0 \/ job[w].size = Len(job[w].got)

Accepted(w) ==
  /\ job[w].size = 0 \/ job[w].size = Len(job[w].got)
  /\ job[w].sha => job[w].got = Intended

\* The handle is closed: from here on assembled.bin is only a name.
Validate(w) ==
  /\ pc[w] = "check"
  /\ \/ /\ Accepted(w)
        /\ job' = [job EXCEPT ![w].fd = None]
        /\ Go(w, "final")
     \/ /\ ~Accepted(w)
        /\ End(w)
  /\ SessionStep /\ UNCHANGED <<session, assembled, shared>> /\ Store(file)

\* The policy is asked again for the destination, and its parent is made.
Finalize(w) ==
  /\ pc[w] = "final" /\ MayProceed(w)
  /\ (Go(w, "install") /\ UNCHANGED job) \/ End(w)
  /\ SessionStep /\ UNCHANGED <<session, assembled, shared>> /\ Store(file)

\* upload_file: a staged file with a random name of its own.
Stage(w) ==
  /\ pc[w] = "prepare" /\ MayProceed(w)
  /\ SessionStep /\ UNCHANGED <<session, assembled, shared>>
  /\ \/ /\ \E i \in Inodes : /\ Fresh(i)
                             /\ job' = [job EXCEPT ![w].own = i]
                             /\ Store([file EXCEPT ![i] = Single])
        /\ Go(w, "install")
     \/ /\ End(w)
        /\ Store(file)


-----------------------------------------------------------------------------
(* finalize_staged_upload and install_file_no_replace. *)

InstallStep == UNCHANGED <<session, volume, ops, crashes, shared>>

\* A rename or a link within one volume, the copy beside the destination made.
Near(w) == cross => job[w].copied
AfterCommit(w) ==
  IF cross THEN "unlink" ELSE IF Chunked(w) THEN "cleanup" ELSE "idle"

\* rename does nothing when both names are links to the same inode.
Moved(w) == IF Source(w) = assembled /\ assembled # dest THEN None ELSE assembled

Commits(w, step) ==
  /\ dest' = Source(w)
  /\ expect' = job[w].got
  /\ promised' = job[w].sha
  /\ IF step = "idle" THEN End(w)
     ELSE /\ Go(w, step)
          /\ job' = [job EXCEPT ![w].own = IF step = "linked" THEN @ ELSE None]

\* tempfile_in, fs::copy and sync_all: EXDEV made the first attempt fail.
Copy(w) ==
  /\ pc[w] = "install" /\ ~Near(w)
  /\ Source(w) # None /\ MayProceed(w)
  /\ InstallStep /\ UNCHANGED <<assembled, dest, creations, expect, promised>>
  /\ \/ /\ \E i \in Inodes :
             /\ Fresh(i)
             /\ job' = [job EXCEPT ![w].own = i, ![w].copied = TRUE]
             /\ Store([file EXCEPT ![i] = file[Source(w)]])
        /\ UNCHANGED pc
     \/ /\ End(w)
        /\ Store(file)

Replace(w) ==
  /\ pc[w] = "install" /\ job[w].overwrite
  /\ Near(w) /\ Source(w) # None
  /\ Commits(w, AfterCommit(w))
  /\ assembled' = Moved(w)
  /\ InstallStep /\ UNCHANGED creations /\ Store(file)

\* The destination is occupied, the source went with the cleanup of another
\* handler, or the file system refuses.
InstallFails(w) ==
  /\ pc[w] = "install"
  /\ End(w)
  /\ InstallStep /\ UNCHANGED <<assembled, dest, creations, expect, promised>> /\ Store(file)

\* defect: a rename instead of a hard link, which takes an occupied path too.
LinkClobbers(w) ==
  /\ pc[w] = "install" /\ ~job[w].overwrite
  /\ Near(w) /\ links /\ Source(w) # None
  /\ Commits(w, "linked")
  /\ creations' = creations + 1
  /\ InstallStep /\ UNCHANGED assembled /\ Store(file)

Link(w) ==
  /\ pc[w] = "install" /\ ~job[w].overwrite
  /\ Near(w) /\ links /\ Source(w) # None
  /\ dest = None
  /\ Commits(w, "linked")
  /\ creations' = creations + 1
  /\ InstallStep /\ UNCHANGED assembled /\ Store(file)

\* Any error of hard_link but the two expected ones ends here, a missing
\* source included: an O_EXCL placeholder takes the destination.
Reserve(w) ==
  /\ pc[w] = "install" /\ ~job[w].overwrite
  /\ Source(w) = None \/ (Near(w) /\ ~links)
  /\ dest = None
  /\ InstallStep /\ UNCHANGED <<assembled, creations>>
  /\ \E i \in Inodes : /\ Fresh(i)
                      /\ dest' = i
                      /\ job' = [job EXCEPT ![w].mark = i]
                      /\ Store(file)
  /\ Go(w, "reserved")
  /\ expect' = Placeholder /\ promised' = FALSE

RenameOver(w) ==
  /\ pc[w] = "reserved" /\ Source(w) # None
  /\ Commits(w, AfterCommit(w))
  /\ assembled' = Moved(w)
  /\ creations' = creations + 1
  /\ InstallStep /\ Store(file)

\* The source is gone or the file system refuses: same_empty_file, and then
\* remove_file, two system calls.
RenameFails(w) ==
  /\ pc[w] = "reserved"
  /\ IF dest = job[w].mark
     THEN Go(w, "unreserve") /\ UNCHANGED job
     ELSE End(w)
  /\ InstallStep /\ UNCHANGED <<assembled, dest, creations, expect, promised>> /\ Store(file)

Unreserve(w) ==
  /\ pc[w] = "unreserve"
  /\ dest' = None
  /\ End(w)
  /\ InstallStep /\ UNCHANGED <<assembled, creations, expect, promised>> /\ Store(file)

\* The staging name of a linked file: a failure is only logged.
RemoveSource(w) ==
  /\ pc[w] = "linked"
  /\ \/ assembled' = IF job[w].own = None THEN None ELSE assembled
     \/ UNCHANGED assembled
  /\ IF AfterCommit(w) = "idle" THEN End(w)
     ELSE Go(w, AfterCommit(w)) /\ job' = [job EXCEPT ![w].own = None]
  /\ InstallStep /\ UNCHANGED <<dest, creations, expect, promised>> /\ Store(file)

\* The source on the other volume: here a failure is an error of the upload.
Unlink(w) ==
  /\ pc[w] = "unlink"
  /\ InstallStep /\ UNCHANGED <<dest, creations, expect, promised>>
  /\ \/ /\ Chunked(w) => assembled # None
        /\ assembled' = IF Chunked(w) THEN None ELSE assembled
        /\ IF Chunked(w) THEN Go(w, "cleanup") /\ UNCHANGED job ELSE End(w)
     \/ /\ UNCHANGED assembled
        /\ End(w)
  /\ Store(file)

\* remove_dir_all, which can stop half-way: the upload stands all the same.
Cleanup(w) ==
  /\ pc[w] = "cleanup"
  /\ \/ /\ dir' = FALSE /\ meta' = NoMeta /\ parts' = <<>> /\ assembled' = None
     \/ /\ meta' \in {meta, NoMeta}
        /\ assembled' \in {assembled, None}
        /\ \E kept \in SUBSET DOMAIN parts : parts' = [i \in kept |-> parts[i]]
        /\ UNCHANGED dir
  /\ pc' = [pc EXCEPT ![w] = "idle"]
  /\ job' = [v \in Workers |->
               IF v = w THEN Blank
               ELSE [job[v] EXCEPT !.live = @ /\ job[v].index \in DOMAIN parts']]
  /\ UNCHANGED <<dest, volume, ops, crashes, creations, expect, promised, shared>>
  /\ Store(file)

\* The agent dies.  Files stay; temporary ones lose the one that knows them.
Crash ==
  /\ crashes < MaxCrashes
  /\ crashes' = crashes + 1
  /\ pc' = [w \in Workers |-> "idle"]
  /\ job' = [w \in Workers |-> Blank]
  /\ UNCHANGED <<session, assembled, dest, volume, ops, creations, expect, promised, shared>>
  /\ Store(file)

Request(w) == UploadInit(w) \/ UploadChunk(w) \/ UploadComplete(w) \/ UploadFile(w)
InSession(w) ==
  \/ Refused(w) \/ Checked(w) \/ WriteMeta(w) \/ Unknown(w) \/ Known(w)
  \/ TruncatePart(w) \/ WritePart(w) \/ ReadMeta(w) \/ ListParts(w)
  \/ CreateAssembled(w) \/ AppendPart(w) \/ AssemblyFails(w) \/ Validate(w)
  \/ Finalize(w) \/ Stage(w)
Install(w) ==
  \/ Copy(w) \/ Replace(w) \/ InstallFails(w) \/ Link(w)
  \/ Reserve(w) \/ RenameOver(w) \/ RenameFails(w) \/ Unreserve(w)
  \/ RemoveSource(w) \/ Unlink(w) \/ Cleanup(w)

Next == (\E w \in Workers : Request(w) \/ InSession(w) \/ Install(w)) \/ Crash

Spec == Init /\ [][Next]_vars

-----------------------------------------------------------------------------
(* Properties *)

Steps == {"idle", "init", "meta", "chunk", "truncate", "write", "complete",
          "list", "create", "assemble", "check", "final", "prepare", "install",
          "linked", "reserved", "unreserve", "unlink", "cleanup"}

Bytes == {"old", "single", Hole} \cup UNION {Sent[i] : i \in Index}
Content == Seq(Bytes)
Name == Inodes \cup {None}
Job == [overwrite : BOOLEAN, size : Nat, sha : BOOLEAN, index : Nat, count : Nat,
        got : Content, fd : Name, own : Name, mark : Name, copied : BOOLEAN,
        live : BOOLEAN]

ChunkIndexes ==
  \A w \in Workers :
    pc[w] \in {"chunk", "truncate", "write"} => job[w].index \in Index

\* The variables have their types: a name points to an inode, and no part has an
\* index beyond the bound that upload_chunk checks before any of its steps.
TypeOK ==
  /\ pc \in [Workers -> Steps] /\ job \in [Workers -> Job]
  /\ dir \in BOOLEAN
  /\ meta \in [here : BOOLEAN, overwrite : BOOLEAN, size : Nat]
  /\ DOMAIN parts \subseteq Index /\ parts \in [DOMAIN parts -> Content]
  /\ assembled \in Name /\ dest \in Name
  /\ file \in [Inodes -> Content]
  /\ cross \in BOOLEAN /\ links \in BOOLEAN
  /\ ops \in Nat /\ crashes \in Nat /\ creations \in Nat
  /\ promised \in BOOLEAN /\ shared \in BOOLEAN
  /\ ChunkIndexes

\* What the destination holds is, at every moment, the content whose size and
\* digest the handler that put it there had accepted (or the empty placeholder
\* of the no-clobber fallback): no reader sees an upload half-written, and no
\* later request to the session changes it.  This is so as long as assembled.bin
\* had one user at a time, which the code leaves to the hub.
DestinationVerified ==
  dest # None /\ ~shared =>
    /\ file[dest] = IF expect = Placeholder THEN <<>> ELSE expect
    /\ promised => file[dest] = Intended

\* However many uploads without overwrite race for the destination, at most one
\* is installed, and none where a file was from the start.
OneCreation == creations <= 1

\* "Installs a regular file at dst only if that path is still free": an upload
\* without overwrite replaces nothing but its own placeholder.
OnlyIfFree ==
  [][\A w \in Workers :
       pc'[w] # pc[w] /\ dest' # dest /\ ~job[w].overwrite =>
         dest \in {None, job[w].mark}]_vars
=============================================================================
