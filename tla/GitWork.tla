------------------------------- MODULE GitWork -------------------------------
(***************************************************************************)
(* git_ops.rs: clone, apply_patch and push. Git is a child process: what it *)
(* does to the paths is external, what the agent does before and after it   *)
(* is not. A git that is killed at its deadline leaves what it had made.    *)
(***************************************************************************)
EXTENDS HostFiles

(* clone_repo refuses a destination that exists and is not an empty        *)
(* directory; a directory of the model may be one or not.                  *)
MayBeEmpty(p) == Exists(p) => fs[p].kind = "dir"
CheckClone(h) ==
    /\ w[h].pc = "check" /\ w[h].op = "clone"
    /\ \/ Exists(Dst(h)) /\ Refuse(h)
       \/ MayBeEmpty(Dst(h)) /\ Goto(h, "clone")
    /\ UNCHANGED <<fs, parent, faults, rest>>

(* git clone makes the destination or fills an empty directory, unless the *)
(* parent is missing or git finds something there.                         *)
StartClone(h) ==
    /\ w[h].pc = "clone"
    /\ UNCHANGED <<parent, faults, rest>>
    /\ \/ /\ InDir(Dst(h)) /\ MayBeEmpty(Dst(h))
          /\ fs' = [fs EXCEPT ![Dst(h)] = [kind |-> "dir", data |-> <<h, "torn">>,
                                           owner |-> "agent", mode |-> 0]]
          /\ w' = [w EXCEPT ![h].pc = "cloning", ![h].seen = fs[Dst(h)]]
       \/ /\ ~InDir(Dst(h)) \/ Exists(Dst(h))
          /\ UNCHANGED fs /\ Goto(h, "clone_failed")

(* It ends well, fails with its own files removed, or is killed. A         *)
(* directory that it has not made is kept.                                 *)
FinishClone(h) ==
    LET mine == Exists(Dst(h)) /\ fs[Dst(h)].data = <<h, "torn">>
    IN  /\ w[h].pc = "cloning"
        /\ UNCHANGED <<parent, rest>>
        /\ \/ /\ mine /\ NoFault
              /\ fs' = [fs EXCEPT ![Dst(h)].data = <<h, "whole">>]
              /\ Answer(h, "ok", {})
           \/ /\ IF mine THEN Fault ELSE NoFault
              /\ fs' = IF mine THEN [fs EXCEPT ![Dst(h)] = w[h].seen] ELSE fs
              /\ Goto(h, "clone_failed")
           \/ /\ Fault
              /\ UNCHANGED fs
              /\ Answer(h, "error", {"timeout"})

(* After a failure the directory at the destination is removed, whoever    *)
(* has made it and whatever it holds.                                      *)
CleanClone(h) ==
    LET there == Exists(Dst(h)) /\ fs[Dst(h)].kind = "dir"
    IN  /\ w[h].pc = "clone_failed"
        /\ UNCHANGED <<parent, rest>>
        /\ \/ /\ ~Exists(Dst(h)) \/ there
              /\ fs' = Removed(Dst(h)) /\ NoFault
              /\ Answer(h, "error", {})
           \/ /\ Exists(Dst(h))
              /\ IF there THEN Fault ELSE NoFault
              /\ fs' \in HalfRemoved(Dst(h))
              /\ Answer(h, "error", {"reported"})

(* The patch was made for the text that the path held at first; git apply  *)
(* --check looks whether it still does, git apply looks again.             *)
Applies(h) ==
    Exists(Dst(h)) /\ fs[Dst(h)].kind = "file" /\ fs[Dst(h)].data = <<w[h].dst, "whole">>

CheckPatch(h) ==
    /\ w[h].pc = "check" /\ w[h].op = "patch"
    /\ UNCHANGED <<fs, parent, faults, rest>>
    /\ CASE ~Applies(h) -> Refuse(h)
         [] Applies(h) /\ Asked(h, "dry_run") -> Answer(h, "ok", {})
         [] OTHER -> Goto(h, "patch")

(* git apply unlinks the old file and writes a new one.                    *)
ApplyPatch(h) ==
    /\ w[h].pc = "patch"
    /\ UNCHANGED <<parent, faults, rest>>
    /\ IF Applies(h)
       THEN /\ fs' = Removed(Dst(h))
            /\ w' = [w EXCEPT ![h].pc = "patching", ![h].seen = fs[Dst(h)]]
       ELSE UNCHANGED fs /\ Refuse(h)

WritePatched(h) ==
    /\ w[h].pc = "patching"
    /\ UNCHANGED <<parent, rest>>
    /\ \/ /\ InDir(Dst(h)) /\ ~Exists(Dst(h)) /\ NoFault
          /\ fs' = [fs EXCEPT ![Dst(h)] = [w[h].seen EXCEPT !.data = <<h, "whole">>,
                                                            !.owner = "agent"]]
          /\ Answer(h, "ok", {})
       \/ /\ ~InDir(Dst(h)) \/ Exists(Dst(h))
          /\ UNCHANGED <<fs, faults>>
          /\ Answer(h, "error", {})
       \/ /\ Fault
          /\ UNCHANGED fs
          /\ Answer(h, "error", {"timeout"})

(* The commit that a request expects at the remote is the one its author   *)
(* saw when the request was made: w.read holds it.                         *)
CheckPush(h) ==
    /\ w[h].pc = "check" /\ w[h].op = "push"
    /\ IF Asked(h, "force") /\ ~Asked(h, "expected")
       THEN Refuse(h)
       ELSE w' = [w EXCEPT ![h].pc = "push", ![h].read = remote]
    /\ UNCHANGED <<fs, parent, faults, rest>>

(* A plain push must be a fast-forward, a forced one must find the commit  *)
(* it expects: either builds on what was seen.                             *)
Accepts(h) == remote = w[h].read

Push(h) ==
    /\ w[h].pc = "push"
    /\ UNCHANGED <<host, roles, exports, fs, parent>>
    /\ \/ /\ Accepts(h) /\ NoFault
          /\ remote' = <<h, "whole">>
          /\ Answer(h, "ok", {})
       \/ /\ IF Accepts(h) THEN Fault ELSE NoFault
          /\ UNCHANGED remote
          /\ Answer(h, "error", {})
       \/ /\ Accepts(h) /\ Fault
          /\ remote' = <<h, "whole">>
          /\ Answer(h, "error", {"timeout"})

GitStep(h) ==
    \/ CheckClone(h) \/ StartClone(h) \/ FinishClone(h) \/ CleanClone(h)
    \/ CheckPatch(h) \/ ApplyPatch(h) \/ WritePatched(h)
    \/ CheckPush(h) \/ Push(h)
=============================================================================
