------------------------------ MODULE HostWork ------------------------------
(***************************************************************************)
(* Mutations, edits, git operations, exports and walks that are served at  *)
(* the same time on the same paths. A crash of the agent is a handler that *)
(* takes no further step.                                                  *)
(***************************************************************************)
EXTENDS FileMutations, Edits, GitWork, FileReads

CONSTANT Hosts   \* the hosts, each with the requests that arrive there

ASSUME HostsAssumption ==
    Hosts \subseteq [cross : BOOLEAN, links : BOOLEAN, root : BOOLEAN, mix : SUBSET Request]

(* What a user path may hold at first.                                     *)
UserEntries(n) ==
    {e \in Entry : e # Absent => /\ e.data = <<n, "whole">> /\ e.mode = 0
                                 /\ e.kind = "dir" => e.owner = "agent"}

Init ==
    /\ host \in Hosts
    /\ parent \in BOOLEAN
    /\ \E user \in [Names -> UNION {UserEntries(n) : n \in Names}] :
          /\ \A n \in Names : user[n] \in UserEntries(n)
                              /\ (n \in Nested /\ ~parent => user[n] = Absent)
          /\ fs = [p \in Path |-> IF p[2] = "path" THEN user[p[1]] ELSE Absent]
    /\ faults = 0
    /\ roles = {}
    /\ remote = <<CHOOSE n \in Names : TRUE, "whole">>
    /\ exports = [id \in Names |-> NoSession]
    /\ w = [h \in Handlers |-> Idle(CHOOSE n \in Names : TRUE)]

Start(h) ==
    /\ w[h].pc = "idle"
    /\ \E r \in host.mix :
          w' = [w EXCEPT ![h].pc = "check", ![h].op = r.op, ![h].src = r.src,
                         ![h].dst = r.dst, ![h].flags = r.flags]
    /\ UNCHANGED <<fs, parent, faults, rest>>

Next ==
    \/ \E h \in Handlers :
          Start(h) \/ Mutate(h) \/ EditStep(h) \/ GitStep(h) \/ ReadStep(h)
    \/ \E id \in Names : Ages(id)

Spec == Init /\ [][Next]_vars

(***************************************************************************)
(* Properties                                                              *)
(***************************************************************************)
(* Only one path of the code writes into an existing file, and only behind *)
(* a backup: whenever a file that a user sees holds part of a text, here   *)
(* because of a crash or of another writer, some backup holds a whole one. *)
(* Without hard links a creation reserves its path with an empty file, and *)
(* that may be what the backup was made of.                                *)
WholeOrRecoverable ==
    \A n \in Names :
        LET e == fs[<<n, "path">>]
            kept == IF host.links THEN {"whole"} ELSE {"whole", "empty"}
        IN  e # Absent /\ e.kind = "file" /\ e.data[2] \in {"torn", "mixed"} =>
                \E h \in Handlers : Exists(Backup(h)) /\ fs[Backup(h)].data[2] \in kept

Held(d, f) == \E p \in Path : f[p] # Absent /\ f[p].data = d

(* A move or a copy that may not overwrite, and an edit that creates, never *)
(* destroy what somebody else has put at the destination meanwhile; they    *)
(* may at most set it aside (a move across volumes does). Edits rely on     *)
(* hard links for it.                                                       *)
NoOverwriteKeeps ==
    [][\A h \in Handlers :
          /\ w'[h] # w[h]
          /\ \/ w[h].op \in {"move", "copy"} /\ ~Asked(h, "overwrite")
             \/ w[h].op = "edit" /\ Creating(h) /\ host.links
          => \A p \in {Dst(h), Old(h)} : Exists(p) => Held(fs[p].data, fs')]_vars

(* A move or a copy leaves no file with a private name beside the           *)
(* destination unless its answer says so: neither the staged copy nor the  *)
(* old destination that was set aside. Two paths of the code return before *)
(* the cleanup or drop its warning and are left out: a failed sync, and a  *)
(* source that could not be removed. Edits are left out too: most of them  *)
(* remove their temporary file silently or log the failure at best.        *)
ResidueReported ==
    \A h \in Handlers :
        /\ w[h].op \in {"move", "copy"} /\ w[h].result \in {"ok", "error"}
        /\ Exists(Staged(h)) \/ Exists(Old(h))
        => w[h].notes \cap {"reported", "sync"} # {}

(* The digest of an export that nobody else uses covers every chunk once,  *)
(* in order, as the client first received it, however often it asks again, *)
(* provided that it never asks ahead.                                      *)
Before(f, k, i) == \E j \in 1..(k - 1) : f[j][1] = i

DigestIsOfFrames ==
    \A h \in Handlers :
        LET f == w[h].transfer.frames
        IN  /\ w[h].op = "export" /\ w[h].transfer.digest # <<>>
            /\ \A g \in Handlers \ {h} : w[g].op = "export" => w[g].dst # w[h].dst
            /\ \A k \in DOMAIN f : \A i \in 0..(f[k][1] - 1) : Before(f, k, i)
            => /\ Len(w[h].transfer.digest) = Chunks
               /\ \A i \in 1..Chunks : \E k \in DOMAIN f :
                     f[k] = <<i - 1, w[h].transfer.digest[i]>> /\ ~Before(f, k, i - 1)

(* An answer of list that is neither truncated nor partial holds every path *)
(* that was there all along; a search the files among them. A list that    *)
(* meets another error than a missing permission says nothing of it.       *)
ScanTellsTruth ==
    \A h \in Handlers :
        /\ w[h].op \in {"list", "search"} /\ w[h].result = "ok"
        /\ w[h].notes \cap {"truncated", "partial", "not_started", "unmarked"} = {}
        => w[h].scan.kept \subseteq w[h].scan.found
=============================================================================
