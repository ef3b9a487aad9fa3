------------------------------ MODULE FileReads ------------------------------
(***************************************************************************)
(* Requests that read while others write: exports chunk by chunk           *)
(* (file_export.rs), and the walks of list and search (fileops.rs) under   *)
(* the permits and the deadline that core.rs gives them.                   *)
(***************************************************************************)
EXTENDS HostFiles

(***************************************************************************)
(* Exports. A session is told by who made it; a client asks for chunks in  *)
(* any order and again, at most MaxAsks times.                             *)
(***************************************************************************)
MaxAsks == Chunks + 1
NoSession == [by |-> 0, next |-> 0, hashed |-> <<>>, path |-> 0, old |-> FALSE]
Active(s) == {id \in Names : s[id] # NoSession}

(* init: sweeps the sessions past SESSION_TTL, takes the place of one with *)
(* the same id, and is refused as busy if there are too many.              *)
ExportInit(h) ==
    LET swept == [id \in Names |-> IF exports[id].old THEN NoSession ELSE exports[id]]
    IN  /\ w[h].pc = "check" /\ w[h].op = "export"
        /\ IF Exists(Src(h)) /\ fs[Src(h)].kind = "file"
           THEN IF w[h].dst \in Active(swept) \/ Cardinality(Active(swept)) < MaxExports
                THEN /\ exports' = [swept EXCEPT ![w[h].dst] =
                              [by |-> h, next |-> 0, hashed |-> <<>>, path |-> w[h].src,
                               old |-> FALSE]]
                     /\ Goto(h, "exporting")
                ELSE exports' = swept /\ Refuse(h)
           ELSE UNCHANGED exports /\ Refuse(h)
        /\ UNCHANGED <<fs, parent, faults, roles, host, remote>>

Ages(id) ==
    /\ exports[id] # NoSession /\ ~exports[id].old
    /\ exports' = [exports EXCEPT ![id].old = TRUE]
    /\ UNCHANGED <<fs, parent, faults, roles, host, remote, w>>

(* chunk looks the session up under the lock of the map and reads under    *)
(* the lock of the session, which may have left the map by then.           *)
AskChunk(h) ==
    /\ w[h].pc = "exporting" /\ w[h].transfer.asks < MaxAsks
    /\ IF exports[w[h].dst] = NoSession
       THEN Refuse(h)
       ELSE \E i \in 0..(Chunks - 1) :
               w' = [w EXCEPT ![h].pc = "chunk", ![h].transfer.index = i,
                              ![h].transfer.by = exports[w[h].dst].by,
                              ![h].transfer.path = exports[w[h].dst].path,
                              ![h].transfer.asks = @ + 1]
    /\ UNCHANGED <<fs, parent, faults, rest>>

HashedAlways(i, next) == TRUE   \* defect: a chunk that is read again counts too
Hashed(i, next) == i = next

ReadChunk(h) ==
    LET t == w[h].transfer
        s == exports[w[h].dst]
        file == <<t.path, "path">>
        readable == Exists(file) /\ fs[file].kind = "file"
    IN  /\ w[h].pc = "chunk"
        /\ w' = [w EXCEPT ![h].pc = "exporting",
                          ![h].transfer.frames =
                              IF readable THEN Append(@, <<t.index, fs[file].data>>) ELSE @]
        /\ exports' = IF readable /\ s.by = t.by /\ Hashed(t.index, s.next)
                      THEN [exports EXCEPT ![w[h].dst].next = @ + 1,
                                           ![w[h].dst].hashed = Append(@, fs[file].data)]
                      ELSE exports
        /\ UNCHANGED <<fs, parent, faults, roles, host, remote>>

(* complete takes the session out; the digest is told if every chunk has   *)
(* been hashed.                                                            *)
ExportComplete(h) ==
    LET s == exports[w[h].dst]
    IN  /\ w[h].pc = "exporting"
        /\ UNCHANGED <<fs, parent, faults, roles, host, remote>>
        /\ exports' = [exports EXCEPT ![w[h].dst] = NoSession]
        /\ IF s = NoSession
           THEN Refuse(h)
           ELSE w' = [w EXCEPT ![h].pc = "done", ![h].result = "ok",
                               ![h].transfer.by = s.by,
                               ![h].transfer.digest = IF s.next = Chunks THEN s.hashed ELSE <<>>]

(***************************************************************************)
(* Walks. A directory is listed when it is entered and its entries are     *)
(* looked at one by one, in the order of their names; the names of Nested  *)
(* are in the subdirectory. The budget runs from the arrival.              *)
(***************************************************************************)
Walking == {g \in Handlers : w[g].pc = "walk"}
Wanted(h, p) == Exists(p) /\ (w[h].op = "search" => fs[p].kind = "file")
Present(h) == {n \in Names : Wanted(h, <<n, "path">>)}

Arrive(h) ==
    /\ w[h].pc = "check" /\ w[h].op \in {"list", "search"}
    /\ w' = [w EXCEPT ![h].pc = "queue", ![h].scan = [@ EXCEPT !.kept = Present(h)]]
    /\ UNCHANGED <<fs, parent, faults, rest>>

BudgetSpent(h) ==
    /\ w[h].pc \in {"queue", "walk"} /\ "late" \notin w[h].notes
    /\ w' = [w EXCEPT ![h].notes = @ \cup {"late"}]
    /\ UNCHANGED <<fs, parent, faults, rest>>

(* The permit is taken without a deadline. A walk that never started says  *)
(* so; a root that cannot be read is an error.                             *)
StartWalk(h) ==
    /\ w[h].pc = "queue" /\ Cardinality(Walking) < Permits
    /\ UNCHANGED <<fs, parent, rest>>
    /\ \/ /\ "late" \notin w[h].notes /\ NoFault
          /\ w' = [w EXCEPT ![h].pc = "walk",
                            ![h].scan = [todo |-> {n \in Names \ Nested : Exists(<<n, "path">>)} \cup
                                                  (IF parent THEN Nested ELSE {}),
                                         found |-> {}, kept |-> @.kept \cap Present(h)]]
       \/ "late" \in w[h].notes /\ NoFault /\ Answer(h, "ok", {"not_started"})
       \/ "late" \notin w[h].notes /\ Fault /\ Refuse(h)

StartList(h) == w[h].op = "list" /\ StartWalk(h)
StartSearch(h) == w[h].op = "search" /\ StartWalk(h)

LateUntold == {}   \* defect: a walk that ran out of time looks complete
Late == {"truncated"}

(* Result caps: the answer is marked when the cap is reached, even if      *)
(* nothing more would have come.                                           *)
Visited(h, n, hit, notes) ==
    LET found == w[h].scan.found \cup (IF hit THEN {n} ELSE {})
        full == hit /\ Cardinality(found) >= MaxList
    IN  w' = [w EXCEPT ![h].pc = IF full THEN "done" ELSE "walk",
                       ![h].result = IF full THEN "ok" ELSE "none",
                       ![h].notes = @ \cup notes \cup (IF full THEN {"truncated"} ELSE {}),
                       ![h].scan = [todo |-> @.todo \ {n}, found |-> found,
                                    kept |-> @.kept \cap Present(h)]]

WalkEnds(h) ==
    /\ w[h].pc = "walk" /\ NoFault
    /\ \/ w[h].scan.todo = {} /\ Answer(h, "ok", {})
       \/ w[h].scan.todo # {} /\ "late" \in w[h].notes /\ Answer(h, "ok", Late)
    /\ UNCHANGED <<fs, parent, rest>>

Visits(h, op) == w[h].op = op /\ w[h].pc = "walk" /\ "late" \notin w[h].notes

(* An entry that vanished is passed over; one that may not be read makes   *)
(* the answer partial, and its type unknown. Any other error skips it.     *)
ListNext(h) ==
    /\ Visits(h, "list")
    /\ \E n \in w[h].scan.todo :
          \/ NoFault /\ Visited(h, n, Wanted(h, <<n, "path">>), {})
          \/ Fault /\ Visited(h, n, TRUE, {"partial"})
          \/ Fault /\ Visited(h, n, FALSE, {"unmarked"})
    /\ UNCHANGED <<fs, parent, rest>>

(* A search reports every error.                                           *)
SearchNext(h) ==
    /\ Visits(h, "search")
    /\ \E n \in w[h].scan.todo :
          \/ NoFault /\ Visited(h, n, Wanted(h, <<n, "path">>), {})
          \/ Fault /\ Visited(h, n, FALSE, {"partial"})
    /\ UNCHANGED <<fs, parent, rest>>

(* The caller goes away: in the queue the request ends, a walk goes on and *)
(* keeps its permit.                                                       *)
Abandon(h) ==
    /\ w[h].pc \in {"queue", "walk"} /\ "abandoned" \notin w[h].notes
    /\ w' = [w EXCEPT ![h].pc = IF @ = "queue" THEN "done" ELSE @,
                      ![h].notes = @ \cup {"abandoned"}]
    /\ UNCHANGED <<fs, parent, faults, rest>>

ReadStep(h) ==
    \/ ExportInit(h) \/ AskChunk(h) \/ ReadChunk(h) \/ ExportComplete(h)
    \/ Arrive(h) \/ BudgetSpent(h) \/ StartList(h) \/ StartSearch(h)
    \/ WalkEnds(h) \/ ListNext(h) \/ SearchNext(h) \/ Abandon(h)
=============================================================================
