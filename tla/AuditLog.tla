------------------------------- MODULE AuditLog -------------------------------
(***************************************************************************)
(* local_audit.rs and the end of dispatch_inner: each operation leaves one *)
(* row in a file that is cut back to its last rows now and then, before it *)
(* is answered. Workers record concurrently, and one lock of the process   *)
(* covers append, trim and read.                                           *)
(***************************************************************************)
EXTENDS Naturals, Sequences, FiniteSets

CONSTANTS Workers,      \* operations under way at once
          MaxLines,     \* MAX_LINES
          TrimTrigger,  \* TRIM_TRIGGER
          CheckEvery,   \* RETENTION_CHECK_EVERY
          MaxRows,      \* bound on the operations
          MaxTrouble    \* bound on crashes and I/O errors together

ASSUME AuditAssumption == /\ MaxLines \in Nat \ {0} /\ TrimTrigger \in Nat
                          /\ MaxLines < TrimTrigger /\ CheckEvery \in Nat \ {0}
                          /\ MaxRows \in Nat /\ MaxTrouble \in Nat

VARIABLE audit

(* A line whose end is missing takes the next row in as well. file tells   *)
(* the inodes apart that renames put at the path, and order is all rows as *)
(* they were written.                                                      *)
AuditIdle ==
    [on |-> FALSE, log |-> <<>>, file |-> 0, lock |-> {}, checked |-> FALSE, since |-> 0,
     next |-> 1, order |-> <<>>, recorded |-> {}, crashes |-> 0, errors |-> 0,
     worker |-> [w \in Workers |-> [at |-> "idle", row |-> 0, file |-> 0, kept |-> <<>>]]]

At(w, at) == audit.worker[w].at = at
Step(w, at) == [audit EXCEPT !.worker[w].at = at]
Leave(w, at) == [Step(w, at) EXCEPT !.lock = @ \ {w}]
LastN(s, n) == SubSeq(s, IF Len(s) > n THEN Len(s) - n + 1 ELSE 1, Len(s))

(* dispatch_inner has run an operation and summarised its payload.         *)
Dispatched(w) ==
    /\ audit.on /\ At(w, "idle") /\ audit.next <= MaxRows
    /\ audit' = [Step(w, "record") EXCEPT !.worker[w].row = audit.next, !.next = @ + 1]

(* audit_io_lock                                                           *)
NoLock == TRUE   \* defect: the workers append and trim as they come
Free == audit.lock = {}

Open(w) ==
    /\ At(w, "record") /\ Free
    /\ audit' = [Step(w, "row") EXCEPT !.lock = @ \cup {w}, !.worker[w].file = audit.file]

(* The row and its end are two writes, to the inode that was opened.       *)
Torn == audit.log # <<>> /\ ~audit.log[Len(audit.log)].ended
WriteRow(w) ==
    /\ At(w, "row")
    /\ LET row == audit.worker[w].row
           new == IF Torn THEN [audit.log EXCEPT ![Len(audit.log)].rows = Append(@, row)]
                          ELSE Append(audit.log, [rows |-> <<row>>, ended |-> FALSE])
       IN audit' = [Step(w, "end") EXCEPT
                      !.order = Append(@, row),
                      !.log = IF audit.worker[w].file = audit.file THEN new ELSE @]

WriteEnd(w) ==
    /\ At(w, "end")
    /\ audit' = [Step(w, "check") EXCEPT
                   !.log = IF audit.worker[w].file = audit.file /\ Torn
                           THEN [@ EXCEPT ![Len(audit.log)].ended = TRUE] ELSE @]

(* should_check_retention: the first write of a process, and every so many.*)
EveryOnly == audit.since + 1 >= CheckEvery   \* defect: a new process does not check
CheckDue == ~audit.checked \/ audit.since + 1 >= CheckEvery

Check(w) ==
    /\ At(w, "check")
    /\ audit' = [Step(w, IF CheckDue /\ Len(audit.log) > TrimTrigger THEN "trim" ELSE "answer")
                   EXCEPT !.checked = TRUE, !.since = IF CheckDue THEN 0 ELSE @ + 1]

(* maybe_trim: the last rows go to a new file, which replaces the old one. *)
TrimRead(w) ==
    /\ At(w, "trim")
    /\ audit' = [Step(w, "commit") EXCEPT !.worker[w].kept = LastN(audit.log, MaxLines)]

TrimCommit(w) ==
    /\ At(w, "commit")
    /\ audit' = [Step(w, "answer") EXCEPT !.log = audit.worker[w].kept, !.file = @ + 1,
                                          !.worker[w].kept = <<>>]

(* The response goes out after the audit task has ended.                   *)
Answered(w) ==
    /\ At(w, "answer")
    /\ audit' = [Leave(w, "idle") EXCEPT !.recorded = @ \cup {audit.worker[w].row}]

(* An I/O error is only logged, and the operation is answered all the same.*)
(* A row that was written in part is one whose end is missing.             *)
Fails(w) ==
    /\ audit.worker[w].at \in {"row", "end", "trim", "commit"} \/ (At(w, "record") /\ Free)
    /\ audit.crashes + audit.errors < MaxTrouble
    /\ audit' = [Leave(w, "idle") EXCEPT !.errors = @ + 1, !.worker[w].kept = <<>>]

Crash ==
    /\ audit.on /\ audit.crashes + audit.errors < MaxTrouble
    /\ audit' = [audit EXCEPT !.crashes = @ + 1, !.lock = {}, !.checked = FALSE, !.since = 0,
                              !.worker = AuditIdle.worker]

(* tail_lines and read_recent_from: a row that is not alone on its line is *)
(* skipped. It is what read_audit answers.                                 *)
Readable(limit) ==
    LET lines == LastN(audit.log, limit)
    IN {lines[i].rows[1] : i \in {j \in 1..Len(lines) : Len(lines[j].rows) = 1}}

AuditStep == Crash \/ \E w \in Workers :
    \/ Dispatched(w) \/ Open(w) \/ WriteRow(w) \/ WriteEnd(w) \/ Check(w)
    \/ TrimRead(w) \/ TrimCommit(w) \/ Answered(w) \/ Fails(w)

AuditInit == audit = [AuditIdle EXCEPT !.on = TRUE]
AuditSpec == AuditInit /\ [][AuditStep]_audit

-----------------------------------------------------------------------------
InFile(row) ==
    \E i \in 1..Len(audit.log) : \E j \in 1..Len(audit.log[i].rows) : audit.log[i].rows[j] = row

(* A row whose operation was answered, and whose writing met no error, is  *)
(* in the file until enough later ones have taken its place: "a trim       *)
(* rename can race a concurrent append to the old inode and silently lose  *)
(* a row" (local_audit.rs:291).                                            *)
RowsKept ==
    \A i \in 1..Len(audit.order) :
        audit.order[i] \in audit.recorded /\ ~InFile(audit.order[i])
            => Len(audit.order) - i >= MaxLines

(* The file does not outgrow the trigger by more than the rows between two *)
(* checks, with one more row for each restart and another round for each   *)
(* trim that failed.                                                       *)
RetentionBound ==
    Len(audit.log) <= TrimTrigger + CheckEvery * (1 + audit.errors) + audit.crashes
=============================================================================
