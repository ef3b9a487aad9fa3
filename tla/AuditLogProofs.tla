---------------------------- MODULE AuditLogProofs ----------------------------
(***************************************************************************)
(* For any number of workers and any limits: a row that was written stays  *)
(* in the audit file until MaxLines later ones have taken its place, and   *)
(* the file never outgrows its trigger by more than the bound.             *)
(***************************************************************************)
EXTENDS AuditLog, Integers, TLAPS

Line == [rows : Seq(Nat), ended : BOOLEAN]
Places == {"idle", "record", "row", "end", "check", "trim", "commit", "answer"}
Worker == [at : Places, row : Nat, file : Nat, kept : Seq(Line)]

Audit ==
  [on : BOOLEAN, log : Seq(Line), file : Nat, lock : SUBSET Workers,
   checked : BOOLEAN, since : Nat, next : Nat, order : Seq(Nat),
   recorded : SUBSET Nat, crashes : Nat, errors : Nat, worker : [Workers -> Worker]]

(* The lock covers the way from opening the file to the answer, so the     *)
(* file a worker has open, and what it keeps of it, are those at the path. *)
Alone ==
  /\ \A w \in Workers : audit.worker[w].at \notin {"idle", "record"} => w \in audit.lock
  /\ \A v, w \in audit.lock : v = w
  /\ \A w \in Workers :
       /\ audit.worker[w].at \in {"row", "end", "check", "trim", "commit"} =>
            audit.worker[w].file = audit.file
       /\ audit.worker[w].at = "commit" =>
            audit.worker[w].kept = LastN(audit.log, MaxLines)

(* The lines of the file hold the rows from some first one to the last, in *)
(* the order they were written: line i begins with row first[i] of them,   *)
(* and no line is empty.                                                   *)
Holds(log, order, first) ==
  /\ first[Len(log) + 1] = Len(order) + 1
  /\ \A i, j \in 1..(Len(log) + 1) : i <= j => first[j] - first[i] >= j - i
  /\ \A i \in 1..Len(log) : Len(log[i].rows) = first[i + 1] - first[i]
  /\ \A n \in first[1]..Len(order) :
       \E i \in 1..Len(log) : /\ first[i] <= n /\ n < first[i + 1]
                              /\ log[i].rows[n - first[i] + 1] = order[n]

(* The rows before the first line have MaxLines later ones.                *)
LastRows(log, order) ==
  \E first \in [1..(Len(log) + 1) -> 1..(Len(order) + 1)] :
    /\ Holds(log, order, first)
    /\ first[1] = 1 \/ Len(order) + 1 - first[1] >= MaxLines

RowsInv == audit \in Audit /\ Alone /\ LastRows(audit.log, audit.order)

(* What LastN drops and what it returns.                                   *)
Cut(s, n) == IF Len(s) > n THEN Len(s) - n ELSE 0

LEMMA LastNKeeps ==
  ASSUME NEW S, NEW s \in Seq(S), NEW n \in Nat
  PROVE  /\ Cut(s, n) \in Nat /\ Cut(s, n) <= Len(s) /\ Len(s) - Cut(s, n) <= n
         /\ Cut(s, n) # 0 => Len(s) - Cut(s, n) = n
         /\ LastN(s, n) \in Seq(S)
         /\ Len(LastN(s, n)) = Len(s) - Cut(s, n)
         /\ \A i \in 1..(Len(s) - Cut(s, n)) : LastN(s, n)[i] = s[i + Cut(s, n)]
<1> DEFINE d == Cut(s, n)
<1>1. d \in Nat /\ d <= Len(s) /\ Len(s) \in Nat
  BY DEF Cut
<1>2. Len(s) - d <= n /\ (d # 0 => Len(s) - d = n)
  BY DEF Cut
<1>3. LastN(s, n) = SubSeq(s, d + 1, Len(s))
  BY DEF LastN, Cut
<1> HIDE DEF d
<1>4. \A i \in (d + 1)..Len(s) : s[i] \in S
  BY <1>1
<1>5. /\ SubSeq(s, d + 1, Len(s)) \in Seq(S)
      /\ Len(SubSeq(s, d + 1, Len(s))) = Len(s) - d
      /\ \A i \in 1..(Len(s) - d) : SubSeq(s, d + 1, Len(s))[i] = s[i + d]
  BY <1>1, <1>4
<1> QED BY <1>1, <1>2, <1>3, <1>5 DEF d

LEMMA RowsInit == AuditInit => RowsInv
<1> SUFFICES ASSUME AuditInit PROVE RowsInv
  OBVIOUS
<1> DEFINE idle == AuditIdle
<1>0. /\ idle \in Audit /\ idle.log = <<>> /\ idle.order = <<>> /\ idle.lock = {}
      /\ \A w \in Workers : idle.worker[w].at = "idle"
  BY DEF AuditIdle, Audit, Worker, Places
<1> HIDE DEF idle
<1>1. audit \in Audit /\ audit = [idle EXCEPT !.on = TRUE]
  BY <1>0 DEF AuditInit, Audit, idle
<1>2. Alone
  BY <1>0, <1>1 DEF Audit, Alone
<1>3. LastRows(audit.log, audit.order)
  <2>1. audit.log = <<>> /\ audit.order = <<>>
    BY <1>0, <1>1 DEF Audit
  <2> DEFINE first == [i \in 1..1 |-> 1]
  <2>2. first \in [1..(Len(audit.log) + 1) -> 1..(Len(audit.order) + 1)] /\ first[1] = 1
    BY <2>1
  <2>3. Holds(audit.log, audit.order, first)
    BY <2>1, <2>2 DEF Holds
  <2> HIDE DEF first
  <2> QED BY <2>2, <2>3 DEF LastRows
<1> QED BY <1>1, <1>2, <1>3 DEF RowsInv

(* A worker that moves on takes what it knows along, and nothing else of   *)
(* the log changes; one that leaves gives the lock back.                   *)
Same(a, b) ==
  /\ a.log = b.log /\ a.file = b.file /\ a.checked = b.checked /\ a.since = b.since
  /\ a.next = b.next /\ a.order = b.order /\ a.recorded = b.recorded
  /\ a.crashes = b.crashes /\ a.errors = b.errors
Moves(a, b, w, at) ==
  /\ \A v \in Workers \ {w} : b.worker[v] = a.worker[v]
  /\ b.worker[w].at = at
  /\ b.worker[w].row = a.worker[w].row /\ b.worker[w].file = a.worker[w].file
  /\ b.worker[w].kept = a.worker[w].kept

LEMMA Stepping ==
  ASSUME audit \in Audit, NEW w \in Workers, NEW at \in Places
  PROVE  /\ Step(w, at) \in Audit /\ Same(Step(w, at), audit)
         /\ Step(w, at).lock = audit.lock /\ Moves(audit, Step(w, at), w, at)
<1>1. audit.worker \in [Workers -> Worker] /\ audit.worker[w] \in Worker
  BY DEF Audit
<1> DEFINE W == [audit.worker EXCEPT ![w] = [audit.worker[w] EXCEPT !.at = at]]
<1>2. W \in [Workers -> Worker]
  BY <1>1 DEF Worker
<1>3. Step(w, at) = [audit EXCEPT !.worker = W]
  BY DEF Step
<1>4. /\ \A v \in Workers \ {w} : W[v] = audit.worker[v]
      /\ W[w].at = at /\ W[w].row = audit.worker[w].row
      /\ W[w].file = audit.worker[w].file /\ W[w].kept = audit.worker[w].kept
  BY <1>1 DEF Worker
<1> HIDE DEF W
<1>5. Step(w, at) \in Audit /\ Step(w, at).worker = W
  BY <1>2, <1>3 DEF Audit
<1>6. Same(Step(w, at), audit) /\ Step(w, at).lock = audit.lock
  BY <1>3 DEF Audit, Same
<1> QED BY <1>4, <1>5, <1>6 DEF Moves

LEMMA Leaving ==
  ASSUME audit \in Audit, NEW w \in Workers, NEW at \in Places
  PROVE  /\ Leave(w, at) \in Audit /\ Same(Leave(w, at), audit)
         /\ Leave(w, at).lock = audit.lock \ {w} /\ Moves(audit, Leave(w, at), w, at)
<1>1. PICK s \in Audit : s = Step(w, at)
  BY Stepping
<1>2. Leave(w, at) = [s EXCEPT !.lock = s.lock \ {w}]
  BY <1>1 DEF Leave
<1>3. Leave(w, at) \in Audit /\ Same(Leave(w, at), s) /\ Leave(w, at).worker = s.worker
      /\ Leave(w, at).lock = s.lock \ {w}
  BY <1>2 DEF Audit, Same
<1> QED BY <1>1, <1>3, Stepping DEF Same, Moves

(* What a step leaves alone.                                               *)
SameFile ==
  audit'.log = audit.log /\ audit'.order = audit.order /\ audit'.file = audit.file
SameCounts ==
  /\ audit'.since = audit.since /\ audit'.checked = audit.checked
  /\ audit'.crashes = audit.crashes /\ audit'.errors = audit.errors
Others(w) == \A v \in Workers \ {w} : audit'.worker[v] = audit.worker[v]

(* A record of the log that differs from another in a worker, or not.      *)
LEMMA Placed ==
  ASSUME NEW s \in Audit, NEW w \in Workers, NEW x \in Worker
  PROVE  /\ [s.worker EXCEPT ![w] = x] \in [Workers -> Worker]
         /\ [s.worker EXCEPT ![w] = x][w] = x
         /\ \A v \in Workers \ {w} : [s.worker EXCEPT ![w] = x][v] = s.worker[v]
  BY DEF Audit

(* The file after the two writes of a row.                                 *)
NewLog(w) ==
  IF Torn THEN [audit.log EXCEPT ![Len(audit.log)].rows = Append(@, audit.worker[w].row)]
          ELSE Append(audit.log, [rows |-> <<audit.worker[w].row>>, ended |-> FALSE])
EndedLog == [audit.log EXCEPT ![Len(audit.log)].ended = TRUE]

LEMMA NewLogTyped ==
  ASSUME audit \in Audit, NEW w \in Workers
  PROVE  /\ NewLog(w) \in Seq(Line)
         /\ ~Torn => /\ Len(NewLog(w)) = Len(audit.log) + 1
                     /\ NewLog(w)[Len(audit.log) + 1].rows = <<audit.worker[w].row>>
                     /\ \A i \in 1..Len(audit.log) : NewLog(w)[i] = audit.log[i]
         /\ Torn => /\ Len(NewLog(w)) = Len(audit.log) /\ Len(audit.log) >= 1
                    /\ NewLog(w)[Len(audit.log)].rows =
                         Append(audit.log[Len(audit.log)].rows, audit.worker[w].row)
                    /\ \A i \in 1..(Len(audit.log) - 1) : NewLog(w)[i] = audit.log[i]
<1> DEFINE log == audit.log
           row == audit.worker[w].row
<1>1. log \in Seq(Line) /\ row \in Nat
  BY DEF Audit, Worker
<1>2. CASE ~Torn
  <2>1. [rows |-> <<row>>, ended |-> FALSE] \in Line
    BY <1>1 DEF Line
  <2>2. NewLog(w) = Append(log, [rows |-> <<row>>, ended |-> FALSE])
    BY <1>2 DEF NewLog
  <2> HIDE DEF log, row
  <2>3. /\ NewLog(w) \in Seq(Line) /\ Len(NewLog(w)) = Len(log) + 1
        /\ NewLog(w)[Len(log) + 1] = [rows |-> <<row>>, ended |-> FALSE]
        /\ \A i \in 1..Len(log) : NewLog(w)[i] = log[i]
    BY <1>1, <2>1, <2>2
  <2> QED BY <1>2, <2>3 DEF log, row
<1>3. CASE Torn
  <2> DEFINE n == Len(log)
             last == [log[n] EXCEPT !.rows = Append(@, row)]
  <2>1. n \in Nat /\ n >= 1 /\ log[n] \in Line
    BY <1>1, <1>3 DEF Torn
  <2>2. last \in Line /\ last.rows = Append(log[n].rows, row)
    <3>1. log[n].rows \in Seq(Nat) /\ Append(log[n].rows, row) \in Seq(Nat)
      BY <1>1, <2>1 DEF Line
    <3>2. last = [log[n] EXCEPT !.rows = Append(log[n].rows, row)]
      OBVIOUS
    <3> QED BY <2>1, <3>1, <3>2 DEF Line
  <2>3. NewLog(w) = [log EXCEPT ![n] = last]
    BY <1>3 DEF NewLog
  <2> HIDE DEF log, row, last
  <2>4. /\ NewLog(w) \in Seq(Line) /\ Len(NewLog(w)) = n /\ NewLog(w)[n] = last
        /\ \A i \in 1..(n - 1) : NewLog(w)[i] = log[i]
    BY <1>1, <2>1, <2>2, <2>3
  <2> QED BY <1>3, <2>1, <2>2, <2>4 DEF log, row
<1> QED BY <1>2, <1>3

LEMMA EndedLogTyped ==
  ASSUME audit \in Audit, Torn
  PROVE  /\ EndedLog \in Seq(Line) /\ Len(EndedLog) = Len(audit.log)
         /\ \A i \in 1..Len(audit.log) : EndedLog[i].rows = audit.log[i].rows
<1> DEFINE n == Len(audit.log)
           last == [audit.log[n] EXCEPT !.ended = TRUE]
<1>1. audit.log \in Seq(Line) /\ n \in Nat /\ n >= 1 /\ audit.log[n] \in Line
  BY DEF Audit, Torn
<1>2. last \in Line /\ last.rows = audit.log[n].rows
  BY <1>1 DEF Line
<1>3. EndedLog = [audit.log EXCEPT ![n] = last]
  BY DEF EndedLog
<1> HIDE DEF last
<1> QED BY <1>1, <1>2, <1>3

(* Each step, field by field.                                              *)
LEMMA DispatchedStep ==
  ASSUME audit \in Audit, NEW w \in Workers, Dispatched(w)
  PROVE  /\ audit' \in Audit /\ Others(w)
         /\ audit.worker[w].at = "idle" /\ audit'.worker[w].at = "record"
         /\ SameFile /\ SameCounts /\ audit'.lock = audit.lock
<1>1. PICK s \in Audit : /\ s = Step(w, "record") /\ Same(s, audit) /\ s.lock = audit.lock
                         /\ Moves(audit, s, w, "record")
  BY Stepping DEF Places
<1>2. /\ audit' = [s EXCEPT !.worker[w].row = audit.next, !.next = @ + 1]
      /\ audit.worker[w].at = "idle"
  BY <1>1 DEF Dispatched, At
<1> DEFINE x == [s.worker[w] EXCEPT !.row = audit.next]
           W == [s.worker EXCEPT ![w] = x]
           new_next == s.next + 1
<1>3. s.worker[w] \in Worker /\ audit.next \in Nat /\ new_next \in Nat
  BY <1>1 DEF Audit
<1>4. /\ x \in Worker /\ x.at = s.worker[w].at /\ x.row = audit.next
      /\ x.file = s.worker[w].file /\ x.kept = s.worker[w].kept
  BY <1>3 DEF Worker
<1>5. audit' = [s EXCEPT !.worker = W, !.next = new_next]
  BY <1>2
<1>6. /\ W \in [Workers -> Worker] /\ W[w] = x
      /\ \A v \in Workers \ {w} : W[v] = audit.worker[v]
  BY <1>1, <1>4, Placed DEF Moves
<1> HIDE DEF W, new_next
<1>7. audit' \in Audit
  BY <1>3, <1>5, <1>6 DEF Audit
<1>8. /\ audit'.log = s.log /\ audit'.order = s.order /\ audit'.lock = s.lock
      /\ audit'.file = s.file /\ audit'.since = s.since /\ audit'.checked = s.checked
      /\ audit'.crashes = s.crashes /\ audit'.errors = s.errors /\ audit'.worker = W
  BY <1>5 DEF Audit
<1> QED
  BY <1>1, <1>2, <1>4, <1>6, <1>7, <1>8
  DEF Same, Moves, Others, SameFile, SameCounts, new_next

LEMMA OpenStep ==
  ASSUME audit \in Audit, NEW w \in Workers, Open(w)
  PROVE  /\ audit' \in Audit /\ Others(w)
         /\ audit.worker[w].at = "record" /\ audit'.worker[w].at = "row"
         /\ SameFile /\ SameCounts
         /\ audit.lock = {} /\ audit'.lock = {w}
         /\ audit'.worker[w].file = audit.file
<1>1. PICK s \in Audit : /\ s = Step(w, "row") /\ Same(s, audit) /\ s.lock = audit.lock
                         /\ Moves(audit, s, w, "row")
  BY Stepping DEF Places
<1>2. audit' = [s EXCEPT !.worker[w].file = audit.file, !.lock = @ \cup {w}]
      /\ audit.worker[w].at = "record" /\ audit.lock = {}
  BY <1>1 DEF Open, At, Free
<1> DEFINE x == [s.worker[w] EXCEPT !.file = audit.file]
           W == [s.worker EXCEPT ![w] = x]
           new_lock == s.lock \cup {w}
<1>3. s.worker[w] \in Worker /\ audit.file \in Nat /\ new_lock \in SUBSET Workers
  BY <1>1 DEF Audit
<1>4. /\ x \in Worker /\ x.at = s.worker[w].at /\ x.file = audit.file
      /\ x.row = s.worker[w].row /\ x.kept = s.worker[w].kept
  BY <1>3 DEF Worker
<1>5. audit' = [s EXCEPT !.worker = W, !.lock = new_lock]
  BY <1>2
<1>6. /\ W \in [Workers -> Worker] /\ W[w] = x
      /\ \A v \in Workers \ {w} : W[v] = audit.worker[v]
  BY <1>1, <1>4, Placed DEF Moves
<1> HIDE DEF W, new_lock
<1>7. audit' \in Audit
  BY <1>3, <1>5, <1>6 DEF Audit
<1>8. /\ audit'.log = s.log /\ audit'.order = s.order /\ audit'.lock = new_lock
      /\ audit'.file = s.file /\ audit'.since = s.since /\ audit'.checked = s.checked
      /\ audit'.crashes = s.crashes /\ audit'.errors = s.errors /\ audit'.worker = W
  BY <1>5 DEF Audit
<1> QED
  BY <1>1, <1>2, <1>4, <1>6, <1>7, <1>8
  DEF Same, Moves, Others, SameFile, SameCounts, new_lock

LEMMA WriteRowStep ==
  ASSUME audit \in Audit, NEW w \in Workers, WriteRow(w)
  PROVE  /\ audit' \in Audit /\ Others(w)
         /\ audit.worker[w].at = "row" /\ audit'.worker[w].at = "end"
         /\ SameCounts /\ audit'.lock = audit.lock /\ audit'.file = audit.file
         /\ audit'.worker[w].file = audit.worker[w].file
         /\ audit'.order = Append(audit.order, audit.worker[w].row)
         /\ audit.worker[w].file = audit.file => audit'.log = NewLog(w)
<1>1. PICK s \in Audit : /\ s = Step(w, "end") /\ Same(s, audit) /\ s.lock = audit.lock
                         /\ Moves(audit, s, w, "end")
  BY Stepping DEF Places
<1> DEFINE new_order == Append(audit.order, audit.worker[w].row)
           new_log == IF audit.worker[w].file = audit.file THEN NewLog(w) ELSE audit.log
<1>2. audit.worker[w].at = "row"
  BY DEF WriteRow, At
<1>3. new_order \in Seq(Nat) /\ new_log \in Seq(Line)
  <2>1. audit.log \in Seq(Line) /\ audit.order \in Seq(Nat) /\ audit.worker[w].row \in Nat
    BY DEF Audit, Worker
  <2> QED BY <2>1, NewLogTyped
<1>4. s.order = audit.order /\ s.log = audit.log
  BY <1>1 DEF Same
<1>5. audit' = [s EXCEPT !.order = new_order, !.log = new_log]
  BY <1>1, <1>4 DEF WriteRow, NewLog
<1> HIDE DEF new_order, new_log
<1>7. audit' \in Audit
  BY <1>3, <1>5 DEF Audit
<1>8. /\ audit'.log = new_log /\ audit'.order = new_order /\ audit'.lock = s.lock
      /\ audit'.file = s.file /\ audit'.since = s.since /\ audit'.checked = s.checked
      /\ audit'.crashes = s.crashes /\ audit'.errors = s.errors /\ audit'.worker = s.worker
  BY <1>5 DEF Audit
<1> QED
  BY <1>1, <1>2, <1>7, <1>8
  DEF Same, Moves, Others, SameFile, SameCounts, new_order, new_log

LEMMA WriteEndStep ==
  ASSUME audit \in Audit, NEW w \in Workers, WriteEnd(w)
  PROVE  /\ audit' \in Audit /\ Others(w)
         /\ audit.worker[w].at = "end" /\ audit'.worker[w].at = "check"
         /\ SameCounts /\ audit'.lock = audit.lock /\ audit'.file = audit.file
         /\ audit'.worker[w].file = audit.worker[w].file
         /\ audit'.order = audit.order
         /\ audit'.log = audit.log \/ (Torn /\ audit'.log = EndedLog)
<1>1. PICK s \in Audit : /\ s = Step(w, "check") /\ Same(s, audit) /\ s.lock = audit.lock
                         /\ Moves(audit, s, w, "check")
  BY Stepping DEF Places
<1> DEFINE new_log == IF audit.worker[w].file = audit.file /\ Torn THEN EndedLog ELSE audit.log
<1>2. /\ audit.worker[w].at = "end"
      /\ new_log = audit.log \/ (Torn /\ new_log = EndedLog)
  <2>1. audit.worker[w].at = "end"
    BY DEF WriteEnd, At
  <2>2. new_log = audit.log \/ (Torn /\ new_log = EndedLog)
    OBVIOUS
  <2> QED BY <2>1, <2>2
<1>3. new_log \in Seq(Line)
  BY EndedLogTyped DEF Audit
<1>4. s.log = audit.log
  BY <1>1 DEF Same
<1>5. audit' = [s EXCEPT !.log = new_log]
  BY <1>1, <1>4 DEF WriteEnd, EndedLog
<1> HIDE DEF new_log
<1>7. audit' \in Audit
  BY <1>3, <1>5 DEF Audit
<1>8. /\ audit'.log = new_log /\ audit'.order = s.order /\ audit'.lock = s.lock
      /\ audit'.file = s.file /\ audit'.since = s.since /\ audit'.checked = s.checked
      /\ audit'.crashes = s.crashes /\ audit'.errors = s.errors /\ audit'.worker = s.worker
  BY <1>5 DEF Audit
<1> QED
  BY <1>1, <1>2, <1>7, <1>8 DEF Same, Moves, Others, SameFile, SameCounts, new_log

AfterCheck == IF CheckDue /\ Len(audit.log) > TrimTrigger THEN "trim" ELSE "answer"

LEMMA CheckStep ==
  ASSUME audit \in Audit, NEW w \in Workers, Check(w)
  PROVE  /\ audit' \in Audit /\ Others(w)
         /\ audit.worker[w].at = "check"
         /\ audit'.worker[w].at = AfterCheck
         /\ SameFile /\ audit'.lock = audit.lock
         /\ audit'.worker[w].file = audit.worker[w].file
         /\ audit'.checked = TRUE /\ audit'.since = IF CheckDue THEN 0 ELSE audit.since + 1
         /\ audit'.crashes = audit.crashes /\ audit'.errors = audit.errors
<1>1. PICK s \in Audit : /\ s = Step(w, AfterCheck) /\ Same(s, audit) /\ s.lock = audit.lock
                         /\ Moves(audit, s, w, AfterCheck)
  BY Stepping DEF Places, AfterCheck
<1>2. /\ audit' = [s EXCEPT !.checked = TRUE, !.since = IF CheckDue THEN 0 ELSE @ + 1]
      /\ audit.worker[w].at = "check"
  BY <1>1 DEF Check, At, AfterCheck
<1> DEFINE new_checked == TRUE
           new_since == IF CheckDue THEN 0 ELSE s.since + 1
<1>3. new_checked \in BOOLEAN /\ new_since \in Nat
  BY <1>1 DEF Audit
<1>5. audit' = [s EXCEPT !.checked = new_checked, !.since = new_since]
  BY <1>2
<1> HIDE DEF new_checked, new_since
<1>7. audit' \in Audit
  BY <1>3, <1>5 DEF Audit
<1>8. /\ audit'.log = s.log /\ audit'.order = s.order /\ audit'.lock = s.lock
      /\ audit'.file = s.file /\ audit'.since = new_since /\ audit'.checked = new_checked
      /\ audit'.crashes = s.crashes /\ audit'.errors = s.errors /\ audit'.worker = s.worker
  BY <1>5 DEF Audit
<1> QED
  BY <1>1, <1>2, <1>7, <1>8
  DEF Same, Moves, Others, SameFile, SameCounts, new_checked, new_since

LEMMA TrimReadStep ==
  ASSUME audit \in Audit, NEW w \in Workers, TrimRead(w)
  PROVE  /\ audit' \in Audit /\ Others(w)
         /\ audit.worker[w].at = "trim" /\ audit'.worker[w].at = "commit"
         /\ SameFile /\ SameCounts /\ audit'.lock = audit.lock
         /\ audit'.worker[w].file = audit.worker[w].file
         /\ audit'.worker[w].kept = LastN(audit.log, MaxLines)
<1>1. PICK s \in Audit : /\ s = Step(w, "commit") /\ Same(s, audit) /\ s.lock = audit.lock
                         /\ Moves(audit, s, w, "commit")
  BY Stepping DEF Places
<1>2. /\ audit' = [s EXCEPT !.worker[w].kept = LastN(audit.log, MaxLines)]
      /\ audit.worker[w].at = "trim"
  BY <1>1 DEF TrimRead, At
<1> DEFINE x == [s.worker[w] EXCEPT !.kept = LastN(audit.log, MaxLines)]
           W == [s.worker EXCEPT ![w] = x]
<1>3. s.worker[w] \in Worker /\ LastN(audit.log, MaxLines) \in Seq(Line)
  BY <1>1, LastNKeeps, AuditAssumption DEF Audit
<1>4. /\ x \in Worker /\ x.at = s.worker[w].at /\ x.kept = LastN(audit.log, MaxLines)
      /\ x.row = s.worker[w].row /\ x.file = s.worker[w].file
  BY <1>3 DEF Worker
<1>5. audit' = [s EXCEPT !.worker = W]
  BY <1>2
<1>6. /\ W \in [Workers -> Worker] /\ W[w] = x
      /\ \A v \in Workers \ {w} : W[v] = audit.worker[v]
  BY <1>1, <1>4, Placed DEF Moves
<1> HIDE DEF W
<1>7. audit' \in Audit
  BY <1>3, <1>5, <1>6 DEF Audit
<1>8. /\ audit'.log = s.log /\ audit'.order = s.order /\ audit'.lock = s.lock
      /\ audit'.file = s.file /\ audit'.since = s.since /\ audit'.checked = s.checked
      /\ audit'.crashes = s.crashes /\ audit'.errors = s.errors /\ audit'.worker = W
  BY <1>5 DEF Audit
<1> QED
  BY <1>1, <1>2, <1>4, <1>6, <1>7, <1>8 DEF Same, Moves, Others, SameFile, SameCounts

LEMMA TrimCommitStep ==
  ASSUME audit \in Audit, NEW w \in Workers, TrimCommit(w)
  PROVE  /\ audit' \in Audit /\ Others(w)
         /\ audit.worker[w].at = "commit" /\ audit'.worker[w].at = "answer"
         /\ SameCounts /\ audit'.lock = audit.lock
         /\ audit'.order = audit.order /\ audit'.log = audit.worker[w].kept
<1>1. PICK s \in Audit : /\ s = Step(w, "answer") /\ Same(s, audit) /\ s.lock = audit.lock
                         /\ Moves(audit, s, w, "answer")
  BY Stepping DEF Places
<1>2. /\ audit' = [s EXCEPT !.worker[w].kept = <<>>, !.log = audit.worker[w].kept,
                        !.file = @ + 1]
      /\ audit.worker[w].at = "commit"
  BY <1>1 DEF TrimCommit, At
<1> DEFINE x == [s.worker[w] EXCEPT !.kept = <<>>]
           W == [s.worker EXCEPT ![w] = x]
           new_log == audit.worker[w].kept
           new_file == s.file + 1
<1>3. /\ s.worker[w] \in Worker /\ <<>> \in Seq(Line)
      /\ new_log \in Seq(Line) /\ new_file \in Nat
  <2>1. audit.worker[w] \in Worker /\ s.worker[w] \in Worker /\ s.file \in Nat
    BY DEF Audit
  <2> QED BY <2>1 DEF Worker
<1>4. /\ x \in Worker /\ x.at = s.worker[w].at /\ x.kept = <<>>
      /\ x.row = s.worker[w].row /\ x.file = s.worker[w].file
  BY <1>3 DEF Worker
<1>5. audit' = [s EXCEPT !.worker = W, !.log = new_log, !.file = new_file]
  BY <1>2
<1>6. /\ W \in [Workers -> Worker] /\ W[w] = x
      /\ \A v \in Workers \ {w} : W[v] = audit.worker[v]
  BY <1>1, <1>4, Placed DEF Moves
<1> HIDE DEF W, new_log, new_file
<1>7. audit' \in Audit
  BY <1>3, <1>5, <1>6 DEF Audit
<1>8. /\ audit'.log = new_log /\ audit'.order = s.order /\ audit'.lock = s.lock
      /\ audit'.file = new_file /\ audit'.since = s.since /\ audit'.checked = s.checked
      /\ audit'.crashes = s.crashes /\ audit'.errors = s.errors /\ audit'.worker = W
  BY <1>5 DEF Audit
<1> QED
  BY <1>1, <1>2, <1>4, <1>6, <1>7, <1>8
  DEF Same, Moves, Others, SameFile, SameCounts, new_log, new_file

LEMMA AnsweredStep ==
  ASSUME audit \in Audit, NEW w \in Workers, Answered(w)
  PROVE  /\ audit' \in Audit /\ Others(w)
         /\ audit.worker[w].at = "answer" /\ audit'.worker[w].at = "idle"
         /\ SameFile /\ SameCounts /\ audit'.lock = audit.lock \ {w}
<1>1. PICK s \in Audit : /\ s = Leave(w, "idle") /\ Same(s, audit) /\ s.lock = audit.lock \ {w}
                         /\ Moves(audit, s, w, "idle")
  BY Leaving DEF Places
<1>2. /\ audit' = [s EXCEPT !.recorded = @ \cup {audit.worker[w].row}]
      /\ audit.worker[w].at = "answer"
  BY <1>1 DEF Answered, At
<1> DEFINE new_recorded == s.recorded \cup {audit.worker[w].row}
<1>3. new_recorded \in SUBSET Nat
  BY <1>1 DEF Audit, Worker
<1>5. audit' = [s EXCEPT !.recorded = new_recorded]
  BY <1>2
<1> HIDE DEF new_recorded
<1>7. audit' \in Audit
  BY <1>3, <1>5 DEF Audit
<1>8. /\ audit'.log = s.log /\ audit'.order = s.order /\ audit'.lock = s.lock
      /\ audit'.file = s.file /\ audit'.since = s.since /\ audit'.checked = s.checked
      /\ audit'.crashes = s.crashes /\ audit'.errors = s.errors /\ audit'.worker = s.worker
  BY <1>5 DEF Audit
<1> QED
  BY <1>1, <1>2, <1>7, <1>8 DEF Same, Moves, Others, SameFile, SameCounts, new_recorded

LEMMA FailsStep ==
  ASSUME audit \in Audit, NEW w \in Workers, Fails(w)
  PROVE  /\ audit' \in Audit /\ Others(w)
         /\ audit.worker[w].at \in {"record", "row", "end", "trim", "commit"}
         /\ audit'.worker[w].at = "idle"
         /\ SameFile /\ audit'.lock = audit.lock \ {w}
         /\ audit'.since = audit.since /\ audit'.checked = audit.checked
         /\ audit'.crashes = audit.crashes /\ audit'.errors = audit.errors + 1
<1>1. PICK s \in Audit : /\ s = Leave(w, "idle") /\ Same(s, audit) /\ s.lock = audit.lock \ {w}
                         /\ Moves(audit, s, w, "idle")
  BY Leaving DEF Places
<1>2. /\ audit' = [s EXCEPT !.worker[w].kept = <<>>, !.errors = @ + 1]
      /\ audit.worker[w].at \in {"record", "row", "end", "trim", "commit"}
  BY <1>1 DEF Fails, At
<1> DEFINE x == [s.worker[w] EXCEPT !.kept = <<>>]
           W == [s.worker EXCEPT ![w] = x]
           new_errors == s.errors + 1
<1>3. s.worker[w] \in Worker /\ <<>> \in Seq(Line) /\ new_errors \in Nat
  BY <1>1 DEF Audit
<1>4. /\ x \in Worker /\ x.at = s.worker[w].at /\ x.kept = <<>>
      /\ x.row = s.worker[w].row /\ x.file = s.worker[w].file
  BY <1>3 DEF Worker
<1>5. audit' = [s EXCEPT !.worker = W, !.errors = new_errors]
  BY <1>2
<1>6. /\ W \in [Workers -> Worker] /\ W[w] = x
      /\ \A v \in Workers \ {w} : W[v] = audit.worker[v]
  BY <1>1, <1>4, Placed DEF Moves
<1> HIDE DEF W, new_errors
<1>7. audit' \in Audit
  BY <1>3, <1>5, <1>6 DEF Audit
<1>8. /\ audit'.log = s.log /\ audit'.order = s.order /\ audit'.lock = s.lock
      /\ audit'.file = s.file /\ audit'.since = s.since /\ audit'.checked = s.checked
      /\ audit'.crashes = s.crashes /\ audit'.errors = new_errors /\ audit'.worker = W
  BY <1>5 DEF Audit
<1> QED
  BY <1>1, <1>2, <1>4, <1>6, <1>7, <1>8
  DEF Same, Moves, Others, SameFile, SameCounts, new_errors

LEMMA CrashStep ==
  ASSUME audit \in Audit, Crash
  PROVE  /\ audit' \in Audit /\ SameFile /\ audit'.lock = {}
         /\ \A w \in Workers : audit'.worker[w].at = "idle"
         /\ audit'.checked = FALSE /\ audit'.since = 0
         /\ audit'.crashes = audit.crashes + 1 /\ audit'.errors = audit.errors
<1> DEFINE W == AuditIdle.worker
           n == audit.crashes + 1
<1>1. W \in [Workers -> Worker] /\ \A w \in Workers : W[w].at = "idle"
  BY DEF AuditIdle, Worker, Places
<1>2. n \in Nat
  BY DEF Audit
<1>3. audit' = [audit EXCEPT !.crashes = n, !.lock = {}, !.checked = FALSE,
                          !.since = 0, !.worker = W]
  BY DEF Crash
<1> HIDE DEF W, n
<1>4. /\ audit'.log = audit.log /\ audit'.order = audit.order /\ audit'.file = audit.file
      /\ audit'.worker = W /\ audit'.lock = {} /\ audit'.checked = FALSE /\ audit'.since = 0
      /\ audit'.crashes = n /\ audit'.errors = audit.errors
  BY <1>3 DEF Audit
<1>5. audit' \in Audit
  BY <1>1, <1>2, <1>3 DEF Audit
<1> QED BY <1>1, <1>4, <1>5 DEF SameFile, n

LEMMA AloneNext ==
  ASSUME audit \in Audit, Alone, [AuditStep]_audit
  PROVE  audit' \in Audit /\ Alone'
<1>1. CASE Crash
  BY <1>1, CrashStep DEF Alone
<1>2. ASSUME NEW w \in Workers, Dispatched(w) PROVE audit' \in Audit /\ Alone'
  BY <1>2, DispatchedStep DEF Alone, SameFile, Others
<1>3. ASSUME NEW w \in Workers, Open(w) PROVE audit' \in Audit /\ Alone'
  BY <1>3, OpenStep DEF Alone, SameFile, Others
<1>4. ASSUME NEW w \in Workers, WriteRow(w) PROVE audit' \in Audit /\ Alone'
  BY <1>4, WriteRowStep DEF Alone, Others
<1>5. ASSUME NEW w \in Workers, WriteEnd(w) PROVE audit' \in Audit /\ Alone'
  BY <1>5, WriteEndStep DEF Alone, Others
<1>6. ASSUME NEW w \in Workers, Check(w) PROVE audit' \in Audit /\ Alone'
  <2>1. /\ audit.worker[w].at = "check" /\ audit'.worker[w].at \in {"trim", "answer"}
        /\ audit'.worker[w].file = audit.worker[w].file
        /\ audit'.lock = audit.lock /\ audit'.file = audit.file /\ audit'.log = audit.log
        /\ \A v \in Workers \ {w} : audit'.worker[v] = audit.worker[v]
    BY <1>6, CheckStep DEF Others, SameFile, AfterCheck
  <2>2. Alone'
    BY <2>1 DEF Alone, LastN
  <2> QED BY <1>6, <2>2, CheckStep
<1>7. ASSUME NEW w \in Workers, TrimRead(w) PROVE audit' \in Audit /\ Alone'
  BY <1>7, TrimReadStep DEF Alone, Others, SameFile
<1>8. ASSUME NEW w \in Workers, TrimCommit(w) PROVE audit' \in Audit /\ Alone'
  BY <1>8, TrimCommitStep DEF Alone, Others
<1>9. ASSUME NEW w \in Workers, Answered(w) PROVE audit' \in Audit /\ Alone'
  BY <1>9, AnsweredStep DEF Alone, Others, SameFile
<1>10. ASSUME NEW w \in Workers, Fails(w) PROVE audit' \in Audit /\ Alone'
  BY <1>10, FailsStep DEF Alone, Others, SameFile
<1>11. CASE UNCHANGED audit
  BY <1>11 DEF Alone, LastN
<1> QED
  BY <1>1, <1>2, <1>3, <1>4, <1>5, <1>6, <1>7, <1>8, <1>9, <1>10, <1>11 DEF AuditStep

-----------------------------------------------------------------------------
(* The rows of the file: a row is put on a line of its own or at the end   *)
(* of a torn one, and a trim drops lines from the front.                   *)
LEMMA RowOnNewLine ==
  \A log, order, row, new :
    /\ log \in Seq(Line) /\ order \in Seq(Nat) /\ row \in Nat /\ new \in Seq(Line)
    /\ LastRows(log, order)
    /\ Len(new) = Len(log) + 1 /\ new[Len(log) + 1].rows = <<row>>
    /\ \A i \in 1..Len(log) : new[i] = log[i]
    => LastRows(new, Append(order, row))
<1>0. SUFFICES ASSUME NEW log, NEW order, NEW row, NEW new,
                      log \in Seq(Line), order \in Seq(Nat), row \in Nat, new \in Seq(Line),
                      LastRows(log, order),
                      Len(new) = Len(log) + 1, new[Len(log) + 1].rows = <<row>>,
                      \A i \in 1..Len(log) : new[i] = log[i]
               PROVE  LastRows(new, Append(order, row))
  OBVIOUS
<1> DEFINE n == Len(log)
           N == Len(order)
           order2 == Append(order, row)
<1>1. PICK first \in [1..(n + 1) -> 1..(N + 1)] :
        Holds(log, order, first) /\ (first[1] = 1 \/ N + 1 - first[1] >= MaxLines)
  BY <1>0 DEF LastRows
<1>a. \A i \in 1..(n + 1) : first[i] \in 1..(N + 1)
  OBVIOUS
<1>b. first[n + 1] = N + 1
  BY <1>1 DEF Holds
<1>c. \A i, j \in 1..(n + 1) : i <= j => first[j] - first[i] >= j - i
  BY <1>1 DEF Holds
<1>d. \A i \in 1..n : Len(log[i].rows) = first[i + 1] - first[i]
  BY <1>1 DEF Holds
<1>e. \A k \in first[1]..N :
        \E i \in 1..n : /\ first[i] <= k /\ k < first[i + 1]
                       /\ log[i].rows[k - first[i] + 1] = order[k]
  BY <1>1 DEF Holds
<1>f. first[1] = 1 \/ N + 1 - first[1] >= MaxLines
  BY <1>1
<1>2. n \in Nat /\ N \in Nat /\ Len(order2) = N + 1 /\ order2[N + 1] = row
      /\ (\A k \in 1..N : order2[k] = order[k]) /\ Len(new) = n + 1
  BY <1>0
<1>3. /\ new[n + 1].rows = <<row>> /\ \A i \in 1..n : new[i] = log[i]
  BY <1>0
<1> HIDE DEF n, N, order2
<1> DEFINE second == [i \in 1..(n + 2) |-> IF i = n + 2 THEN N + 2 ELSE first[i]]
<1>4. /\ second \in [1..(n + 2) -> 1..(N + 2)] /\ second[n + 2] = N + 2
      /\ \A i \in 1..(n + 1) : second[i] = first[i]
      /\ \A i \in 1..(n + 2) : second[i] \in Int
  BY <1>a, <1>2
<1> HIDE DEF second
<1>5. ASSUME NEW i \in 1..(n + 2), NEW j \in 1..(n + 2), i <= j
      PROVE  second[j] - second[i] >= j - i
  <2>1. CASE i = n + 2
    BY <1>2, <1>4, <1>5, <2>1
  <2>2. CASE j = n + 2 /\ i # n + 2
    <3>1. i \in 1..(n + 1) /\ n + 1 \in 1..(n + 1) /\ i <= n + 1
      BY <1>2, <2>2
    <3>2. first[n + 1] - first[i] >= n + 1 - i
      <4>1. PICK p \in 1..(n + 1) : p = n + 1
        BY <3>1
      <4>2. first[p] - first[i] >= p - i
        BY <1>c, <3>1, <4>1
      <4> QED BY <1>2, <4>1, <4>2
    <3>3. first[i] \in Int
      BY <1>a, <3>1
    <3> QED BY <1>b, <1>2, <1>4, <2>2, <3>1, <3>2, <3>3
  <2>3. CASE j # n + 2 /\ i # n + 2
    <3>1. i \in 1..(n + 1) /\ j \in 1..(n + 1)
      BY <1>2, <2>3
    <3> QED BY <1>c, <1>4, <1>5, <3>1
  <2> QED BY <1>2, <1>5, <2>1, <2>2, <2>3
<1>6. ASSUME NEW i \in 1..(n + 1) PROVE Len(new[i].rows) = second[i + 1] - second[i]
  <2>1. CASE i = n + 1
    <3>1. second[n + 1] = N + 1 /\ second[n + 1 + 1] = N + 2
      BY <1>b, <1>2, <1>4
    <3>2. Len(new[n + 1].rows) = 1
      BY <1>3
    <3> QED BY <1>2, <2>1, <3>1, <3>2
  <2>2. CASE i # n + 1
    <3>1. i \in 1..n /\ i + 1 \in 1..(n + 1)
      BY <1>2, <2>2
    <3> QED BY <1>d, <1>3, <1>4, <3>1
  <2> QED BY <2>1, <2>2
<1>7. ASSUME NEW k \in second[1]..(N + 1)
      PROVE  \E i \in 1..(n + 1) : /\ second[i] <= k /\ k < second[i + 1]
                                   /\ new[i].rows[k - second[i] + 1] = order2[k]
  <2>1. CASE k = N + 1
    <3>1. n + 1 \in 1..(n + 1) /\ second[n + 1] = N + 1 /\ second[n + 1 + 1] = N + 2
      BY <1>b, <1>2, <1>4
    <3>2. k - second[n + 1] + 1 = 1
      BY <1>2, <2>1, <3>1
    <3>3. new[n + 1].rows[k - second[n + 1] + 1] = order2[k]
      BY <1>2, <1>3, <2>1, <3>2
    <3>4. second[n + 1] <= k /\ k < second[n + 1 + 1]
      BY <1>2, <2>1, <3>1
    <3> QED BY <3>1, <3>3, <3>4
  <2>2. CASE k # N + 1
    <3>1. k \in first[1]..N /\ k \in 1..N
      BY <1>a, <1>b, <1>2, <1>4, <2>2
    <3>2. PICK i \in 1..n : /\ first[i] <= k /\ k < first[i + 1]
                            /\ log[i].rows[k - first[i] + 1] = order[k]
      BY <1>e, <3>1
    <3>3. i \in 1..(n + 1) /\ i + 1 \in 1..(n + 1)
      BY <1>2
    <3> QED BY <1>2, <1>3, <1>4, <3>1, <3>2, <3>3
  <2> QED BY <2>1, <2>2
<1>8. second[1] = 1 \/ N + 2 - second[1] >= MaxLines
  BY <1>a, <1>f, <1>2, <1>4, AuditAssumption
<1>g. Len(new) + 1 = n + 2 /\ Len(new) = n + 1 /\ Len(order2) + 1 = N + 2 /\ Len(order2) = N + 1
  BY <1>2
<1>9. Holds(new, order2, second)
  BY <1>4, <1>5, <1>6, <1>7, <1>g DEF Holds
<1>10. second \in [1..(Len(new) + 1) -> 1..(Len(order2) + 1)]
  BY <1>4, <1>g
<1>11. second[1] = 1 \/ Len(order2) + 1 - second[1] >= MaxLines
  <2>1. second[1] \in Int
    BY <1>2, <1>4
  <2> QED BY <1>2, <1>8, <1>g, <2>1, AuditAssumption
<1>12. LastRows(new, order2)
  BY <1>9, <1>10, <1>11 DEF LastRows
<1> QED BY <1>12 DEF order2

LEMMA RowOnTornLine ==
  \A log, order, row, new :
    /\ log \in Seq(Line) /\ order \in Seq(Nat) /\ row \in Nat /\ new \in Seq(Line)
    /\ LastRows(log, order)
    /\ Len(log) >= 1 /\ Len(new) = Len(log)
    /\ new[Len(log)].rows = Append(log[Len(log)].rows, row)
    /\ \A i \in 1..(Len(log) - 1) : new[i] = log[i]
    => LastRows(new, Append(order, row))
<1>0. SUFFICES ASSUME NEW log, NEW order, NEW row, NEW new,
                      log \in Seq(Line), order \in Seq(Nat), row \in Nat, new \in Seq(Line),
                      LastRows(log, order), Len(log) >= 1, Len(new) = Len(log),
                      new[Len(log)].rows = Append(log[Len(log)].rows, row),
                      \A i \in 1..(Len(log) - 1) : new[i] = log[i]
               PROVE  LastRows(new, Append(order, row))
  OBVIOUS
<1> DEFINE n == Len(log)
           N == Len(order)
           order2 == Append(order, row)
           rows == log[n].rows
<1>1. PICK first \in [1..(n + 1) -> 1..(N + 1)] :
        Holds(log, order, first) /\ (first[1] = 1 \/ N + 1 - first[1] >= MaxLines)
  BY <1>0 DEF LastRows
<1>a. \A i \in 1..(n + 1) : first[i] \in 1..(N + 1)
  OBVIOUS
<1>b. first[n + 1] = N + 1
  BY <1>1 DEF Holds
<1>c. \A i, j \in 1..(n + 1) : i <= j => first[j] - first[i] >= j - i
  BY <1>1 DEF Holds
<1>d. \A i \in 1..n : Len(log[i].rows) = first[i + 1] - first[i]
  BY <1>1 DEF Holds
<1>e. \A k \in first[1]..N :
        \E i \in 1..n : /\ first[i] <= k /\ k < first[i + 1]
                       /\ log[i].rows[k - first[i] + 1] = order[k]
  BY <1>1 DEF Holds
<1>f. first[1] = 1 \/ N + 1 - first[1] >= MaxLines
  BY <1>1
<1>2. n \in Nat /\ n >= 1 /\ N \in Nat /\ Len(order2) = N + 1 /\ order2[N + 1] = row
      /\ (\A k \in 1..N : order2[k] = order[k]) /\ Len(new) = n
      /\ (\A i \in 1..(n - 1) : new[i] = log[i])
  BY <1>0
<1>3. /\ Len(rows) \in Nat /\ Len(new[n].rows) = Len(rows) + 1
      /\ new[n].rows[Len(rows) + 1] = row
      /\ \A k \in 1..Len(rows) : new[n].rows[k] = rows[k]
  <2>1. log[n] \in Line
    BY <1>0, <1>2
  <2>2. rows \in Seq(Nat) /\ new[n].rows = Append(rows, row)
    BY <1>0, <2>1 DEF Line
  <2> HIDE DEF rows, n
  <2> QED BY <1>0, <2>2
<1>4. Len(rows) = N + 1 - first[n]
  <2>1. n \in 1..n
    BY <1>2
  <2>2. Len(log[n].rows) = first[n + 1] - first[n]
    BY <1>d, <2>1
  <2>3. first[n] \in Int
    BY <1>a, <1>2
  <2>5. Len(rows) = Len(log[n].rows)
    OBVIOUS
  <2>4. N \in Nat
    BY <1>2
  <2> HIDE DEF rows, n, N
  <2>6. first[n + 1] - first[n] = N + 1 - first[n]
    BY <1>b, <2>3, <2>4
  <2> QED BY <2>2, <2>5, <2>6
<1>r. log[n].rows = rows
  OBVIOUS
<1> HIDE DEF n, N, order2, rows
<1> DEFINE second == [i \in 1..(n + 1) |-> IF i = n + 1 THEN N + 2 ELSE first[i]]
<1>5. /\ second \in [1..(n + 1) -> 1..(N + 2)] /\ second[n + 1] = N + 2
      /\ \A i \in 1..n : second[i] = first[i]
      /\ \A i \in 1..(n + 1) : second[i] \in Int
  BY <1>a, <1>2
<1> HIDE DEF second
<1>6. ASSUME NEW i \in 1..(n + 1), NEW j \in 1..(n + 1), i <= j
      PROVE  second[j] - second[i] >= j - i
  <2>1. first[j] - first[i] >= j - i /\ first[i] \in Int /\ first[j] \in Int
    BY <1>a, <1>c, <1>6
  <2>2. CASE i = n + 1
    BY <1>2, <1>5, <1>6, <2>2
  <2>3. CASE j = n + 1 /\ i # n + 1
    BY <1>b, <1>2, <1>5, <2>1, <2>3
  <2>4. CASE j # n + 1 /\ i # n + 1
    BY <1>2, <1>5, <2>1, <2>4
  <2> QED BY <1>2, <1>6, <2>2, <2>3, <2>4
<1>7. ASSUME NEW i \in 1..n PROVE Len(new[i].rows) = second[i + 1] - second[i]
  <2>1. CASE i = n
    <3>1. first[n] \in Int /\ n \in 1..n
      BY <1>a, <1>2
    <3> QED BY <1>2, <1>3, <1>4, <1>5, <2>1, <3>1
  <2>2. CASE i # n
    <3>1. i \in 1..(n - 1) /\ i + 1 \in 1..n
      BY <1>2, <2>2
    <3> QED BY <1>d, <1>2, <1>5, <3>1
  <2> QED BY <2>1, <2>2
<1>8. ASSUME NEW k \in second[1]..(N + 1)
      PROVE  \E i \in 1..n : /\ second[i] <= k /\ k < second[i + 1]
                             /\ new[i].rows[k - second[i] + 1] = order2[k]
  <2>0. n \in 1..n /\ first[n] \in 1..(N + 1) /\ second[n] = first[n]
    BY <1>a, <1>2, <1>5
  <2>1. CASE k = N + 1
    <3>1. k - second[n] + 1 = Len(rows) + 1 /\ second[n] <= k /\ k < second[n + 1]
      BY <1>2, <1>4, <1>5, <2>0, <2>1
    <3>2. new[n].rows[k - second[n] + 1] = order2[k]
      BY <1>2, <1>3, <2>1, <3>1
    <3> QED BY <2>0, <3>1, <3>2
  <2>2. CASE k # N + 1
    <3>1. k \in first[1]..N /\ k \in 1..N
      BY <1>a, <1>2, <1>5, <2>2
    <3>2. PICK i \in 1..n : /\ first[i] <= k /\ k < first[i + 1]
                            /\ log[i].rows[k - first[i] + 1] = order[k]
      BY <1>e, <3>1
    <3>3. CASE i = n
      <4>0. first[n] <= k
        BY <3>2, <3>3
      <4>1. k - first[n] + 1 \in 1..Len(rows)
        BY <1>2, <1>4, <2>0, <3>1, <4>0
      <4>2. new[n].rows[k - first[n] + 1] = order2[k]
        BY <1>2, <1>3, <1>r, <3>1, <3>2, <3>3, <4>1
      <4>3. second[n] <= k /\ k < second[n + 1]
        BY <1>2, <1>5, <2>0, <3>1, <3>2, <3>3
      <4> QED BY <2>0, <4>2, <4>3
    <3>4. CASE i # n
      <4>1. i \in 1..(n - 1) /\ i + 1 \in 1..n
        BY <1>2, <3>4
      <4> QED BY <1>2, <1>5, <3>1, <3>2, <4>1
    <3> QED BY <3>3, <3>4
  <2> QED BY <2>1, <2>2
<1>9. second[1] = 1 \/ N + 2 - second[1] >= MaxLines
  BY <1>a, <1>f, <1>2, <1>5, AuditAssumption
<1>10. Holds(new, order2, second)
  BY <1>2, <1>5, <1>6, <1>7, <1>8 DEF Holds
<1>11. second \in [1..(Len(new) + 1) -> 1..(Len(order2) + 1)]
  BY <1>2, <1>5
<1>12. second[1] = 1 \/ Len(order2) + 1 - second[1] >= MaxLines
  <2>1. second[1] \in Int
    BY <1>2, <1>5
  <2>2. N \in Nat /\ Len(order2) = N + 1 /\ MaxLines \in Nat
    BY <1>2, AuditAssumption
  <2> QED BY <1>9, <2>1, <2>2
<1>13. LastRows(new, order2)
  BY <1>10, <1>11, <1>12 DEF LastRows
<1> QED BY <1>13 DEF order2

LEMMA RowsAsBefore ==
  ASSUME NEW log, NEW order, NEW new, LastRows(log, order), Len(new) = Len(log),
         \A i \in 1..Len(log) : new[i].rows = log[i].rows
  PROVE  LastRows(new, order)
<1>1. PICK first \in [1..(Len(log) + 1) -> 1..(Len(order) + 1)] :
        /\ Holds(log, order, first)
        /\ first[1] = 1 \/ Len(order) + 1 - first[1] >= MaxLines
  BY DEF LastRows
<1>2. Holds(new, order, first)
  BY <1>1 DEF Holds
<1>3. first \in [1..(Len(new) + 1) -> 1..(Len(order) + 1)]
  BY <1>1
<1> QED BY <1>1, <1>2, <1>3 DEF LastRows

LEMMA RowsTrimmed ==
  \A log, order :
    log \in Seq(Line) /\ order \in Seq(Nat) /\ LastRows(log, order)
    => LastRows(LastN(log, MaxLines), order)
<1>0. SUFFICES ASSUME NEW log, NEW order,
                      log \in Seq(Line), order \in Seq(Nat), LastRows(log, order)
               PROVE  LastRows(LastN(log, MaxLines), order)
  OBVIOUS
<1> DEFINE n == Len(log)
           N == Len(order)
           new == LastN(log, MaxLines)
<1>1. PICK first \in [1..(n + 1) -> 1..(N + 1)] :
        Holds(log, order, first) /\ (first[1] = 1 \/ N + 1 - first[1] >= MaxLines)
  BY <1>0 DEF LastRows
<1>a. \A i \in 1..(n + 1) : first[i] \in 1..(N + 1)
  OBVIOUS
<1>b. first[n + 1] = N + 1
  BY <1>1 DEF Holds
<1>c. \A i, j \in 1..(n + 1) : i <= j => first[j] - first[i] >= j - i
  BY <1>1 DEF Holds
<1>d. \A i \in 1..n : Len(log[i].rows) = first[i + 1] - first[i]
  BY <1>1 DEF Holds
<1>e. \A k \in first[1]..N :
        \E i \in 1..n : /\ first[i] <= k /\ k < first[i + 1]
                       /\ log[i].rows[k - first[i] + 1] = order[k]
  BY <1>1 DEF Holds
<1>f. first[1] = 1 \/ N + 1 - first[1] >= MaxLines
  BY <1>1
<1>2. PICK d \in Nat :
        /\ d <= n /\ (d # 0 => n - d = MaxLines)
        /\ Len(new) = n - d
        /\ \A i \in 1..(n - d) : new[i] = log[i + d]
  <2>1. MaxLines \in Nat /\ log \in Seq(Line)
    BY <1>0, AuditAssumption
  <2> QED BY <2>1, LastNKeeps
<1>3. n \in Nat /\ N \in Nat
  BY <1>0
<1> HIDE DEF n, N, new
<1>4. d <= n
  BY <1>2
<1> DEFINE second == [i \in 1..(n - d + 1) |-> first[i + d]]
<1>5. /\ second \in [1..(n - d + 1) -> 1..(N + 1)]
      /\ \A i \in 1..(n - d + 1) :
           second[i] = first[i + d] /\ i + d \in 1..(n + 1) /\ second[i] \in 1..(N + 1)
  BY <1>a, <1>3, <1>4
<1> HIDE DEF second
<1>6. second[n - d + 1] = N + 1 /\ second[1] = first[1 + d] /\ 1 + d \in 1..(n + 1)
  <2>1. n - d + 1 \in 1..(n - d + 1) /\ 1 \in 1..(n - d + 1) /\ n - d + 1 + d = n + 1
    BY <1>3, <1>4
  <2> QED BY <1>b, <1>3, <1>4, <1>5, <2>1
<1>7. ASSUME NEW i \in 1..(n - d + 1), NEW j \in 1..(n - d + 1), i <= j
      PROVE  second[j] - second[i] >= j - i
  <2>1. i + d \in 1..(n + 1) /\ j + d \in 1..(n + 1) /\ i + d <= j + d
    BY <1>3, <1>4, <1>7
  <2>2. first[j + d] - first[i + d] >= (j + d) - (i + d)
    BY <1>c, <2>1
  <2> QED BY <1>5, <2>2
<1>8. ASSUME NEW i \in 1..(n - d) PROVE Len(new[i].rows) = second[i + 1] - second[i]
  <2>1. i + d \in 1..n /\ i \in 1..(n - d + 1) /\ i + 1 \in 1..(n - d + 1)
        /\ i + 1 + d = i + d + 1
    BY <1>3, <1>4
  <2> QED BY <1>d, <1>2, <1>5, <2>1
<1>9. ASSUME NEW k \in second[1]..N
      PROVE  \E i \in 1..(n - d) : /\ second[i] <= k /\ k < second[i + 1]
                                   /\ new[i].rows[k - second[i] + 1] = order[k]
  <2>1. 1 \in 1..(n + 1) /\ first[1] \in Int /\ first[1 + d] \in Int
        /\ first[1 + d] - first[1] >= 1 + d - 1
    BY <1>a, <1>c, <1>3, <1>6
  <2>2. k \in first[1]..N
    BY <1>6, <2>1, <1>3
  <2>3. PICK i \in 1..n : /\ first[i] <= k /\ k < first[i + 1]
                          /\ log[i].rows[k - first[i] + 1] = order[k]
    BY <1>e, <2>2
  <2>4. i > d
    <3> SUFFICES ASSUME i <= d PROVE FALSE
      BY <1>3
    <3>1. i + 1 \in 1..(n + 1) /\ i + 1 <= 1 + d
      BY <1>3
    <3>2. first[1 + d] - first[i + 1] >= (1 + d) - (i + 1) /\ first[i + 1] \in Int
      BY <1>a, <1>c, <1>6, <3>1
    <3> QED BY <1>6, <2>1, <2>3, <3>1, <3>2
  <2>5. i - d \in 1..(n - d) /\ i - d \in 1..(n - d + 1) /\ i - d + 1 \in 1..(n - d + 1)
        /\ i - d + d = i /\ i - d + 1 + d = i + 1
    BY <1>3, <1>4, <2>4
  <2>6. second[i - d] = first[i] /\ second[i - d + 1] = first[i + 1] /\ new[i - d] = log[i]
    BY <1>2, <1>5, <2>5
  <2> QED BY <2>3, <2>5, <2>6
<1>10. second[1] = 1 \/ N + 1 - second[1] >= MaxLines
  <2>1. CASE d = 0
    BY <1>f, <1>3, <1>6, <2>1
  <2>2. CASE d # 0
    <3>1. n - d = MaxLines
      BY <1>2, <1>3, <2>2, AuditAssumption
    <3>2. 1 \in 1..(n - d + 1) /\ n - d + 1 \in 1..(n - d + 1) /\ 1 <= n - d + 1
      BY <1>3, <1>4
    <3>3. second[n - d + 1] - second[1] >= n - d + 1 - 1
      <4>1. PICK p \in 1..(n - d + 1) : p = n - d + 1
        BY <3>2
      <4>2. PICK q \in 1..(n - d + 1) : q = 1
        BY <3>2
      <4>3. second[p] - second[q] >= p - q
        BY <1>7, <3>2, <4>1, <4>2
      <4> QED BY <1>3, <4>1, <4>2, <4>3
    <3>4. second[1] \in Int
      BY <1>5, <3>2
    <3> QED BY <1>3, <1>6, <3>1, <3>3, <3>4, AuditAssumption
  <2> QED BY <2>1, <2>2
<1>11. Holds(new, order, second)
  BY <1>2, <1>3, <1>6, <1>7, <1>8, <1>9 DEF Holds, N
<1> QED BY <1>2, <1>5, <1>10, <1>11 DEF LastRows, new, N

LEMMA RowsNext == RowsInv /\ [AuditStep]_audit => RowsInv'
<1> SUFFICES ASSUME RowsInv, [AuditStep]_audit PROVE RowsInv'
  OBVIOUS
<1>0. audit \in Audit /\ Alone /\ LastRows(audit.log, audit.order)
  BY DEF RowsInv
<1>1. audit' \in Audit /\ Alone'
  BY <1>0, AloneNext
<1> SUFFICES LastRows(audit'.log, audit'.order)
  BY <1>1 DEF RowsInv
<1>2. CASE UNCHANGED audit \/ SameFile
  BY <1>0, <1>2 DEF SameFile
<1>3. CASE Crash
  BY <1>0, <1>2, <1>3, CrashStep
<1>4. ASSUME NEW w \in Workers, WriteRow(w) PROVE LastRows(audit'.log, audit'.order)
  <2>1. /\ audit'.order = Append(audit.order, audit.worker[w].row)
        /\ audit.worker[w].at = "row"
        /\ audit.worker[w].file = audit.file => audit'.log = NewLog(w)
    BY <1>0, <1>4, WriteRowStep
  <2>2. audit'.log = NewLog(w)
    BY <1>0, <2>1 DEF Alone
  <2>3. audit.log \in Seq(Line) /\ audit.order \in Seq(Nat) /\ audit.worker[w].row \in Nat
    BY <1>0 DEF Audit, Worker
  <2>4. CASE ~Torn
    <3>1. /\ NewLog(w) \in Seq(Line) /\ Len(NewLog(w)) = Len(audit.log) + 1
          /\ NewLog(w)[Len(audit.log) + 1].rows = <<audit.worker[w].row>>
          /\ \A i \in 1..Len(audit.log) : NewLog(w)[i] = audit.log[i]
      BY <1>0, <2>4, NewLogTyped
    <3>2. LastRows(NewLog(w), Append(audit.order, audit.worker[w].row))
      BY <1>0, <2>3, <3>1, RowOnNewLine, ZenonT(30)
    <3> QED BY <2>1, <2>2, <3>2
  <2>5. CASE Torn
    <3>1. /\ NewLog(w) \in Seq(Line)
          /\ Len(audit.log) >= 1 /\ Len(NewLog(w)) = Len(audit.log)
          /\ NewLog(w)[Len(audit.log)].rows =
               Append(audit.log[Len(audit.log)].rows, audit.worker[w].row)
          /\ \A i \in 1..(Len(audit.log) - 1) : NewLog(w)[i] = audit.log[i]
      BY <1>0, <2>5, NewLogTyped
    <3>2. LastRows(NewLog(w), Append(audit.order, audit.worker[w].row))
      BY <1>0, <2>3, <3>1, RowOnTornLine, ZenonT(30)
    <3> QED BY <2>1, <2>2, <3>2
  <2> QED BY <2>4, <2>5
<1>5. ASSUME NEW w \in Workers, WriteEnd(w) PROVE LastRows(audit'.log, audit'.order)
  <2>1. audit'.order = audit.order /\ (audit'.log = audit.log \/ (Torn /\ audit'.log = EndedLog))
    BY <1>0, <1>5, WriteEndStep
  <2> QED BY <1>0, <2>1, EndedLogTyped, RowsAsBefore
<1>6. ASSUME NEW w \in Workers, TrimCommit(w) PROVE LastRows(audit'.log, audit'.order)
  <2>1. audit'.order = audit.order /\ audit'.log = audit.worker[w].kept
        /\ audit.worker[w].at = "commit"
    BY <1>0, <1>6, TrimCommitStep
  <2>2. audit'.log = LastN(audit.log, MaxLines)
    BY <1>0, <2>1 DEF Alone
  <2>3. audit.log \in Seq(Line) /\ audit.order \in Seq(Nat)
    BY <1>0 DEF Audit
  <2> QED BY <1>0, <2>1, <2>2, <2>3, RowsTrimmed
<1>7. ASSUME NEW w \in Workers,
             Dispatched(w) \/ Open(w) \/ Check(w) \/ TrimRead(w) \/ Answered(w) \/ Fails(w)
      PROVE  LastRows(audit'.log, audit'.order)
  BY <1>0, <1>2, <1>7, DispatchedStep, OpenStep, CheckStep, TrimReadStep, AnsweredStep, FailsStep
<1> QED BY <1>2, <1>3, <1>4, <1>5, <1>6, <1>7 DEF AuditStep

(* What the rows of the file say of a row that is not in it.               *)
LEMMA RowsAreKept == RowsInv => RowsKept
<1> SUFFICES ASSUME RowsInv, NEW k \in 1..Len(audit.order), ~InFile(audit.order[k])
             PROVE  Len(audit.order) - k >= MaxLines
  BY DEF RowsKept
<1>1. audit.log \in Seq(Line) /\ audit.order \in Seq(Nat)
  BY DEF RowsInv, Audit
<1> DEFINE n == Len(audit.log)
           N == Len(audit.order)
<1>2. PICK first \in [1..(n + 1) -> 1..(N + 1)] :
        Holds(audit.log, audit.order, first) /\ (first[1] = 1 \/ N + 1 - first[1] >= MaxLines)
  BY DEF RowsInv, LastRows
<1>3. n \in Nat /\ N \in Nat /\ first[1] \in 1..(N + 1) /\ MaxLines \in Nat
  <2>1. n \in Nat /\ N \in Nat /\ MaxLines \in Nat
    BY <1>1, AuditAssumption
  <2>2. 1 \in 1..(n + 1)
    BY <2>1
  <2> QED BY <2>1, <2>2
<1>4. ~(k \in first[1]..N)
  <2> SUFFICES ASSUME k \in first[1]..N PROVE FALSE
    OBVIOUS
  <2>1. PICK i \in 1..n : /\ first[i] <= k /\ k < first[i + 1]
                          /\ audit.log[i].rows[k - first[i] + 1] = audit.order[k]
    BY <1>2 DEF Holds
  <2>2. Len(audit.log[i].rows) = first[i + 1] - first[i]
    BY <1>2, <2>1 DEF Holds
  <2>3. first[i] \in Int /\ first[i + 1] \in Int
    <3>1. i \in 1..(n + 1) /\ i + 1 \in 1..(n + 1)
      BY <1>3
    <3>2. first[i] \in 1..(N + 1) /\ first[i + 1] \in 1..(N + 1)
      BY <3>1
    <3> QED BY <1>3, <3>2
  <2>4. k \in Int
    BY <1>3
  <2>5. k - first[i] + 1 \in 1..Len(audit.log[i].rows)
    <3> DEFINE a == first[i]
               b == first[i + 1]
               rows == Len(audit.log[i].rows)
    <3>1. a \in Int /\ b \in Int /\ a <= k /\ k < b /\ rows = b - a
      BY <2>1, <2>2, <2>3
    <3> HIDE DEF a, b, rows
    <3>2. 1 <= k - a + 1 /\ k - a + 1 <= rows /\ k - a + 1 \in Int
      BY <2>4, <3>1
    <3>3. k - a + 1 \in 1..rows
      BY <2>4, <3>1, <3>2
    <3> QED
      BY <3>3 DEF a, b, rows
  <2> QED BY <2>1, <2>5 DEF InFile
<1>5. k < first[1]
  BY <1>3, <1>4
<1>6. N + 1 - first[1] >= MaxLines
  BY <1>2, <1>3, <1>5
<1> QED BY <1>3, <1>5, <1>6

(* No trim loses a row: it is in the file until MaxLines later rows were   *)
(* written, whatever other workers, failures and crashes come between.     *)
THEOREM RowsKeptHolds == AuditSpec => []RowsKept
<1>1. AuditInit => RowsInv
  BY RowsInit
<1>2. RowsInv /\ [AuditStep]_audit => RowsInv'
  BY RowsNext
<1>3. RowsInv => RowsKept
  BY RowsAreKept
<1> QED BY <1>1, <1>2, <1>3, PTL DEF AuditSpec

-----------------------------------------------------------------------------
(* How far the file may have grown since it was last found small enough: a *)
(* line for each answer since, one for each restart, and a round for each  *)
(* error.                                                                  *)
Written(w) == audit.worker[w].at \in {"end", "check"}
Cutting(w) == audit.worker[w].at \in {"trim", "commit"}
Allowed == TrimTrigger + CheckEvery * audit.errors + audit.crashes

GrowthInv ==
  /\ audit.since < CheckEvery
  /\ \/ Len(audit.log) <= Allowed + audit.since
     \/ ~audit.checked /\ Len(audit.log) < Allowed + CheckEvery
     \/ \E w \in Workers :
          /\ Written(w)
          /\ \/ Len(audit.log) <= Allowed + audit.since + 1
             \/ ~audit.checked /\ Len(audit.log) <= Allowed + CheckEvery
     \/ \E w \in Workers :
          Cutting(w) /\ audit.checked /\ Len(audit.log) <= Allowed + CheckEvery

LEMMA Round == ASSUME NEW c \in Nat, NEW e \in Nat PROVE c * (e + 1) = c * e + c /\ c * e \in Nat
  OBVIOUS

LEMMA Growing ==
  ASSUME audit \in Audit, audit' \in Audit
  PROVE  /\ Allowed \in Nat /\ TrimTrigger <= Allowed /\ Allowed' \in Nat
         /\ SameCounts => Allowed' = Allowed
         /\ audit'.errors = audit.errors /\ audit'.crashes = audit.crashes => Allowed' = Allowed
         /\ audit'.errors = audit.errors + 1 /\ audit'.crashes = audit.crashes =>
              Allowed' = Allowed + CheckEvery
         /\ audit'.errors = audit.errors /\ audit'.crashes = audit.crashes + 1 =>
              Allowed' = Allowed + 1
<1>1. /\ CheckEvery \in Nat /\ TrimTrigger \in Nat /\ audit.errors \in Nat /\ audit.crashes \in Nat
      /\ audit'.errors \in Nat /\ audit'.crashes \in Nat
  BY AuditAssumption DEF Audit
<1> DEFINE a == CheckEvery * audit.errors
           b == CheckEvery * audit'.errors
<1>2. /\ a \in Nat /\ b \in Nat /\ Allowed = TrimTrigger + a + audit.crashes
      /\ Allowed' = TrimTrigger + b + audit'.crashes
  BY <1>1, Round DEF Allowed
<1>3. /\ audit'.errors = audit.errors => b = a
      /\ audit'.errors = audit.errors + 1 => b = a + CheckEvery
  BY <1>1, Round
<1> HIDE DEF a, b
<1>4. Allowed \in Nat /\ TrimTrigger <= Allowed /\ Allowed' \in Nat
  BY <1>1, <1>2
<1>5. audit'.errors = audit.errors /\ audit'.crashes = audit.crashes => Allowed' = Allowed
  BY <1>2, <1>3
<1>6. audit'.errors = audit.errors + 1 /\ audit'.crashes = audit.crashes =>
        Allowed' = Allowed + CheckEvery
  BY <1>1, <1>2, <1>3
<1>7. audit'.errors = audit.errors /\ audit'.crashes = audit.crashes + 1 => Allowed' = Allowed + 1
  BY <1>1, <1>2, <1>3
<1> QED BY <1>4, <1>5, <1>6, <1>7 DEF SameCounts

LEMMA WithinARound ==
  ASSUME audit \in Audit, GrowthInv
  PROVE  Len(audit.log) <= Allowed + CheckEvery
<1>1. /\ CheckEvery \in Nat /\ TrimTrigger \in Nat /\ audit.errors \in Nat /\ audit.crashes \in Nat
      /\ audit.since \in Nat /\ Len(audit.log) \in Nat
  BY AuditAssumption DEF Audit
<1>2. Allowed \in Nat
  BY <1>1, Round DEF Allowed
<1>3. \/ Len(audit.log) <= Allowed + audit.since \/ Len(audit.log) <= Allowed + audit.since + 1
      \/ Len(audit.log) < Allowed + CheckEvery \/ Len(audit.log) <= Allowed + CheckEvery
  BY DEF GrowthInv
<1>4. audit.since < CheckEvery
  BY DEF GrowthInv
<1> QED BY <1>1, <1>2, <1>3, <1>4

(* A step that leaves the counters and the lines alone and takes no worker *)
(* out of its place.                                                       *)
LEMMA GrowthAsBefore ==
  ASSUME audit \in Audit, audit' \in Audit, GrowthInv, SameFile, SameCounts,
         \A v \in Workers : /\ Written(v) => Written(v)'
                            /\ Cutting(v) => Cutting(v)'
  PROVE  GrowthInv'
<1>1. Allowed' = Allowed
  BY Growing
<1>2. audit'.log = audit.log /\ audit'.since = audit.since /\ audit'.checked = audit.checked
  BY DEF SameFile, SameCounts
<1> QED BY <1>1, <1>2 DEF GrowthInv

LEMMA GrowthNext == RowsInv /\ GrowthInv /\ [AuditStep]_audit => GrowthInv'
<1> SUFFICES ASSUME RowsInv, GrowthInv, [AuditStep]_audit PROVE GrowthInv'
  OBVIOUS
<1>0. audit \in Audit /\ audit' \in Audit /\ Alone
  BY AloneNext DEF RowsInv
<1>a. /\ CheckEvery \in Nat /\ CheckEvery > 0 /\ MaxLines \in Nat /\ TrimTrigger \in Nat
      /\ MaxLines < TrimTrigger
      /\ audit.since \in Nat /\ audit'.since \in Nat
      /\ Len(audit.log) \in Nat /\ Len(audit'.log) \in Nat
  BY <1>0, AuditAssumption DEF Audit
<1>b. Allowed \in Nat /\ TrimTrigger <= Allowed /\ Allowed' \in Nat
  BY <1>0, Growing
<1>c. Len(audit.log) <= Allowed + CheckEvery /\ audit.since < CheckEvery
  BY <1>0, WithinARound DEF GrowthInv
<1>1. CASE Crash
  <2>1. Allowed' = Allowed + 1 /\ audit'.log = audit.log /\ ~audit'.checked /\ audit'.since = 0
    BY <1>0, <1>1, CrashStep, Growing DEF SameFile
  <2>2. Len(audit'.log) < Allowed' + CheckEvery /\ audit'.since < CheckEvery
    BY <1>a, <1>b, <1>c, <2>1
  <2> QED BY <2>1, <2>2 DEF GrowthInv
<1>2. ASSUME NEW w \in Workers, Dispatched(w) \/ Open(w) \/ TrimRead(w) \/ Answered(w)
      PROVE  GrowthInv'
  <2>1. SameFile /\ SameCounts /\ Others(w)
    BY <1>0, <1>2, DispatchedStep, OpenStep, TrimReadStep, AnsweredStep
  <2>2. \/ audit.worker[w].at \in {"idle", "record", "answer"}
        \/ audit.worker[w].at = "trim" /\ audit'.worker[w].at = "commit"
    BY <1>0, <1>2, DispatchedStep, OpenStep, TrimReadStep, AnsweredStep
  <2>3. \A v \in Workers : /\ Written(v) => Written(v)'
                           /\ Cutting(v) => Cutting(v)'
    BY <2>1, <2>2 DEF Written, Cutting, Others
  <2> QED BY <1>0, <2>1, <2>3, GrowthAsBefore
<1>3. ASSUME NEW w \in Workers, WriteRow(w) PROVE GrowthInv'
  <2>1. /\ SameCounts /\ audit.worker[w].at = "row" /\ audit'.worker[w].at = "end"
        /\ audit.worker[w].file = audit.file => audit'.log = NewLog(w)
    BY <1>0, <1>3, WriteRowStep
  <2>2. Len(audit'.log) <= Len(audit.log) + 1
    <3>1. audit'.log = NewLog(w)
      BY <1>0, <2>1 DEF Alone
    <3>2. Len(NewLog(w)) = Len(audit.log) + 1 \/ Len(NewLog(w)) = Len(audit.log)
      BY <1>0, NewLogTyped
    <3> QED BY <1>a, <3>1, <3>2
  <2>3. ~\E v \in Workers : Written(v) \/ Cutting(v)
    BY <1>0, <2>1 DEF Alone, Written, Cutting
  <2>4. \/ Len(audit.log) <= Allowed + audit.since
        \/ ~audit.checked /\ Len(audit.log) < Allowed + CheckEvery
    BY <2>3 DEF GrowthInv
  <2>5. Allowed' = Allowed /\ audit'.since = audit.since /\ audit'.checked = audit.checked
    BY <1>0, <2>1, Growing DEF SameCounts
  <2>6. \/ Len(audit'.log) <= Allowed' + audit'.since + 1
        \/ ~audit'.checked /\ Len(audit'.log) <= Allowed' + CheckEvery
    BY <1>a, <1>b, <2>2, <2>4, <2>5
  <2>7. Written(w)' /\ audit'.since < CheckEvery
    BY <1>c, <2>1, <2>5 DEF Written
  <2> QED BY <2>6, <2>7 DEF GrowthInv
<1>4. ASSUME NEW w \in Workers, WriteEnd(w) PROVE GrowthInv'
  <2>1. /\ SameCounts /\ Others(w) /\ audit.worker[w].at = "end" /\ audit'.worker[w].at = "check"
        /\ audit'.log = audit.log \/ (Torn /\ audit'.log = EndedLog)
    BY <1>0, <1>4, WriteEndStep
  <2>2. Len(audit'.log) = Len(audit.log)
    BY <1>0, <2>1, EndedLogTyped
  <2>3. \A v \in Workers : /\ Written(v) => Written(v)'
                           /\ Cutting(v) => Cutting(v)'
    BY <2>1 DEF Written, Cutting, Others
  <2>4. Allowed' = Allowed /\ audit'.since = audit.since /\ audit'.checked = audit.checked
    BY <1>0, <2>1, Growing DEF SameCounts
  <2> QED BY <2>2, <2>3, <2>4 DEF GrowthInv
<1>5. ASSUME NEW w \in Workers, Check(w) PROVE GrowthInv'
  <2>1. /\ audit.worker[w].at = "check" /\ audit'.worker[w].at = AfterCheck
        /\ audit'.log = audit.log /\ audit'.checked = TRUE
        /\ audit'.since = IF CheckDue THEN 0 ELSE audit.since + 1
    BY <1>0, <1>5, CheckStep DEF SameFile
  <2>2. Allowed' = Allowed
    BY <1>0, <1>5, CheckStep, Growing
  <2>3. CASE CheckDue /\ Len(audit.log) > TrimTrigger
    <3>1. Cutting(w)' /\ audit'.since = 0
      BY <2>1, <2>3 DEF AfterCheck, Cutting
    <3>2. Len(audit'.log) <= Allowed' + CheckEvery /\ audit'.since < CheckEvery
      BY <1>a, <1>c, <2>1, <2>2, <3>1
    <3> QED BY <2>1, <3>1, <3>2 DEF GrowthInv
  <2>4. CASE CheckDue /\ ~(Len(audit.log) > TrimTrigger)
    <3>1. audit'.since = 0
      BY <2>1, <2>4
    <3>2. Len(audit'.log) <= Allowed' + audit'.since /\ audit'.since < CheckEvery
      BY <1>a, <1>b, <2>1, <2>2, <2>4, <3>1
    <3> QED BY <3>2 DEF GrowthInv
  <2>5. CASE ~CheckDue
    <3>1. audit.checked /\ audit.since + 1 < CheckEvery /\ audit'.since = audit.since + 1
      BY <1>a, <2>1, <2>5 DEF CheckDue
    <3>2. ~\E v \in Workers : Cutting(v)
      BY <1>0, <2>1 DEF Alone, Cutting
    <3>3. \/ Len(audit.log) <= Allowed + audit.since
          \/ Len(audit.log) <= Allowed + audit.since + 1
      BY <3>1, <3>2 DEF GrowthInv
    <3>4. Len(audit'.log) <= Allowed' + audit'.since /\ audit'.since < CheckEvery
      BY <1>a, <1>b, <2>1, <2>2, <3>1, <3>3
    <3> QED BY <3>4 DEF GrowthInv
  <2> QED BY <2>3, <2>4, <2>5
<1>6. ASSUME NEW w \in Workers, TrimCommit(w) PROVE GrowthInv'
  <2>1. /\ SameCounts /\ audit.worker[w].at = "commit" /\ audit'.log = audit.worker[w].kept
    BY <1>0, <1>6, TrimCommitStep
  <2>2. audit'.log = LastN(audit.log, MaxLines)
    BY <1>0, <2>1 DEF Alone
  <2>3. Len(audit'.log) <= MaxLines
    <3>1. audit.log \in Seq(Line)
      BY <1>0 DEF Audit
    <3>2. /\ Len(LastN(audit.log, MaxLines)) = Len(audit.log) - Cut(audit.log, MaxLines)
          /\ Len(audit.log) - Cut(audit.log, MaxLines) <= MaxLines
      BY <1>a, <3>1, LastNKeeps
    <3> QED BY <2>2, <3>2
  <2>4. Len(audit'.log) <= Allowed' + audit'.since /\ audit'.since < CheckEvery
    <3>1. Allowed' = Allowed /\ audit'.since = audit.since
      BY <1>0, <2>1, Growing DEF SameCounts
    <3> QED BY <1>a, <1>b, <1>c, <2>3, <3>1
  <2> QED BY <2>4 DEF GrowthInv
<1>7. ASSUME NEW w \in Workers, Fails(w) PROVE GrowthInv'
  <2>1. Allowed' = Allowed + CheckEvery /\ audit'.log = audit.log /\ audit'.since = audit.since
    BY <1>0, <1>7, FailsStep, Growing DEF SameFile
  <2>2. Len(audit'.log) <= Allowed' + audit'.since /\ audit'.since < CheckEvery
    BY <1>a, <1>b, <1>c, <2>1
  <2> QED BY <2>2 DEF GrowthInv
<1>8. CASE UNCHANGED audit
  BY <1>0, <1>8, GrowthAsBefore DEF SameFile, SameCounts, Written, Cutting
<1> QED BY <1>1, <1>2, <1>3, <1>4, <1>5, <1>6, <1>7, <1>8 DEF AuditStep

LEMMA GrowthInit == AuditInit => RowsInv /\ GrowthInv
<1> SUFFICES ASSUME AuditInit PROVE RowsInv /\ GrowthInv
  OBVIOUS
<1>1. RowsInv /\ audit \in Audit
  BY RowsInit DEF RowsInv
<1>2. audit.log = <<>> /\ audit.since = 0
  BY DEF AuditInit, AuditIdle
<1>3. Allowed \in Nat /\ CheckEvery \in Nat /\ CheckEvery > 0
  <2>1. /\ CheckEvery \in Nat /\ CheckEvery > 0 /\ TrimTrigger \in Nat
        /\ audit.errors \in Nat /\ audit.crashes \in Nat
    BY <1>1, AuditAssumption DEF Audit
  <2> QED BY <2>1, Round DEF Allowed
<1>4. Len(audit.log) <= Allowed + audit.since /\ audit.since < CheckEvery
  BY <1>2, <1>3
<1> QED BY <1>1, <1>4 DEF GrowthInv

LEMMA GrowthBounds == RowsInv /\ GrowthInv => RetentionBound
<1> SUFFICES ASSUME RowsInv, GrowthInv PROVE RetentionBound
  OBVIOUS
<1>1. Len(audit.log) <= Allowed + CheckEvery
  BY WithinARound DEF RowsInv
<1>2. /\ CheckEvery \in Nat /\ TrimTrigger \in Nat /\ audit.errors \in Nat
      /\ audit.crashes \in Nat /\ Len(audit.log) \in Nat
  BY AuditAssumption DEF RowsInv, Audit
<1>3. CheckEvery * (1 + audit.errors) = CheckEvery * audit.errors + CheckEvery
      /\ CheckEvery * audit.errors \in Nat
  BY <1>2, Round
<1> QED BY <1>1, <1>2, <1>3 DEF Allowed, RetentionBound

(* The file never outgrows its trigger by more than the rows between two   *)
(* checks, one row for each restart and a round for each failed write or   *)
(* trim, in any process that keeps restarting and failing.                 *)
THEOREM RetentionBoundHolds == AuditSpec => []RetentionBound
<1>1. RowsInv /\ GrowthInv /\ [AuditStep]_audit => (RowsInv /\ GrowthInv)'
  BY RowsNext, GrowthNext
<1> QED BY <1>1, GrowthInit, GrowthBounds, PTL DEF AuditSpec
=============================================================================
