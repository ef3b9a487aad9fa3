------------------------------ MODULE TextEdits ------------------------------
(***************************************************************************)
(* The texts that edit.rs computes (transform): what an edit of a file is  *)
(* going to write. A pattern of mode "regex" is taken to be a literal one, *)
(* and replacements hold no group references.                              *)
(***************************************************************************)
EXTENDS Naturals, Sequences, FiniteSets, SequencesExt

VARIABLE edit

Modes == {"write", "append", "prepend", "replace", "regex", "replace-block"}
EditIdle == [pc |-> "idle", mode |-> "write", original |-> <<>>, old |-> <<>>, end |-> <<>>,
             new |-> <<>>, count |-> 0, rest |-> <<>>, output |-> <<>>, changed |-> 0]

(* interpret_escapes, one character or one escape at a time.               *)
Escapes == [n |-> "LF", r |-> "CR", t |-> "TAB"]
Escape(c) ==
    CASE c \in DOMAIN Escapes -> <<Escapes[c]>>
      [] c = "\\" -> <<"\\">>
      [] OTHER -> <<"\\", c>>
Interpreted(s) ==
    LET from(n) == Len(s) - n + 1   \* where the last n characters begin
        last[n \in 0..Len(s)] ==
            IF n = 0 THEN <<>>
            ELSE IF s[from(n)] # "\\" \/ n = 1 THEN <<s[from(n)]>> \o last[n - 1]
            ELSE Escape(s[from(n) + 1]) \o last[n - 2]
    IN last[Len(s)]

(* validate_payload: a pattern or a marker is not empty; the text of mode  *)
(* "replace" may be.                                                       *)
Valid(mode, old, end) ==
    /\ mode \in {"regex", "replace-block"} => old # <<>>
    /\ mode = "replace-block" => end # <<>>

Asks(mode, original, old, end, new, count, escape) ==
    LET text(s) == IF escape THEN Interpreted(s) ELSE s
    IN [EditIdle EXCEPT !.pc = IF Valid(mode, old, end) THEN "asked" ELSE "refused",
            !.mode = mode, !.original = original, !.rest = original, !.count = count,
            !.old = IF mode = "replace" THEN text(old) ELSE old, !.end = end, !.new = text(new)]

(* str::find: the place where the first match begins, and 0 when          *)
(* there is none.                                                          *)
Matches(s, old) == {i \in 1..(Len(s) - Len(old) + 1) : SubSeq(s, i, i + Len(old) - 1) = old}
First(S) == IF S = {} THEN 0 ELSE CHOOSE i \in S : \A j \in S : i <= j
Find(s, old) == First(Matches(s, old))

Whole ==
    /\ edit.pc = "asked" /\ edit.mode \in {"write", "append", "prepend"}
    /\ edit' = [edit EXCEPT !.pc = "done", !.changed = 1,
                   !.output = CASE edit.mode = "write" -> edit.new
                                [] edit.mode = "append" -> edit.original \o edit.new
                                [] edit.mode = "prepend" -> edit.new \o edit.original]

(* The loop of replace_count. With a count of 0, and in mode "regex", a    *)
(* library call does the same to the end of the text or to the count.      *)
OneMore == edit.changed <= edit.count   \* defect: an off-by-one
Wanting == edit.changed < edit.count

ReplaceNext ==
    /\ edit.pc = "asked" /\ edit.mode \in {"replace", "regex"} /\ edit.old # <<>>
    /\ edit.count = 0 \/ Wanting
    /\ LET index == Find(edit.rest, edit.old)
       IN /\ index # 0
          /\ edit' = [edit EXCEPT
                !.output = @ \o SubSeq(edit.rest, 1, index - 1) \o edit.new,
                !.rest = SubSeq(@, index + Len(edit.old), Len(@)),
                !.changed = @ + 1]

ReplaceEnds ==
    /\ edit.pc = "asked" /\ edit.mode \in {"replace", "regex"} /\ edit.old # <<>>
    /\ Find(edit.rest, edit.old) = 0 \/ (edit.count # 0 /\ ~Wanting)
    /\ edit' = [edit EXCEPT !.pc = "done", !.output = @ \o edit.rest, !.rest = <<>>]

(* The empty text is found at every place of the original, or, when a      *)
(* count is given, again and again at the first.                           *)
ReplaceNothing ==
    /\ edit.pc = "asked" /\ edit.mode = "replace" /\ edit.old = <<>>
    /\ edit' = [edit EXCEPT !.pc = "done", !.rest = <<>>,
          !.changed = IF edit.count = 0 THEN Len(edit.original) + 1 ELSE edit.count,
          !.output = IF edit.count = 0
                     THEN edit.new \o FlattenSeq([i \in 1..Len(edit.original) |->
                                                    <<edit.original[i]>> \o edit.new])
                     ELSE FlattenSeq([i \in 1..edit.count |-> edit.new]) \o edit.original]

ReplaceBlock ==
    /\ edit.pc = "asked" /\ edit.mode = "replace-block"
    /\ LET start == Find(edit.original, edit.old)
           from == start + Len(edit.old)
           after == SubSeq(edit.original, from, Len(edit.original))
           end == Find(after, edit.end)
       IN edit' = IF start = 0 \/ end = 0 THEN [edit EXCEPT !.pc = "refused"]
                  ELSE [edit EXCEPT !.pc = "done", !.changed = 1,
                          !.output = SubSeq(edit.original, 1, start - 1) \o edit.new
                                     \o SubSeq(after, end + Len(edit.end), Len(after))]

EditStep == Whole \/ ReplaceNext \/ ReplaceEnds \/ ReplaceNothing \/ ReplaceBlock

-----------------------------------------------------------------------------
(* The matches that are replaced, from left to right, none overlapping one *)
(* before it, and the first of them when there is a count.                 *)
Greedy[i \in 0..Len(edit.original)] ==
    IF i = 0 THEN {}
    ELSE IF i \in Matches(edit.original, edit.old)
            /\ \A j \in Greedy[i - 1] : j + Len(edit.old) <= i
         THEN Greedy[i - 1] \cup {i} ELSE Greedy[i - 1]
Replaced ==
    {i \in Greedy[Len(edit.original)] :
        edit.count = 0 \/ Cardinality({j \in Greedy[Len(edit.original)] : j < i}) < edit.count}
Inside(i) == \E j \in Replaced : j <= i /\ i < j + Len(edit.old)

(* An edit changes exactly the first "count" occurrences of the text it is *)
(* given, leftmost and not overlapping, or all of them when no count is    *)
(* given; every other character stays where it was, what was put in is not *)
(* searched again, and the number that is answered is theirs.              *)
ReplacesFirst ==
    edit.pc = "done" /\ edit.mode \in {"replace", "regex"} /\ edit.old # <<>> =>
        /\ edit.changed = Cardinality(Replaced)
        /\ edit.output = FlattenSeq([i \in 1..Len(edit.original) |->
              CASE i \in Replaced -> edit.new
                [] i \notin Replaced /\ Inside(i) -> <<>>
                [] OTHER -> <<edit.original[i]>>])
=============================================================================
