------------------------------ MODULE ReadWindow ------------------------------
(***************************************************************************)
(* The excerpts that the agent makes of text. fileops.rs reads the lines   *)
(* from start to end of a file in one pass, stops at a cap, and makes text *)
(* of the units it has (scan_utf8, Utf16ScanState); process_output.rs      *)
(* keeps the beginning and the end of an output of any length              *)
(* (CapturedStream).                                                       *)
(***************************************************************************)
EXTENDS Naturals, Sequences, FiniteSets, SequencesExt

CONSTANTS Alphabets,  \* the units that the checked texts are made of
          MaxText,    \* bound on the length of a text
          MaxOutput,  \* bound on the length of an output
          MaxChunk    \* bound on the length of one read of it

(* The units of a text: bytes, or 16-bit words without the mark at the     *)
(* beginning. One is a newline, others are a character that UTF-8 gives    *)
(* one byte or (of a word) three, lead a character of several units, or    *)
(* belong to one that was led.                                             *)
NL == "nl"
Bytes == {NL, "one", "lead2", "lead3", "lead4", "trail"}
Words16 == {NL, "one", "wide", "high", "trail"}
Units == Bytes \cup Words16

ASSUME TextAssumption ==
    /\ Alphabets \subseteq {Bytes, Words16}
    /\ {MaxText, MaxOutput} \subseteq Nat /\ MaxChunk \in Nat \ {0}

VARIABLE scan

Lesser(m, n) == IF m < n THEN m ELSE n
None == 0   \* no end of the range, of a request that asks for the rest

(* parse_range: at least the first line, and an end that is not before it. *)
LineRange(start, end) ==
    LET first == IF start < 1 THEN 1 ELSE start
    IN <<first, IF end = None THEN None ELSE IF end < first THEN first ELSE end>>

ScanIdle == [of |-> "nothing", text |-> <<>>, start |-> 1, end |-> None, cap |-> 1, at |-> 0,
             line |-> 1, last |-> 0, out |-> <<>>, content |-> <<>>, truncated |-> FALSE,
             stopped |-> FALSE, over |-> FALSE, head |-> <<>>, tail |-> <<>>, total |-> 0]

(* A request for a file, and a reader with a limit.                        *)
Reads(text, start, end, cap) ==
    LET range == LineRange(start, end)
    IN [ScanIdle EXCEPT !.of = "file", !.text = text, !.start = range[1], !.end = range[2],
                        !.cap = cap, !.last = range[1] - 1]

-----------------------------------------------------------------------------
(* String::from_utf8_lossy and from_utf16_lossy. A character is the units  *)
(* it was made of, or U+FFFD for a lead without all of its trail, and for  *)
(* a trail without a lead.                                                 *)
Replacement == <<"U+FFFD">>
Leads == {"lead2", "lead3", "lead4", "high"}
Length == [lead2 |-> 2, lead3 |-> 3, lead4 |-> 4, high |-> 2]

Begin(d, u) ==
    CASE u \in Leads -> [d EXCEPT !.part = <<u>>]
      [] u = "trail" -> [d EXCEPT !.chars = Append(@, Replacement)]
      [] OTHER -> [d EXCEPT !.chars = Append(@, <<u>>)]
GiveUp(d) ==
    IF d.part = <<>> THEN d ELSE [chars |-> Append(d.chars, Replacement), part |-> <<>>]
Take(d, u) ==
    IF d.part = <<>> \/ u # "trail" THEN Begin(GiveUp(d), u)
    ELSE IF Len(d.part) + 1 < Length[Head(d.part)] THEN [d EXCEPT !.part = Append(@, u)]
    ELSE [chars |-> Append(d.chars, Append(d.part, u)), part |-> <<>>]

DecodedTo(t) ==
    LET d[i \in 0..Len(t)] ==
          IF i = 0 THEN [chars |-> <<>>, part |-> <<>>] ELSE Take(d[i - 1], t[i])
    IN d
Lossy(t) == GiveUp(DecodedTo(t)[Len(t)]).chars

(* The bytes that UTF-8 gives a character, and the first k of a text.      *)
Width(c) ==
    CASE c = Replacement -> 3
      [] Head(c) \in {"wide", "lead3"} -> 3
      [] Head(c) = "lead2" -> 2
      [] Head(c) \in {"lead4", "high"} -> 4
      [] OTHER -> 1
SizeTo(chars) ==
    LET size[k \in 0..Len(chars)] == IF k = 0 THEN 0 ELSE size[k - 1] + Width(chars[k])
    IN size
Size(chars) == SizeTo(chars)[Len(chars)]

(* clip: the whole characters that fit.                                    *)
Clip(chars, cap) ==
    SubSeq(chars, 1, Cardinality({k \in 1..Len(chars) : SizeTo(chars)[k] <= cap}))

-----------------------------------------------------------------------------
InRange(line) == line >= scan.start /\ (scan.end = None \/ line <= scan.end)
Full == Len(scan.out) >= scan.cap

(* What follows the loop: the content, which may have to be cut again.     *)
MarkOfLoop(s) == s.truncated   \* defect: the second cut is not told
Mark(s) == s.truncated \/ Size(Lossy(s.out)) > s.cap
Finish(s) == [s EXCEPT !.over = TRUE, !.content = Clip(Lossy(s.out), s.cap),
                       !.truncated = Mark(s)]
Stop(s) == Finish([s EXCEPT !.stopped = TRUE])
Truncate(s) == Stop([s EXCEPT !.truncated = TRUE])

(* push_unit, and the body of the loop of scan_utf8.                       *)
NewlineAlways(line) == TRUE   \* defect: the newline that ends the range is taken too
NewlineTaken(line) == InRange(line + 1)

Newline ==
    LET seen == [scan EXCEPT !.at = @ + 1, !.last = IF InRange(scan.line) THEN scan.line ELSE @]
        takes == InRange(scan.line) /\ NewlineTaken(scan.line)
        kept == IF takes THEN [seen EXCEPT !.out = Append(@, NL)] ELSE seen
    IN IF takes /\ Full THEN Truncate(seen)
       ELSE IF scan.end # None /\ scan.line >= scan.end THEN Stop(kept)
       ELSE [kept EXCEPT !.line = @ + 1]

Character(c) ==
    LET seen == [scan EXCEPT !.at = @ + 1, !.last = IF InRange(scan.line) THEN scan.line ELSE @]
    IN IF ~InRange(scan.line) THEN seen
       ELSE IF Full THEN Truncate(seen)
       ELSE [seen EXCEPT !.out = Append(@, c)]

Scan ==
    /\ scan.of = "file" /\ ~scan.over /\ scan.at < Len(scan.text)
    /\ scan' = LET c == scan.text[scan.at + 1] IN IF c = NL THEN Newline ELSE Character(c)

EndOfFile ==
    /\ scan.of = "file" /\ ~scan.over /\ scan.at = Len(scan.text)
    /\ scan' = Finish(scan)

(* The number of lines that is answered, and whether it is exact.          *)
TotalLines ==
    IF scan.at = 0 THEN 0
    ELSE IF ~scan.stopped /\ scan.text[scan.at] = NL THEN scan.line - 1
    ELSE scan.line
TotalExact == ~scan.stopped

-----------------------------------------------------------------------------
(* CapturedStream::push. The tail is a queue of chunks, cut from the front.*)
HeadLimit == scan.cap \div 2
TailLimit == scan.cap - HeadLimit

(* One round of the loop that cuts it, and the rounds that there can be.   *)
CutOnce(chunks) ==
    LET bytes == Len(FlattenSeq(chunks))
        front == Head(chunks)
    IN IF bytes <= TailLimit THEN chunks
       ELSE IF Len(front) <= bytes - TailLimit THEN Tail(chunks)
       ELSE <<SubSeq(front, bytes - TailLimit + 1, Len(front))>> \o Tail(chunks)

CutNothing(chunks) == chunks   \* defect: only a chunk that fills the tail makes room
CutToLimit(chunks) ==
    LET round[k \in 0..Len(chunks)] == IF k = 0 THEN chunks ELSE CutOnce(round[k - 1])
    IN round[Len(chunks)]

Push(bytes) ==
    LET toHead == Lesser(HeadLimit - Len(scan.head), Len(bytes))
        rest == SubSeq(bytes, toHead + 1, Len(bytes))
        counted == [scan EXCEPT !.total = @ + Len(bytes),
                                !.head = @ \o SubSeq(bytes, 1, toHead)]
    IN IF TailLimit = 0 \/ rest = <<>> THEN counted
       ELSE IF Len(rest) >= TailLimit
       THEN [counted EXCEPT !.tail = <<SubSeq(rest, Len(rest) - TailLimit + 1, Len(rest))>>]
       ELSE [counted EXCEPT !.tail = CutToLimit(Append(@, rest))]

(* read_bounded_shared: the output, in reads of any length. Bytes are told *)
(* apart by their place.                                                   *)
Capture(limit) == [ScanIdle EXCEPT !.of = "output", !.cap = limit]

ReadOutput(n) ==
    /\ scan.of = "output" /\ scan.total + n <= MaxOutput
    /\ scan' = Push([i \in 1..n |-> scan.total + i])

Truncated == scan.total > scan.cap
Omitted == scan.total - (Len(scan.head) + Len(FlattenSeq(scan.tail)))

ScanStep == Scan \/ EndOfFile \/ \E n \in 1..MaxChunk : ReadOutput(n)

-----------------------------------------------------------------------------
(* The lines of a text, as the whole of it shows them.                     *)
LineOf(i) == 1 + Cardinality({j \in 1..(i - 1) : scan.text[j] = NL})
Lines ==
    IF scan.text = <<>> THEN 0
    ELSE LineOf(Len(scan.text))
Chosen(i) == InRange(LineOf(i)) /\ (scan.text[i] = NL => InRange(LineOf(i) + 1))
ChosenTo[i \in 0..Len(scan.text)] ==
    IF i = 0 THEN <<>>
    ELSE IF Chosen(i) THEN Append(ChosenTo[i - 1], scan.text[i]) ELSE ChosenTo[i - 1]
Excerpt == ChosenTo[Len(scan.text)]

(* The one pass that stops as soon as it can comes to what the whole text  *)
(* says: of the units of the range, without the newline that ends the      *)
(* last, as many as the cap admits, and a number of lines that is right    *)
(* whenever it is called exact.                                            *)
LinesAreExact ==
    scan.of = "file" /\ scan.over =>
        /\ scan.out = SubSeq(Excerpt, 1, Lesser(scan.cap, Len(Excerpt)))
        /\ TotalExact => TotalLines = Lines

(* What is answered is the range as text or, if that is longer than the    *)
(* cap, marked, and then as many of its characters as the cap admits; a    *)
(* character that the cap cut may show as U+FFFD behind them.              *)
WindowIsExact ==
    scan.of = "file" /\ scan.over =>
        LET text == Lossy(Excerpt)
            fit == Clip(text, scan.cap)
        IN /\ scan.truncated <=> Size(text) > scan.cap
           /\ scan.content \in {fit, Append(fit, Replacement)}
           /\ ~scan.truncated => scan.content = text
           /\ Size(scan.content) <= scan.cap

(* However an output arrives, what is kept of it is all of it or, beyond   *)
(* the limit, its beginning and its end, and the number of bytes that is   *)
(* given as left out between them is right.                                *)
KeepsHeadAndTail ==
    scan.of = "output" =>
        LET bytes == [i \in 1..scan.total |-> i]
            whole == scan.total <= scan.cap
        IN /\ ~whole => scan.head = SubSeq(bytes, 1, HeadLimit)
           /\ scan.head \o FlattenSeq(scan.tail) =
                IF whole THEN bytes
                ELSE SubSeq(bytes, 1, HeadLimit)
                     \o SubSeq(bytes, scan.total - TailLimit + 1, scan.total)
           /\ Omitted = IF whole THEN 0 ELSE scan.total - scan.cap
=============================================================================
