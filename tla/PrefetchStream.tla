--------------------------- MODULE PrefetchStream ---------------------------
(***************************************************************************)
(* move_streams: ifstream owns a FILE, and prefetch_stream reads a few     *)
(* items of one ahead.  Both can be copied and moved.  All streams are of  *)
(* one file and one type of item: numbers (int or double) or lines.        *)
(***************************************************************************)
EXTENDS Integers, Sequences, FiniteSets

CONSTANTS
  Streams,        \* the variables of the program
  Bytes, NL,      \* the characters of files; NL is the newline
  Files,          \* contents a file may have
  PREFETCH_SIZE,
  MaxRead         \* bound: values one stream has yielded

VARIABLES
  file,           \* what the file contains
  lines,          \* the items are strings: operator>> reads lines
  in,             \* the streams
  undefined       \* the position of a null FILE was asked for or set

vars == <<file, lines, in, undefined>>

NoStream == [file_ |-> "none"]
Slots == 0..(PREFETCH_SIZE - 1)

Init ==
  /\ file \in Files /\ lines \in BOOLEAN
  /\ in = [s \in Streams |-> NoStream] /\ undefined = FALSE

Exists(s) == in[s] # NoStream

-----------------------------------------------------------------------------
(* FILE: a position and two flags; null is at its end and has failed. *)
Opened(pos) == [open |-> TRUE, pos |-> pos, eof |-> FALSE, error |-> FALSE]
NullFile == [open |-> FALSE, pos |-> 1, eof |-> TRUE, error |-> TRUE]
good(f) == ~f.eof /\ ~f.error

(* The first position from the given one with a newline, or without one. *)
EndOfLine(text, from) ==
  CHOOSE k \in from..(Len(text) + 1) :
    /\ k \in DOMAIN text => text[k] = NL
    /\ \A n \in from..(k - 1) : text[n] # NL
EndOfBlanks(text, from) ==
  CHOOSE k \in from..(Len(text) + 1) :
    /\ k \in DOMAIN text => text[k] # NL
    /\ \A n \in from..(k - 1) : text[n] = NL

At(f, pos) == [f EXCEPT !.pos = pos, !.eof = pos > Len(file)]

(* fscanf skips white space; when there is nothing else out keeps its value. *)
ScanNumber(f, out) ==
  LET start == EndOfBlanks(file, f.pos) end == EndOfLine(file, start) IN
  [f |-> At(f, end), out |-> IF start > Len(file) THEN out ELSE SubSeq(file, start, end - 1)]

(***************************************************************************)
(* The first character is taken whatever it is, so an empty line becomes   *)
(* the beginning of the next item; and the text is added to what out has.  *)
(***************************************************************************)
ScanLine(f, out) ==
  LET end == IF f.pos > Len(file) THEN f.pos ELSE EndOfLine(file, f.pos + 1) IN
  [f |-> IF end > Len(file) THEN At(f, end) ELSE [f EXCEPT !.pos = end + 1],
   out |-> out \o SubSeq(file, f.pos, end - 1)]

Extract(f, out) == IF lines THEN ScanLine(f, out) ELSE ScanNumber(f, out)

-----------------------------------------------------------------------------
(* An int of the array is indeterminate at first, a string is empty. *)
Fresh == IF lines THEN <<>> ELSE <<"?">>
(* What a move leaves behind. *)
Left(item) == IF lines THEN <<>> ELSE item

construct(s) ==
  \E f \in {Opened(1), NullFile} :
    in' = [in EXCEPT ![s] =
      [file_ |-> f, prefetched_ |-> [k \in Slots |-> Fresh], read_pos_ |-> 0, prefetched_cnt_ |-> 0,
       said |-> <<>>, moved |-> FALSE, copied |-> FALSE]]

(* A mutant of CopyOfFile: without fsetpos. *)
CopyOfFileFromStart(f) == Opened(1)

(* The file is opened again: the position is copied, the flags are not. *)
CopyOfFile(f) == Opened(f.pos)

(* There may be no FILE to copy, and fopen may fail, which nothing tests. *)
copy(s, src) ==
  /\ Exists(src)
  /\ \/ /\ in[src].file_.open
        /\ in' = [in EXCEPT ![s] = [in[src] EXCEPT !.file_ = CopyOfFile(@), !.copied = TRUE]]
        /\ UNCHANGED undefined
     \/ undefined' = TRUE /\ UNCHANGED in

(* The members are moved one by one: the source loses the FILE but keeps its two counts. *)
MovedFrom(s) ==
  [s EXCEPT !.file_ = NullFile, !.moved = TRUE, !.prefetched_ = [k \in Slots |-> Left(@[k])]]

move(s, src) ==
  Exists(src) /\ s # src /\ in' = [in EXCEPT ![s] = in[src], ![src] = MovedFrom(@)]

swap(s, t) == Exists(s) /\ Exists(t) /\ s # t /\ in' = [in EXCEPT ![s] = in[t], ![t] = in[s]]

destroy(s) == Exists(s) /\ in' = [in EXCEPT ![s] = NoStream]

(***************************************************************************)
(* Items are read until the array is full or the file is at its end; the   *)
(* one that finds nothing but the end counts too.  The disk may fail       *)
(* before the item with number fails.                                      *)
(***************************************************************************)
FillNext(s, fails) ==
  LET n == s.prefetched_cnt_ item == Extract(s.file_, s.prefetched_[n]) IN
  IF n = PREFETCH_SIZE \/ ~good(s.file_) THEN s
  ELSE IF n = fails THEN [s EXCEPT !.file_.error = TRUE]
  ELSE [s EXCEPT !.file_ = item.f, !.prefetched_[n] = item.out, !.prefetched_cnt_ = n + 1]

Refill(s, fails) ==
  LET filled[n \in 0..PREFETCH_SIZE] == IF n = 0 THEN s ELSE FillNext(filled[n - 1], fails)
  IN  filled[PREFETCH_SIZE]

TakeNext(s) ==
  LET n == s.read_pos_ IN
  IF n < s.prefetched_cnt_
  THEN [s EXCEPT !.read_pos_ = n + 1, !.said = Append(@, s.prefetched_[n]), !.prefetched_[n] = Left(@)]
  ELSE s

(* operator>>: nothing tells the caller that dst was not assigned to. *)
read(s, fails) ==
  /\ Exists(s) /\ Len(in[s].said) < MaxRead
  /\ in' = [in EXCEPT ![s] =
       TakeNext(IF @.read_pos_ = @.prefetched_cnt_
             THEN Refill([@ EXCEPT !.read_pos_ = 0, !.prefetched_cnt_ = 0], fails) ELSE @)]

Next ==
  /\ ~undefined /\ UNCHANGED <<file, lines>>
  /\ \/ \E s, src \in Streams : copy(s, src)
     \/ UNCHANGED undefined
        /\ \/ \E s \in Streams : construct(s) \/ destroy(s) \/ \E n \in 0..PREFETCH_SIZE : read(s, n)
           \/ \E s, t \in Streams : move(s, t) \/ swap(s, t)

Spec == Init /\ [][Next]_vars
-----------------------------------------------------------------------------
(* The items of a text: what stands between the newlines. *)
Begin(text, k) == text[k] # NL /\ (k = 1 \/ text[k - 1] = NL)
Begins(text, upto) == {k \in 1..upto : Begin(text, k)}
Nth(text, n) == CHOOSE k \in Begins(text, Len(text)) : Cardinality(Begins(text, k)) = n
Items(text) ==
  [n \in 1..Cardinality(Begins(text, Len(text))) |->
     SubSeq(text, Nth(text, n), EndOfLine(text, Nth(text, n)) - 1)]

HasEmptyLine(text) == \E k \in DOMAIN text : text[k] = NL /\ (k = 1 \/ text[k - 1] = NL)
EndsInside(text) == text # <<>> /\ text[Len(text)] # NL

(***************************************************************************)
(* However a stream was copied, moved and swapped, it yields the items of  *)
(* the file in order, as test_stream (main.cpp:17-41) expects, up to the   *)
(* last; after that it may yield one that the file does not have, but not  *)
(* when the file ends inside its last item and nothing was copied; and it  *)
(* reads no slot of the array that was not filled.  Not claimed: streams   *)
(* that were moved from, lines of a file with empty ones.                  *)
(***************************************************************************)
ReadsInOrder ==
  \A s \in Streams : Exists(s) =>
    LET said == in[s].said count == Len(Items(file)) IN
    /\ in[s].read_pos_ <= in[s].prefetched_cnt_ /\ in[s].prefetched_cnt_ <= PREFETCH_SIZE
    /\ in[s].moved \/ (lines /\ HasEmptyLine(file)) \/
         /\ \A k \in DOMAIN said : k <= count => said[k] = Items(file)[k]
         /\ EndsInside(file) /\ ~in[s].copied => Len(said) <= count
=============================================================================
