---------------------------- MODULE Serialization ----------------------------
(***************************************************************************)
(* Values written to a stream and read back: sfinae_serialize, which goes  *)
(* through containers and pairs, the read and write functions of functions *)
(* and the instruction streams of preprocessor.  A stream is a sequence of *)
(* units, each the bytes of one POD value or one character.                *)
(***************************************************************************)
EXTENDS Integers, SequencesExt

CONSTANTS Indeterminate,  \* what a variable holds that was never written to
          Lengths,        \* of an instruction, by its code: the table of instructions.h
          SIZE            \* sizeof of the numbers of functions

-----------------------------------------------------------------------------
(* The types: "pod", <<"container", T>> and <<"pair", T, U>>. *)
RECURSIVE serialize(_, _)
serialize(type, obj) ==
  CASE type[1] = "pod" -> <<obj>>
    [] type[1] = "pair" -> serialize(type[2], obj[1]) \o serialize(type[3], obj[2])
    [] type[1] = "container" ->
         <<Len(obj)>> \o FlattenSeq([k \in DOMAIN obj |-> serialize(type[2], obj[k])])

(* Reading gives the object and what is left; a read at the end leaves obj as it was. *)
ReadPod(is, was) == IF is = <<>> THEN [obj |-> was, is |-> is] ELSE [obj |-> Head(is), is |-> Tail(is)]

(* A mutant of Insert: the elements are inserted at the beginning. *)
InsertFirst(container, obj) == <<obj>> \o container
Insert(container, obj) == Append(container, obj)

RECURSIVE deserialize(_, _)
deserialize(type, is) ==
  CASE type[1] = "pod" -> ReadPod(is, Indeterminate)
    [] type[1] = "pair" ->
         LET first == deserialize(type[2], is) second == deserialize(type[3], first.is) IN
         [obj |-> <<first.obj, second.obj>>, is |-> second.is]
    [] type[1] = "container" ->
         LET sz == ReadPod(is, 0)
             Element(r, k) == LET e == deserialize(type[2], r.is) IN [obj |-> Insert(r.obj, e.obj), is |-> e.is]
         IN  FoldLeft(Element, [obj |-> <<>>, is |-> sz.is], [k \in 1..sz.obj |-> k])

-----------------------------------------------------------------------------
(* functions: a string is its characters and a zero; a number has SIZE bytes. *)
write(f, val) == f \o (IF val.string THEN Append(val.chars, 0) ELSE val.chars)

(***************************************************************************)
(* The string is read with its zero, and then one more byte is skipped     *)
(* "skip '\0'" (main.cpp:75-77), which is the first of the next value.     *)
(***************************************************************************)
read(f, string) ==
  LET str_len == SelectInSeq(f, LAMBDA c : c = 0) - 1 IN
  IF string THEN [val |-> [string |-> TRUE, chars |-> SubSeq(f, 1, str_len)], f |-> SubSeq(f, str_len + 3, Len(f))]
  ELSE [val |-> [string |-> FALSE, chars |-> SubSeq(f, 1, SIZE)], f |-> SubSeq(f, SIZE + 1, Len(f))]

-----------------------------------------------------------------------------
(* preprocessor: an instruction is its code and operand bytes, any of them. *)
gen_rnd_instrs(codes, bytes) ==
  FlattenSeq([k \in DOMAIN codes |-> <<codes[k]>> \o [b \in 1..(Lengths[codes[k]] - 1) |-> bytes[k]]])

RECURSIVE log_instrs(_)
log_instrs(instrs) ==
  IF instrs = <<>> THEN <<>>
  ELSE LET length == Lengths[instrs[1]] IN <<instrs[1]>> \o log_instrs(SubSeq(instrs, length + 1, Len(instrs)))

-----------------------------------------------------------------------------
Pods == <<"pod">>
Lists == <<"container", Pods>>
Pairs == <<"container", <<"pair", Pods, Lists>>>>

(* Pairs of each element with the elements before it. *)
PairsOf(s) == [k \in DOMAIN s |-> <<s[k], SubSeq(s, 1, k - 1)>>]

(* The same prefix of a stream is read to as many elements, the missing ones indeterminate. *)
Truncated(s, n) ==
  deserialize(Lists, SubSeq(serialize(Lists, s), 1, n)).obj =
    IF n = 0 THEN <<>> ELSE [k \in DOMAIN s |-> IF k < n THEN s[k] ELSE Indeterminate]

(***************************************************************************)
(* What is written is read back, with containers of pairs of containers,   *)
(* and what follows in the stream is left for the next read; an            *)
(* instruction stream is split where it was put together, whatever the     *)
(* operands are.  But a value read after a string is not the one written:  *)
(* its first byte is gone (functions/src/main.cpp:77).                     *)
(***************************************************************************)
RoundTrips(s) ==
  LET more == <<7>> string == [string |-> TRUE, chars |-> s] number == [string |-> FALSE, chars |-> [k \in 1..SIZE |-> k]]
      codes == SelectSeq(s, LAMBDA c : c \in DOMAIN Lengths)
  IN  /\ deserialize(Lists, serialize(Lists, s) \o more) = [obj |-> s, is |-> more]
      /\ deserialize(Pairs, serialize(Pairs, PairsOf(s)) \o more) = [obj |-> PairsOf(s), is |-> more]
      /\ \A n \in 0..(Len(s) + 1) : Truncated(s, n)
      /\ \A b \in DOMAIN Lengths : log_instrs(gen_rnd_instrs(codes, [k \in DOMAIN codes |-> b])) = codes
      /\ 0 \notin ToSet(s) =>
           /\ read(write(write(<<>>, number), string), FALSE).val = number
           /\ read(write(<<>>, string), TRUE).val = string
           /\ read(write(write(<<>>, string), number), TRUE).f = Tail(number.chars)
=============================================================================
