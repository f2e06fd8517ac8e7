----------------------------- MODULE LazyString -----------------------------
(***************************************************************************)
(* lazy_string: strings that share a counted buffer until one of them is   *)
(* written to.  A buffer is a sequence of characters with its terminating  *)
(* zeros; c_str() shows what comes before the first one.  One thread.      *)
(***************************************************************************)
EXTENDS Naturals, Sequences, FiniteSets

CONSTANTS
  Strings,        \* the variables of the program
  Chars, NUL,
  Literals,       \* the C strings that strings are constructed from
  MaxLen,         \* bound: length of a text
  MaxBufs         \* bound: buffers alive at once

None == 0         \* no buffer: the variable does not exist
Bufs == 1..MaxBufs
NoModifier == [str |-> "none", ix |-> 0]

VARIABLES
  buf_,           \* the buffer of each string
  heap,           \* the buffers: ref_cntr_ and data_ (size_ is its length)
  modifier,       \* the lazy_string_ix_modifier that the program keeps
  ideal,          \* history: the text each string would have as a std::string
  grown,          \* history: how often += made the string's text what it is
  undefined       \* a modifier was used on a string that is gone or too short

vars == <<buf_, heap, modifier, ideal, grown, undefined>>
history == <<ideal, grown>>

Free == [ref_cntr_ |-> 0, data |-> <<>>]

Init ==
  /\ buf_ = [s \in Strings |-> None] /\ heap = [b \in Bufs |-> Free]
  /\ modifier = NoModifier /\ undefined = FALSE
  /\ ideal = [s \in Strings |-> <<>>] /\ grown = [s \in Strings |-> 0]

Exists(s) == buf_[s] # None
Data(s) == heap[buf_[s]].data
get_size(s) == Len(Data(s)) - 1

(* What strlen and strcpy see of a buffer. *)
Text(data) ==
  LET zero == CHOOSE k \in DOMAIN data : data[k] = NUL /\ \A n \in 1..(k - 1) : data[n] # NUL
  IN  SubSeq(data, 1, zero - 1)

Zeros(n) == [k \in 1..n |-> NUL]

-----------------------------------------------------------------------------
(* shared_buffer: what its constructors and its destructor do to the heap. *)

Unused(h) == {b \in Bufs : h[b].ref_cntr_ = 0}
Fresh(h) == CHOOSE b \in Unused(h) : \A c \in Unused(h) : b <= c
New(h, data) == [h EXCEPT ![Fresh(h)] = [ref_cntr_ |-> 1, data |-> data]]
AddRef(h, b) == [h EXCEPT ![b].ref_cntr_ = @ + 1]

(* A mutant of Release: the buffer stays when the last owner goes. *)
ReleaseNever(h, b) == IF h[b].ref_cntr_ = 1 THEN h ELSE [h EXCEPT ![b].ref_cntr_ = @ - 1]

Release(h, b) ==
  IF b = None THEN h
  ELSE IF h[b].ref_cntr_ = 1 THEN [h EXCEPT ![b] = Free] ELSE [h EXCEPT ![b].ref_cntr_ = @ - 1]

(* operator=(shared_buffer src): src, a copy of b, leaves with the old buffer. *)
Assign(h, old, b) == Release(AddRef(h, b), old)

(* A string gets a buffer of its own: the local that was filled and assigned goes. *)
Becomes(s, data) ==
  /\ Unused(heap) # {}
  /\ LET b == Fresh(heap) IN
     /\ heap' = Release(Assign(New(heap, data), buf_[s], b), b)
     /\ buf_' = [buf_ EXCEPT ![s] = b]

Remembers(s, text, n) ==
  ideal' = [ideal EXCEPT ![s] = text] /\ grown' = [grown EXCEPT ![s] = n]

-----------------------------------------------------------------------------
(* The constructor from a C string, and the assignment of one. *)
construct(s, text) ==
  /\ Becomes(s, text \o Zeros(1)) /\ Remembers(s, text, 0)
  /\ UNCHANGED <<modifier, undefined>>

Shares(s, src) ==
  /\ Exists(src)
  /\ heap' = Assign(heap, buf_[s], buf_[src])
  /\ buf_' = [buf_ EXCEPT ![s] = buf_[src]]
  /\ Remembers(s, ideal[src], grown[src])
  /\ UNCHANGED <<modifier, undefined>>

(* The copy and the move constructor, which copies, too. *)
copy(s, src) == ~Exists(s) /\ Shares(s, src)

(* operator=: its parameter is a copy, and leaves with the old buffer. *)
assign(s, src) == Exists(s) /\ Shares(s, src)

destroy(s) ==
  /\ Exists(s)
  /\ heap' = Release(heap, buf_[s]) /\ buf_' = [buf_ EXCEPT ![s] = None]
  /\ Remembers(s, <<>>, 0) /\ UNCHANGED <<modifier, undefined>>

(* A mutant of set_at: the shared buffer itself is written to. *)
set_at_shared(s, ix, c) ==
  heap' = [heap EXCEPT ![buf_[s]].data[ix] = c] /\ UNCHANGED buf_

(* set_at copies first, also when nobody shares the buffer. *)
set_at(s, ix, c) == Becomes(s, [Data(s) EXCEPT ![ix] = c])

(* operator[] const reads; the other one keeps the string and the index until it is assigned to. *)
Subscript(s, ix) ==
  /\ Exists(s) /\ ix \in DOMAIN ideal[s]
  /\ modifier' = [str |-> s, ix |-> ix] /\ UNCHANGED <<buf_, heap, history, undefined>>

ModifierAssign(c) ==
  LET s == modifier.str ix == modifier.ix IN
  /\ modifier # NoModifier /\ modifier' = NoModifier
  /\ IF IF Exists(s) THEN ix <= Len(ideal[s]) ELSE FALSE
     THEN set_at(s, ix, c) /\ Remembers(s, [ideal[s] EXCEPT ![ix] = c], grown[s]) /\ UNCHANGED undefined
     ELSE undefined' = TRUE /\ UNCHANGED <<buf_, heap, history>>

(***************************************************************************)
(* The size of the new buffer counts the terminating zero twice (line 61), *)
(* so get_size() is one too large from then on, and a second += copies the *)
(* zero along and writes behind it.                                        *)
(***************************************************************************)
Appended(d, src) ==
  LET text == Text(src) rest == Len(d) + Len(src) - (Len(d) - 1) - Len(text) IN
  SubSeq(d, 1, Len(d) - 1) \o text \o Zeros(rest)

(* operator+ is a copy and a += to it. *)
append(s, src) ==
  /\ Exists(s) /\ Exists(src) /\ Len(ideal[s]) + Len(ideal[src]) <= MaxLen
  /\ Len(Data(s)) + Len(Data(src)) <= MaxLen + 4
  /\ Becomes(s, Appended(Data(s), Data(src)))
  /\ Remembers(s, ideal[s] \o ideal[src], IF grown[s] + grown[src] >= 1 THEN 2 ELSE 1)
  /\ UNCHANGED <<modifier, undefined>>

Next ==
  /\ ~undefined
  /\ \/ \E s \in Strings, text \in Literals : construct(s, text)
     \/ \E s, src \in Strings : copy(s, src) \/ assign(s, src) \/ append(s, src)
     \/ \E s \in Strings : destroy(s)
     \/ \E s \in Strings, ix \in 1..MaxLen : Subscript(s, ix)
     \/ \E c \in Chars : ModifierAssign(c)

Spec == Init /\ [][Next]_vars
-----------------------------------------------------------------------------
TypeOK ==
  /\ buf_ \in [Strings -> 0..MaxBufs] /\ undefined \in BOOLEAN
  /\ \A b \in Bufs : heap[b].ref_cntr_ \in Nat /\ heap[b].data \in Seq(Chars \cup {NUL})
  /\ \A s \in Strings : ideal[s] \in Seq(Chars) /\ grown[s] \in 0..2

(* A buffer is counted once for each string that has it, and freed with the last of them. *)
CountsStrings ==
  \A b \in Bufs : heap[b].ref_cntr_ = Cardinality({s \in Strings : buf_[s] = b})

(***************************************************************************)
(* Writing to a string changes no other one: each has the text that the    *)
(* same operations give a std::string, which is what the tests compare it  *)
(* with; but a string that += made longer reports one character too many,  *)
(* and what a second += adds to it is not seen (lazy_string.cpp:53-66).    *)
(***************************************************************************)
TextIsPrivate ==
  \A s \in Strings : Exists(s) =>
    CASE grown[s] = 0 -> Text(Data(s)) = ideal[s] /\ get_size(s) = Len(ideal[s])
      [] grown[s] = 1 -> Text(Data(s)) = ideal[s] /\ get_size(s) = Len(ideal[s]) + 1
      [] OTHER        -> get_size(s) > Len(ideal[s])
=============================================================================
