------------------------------ MODULE ImString ------------------------------
(***************************************************************************)
(* immutable_string/src/imstring.h: immutable strings whose concatenation  *)
(* is a node over the two buffers, flattened when c_str() or operator[]    *)
(* asks for the characters, and an iterator that walks the tree with a     *)
(* stack of raw pointers.  One thread; any allocation of c_str() may fail. *)
(***************************************************************************)
EXTENDS Integers, Sequences

CONSTANTS
  Strings,        \* the variables of the program
  Characters,
  Literals,       \* the texts that strings are constructed from
  MaxLen,         \* bound: length of a text
  MaxBufs         \* bound: buffers alive at once

None == 0
Bufs == 1..MaxBufs

VARIABLES
  shared_imstring_buf_,   \* the buffer of each string
  bufs,                   \* the buffers: is_lazy_, cstr_, left_, right_
  dfs_stack_,             \* the iterator: its stack of steps
  walked,                 \* history: the string the iterator began on and the characters it has passed
  ideal,                  \* history: the text each string was made with
  failed                  \* history: an allocation of c_str() has failed

vars == <<shared_imstring_buf_, bufs, dfs_stack_, walked, ideal, failed>>

(* "?" is a character that was allocated and not written. *)
Texts == Seq(Characters \cup {"?"})
Lazy == [is_lazy_ : {TRUE}, cstr_ : {<<>>}, left_ : Bufs, right_ : Bufs]
Plain == [is_lazy_ : {FALSE}, cstr_ : Texts, left_ : Bufs \cup {None}, right_ : Bufs \cup {None}]

(* No buffer is a part of itself: in every set there is one with no part in the set. *)
Heaps ==
  {h \in [Bufs -> Lazy \cup Plain] :
     \A B \in SUBSET Bufs : B = {} \/ \E b \in B : h[b].left_ \notin B /\ h[b].right_ \notin B}

Free == [is_lazy_ |-> FALSE, cstr_ |-> <<>>, left_ |-> None, right_ |-> None]
NotWalking == [text |-> <<>>, at |-> 0]

Init ==
  /\ shared_imstring_buf_ = [s \in Strings |-> None] /\ bufs = [b \in Bufs |-> Free]
  /\ dfs_stack_ = <<>> /\ walked = NotWalking
  /\ ideal = [s \in Strings |-> <<>>] /\ failed = FALSE

Exists(s) == shared_imstring_buf_[s] # None

(* The buffers that shared pointers keep alive; a failed flattening leaves left_ and right_ set. *)
Owned(h, b) ==
  LET owned[c \in Bufs \cup {None}] ==
        IF c = None THEN {} ELSE {c} \cup owned[h[c].left_] \cup owned[h[c].right_]
  IN  owned[b]

Live(h, strs) == UNION {Owned(h, strs[s]) : s \in Strings}
Unused == Bufs \ Live(bufs, shared_imstring_buf_)
Swept(h, strs) == LET live == Live(h, strs) IN [b \in Bufs |-> IF b \in live THEN h[b] ELSE Free]

(* length() and print() of a tree that is not flattened walk it. *)
Text(h, b) ==
  LET text[c \in Bufs] ==
        IF h[c].is_lazy_ THEN text[h[c].left_] \o text[h[c].right_] ELSE h[c].cstr_
  IN  text[b]

-----------------------------------------------------------------------------
(* What c_str() does: unlazy(h, b, n) with n allocations that succeed. *)

(* A mutant of Garbage: length() counts the zero that cstr_len_ includes. *)
GarbageWithZero(text) == [k \in 1..(Len(text) + 1) |-> "?"]
Garbage(text) == [k \in DOMAIN text |-> "?"]

(***************************************************************************)
(* The node is marked as flat before its parts have flattened themselves:  *)
(* when one of them throws, what was not copied yet stays uninitialised    *)
(* and no later call tries again.                                          *)
(***************************************************************************)
unlazy(h, b, n) ==
  LET flatten[m \in 0..MaxBufs] ==
        [g \in Heaps |-> [c \in Bufs |->
           LET l == g[c].left_ r == g[c].right_
               Node(e, text) == [e EXCEPT ![c].is_lazy_ = FALSE, ![c].cstr_ = text]
               lhs == flatten[m - 1][Node(g, Garbage(Text(g, c)))][l]
               rhs == flatten[lhs.n][Node(lhs.h, lhs.h[l].cstr_ \o Garbage(Text(g, r)))][r]
           IN  IF ~g[c].is_lazy_ THEN [h |-> g, n |-> m, ok |-> TRUE]
               ELSE IF m = 0 THEN [h |-> g, n |-> 0, ok |-> FALSE]
               ELSE IF ~lhs.ok THEN lhs
               ELSE IF ~rhs.ok THEN rhs
               ELSE [h |-> [Node(rhs.h, rhs.h[l].cstr_ \o rhs.h[r].cstr_)
                              EXCEPT ![c].left_ = None, ![c].right_ = None],
                     n |-> rhs.n, ok |-> TRUE]]]
  IN  flatten[n][h][b]

(***************************************************************************)
(* The buffers and the strings become h and strs; what nobody owns is      *)
(* freed.  An iterator whose stack holds a buffer that was freed or        *)
(* flattened would dangle or pass characters again: it is given up.        *)
(***************************************************************************)
Becomes(h, strs) ==
  LET live == Live(h, strs)
      Spoilt(b) == b \notin live \/ h[b].is_lazy_ # bufs[b].is_lazy_
      spoilt == \E k \in DOMAIN dfs_stack_ : Spoilt(dfs_stack_[k].buf)
  IN  /\ shared_imstring_buf_' = strs /\ bufs' = Swept(h, strs)
      /\ dfs_stack_' = IF spoilt THEN <<>> ELSE dfs_stack_
      /\ walked' = IF spoilt THEN NotWalking ELSE walked

Make(s, text, buf) ==
  /\ ~Exists(s) /\ Unused # {}
  /\ LET b == CHOOSE c \in Unused : \A d \in Unused : c <= d IN
     Becomes([bufs EXCEPT ![b] = buf], [shared_imstring_buf_ EXCEPT ![s] = b])
  /\ ideal' = [ideal EXCEPT ![s] = text]
  /\ UNCHANGED failed

construct(s, text) == Make(s, text, [Free EXCEPT !.cstr_ = text])

concat(s, s1, s2) ==
  /\ Exists(s1) /\ Exists(s2) /\ Len(ideal[s1]) + Len(ideal[s2]) <= MaxLen
  /\ Make(s, ideal[s1] \o ideal[s2], [is_lazy_ |-> TRUE, cstr_ |-> <<>>,
          left_ |-> shared_imstring_buf_[s1], right_ |-> shared_imstring_buf_[s2]])

copy(s, src) ==
  /\ ~Exists(s) /\ Exists(src)
  /\ Becomes(bufs, [shared_imstring_buf_ EXCEPT ![s] = shared_imstring_buf_[src]])
  /\ ideal' = [ideal EXCEPT ![s] = ideal[src]] /\ UNCHANGED failed

destroy(s) ==
  /\ Exists(s) /\ Becomes(bufs, [shared_imstring_buf_ EXCEPT ![s] = None])
  /\ ideal' = [ideal EXCEPT ![s] = <<>>] /\ UNCHANGED failed

c_str(s) ==
  /\ Exists(s) /\ bufs[shared_imstring_buf_[s]].is_lazy_
  /\ \E n \in 0..MaxBufs :
       LET u == unlazy(bufs, shared_imstring_buf_[s], n) IN
       /\ Becomes(u.h, shared_imstring_buf_)
       /\ failed' = (failed \/ ~u.ok)
  /\ UNCHANGED ideal

-----------------------------------------------------------------------------
(* The iterator: a step for each buffer from the root to where it stands.  *)

dfs_step(b) == [buf |-> b, ix |-> -1, left |-> FALSE, right |-> FALSE]
Top(st) == st[Len(st)]
Rest(st) == SubSeq(st, 1, Len(st) - 1)
Push(st, top, b) == Append(Append(Rest(st), top), dfs_step(b))

(* A mutant of nonlazy: a buffer is left one character late. *)
nonlazyLate(b, ix) == ix > Len(b.cstr_)
nonlazy(b, ix) == ix = Len(b.cstr_)

Steps == [buf : Bufs, ix : Int, left : BOOLEAN, right : BOOLEAN]

advance(st) ==
  LET to_next[s \in Seq(Steps)] ==
        LET t == Top(s) b == bufs[t.buf] IN
        IF s = <<>> THEN s
        ELSE IF b.is_lazy_
        THEN IF ~t.left THEN to_next[Push(s, [t EXCEPT !.left = TRUE], b.left_)]
             ELSE IF ~t.right THEN to_next[Push(s, [t EXCEPT !.right = TRUE], b.right_)]
             ELSE to_next[Rest(s)]
        ELSE IF nonlazy(b, t.ix + 1) THEN to_next[Rest(s)]
             ELSE Append(Rest(s), [t EXCEPT !.ix = @ + 1])
  IN  to_next[st]

begin(s) ==
  /\ Exists(s)
  /\ dfs_stack_' = advance(<<dfs_step(shared_imstring_buf_[s])>>)
  /\ walked' = [text |-> ideal[s], at |-> 1]
  /\ UNCHANGED <<shared_imstring_buf_, bufs, ideal, failed>>

increment ==
  /\ dfs_stack_ # <<>> /\ dfs_stack_' = advance(dfs_stack_)
  /\ walked' = [walked EXCEPT !.at = @ + 1]
  /\ UNCHANGED <<shared_imstring_buf_, bufs, ideal, failed>>

Next ==
  \/ \E s \in Strings, text \in Literals : construct(s, text)
  \/ \E s, s1, s2 \in Strings : concat(s, s1, s2)
  \/ \E s, src \in Strings : copy(s, src)
  \/ \E s \in Strings : destroy(s) \/ c_str(s) \/ begin(s)
  \/ increment

Spec == Init /\ [][Next]_vars
-----------------------------------------------------------------------------
TypeOK ==
  /\ shared_imstring_buf_ \in [Strings -> Bufs \cup {None}] /\ bufs \in Heaps
  /\ dfs_stack_ \in Seq(Steps) /\ ideal \in [Strings -> Seq(Characters)] /\ failed \in BOOLEAN

(***************************************************************************)
(* Whatever was concatenated, copied, flattened and destroyed in whatever  *)
(* order, a string has the text it was made with, or, once an allocation   *)
(* of c_str() has failed, one of its length in which characters were never *)
(* written, but none is wrong (imstring.h:115-130).                        *)
(***************************************************************************)
SaysItsText ==
  \A s \in Strings : Exists(s) =>
    LET text == Text(bufs, shared_imstring_buf_[s]) IN
    /\ DOMAIN text = DOMAIN ideal[s]
    /\ \A k \in DOMAIN text : text[k] = ideal[s][k] \/ (failed /\ text[k] = "?")

(***************************************************************************)
(* An iterator passes the characters of its string in order, each once,    *)
(* and then is equal to end(), as long as no allocation of c_str() has     *)
(* failed and nobody calls c_str() or operator[] on a lazy string it       *)
(* stands in, const as they are, or destroys it (imstring.h:142-283,       *)
(* main.cpp:12-15).                                                        *)
(***************************************************************************)
WalksTheText ==
  walked # NotWalking /\ ~failed =>
    IF dfs_stack_ = <<>> THEN walked.at = Len(walked.text) + 1
    ELSE /\ walked.at \in DOMAIN walked.text
         /\ bufs[Top(dfs_stack_).buf].cstr_[Top(dfs_stack_).ix + 1] = walked.text[walked.at]
=============================================================================
