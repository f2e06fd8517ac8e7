----------------------------- MODULE Algorithms -----------------------------
(***************************************************************************)
(* The exercises that are functions of their arguments: sorting, searching *)
(* and copying of sequences, and the same numbers computed in several      *)
(* ways.  What the standard library does is given by its specification.    *)
(***************************************************************************)
EXTENDS Integers, SequencesExt, FiniteSetsExt

CONSTANT WORD       \* sizeof(size_t)

-----------------------------------------------------------------------------
(* std::lower_bound and upper_bound of a sorted range, make_heap, inplace_merge. *)
lower_bound(s, x) == CHOOSE k \in 1..(Len(s) + 1) : \A n \in DOMAIN s : n < k <=> s[n] < x
upper_bound(s, x) == CHOOSE k \in 1..(Len(s) + 1) : \A n \in DOMAIN s : n < k <=> s[n] <= x

RECURSIVE inplace_merge(_, _)
inplace_merge(a, b) ==
  IF a = <<>> \/ b = <<>> THEN a \o b
  ELSE IF Head(b) < Head(a) THEN <<Head(b)>> \o inplace_merge(a, Tail(b))
  ELSE <<Head(a)>> \o inplace_merge(Tail(a), b)

(* Of the heaps with the elements of s, the one that is in descending order. *)
make_heap(s) == SortSeq(s, LAMBDA a, b : a > b)
pop_heap(s) == make_heap(Tail(s)) \o <<s[1]>>

-----------------------------------------------------------------------------
(* alg_func_exercises/src/main.cpp and stl_containters/src/main.cpp *)

elem_num_in_sorted(s, x) == upper_bound(s, x) - lower_bound(s, x)

(* A mutant of set_add: what is there is not looked for. *)
set_add_again(s, x) == InsertAt(s, lower_bound(s, x), x)

set_add(s, x) ==
  LET k == lower_bound(s, x) IN
  IF k <= Len(s) /\ s[k] = x THEN s ELSE InsertAt(s, k, x)

erase_if(s, pr) ==
  LET kept == SelectSeq(s, LAMBDA x : x \notin pr) IN [cont |-> kept, erased_cnt |-> Len(s) - Len(kept)]

(* Only for a range that is not empty: the halves of an empty one are empty, without end. *)
RECURSIVE merge_sort(_)
merge_sort(s) ==
  IF Len(s) = 1 THEN s
  ELSE LET mid == Len(s) \div 2 IN
       inplace_merge(merge_sort(SubSeq(s, 1, mid)), merge_sort(SubSeq(s, mid + 1, Len(s))))

RECURSIVE PopAll(_, _)
PopAll(s, pop_heap_cnt) ==
  IF pop_heap_cnt = 0 THEN s
  ELSE PopAll(pop_heap(SubSeq(s, 1, pop_heap_cnt)) \o SubSeq(s, pop_heap_cnt + 1, Len(s)), pop_heap_cnt - 1)

heap_sort(s) == PopAll(make_heap(s), Len(s))

tree_sort(s) == FoldLeft(LAMBDA tree, x : InsertAt(tree, upper_bound(tree, x), x), <<>>, s)

remove_duplicates(s) == FoldLeft(LAMBDA kept, x : IF Contains(kept, x) THEN kept ELSE Append(kept, x), <<>>, s)

is_palindrome(s) == \A k \in DOMAIN s : s[k] = s[Len(s) + 1 - k]

-----------------------------------------------------------------------------
(***************************************************************************)
(* bot_helper/src/main.cpp: i and j run over the whole line with its zero. *)
(* For j < i - 1 the length wraps, and the characters from i upwards are   *)
(* compared with those from j downwards until two differ: when none do,    *)
(* the comparison leaves the line.                                         *)
(***************************************************************************)
Half(s) == \A k \in 1..(Len(s) \div 2) : s[k] = s[Len(s) + 1 - k]

LeavesTheLine(s, i, j) ==
  j < i - 1 /\ \A k \in 0..(IF j - 1 < Len(s) - i THEN j - 1 ELSE Len(s) - i) : s[i + k] = s[j - k]

cmd_max_palindrome(text) ==
  LET input == text \o <<0>>
      Longer(best, k) ==
        LET i == ((k - 1) \div Len(input)) + 1 j == ((k - 1) % Len(input)) + 1 IN
        IF j - i + 1 > best[2] - best[1] + 1 /\ Half(SubSeq(input, i, j)) THEN <<i, j>> ELSE best
      found == FoldLeft(Longer, <<1, 1>>, [k \in 1..(Len(input) * Len(input)) |-> k])
  IN  [undefined |-> \E i, j \in DOMAIN input : LeavesTheLine(input, i, j),
       text |-> SelectSeq(SubSeq(input, found[1], found[2]), LAMBDA c : c # 0)]

(***************************************************************************)
(* The pages that are mapped, of as many as pages has, in runs of a first  *)
(* and a last one.  A page that is not mapped ends a run; when mincore     *)
(* fails otherwise, at the calls in fails, the same page is asked again.   *)
(***************************************************************************)
mem_print_valid(pages, fails) ==
  LET Printed(st) == IF st.valid > 0 THEN Append(st.printed, <<st.begin, st.begin + st.valid - 1>>) ELSE st.printed
      Ask(st, pg) ==
        IF pg \in fails THEN st
        ELSE IF pages[st.begin + st.valid] THEN [st EXCEPT !.valid = @ + 1]
        ELSE [begin |-> st.begin + st.valid + 1, valid |-> 0, printed |-> Printed(st)]
  IN  Printed(FoldLeft(Ask, [begin |-> 1, valid |-> 0, printed |-> <<>>], [k \in DOMAIN pages |-> k]))

-----------------------------------------------------------------------------
(* templates_basics: copy, fifo and priority_queue; 0 in ops is a pop. *)
copy(src, dst) == [k \in DOMAIN dst |-> IF k <= Len(src) THEN src[k] ELSE dst[k]]

fifo_push(lst_, val) == Append(lst_, val)
fifo_pop(lst_) == IF lst_ = <<>> THEN lst_ ELSE Tail(lst_)

priority_queue_push(vec_, val) == make_heap(Append(vec_, val))
priority_queue_pop(vec_) == IF vec_ = <<>> THEN vec_ ELSE Front(pop_heap(vec_))

(* memory: concat; basics: str_reverse; functions: vec_sum of plus3 *)
concat(a, b) == [k \in 1..(Len(a) + Len(b)) |-> IF k <= Len(a) THEN a[k] ELSE b[k - Len(a)]]
str_reverse(s) == [k \in DOMAIN s |-> s[Len(s) + 1 - k]]
vec_sum(s) == FoldLeft(LAMBDA sum, val : sum + (val + 3), 0, s)

(***************************************************************************)
(* compile_lang: opt_memcpy of an object of Len(src) bytes.  From WORD + 1 *)
(* to 16 words, whole words are copied, so the bytes behind the last one   *)
(* stay.  The overload for more does not compile where it is used, and     *)
(* none takes one byte more.                                               *)
(***************************************************************************)
opt_memcpy(dst, src) ==
  copy(IF Len(src) \in (WORD + 1)..(16 * WORD) THEN SubSeq(src, 1, (Len(src) \div WORD) * WORD) ELSE src, dst)

-----------------------------------------------------------------------------
(* Fibonacci numbers: basics/fib, compile_lang, and the stairs of memory. *)
RECURSIVE fib_rec_helper(_, _, _)
fib_rec_helper(ix, prev1, prev2) == IF ix # 0 THEN fib_rec_helper(ix - 1, prev2, prev1 + prev2) ELSE prev1
fib_rec(ix) == fib_rec_helper(ix, 0, 1)

fib_it(ix) == FoldLeft(LAMBDA p, k : <<p[2], p[1] + p[2]>>, <<0, 1>>, [k \in 1..ix |-> k])[1]

RECURSIVE ct_fib(_)
ct_fib(n) == IF n = 0 THEN 0 ELSE IF n = 1 THEN 1 ELSE ct_fib(n - 2) + ct_fib(n - 1)

stair_steps(N) ==
  LET steps[i \in 0..N] == IF i < 2 THEN i + 1 ELSE steps[i - 1] + steps[i - 2] IN steps[N]

(* compile_lang: comparisons.  bits_align: the narrowest type, by counting up to one. *)
ct_min(a, b) == IF a < b THEN a ELSE b
ct_max(a, b) == IF a > b THEN a ELSE b
ct_is_inclusive(a, v, b) == ct_min(a, v) = a /\ ct_max(v, b) = b

RECURSIVE align_uint(_)
align_uint(bits_num) == IF bits_num \in {8, 16, 32, 64} THEN bits_num ELSE align_uint(bits_num + 1)

-----------------------------------------------------------------------------
Sorted(s) == \A i, j \in DOMAIN s : i < j => s[i] <= s[j]
SortOf(s, r) == Sorted(r) /\ ToBag(r) = ToBag(s)

Occurrences(s, x) == Cardinality({k \in DOMAIN s : s[k] = x})
Substrings(s) == {SubSeq(s, i, j) : i \in 1..(Len(s) + 1), j \in 0..Len(s)}

(* The three sorts sort, and keep every element as often as it occurs. *)
SortsAgree(s) ==
  /\ s # <<>> => SortOf(s, merge_sort(s))
  /\ SortOf(s, heap_sort(s)) /\ SortOf(s, tree_sort(s))

(* Adding elements one by one gives the set of them in order; counting and erasing miss none. *)
SetsAgree(s) ==
  LET set == FoldLeft(LAMBDA cont, x : set_add(cont, x), <<>>, s) IN
  /\ Sorted(set) /\ ToSet(set) = ToSet(s) /\ Len(set) = Cardinality(ToSet(s))
  /\ \A x \in ToSet(s) :
       /\ elem_num_in_sorted(heap_sort(s), x) = Occurrences(s, x)
       /\ erase_if(s, {x}).erased_cnt = Occurrences(s, x)
       /\ ToSet(erase_if(s, {x}).cont) = ToSet(s) \ {x}
       /\ Occurrences(remove_duplicates(s), x) = 1

(***************************************************************************)
(* The longest palindrome of a line, when the comparison does not leave    *)
(* it; and it does just when the first character of the line comes back at *)
(* its third one or later.                                                 *)
(***************************************************************************)
PalindromesAgree(line) ==
  LET s == SelectSeq(line, LAMBDA c : c # 0) r == cmd_max_palindrome(s) IN
  /\ is_palindrome(s) <=> str_reverse(s) = s
  /\ r.undefined <=> \E k \in 3..Len(s) : s[k] = s[1]
  /\ ~r.undefined =>
       /\ r.text \in Substrings(s) /\ is_palindrome(r.text)
       /\ \A t \in Substrings(s) : is_palindrome(t) => Len(t) <= Len(r.text)

(* Each page that is mapped is printed once, in the longest runs, but for the last ones if a call failed. *)
PagesAgree(s) ==
  LET pages == [k \in DOMAIN s |-> s[k] # 0] fails == {k \in DOMAIN s : s[k] = 3}
      runs == mem_print_valid(pages, fails)
      asked == [k \in 1..(Len(s) - Cardinality(fails)) |-> k]
  IN  /\ FlattenSeq([r \in DOMAIN runs |-> [k \in 1..(runs[r][2] - runs[r][1] + 1) |-> runs[r][1] + k - 1]])
           = SelectSeq(asked, LAMBDA k : pages[k])
      /\ \A r \in DOMAIN runs : r > 1 => runs[r - 1][2] + 1 < runs[r][1]

(***************************************************************************)
(* After any pushes and pops (0) the front of the fifo is the element that *)
(* is there longest, and that of the priority queue the greatest one.      *)
(***************************************************************************)
QueuesAgree(ops) ==
  LET Do(Push(_, _), PopOne(_)) ==
        FoldLeft(LAMBDA q, x : IF x = 0 THEN PopOne(q) ELSE Push(q, x), <<>>, ops)
      fifo == Do(fifo_push, fifo_pop) queue == Do(priority_queue_push, priority_queue_pop)
      pushed == SelectSeq(ops, LAMBDA x : x # 0)
  IN  /\ Len(queue) = Len(fifo) /\ IsSuffix(fifo, pushed)
      /\ \A k \in DOMAIN queue : queue[k] <= queue[1]
      /\ (\A k \in DOMAIN ops : ops[k] # 0) => ToBag(queue) = ToBag(ops)

(* Copies are complete, but for the bytes of the last, partial word. *)
CopiesAgree(s) ==
  LET dst == [k \in DOMAIN s |-> "old"] IN
  /\ concat(s, s) = s \o s
  /\ \A k \in DOMAIN s :
       opt_memcpy(dst, s)[k] = IF Len(s) > WORD /\ k > Len(s) - (Len(s) % WORD) THEN "old" ELSE s[k]
  /\ vec_sum(s) = vec_sum(str_reverse(s))

(* One sequence of numbers, whichever program computes it. *)
NumbersAgree(n) ==
  /\ fib_it(n) = fib_rec(n) /\ ct_fib(n) = fib_rec(n) /\ stair_steps(n) = fib_rec(n + 2)
  /\ align_uint(n) = Min({w \in {8, 16, 32, 64} : w >= n})
  /\ \A a, b \in 0..n : ct_is_inclusive(a, n, b) <=> n \in a..b

(* All of it, for one argument. *)
AlgorithmsAgree(s) ==
  SortsAgree(s) /\ SetsAgree(s) /\ PalindromesAgree(s) /\ PagesAgree(s) /\ QueuesAgree(s) /\ CopiesAgree(s)
  /\ NumbersAgree(Len(s))
=============================================================================
