# TLA+ models and proofs for au-cpp2014-seminars

The repository holds the programs of a C++ course: some thirty small programs, each in a directory
of its own, independent of each other.  This directory holds TLA+ models of the ones that keep state
worth reasoning about, the TLC configurations that check them, and TLAPS proofs about most of them.
`PROJECT.json` lists the components, runs, theorems, hazards and, for every definition that models
code, the lines it stands for.

    tlc -workers 2 -config EventedBuffer.cfg EventedBuffer.tla     # check a model
    tlapm EventedBuffer_proofs.tla                                 # check its proofs

## 1. The system

### 1.1 Components

| component | state | operations | what is hard | what makes it correct |
|---|---|---|---|---|
| `producer_consumer`: `evented_counter_t` | an atomic counter, an exit flag, a mutex, a condition variable | `inc`, `dec`, `wait_value`, `exit`, `get` | waiters test, sleep and wake while others change the counter; `exit` works without the mutex | no wake-up is lost; a waiter returns for a reason and only then |
| `producer_consumer`: `evented_buffer_t` | 256 bytes, "a write occurred", what was written, two mutexes, a condition variable, a counter of waiters | `wait_write`, `read`, `write` | a write must meet every waiter before it is withdrawn; a read may meet a later write | every waiter is told of each write once; no torn or outdated read; every write ends |
| `producer_consumer`: the two demos | `finish`, the threads' locals | readers, a writer, main | the shutdown races with readers that are about to wait | every thread ends; the demo's assertion holds |
| `libraries/libmypthread` | a table from threads to the mutexes they have locked, under a lock of its own | interposed `pthread_mutex_lock` and `pthread_mutex_unlock` | the table and the mutexes change at different times; the table may fail to grow | mutual exclusion; recursive locks are detected and no other lock is skipped |
| `simple_smart_ptrs` | control blocks with two counts; one raw pointer in `unique_ptr` and `scoped_ptr` | construct, copy, move, assign, swap, reset, lock, destroy | the order of the last release of each kind; what the compiler provides | an object lives as long as it is owned; the counts are those of the handles |
| `exceptions`: `bin_search_tree` | the nodes and their links | insertion of a key, of a range; lookup | an exception in the middle of a range | an insertion happens as a whole or not at all |
| `simple_injector` | factories and instances by id, the ids a `get` has visited | `factory`, `value`, `get` | cycles, failure half way through a resolution, factories that call `get` again | a cycle is reported and a dependency reached twice is not; what is stored is complete and references to it stay |
| `smart_singleton` | a weak pointer | `get_instance` | re-creation after the last owner | at most one instance at a time |
| `lazy_string` | reference-counted buffers | construct, copy, `+=`, indexing | copy-on-write, the sizes with and without the terminator | a write is seen by no other owner |
| `immutable_string` | a tree of concatenations, flattened on demand | `+`, `c_str`, iteration | flattening while an iterator stands in the tree, an allocation that fails in it | all views denote the same characters |
| `events` | a vector of handlers, a counter of ids | add, remove, fire, move | handlers that add, remove or fire while `fire` loops over them | each handler is called until it is removed |
| `thread_safe_obj` | an object with its lock, monitors that carry the lock; a stack on top | `monitor`, `swap`, move, assignment; `push`, `empty`, `top`, `pop` | several monitors at once, in any order; three calls where one would be needed | a lock is held as long as one monitor has it; a single thread misses nothing |
| `move_streams` | a prefetch buffer over a file | construct, copy, move, swap, read | end of file against failure, copies between two items | items come in order, once |
| `linqcpp`, `linqcpp_lazy` | a chain of enumerators over a vector of the program | `from`, `where`, `select`, `count`, `any`, `to_vector`, copies | a chain that was left in the middle, a vector that changed | the lazy pipeline gives what the eager one gives |
| `double_dispatch` | a map from pairs of types to functions | `reg`, `call` | symmetric entries, equal types | the function of the dynamic types is called |
| `sfinae_serialize`, `functions`, `preprocessor` | a stream | writing and reading back | lengths, nesting, the end of the stream | what was written is read |
| `alg_func_exercises`, `stl_containters`, `templates_basics`, `iterators`, `bot_helper`, `compile_lang`, `bits_align`, `basics`, `memory` | an iterator's place | sorts, searches, iterators, arithmetic in several ways | empty inputs, duplicates, lengths that wrap | the result is the one the name promises |
| `std_array`, `virtual_streams`, `dfloat`, `dev_tools`, `building`, `libraries/libexample` | none | demonstrations | - | - |

### 1.2 How they interact

Programs do not call each other.  Inside `producer_consumer` the buffer uses the counter:
`wait_write` counts a reader in before it waits and out when it has been told, and `write` calls
`wait_value(0)` before it withdraws what it published. The demos call both from a writer, some
readers and main.  All interaction is through shared memory; threads meet in mutexes, condition
variables and joins. `libmypthread` stands between any program and the C library.  `bin_search_tree`
meets its surroundings in `operator new` (`faults.cpp`), which throws at random.

Two of the libraries call back into the program: the injector calls factories, which may register,
call `get` or throw while a resolution is in progress, and `fire` calls handlers, which may add,
remove, move or fire while it loops.  In `thread_safe_obj` a caller keeps the lock of an object in a
monitor, and may have several of them at once.

### 1.3 Hazards

`PROJECT.json` has the list with the line of each.  The important ones are a notification that falls
between a waiter's test and its sleep (`main.cpp:38`, `:45`, `:298`), a write withdrawn while a
reader is still on its way (`main.cpp:146-148`), the window between the table and the mutex in
`libmypthread` (`libmypthread.cpp:82`, `:91`), handles that share a block without counting
(`shared_ptr.h:122`, `:261`), the rollback of a range insertion (`bin_search_tree.h:245-253`),
factories and handlers that call back (`injector.h:230-265`, `event.h:88-108`), monitors that
exchange their locks (`thread_safe_obj.h:57-62`), a string that is flattened under an iterator
(`imstring.h:125-128`) and what a stream does at the end of its file (`prefetch_stream.h:79`).

## 2. The modules

Actions are named after the functions, and their steps after what they do.  A variable that has no
counterpart in the code is marked as a *history* or a *bound* where it is declared.  A definition
that a comment calls a mutant is a plausible bug of the definition that follows it; no specification
uses it, and each property is known to fail when the mutant takes its place.

    EventedCounter <-- CounterDemo
          ^
    EventedBuffer  <-- BufferDemo        EventedBuffer refines WriteBroadcast
    InterposedMutex
    BinSearchTree                        BinSearchTree refines KeyMap
    SharedPtr, OwningPtrs, LazyString, ImString,
    PrefetchStream, Enumerators                           <-- Ownership  <-- MCOwnership
    Injector, EventHandlers, DataMonitor, NStack,
    DoubleDispatch, Iterators                             <-- Libraries  <-- MCLibraries
    Algorithms, Serialization (operators)                                <-- MCSequences
    X_proofs EXTENDS X

`Ownership` and `Libraries` put components side by side that do not interact: their variable
`component` says which one a behaviour is about, and the others stay where they began.  That way one
run explores several small state machines without their product.  `Ownership` and
`Libraries` take the sets of handles, ids, threads, texts, files and values as constants, so that
theorems can be stated about them; `MCOwnership` and `MCLibraries` say which small sets TLC uses.

### 2.1 Threads, mutexes and condition variables

A thread has a program counter (`step`, `pc`); each atomic access to shared memory and each lock or
unlock is one action.  Steps that touch only what a held mutex protects may be one action together.
`std::mutex` is the variable of its owner; `std::condition_variable` is the set of threads asleep in
it.  `wait()` releases the mutex and goes to sleep in one step, is woken by `notify_all` or
spuriously (a bounded number of times), and takes the mutex again before it tests the predicate.
The logging under `log_mutex` is left out: no thread takes another lock inside it.

### 2.2 EventedCounter (`producer_consumer/src/main.cpp:11-68`)

| code | actions |
|---|---|
| `inc` | `Inc` (lock), `FetchAdd`, `NotifyAll`, `Unlock` |
| `dec` | `Dec`, `FetchSub`, `NotifyAll`, `Unlock` |
| `wait_value` | `WaitValue` (lock), `Check` (predicate), `Block` (sleep), `Reacquire` (awake: lock and test), `Unlock` |
| `exit` | `Exit` (store), `ExitNotify` |

`exit_` is an atomic that `exit` stores without the mutex, so `Exit` and `ExitNotify` have no guard
on it.  `Check` and `Block` are two actions for that reason: what `exit` does may fall between them.
`value_` is a `size_t`, which wraps at `SizeMax`. The history `raced` collects the waiters that
stood at `Block` when an `exit` notified.

### 2.3 EventedBuffer (`main.cpp:70-161`)

| code | actions |
|---|---|
| `wait_write` | `WaitWrite` (lock), `CountIn` (`waiters_count_.inc()`, with the counter's own steps), `Check`, `Block`, `Reacquire`, `CountOut` (`dec()`), `ReturnInfo` |
| `read` | `ReadLock`, `ReadCopy` |
| `write` | `Write`, `LockToPublish`, `CopyIn`, `Publish`, `NotifyAll`, `Drain` (`waiters_count_.wait_value(0)`), `LockToReset`, `Reset`, `Release` |

The counter is an `INSTANCE` of `EventedCounter` with the threads of the buffer; a call of it goes
through all its steps, with its mutex, while the caller keeps the mutexes of the buffer.  Bytes are
abstracted to regions: a write of size 1 fills the region at its offset with the number of the
write, one of size 0 fills nothing.  A `memcpy` is two steps, between which the memory is `Torn`, so
that a read that overlaps it is visible.  Readers follow the protocol of the program's readers:
`wait_write`, then `read`.

`WriteBroadcast` is what the buffer promises: each reader that waits when a write is published is
told of it, once, before the write ends.

### 2.4 CounterDemo and BufferDemo (`main.cpp:163-232`, `234-302`)

The reader, writer and main functions, with one action per statement that matters to the others,
over an `INSTANCE` of the counter or the buffer.  They decide what calls are made, so the demos'
properties are about what can go wrong in the use of a component that keeps its promises:
`CounterInRange` is about a writer that turns in time, `HoldsTheWriteItWasTold` about offsets that
are never used twice and never pass the end of the buffer.  A join waits for `done`.  The constants
stand for the literals of the code (10 for `Target`, 100 for `Steps`, `LastRegion` for how often the
write fits the buffer).

### 2.5 InterposedMutex (`libraries/libmypthread/src/libmypthread.cpp`)

`LockCall`, `LockTakesTable`, then `SkipRecursive` or `Insert` (or `InsertFails`, when the set
throws and the catch swallows it), then `LockOriginal`; `UnlockCall`, `UnlockTakesTable`, `Erase`,
`UnlockOriginal`.  The mutexes of the C library are default mutexes: locking one's own waits for
ever and unlocking frees it whoever has it.  Clients unlock no more often than they locked. The
deadlock check is a TODO in the source, which does nothing.

### 2.6 SharedPtr (`simple_smart_ptrs/src/shared_ptr.h`)

A handle is `None` (no such variable), null, or the number of a control block; the operations work
on the memory, a record of the blocks and the objects.  Each public operation is one action with
everything it calls: `Assign` includes the default construction, the swap and the reference it adds,
`Destroy` the deleter and the release of the block. One thread uses the handles.  `weak_ptr`'s own
assignment templates do not compile, so weak handles are copied by the compiler's operations, which
do not count.  An access to freed memory sets `undefined`, after which nothing happens.

### 2.7 BinSearchTree (`exceptions/src/bin_search_tree.h`)

Keys stand for the places of the program's strings in their order.  The tree is a record of nodes and
links; `find_nearest_node`, `insert_node`, `reinsert_node`,
`erase_node` are operators on it, the search as a recursive function.  `Insert` is one action; a
range insertion is a sequence of actions (`RangeBegins`, `Allocate`, `Allocated`, `InsertNext`,
`InsertNextThrows`, `EraseNext`, `RolledBack`, `RangeInserted`), because its intermediate states are
what an exception leaves behind.  Any allocation may throw.  `parent_` keeps what the code leaves in
it, also when that is stale.  Dereferencing a null or a deleted node sets `undefined`.  `KeyMap` is
the promise: a map that an insertion extends as a whole or leaves alone.

All nodes of a range get the first value, as in the code, whose loop (line 232) advances `vbegin`
and reads `vit`.

### 2.8 Injector (`simple_injector/src/injector.h`)

`get_recursive` is a stack of frames in `calls`; each frame belongs to one `get()`, which has a
visited set of its own in `visited`.  `get` begins a resolution; `Found`, `Circular`, `Missing`,
`HasFactory` are the branches at the top of `get_recursive`, `NextDep` its loop over the declared
dependencies, `FactoryReturns` and `FactoryThrows` the end of a factory and `Return`, `Throw` the
way back through the frames.  While a factory runs, user code may do whatever it may do from outside
(`UserCode`): register another factory or value, or call `get` (nested up to `MaxReentry`). A
factory may return an instance of a type other than the one asked for; what a bad cast throws is one
of the outcomes.  `given` is a history: the references that were returned, marked as `early` when a
frame further down the stack was making the same id (`BeingMade`).

`OutcomeHasACause` compares the outcome of a resolution with the graph of declarations: `Reach` is
the set of ids reachable from the one asked for.  `StoredIsWired` says that what a failed resolution
has left behind is complete, and `ReferencesStay` that an instance that was handed out is not
destroyed, but for one that was given out early, which only a newer instance of the id replaces.
The frame below need not be the factory's own: a factory that makes a dependency of `a` may ask for
`a`, and the assignment at `injector.h:265` then destroys what it was given when `a` is finished.

### 2.9 OwningPtrs, LazyString and ImString (in `Ownership`)

`OwningPtrs` has one action per operation of `unique_ptr` and `scoped_ptr` (`scoped_ptr` is one that
is never moved) and the clients of `get_instance`, whose weak pointer sees an instance as long as a
client has it. `reset` of a pointer that has an owner already is allowed, and recorded in `misused`.

`LazyString` keeps the terminating zeros: a buffer is a sequence of characters with its zeros, and
`c_str` is what comes before the first one.  `append` writes both texts with their zeros and counts
both (`lazy_string.cpp:61`), so `get_size` is one too large after a `+=`, and a second `+=` writes
behind the first zero.  `TextIsPrivate` says exactly that: as a `std::string` until the first `+=`,
the right text with a size one too large after it, and a size that is too large from then on.  The
index modifier is kept by the program and writes to its string later (`Subscript`,
`ModifierAssign`).  Copying makes a string that shares a buffer, and so does the move constructor,
which copies; assignment gives a string that exists another one's buffer (`copy`, `assign`).

`ImString` has a node per buffer (`is_lazy_`, `cstr_`, `left_`, `right_`).  `c_str` flattens
recursively: `is_lazy_` is cleared first, every level allocates and any allocation may throw, so a
level may be left with `Garbage`.  What nobody owns any more is `Free` again (`Swept`).  The iterator
is its stack of steps into the tree; `increment` follows `nonlazy` as the code does.  `SaysItsText`
claims all strings: exactly, as long as no allocation of `c_str` has failed, and after that that the
length is right and each character is the right one or was never written (`"?"`).  `WalksTheText`
claims the iterator that has no flattened or deleted node on its stack, as long as no allocation has
failed.

### 2.10 EventHandlers, DataMonitor, NStack

`fire` is a stack of loops over the handlers of a state.  A handler that is called is code of the
program: `UserCode` between `CallNext` and `HandlerReturns`.  `add` counts the id before
`emplace_back`, which may throw (`event.h:88`); `remove` is a deleter, with the assertion on ids as
a choice to stop.  A deleter keeps a raw pointer to its state: calling it when the event is gone is
undefined and ends a behaviour.  A handler that is removed while it runs (`Runs`) has its
`std::function` destroyed under it: the behaviour may end there or go on.  `late` is a history of
`fire`'s frames: the handlers that were called although they had been removed, none by
`RemovedOrCalled`.

`DataMonitor` has several threads that take monitors, and move, swap and assign them as
`thread_safe_obj.h` does: a swap exchanges the locks and the *values* of the objects, the references
stay.  `mixed` is a history: it marks monitors whose lock may have come from a monitor of another
object, by a swap or an assignment (`Mixes`). Every other monitor carries the lock of its own object
or none; that a mixed one may carry another's is what `thread_safe_obj.h:57-62` does.  No lock is
carried twice or lost, mixed or not. `NStack` runs the loop
`while (!stack.empty()) { stack.top(); stack.pop(); }` of main by several threads; `top` returns a
reference, so the read after it is an action of its own.  `raced` collects threads into whose loop
another thread's push or pop fell.

### 2.11 PrefetchStream and Enumerators (in `Ownership`)

`PrefetchStream` reads a file of characters: numbers with the blanks before them or lines, through
an array of `PREFETCH_SIZE` slots with `Refill` and `TakeNext` as in `prefetch_stream.h`.  `Refill`
is the loop over the slots, as a function of how many have been filled; `FillNext` is its body.
`fscanf` and the reading of lines are given by what they do to the position, the end-of-file and the
error flag (`EndOfBlanks`, `EndOfLine`).  Opening may fail; a disk error may occur in any read,
before whichever item.  A copy opens the file anew and seeks to the position of its source; the
result of `fopen` is not tested, and a null one, like a source without a file, makes that undefined.
`said`
is the history of what a stream has yielded, which `ReadsInOrder` compares with the items of the
file: the n-th of them (`Items`) begins at the position that has n beginnings up to it.  Not claimed
are streams that were moved from and lines of a file with empty ones.

`Enumerators` has a node per enumerator.  Since a clone is deep, a pipeline is an iterator with all
its stages. `get_current` goes through the stages; `move_next` is, for each stage, the function from
where the iterator is to where it goes, `where_move` being the loop that asks the parent again;
`count`, `any` and `to_vector` are loops over them (`Iterate`).  Writes to the vector (`Overwrite`,
`Grow`) may come between any two results. `Eager` is the enumerable of `linqcpp`, which runs each
stage at once; `LazyIsEager` compares the two.

### 2.12 DoubleDispatch and Iterators (in `Libraries`)

`DoubleDispatch` has the map of `double_dispatcher`, filled by `reg` with two entries for a pair of
types; an entry says which function is called and which of the two objects it gets first. `regs` is
the history `DispatchesByType` compares it with.

`Iterators` has a loop over one of the three iterators: the program fills a container of containers,
a string or a stream (`Fill`), makes the iterator and goes on with `++` until the end.  Only the
sizes of the containers matter.  `linearized_next` goes nowhere from the beginning of an empty
container, which is where a loop is undefined.  `LettersAssigned` is `it = ++it` or `it = it++`,
whose result ends where it stands.  `seen` is the history of the positions the loop has been at: what
comes before the current one, no more and no less, is what *once and in order* means.

### 2.13 Algorithms, Serialization

Pure functions, with the source's names.  Loops are recursive operators or folds, and what the
standard library does is given by its specification (`lower_bound`, `make_heap`, ...).
`AlgorithmsAgree` and `RoundTrips` state the reference
definitions: sorted permutations for the sorts, counts for `elem_num_in_sorted`, `fib_it` for the
other Fibonacci numbers, alignment by division for `align_uint`, the longest palindrome by its
definition.  `MCSequences` lets `input` grow to every sequence up to `MaxInput` and applies them all
to it.  `cmd_max_palindrome` computes the length with a `size_t` that wraps for `j < i - 1`; the
comparison then runs out of the line (`LeavesTheLine`) for exactly the lines in which a character
from the third on is the first one again, and for the others the result is right.  `opt_memcpy`
copies whole words from 9 to 128 bytes, so that the bytes of a last, partial word stay; above that it
does not compile.  `mem_print_valid`
asks page by page and prints runs of mapped ones; a `mincore` that fails for another reason asks the
same page again.

`Serialization` writes and reads values of nested types; `ReadPod` at the end of a stream leaves the
object as it was.  `write` and `read` are those of `functions/src/main.cpp`, where reading a string
costs the value after it its first byte.

## 3. The runs

| run | configuration | what it shows |
|---|---|---|
| `counter` | 3 threads, `size_t` of 0..2, 1 spurious wake-up | no lost wake-up of `inc` and `dec`, waits end for a reason, `exit` misses only waiters it raced with; whoever waits for the value reached wakes |
| `counter_demo` | 3 readers, target 2, 9 steps of the writer | the counter never leaves 0..10 (here 0..2), the writer ends, readers leave unless raced |
| `counter_exit` | 2 readers | **violation**: `exit()` "wakes all threads" |
| `buffer` | 2 readers, 2 writers, 2 writes, 2 regions | refinement of `WriteBroadcast`, drained before it is withdrawn, no torn or old reads, writes end |
| `buffer_demo` | 2 readers, 3 writes and the last one | a reader holds the write it was told of and no write passes the end; main gets to its last join; who is told of the last write leaves |
| `buffer_last_write` | 2 readers, 2 writes and the last one | **violation**: "last readers wakeup" |
| `mypthread` | 3 threads, 2 mutexes, 6 calls, nesting 2, 1 failure | exclusion until a surplus unlock, recursion detected, nothing else skipped, skipped locks and unlocks return |
| `bst` | 3 keys, 2 values, ranges up to 3 | search finds the keys in every state, parents are right between calls, all or nothing |
| `bst_rollback` | the same | **violation**: a duplicate "throws bst_key_exists_exception" |
| `ownership` | 2 shared and 2 weak handles, 3 blocks, 2 objects, counts of 0..4; 3 unique pointers, 2 clients, 4 objects; 2 lazy strings over 2 characters, texts up to 2; 3 immutable strings, 3 buffers, texts up to 2; 2 streams over 10 files, buffer of 2, up to 4 items read; 2 pipelines of 2 stages over vectors of 2 | counts, lifetimes and the two causes of undefined behaviour; one owner per object; a write to a string is seen by no other; an immutable string says its text however it is read, and no wrong character after a failed flattening; items in order; the lazy pipeline as the eager one |
| `libraries` | 3 ids with up to 2 dependencies, 4 instances, 1 nested `get`; 2 events, 4 additions, 2 nested `fire`; 2 threads, 2 objects, 3 monitors each; 3 threads, 3 pushes; 3 types, 4 registrations; up to 4 containers of 4, letters or words | a resolution fails only for its reason and leaves what it stored complete; handlers are called until they are removed and not after; a lock is held while one monitor has it; the stack's loop misses only when raced; a function is found by its types; a loop is at every element once |
| `sequences` | every sequence of 0..3 up to 5 | the functions as their reference definitions, what is written is read back |

### 3.1 Why these bounds

* Threads: a race in these programs is between a waiter and somebody who changes what it waits for.
  A third thread makes `notify_all` differ from `notify_one`, and lets one waiter be ready while
  another changes the value again.  With two readers and two writers one reader can be late for a
  write another reader has been told of, and one writer can wait for another's whole `write`.
* `SizeMax` is as small as lets the counter wrap in few steps (`counter`), or as the count of all
  readers requires (`buffer`).
* `Steps = 9` with `Target = 2` has the writer turn at both ends twice.
* One spurious wake-up is enough to find a missing test after a wake-up; a second one of the same
  thread leads to a state the first has led to, apart from the bound.
* `MaxDepth = 2` and six calls allow a nested pair on one thread and a pair on each of two others
  that meet its surplus unlock.
* Three control blocks are needed, since `operator=` allocates one that it leaves behind; two
  handles of each kind are enough for the two orders in which the last ones of each kind go.  Their
  counts go up to 4: two more than there are shared handles, one for the count a new block begins
  with and one for the reference `operator=` adds to a block before it gives the old one up.
* `ownership`: three pointers allow one moved through another; four objects let one be deleted and
  one come after it.  Two lazy strings share a buffer or not, and texts of two characters separate
  the text before the first zero from the one after the second.  Three immutable strings are a
  concatenation and its two halves, one of which may be shared or destroyed.  A file of three items refills a
  buffer of two, ends inside an item, after a newline or with an empty line.  Two stages are where
  after select and select after where, where a reset must reach the inner one.
* `libraries`: three ids have cycles of length 1 to 3, diamonds and a chain with something missing
  at its end; one nested `get` is a factory inside a factory. The fourth instance is the one that is
  made over an instance a nested `get` has handed out, after both ids have been made before it. Four
  additions fill a vector past a removal and past one that failed, and two nested `fire` loops meet
  the same handlers twice. Three monitors of one thread are one more than a swap needs, and two
  threads with two objects can block each other. The third thread of the stack pushes while two run
  the loop. With three types there is a pair that is not registered beside two that share a type,
  and four registrations replace both entries of a pair. Four containers have an empty one first, in
  the middle and last.
* `sequences`: the functions branch on the empty sequence, one element, duplicates and neighbours,
  all within 5 elements.
* Three keys give every shape of a tree with a root, a child on either side and a grandchild; a
  range of three can contain a duplicate with something to roll back before it.

### 3.2 Fairness

A thread inside a call goes on as long as it can (`WF` of the thread's next step): threads are
scheduled preemptively and none is stopped for ever.  Weak fairness is not enough for a mutex in
general, since one that is free infinitely often may be missed every time.  Here it is enough
because the calls on the other side are bounded (`Steps`, `MaxWrites`, `MaxCalls`, `LastRegion`) or,
in `counter`, because the property is only about a thread that leaves the condition variable, which
needs no mutex. No thread is obliged to call an operation, and spurious wake-ups never have to
happen.  The demos add fairness of each thread's own statements, since `sleep_for` returns and
`join` returns when the joined thread is done. The runs `ownership`, `libraries` and `sequences`
check safety only and assume no fairness. `KeyMap` has none; a range insertion has weak fairness of
its next step, which stops at undefined behaviour.

Deadlock is not checked where the system may stop: clients may stop calling, a bound may be used up,
or a violation recorded below leaves main in its join.

### 3.3 Disagreements between the code and what it says

1. `exit()` (`main.cpp:30-40`) says it "wakes all threads".  It stores the flag and notifies without
   the mutex: a waiter between its test and its sleep is missed, and main joins it for ever.
   `ExitMissesOnlyRacers` shows that those are the only ones.
2. Main's last write (`:296-298`) is the "last readers wakeup".  A reader that tested `finish`
   before main set it and enters `wait_write` after that write was withdrawn is never woken.
   `LastWriteReleases` shows that a reader that is told of it leaves.
3. A range insertion that meets a duplicate after its first node calls `reinsert_node` with subtrees
   that may be null, and `insert_node` reads the key of a null pointer (`bin_search_tree.h:192`) as
   soon as the tree is not empty.  The exception announced at `:134` does not arrive.  A subtree
   reinserted at the root also keeps the parent of the deleted node (`:195`), which a later step of
   the rollback would follow.
4. `functions/src/main.cpp:77` is to "skip '\0'", but the loop before it has read the zero already:
   the value after a string loses its first byte.  `RoundTrips` (in `FunctionsAgree`, run `sequences`) states that loss.

Not a contradiction but worth knowing: the readers' assertion (`producer_consumer/src/main.cpp:242`)
compares a buffer that nothing was copied to, and that line 238 does not initialise, when the first
write a reader is told of is main's, of size 0.  What it finds there is indeterminate, so
`HoldsTheWriteItWasTold` claims the other readers only.

## 4. The proofs

`TLC` checks the instances above; the theorems hold for every set of threads, handles, ids or keys,
every width of the counts and every bound, from the `ASSUME`s of the modules only:

* `NoThread` is no thread, readers, writers and main are different, the bounds are naturals,
  `SizeMax > 0`, the demos' targets are what they say (a `Target` that a `size_t` can hold);
* for the buffer and its demo, the readers are finitely many and no more than `SizeMax`, so that the
  counter can count them: with more of them `inc` would wrap to 0 and a write would be withdrawn
  under its readers;
* `HandlesAssumption`: finitely many shared and weak handles, of which the counts of a block can
  count all, and two more shared ones; `StringsAssumption`: finitely many lazy strings, whose
  literals do not contain the terminating zero; `ImmutablesAssumption`: immutable strings are made of
  characters, and any natural number of buffers is alive at once;
* `StreamsAssumption`: the newline is a character, files are sequences of characters, the size of
  the array is a natural; `PipelinesAssumption`: a transform is a function from values to values
  (every use in the program keeps the type of the elements), the vector has a size;
* `KeysAssumption`: the keys are naturals above 0, which stands for no key, and finitely many, since
  a machine can hold finitely many strings; `MaxRange` is any natural;
* `InjectorAssumption`: `"none"` is no id and no type, and a declaration names a type and a sequence
  of dependencies; `EventsAssumption`, `MonitorsAssumption`: the values that stand for no event, no
  thread and no object are none; `DispatchAssumption`, `IteratorsAssumption`: the bounds are naturals
  and the words that may be read as an `int` are integers.

| theorem | states | run that checks it |
|---|---|---|
| `EventedCounter_proofs!TypeCorrect` | `TypeOK` | `counter` |
| `... NotificationsReachWaiters` | `NoLostNotification` | `counter` |
| `... WaitReturnsForAReason` | `WaitReturnsOnTarget` | `counter` |
| `... ExitMissesOnlyRacingWaiters` | `ExitMissesOnlyRacers` | `counter` |
| `... CounterMutualExclusion` | two threads are never both inside the mutex | |
| `CounterDemo_proofs!WriterStaysInRange` | `CounterInRange` | `counter_demo` |
| `EventedBuffer_proofs!TypeCorrect` | `TypeOK`, the counter of waiters never wraps included | `buffer` |
| `... WritersDrainReaders` | `DrainedAtReset` | `buffer` |
| `... ReadersSeeWholeWrites` | `ReadsWhatItWasTold` | `buffer` |
| `... ImplementsBroadcast` | every step is a step of `WriteBroadcast` or a stutter | `buffer` (`Broadcasts`) |
| `BufferDemo_proofs!ReadersHoldTheirWrites` | `HoldsTheWriteItWasTold` | `buffer_demo` |
| `InterposedMutex_proofs!TypeCorrect` | `TypeOK` | `mypthread` |
| `... InterposedExclusion` | `HoldersExclude` | `mypthread` |
| `... RecursionDetected` | `NoSelfDeadlock` | `mypthread` |
| `... OnlyRecursionSkipped` | `SkipsOnlyWhatItHolds` | `mypthread` |
| `BinSearchTree_proofs!SearchIsExact` | `FindsTheKeys` | `bst` |
| `... ParentsAreRight` | `ParentsMatch` | `bst` |
| `... Refinement` | `AllOrNothing`, the refinement of `KeyMap` | `bst` |
| `Ownership_proofs!SharedPtrCountsHandles` | `CountsHandles` | `ownership` |
| `... SharedObjectsLive` | `OwnedObjectsLive` | `ownership` |
| `... SharedPtrUndefinedForAReason` | `UndefinedForAReason` | `ownership` |
| `... ObjectsAreOwnedOnce` | `OwnedOnce` | `ownership` |
| `... LazyTextIsPrivate` | `TextIsPrivate` | `ownership` |
| `... ImmutableStringsRead` | `ReadsItsText` | `ownership` |
| `... StreamsReadInOrder` | `ReadsInOrder` | `ownership` |
| `... LazyPipelinesAreEager` | `LazyIsEager` | `ownership` |
| `Libraries_proofs!StackMissesOnlyWhenRaced` | `MissesOnlyWhenRaced` | `libraries` |
| `... LocksAreCarriedOnce` | `LocksFollowMonitors` | `libraries` |
| `... HandlersRemovedOrCalled` | `E!RemovedOrCalled`, a part of `RegisteredAreCalled` | `libraries` |
| `... LibrariesTypeOK` | `TypeOK` | `libraries` |
| `... InjectorKeepsWhatItMade` | `KeepsWhatItMade` | `libraries` |
| `... InjectorOutcomeHasACause` | `OutcomeHasACause` | `libraries` |
| `... FunctionsFoundByType` | `DD!DispatchesByType`, the other part | `libraries` |
| `... RegistriesCall` | `RegisteredAreCalled` | `libraries` |
| `... LoopsVisitAll` | `IteratorsVisitAll` | `libraries` |

**The counter.**  `NoLostNotification` is not inductive: a thread that goes to sleep must be known
to have tested the value that still stands.  The invariant adds that exactly the owner of the mutex
is between lock and unlock (`MutexInv`), that the condition variable holds exactly the sleeping
threads (`CondInv`), that a thread at `Block` has not its value (`BlockInv`), and what `exit` may
have missed (`ExitInv`).  It has one lemma per group of actions.

**The buffer.**  The invariant is built in four layers, each proved from those below:

1. `Control`: types, the three mutexes and two condition variables, where each thread stands in the
   buffer while it stands in the counter, and the bound on writes;
2. `CountInv`: the counter is the number of the readers counted in.  It needs `Control` to know
   which step of `inc` and `dec` each reader is at, and `Cardinality`;
3. `Draining`: a write is published exactly while a writer is between `Publish` and `Reset`; a
   reader leaves `wait_write` only while it is; and once `wait_value(0)` has found the counter at 0,
   no reader is asleep in the buffer or on its way to sleep.  One that arrives after that finds the
   write published, and is gone before the writer gets `write_wait_mutex_` for the reset.
   `DrainedAtReset` is part of it;
4. `Memory`: what `last_write_info_` describes is in its region; only the region a `memcpy` is at
   work on is torn; and what a reader was told of is in its region or overwritten by a later write.
   `ReadsWhatItWasTold` follows, with the mutex that excludes the `memcpy`.

`ImplementsBroadcast` uses all four: `ReturnInfo` is `Receive` only if the write is published
(`Draining`) and the reader has not been told of it before; `Reset` is `Close` only if nobody waits.

**The interposed mutex.**  Who holds a mutex owns the original until a surplus unlock (`OwnInv`,
`UnlockInv`).  The table and the mutexes disagree within a call: `TrackedInv` says what must be in
the table and `TableInv` what may be, in every step of a call.  `DepthInv` carries the bound on
nesting through a call.

**The demos.**  `CounterInRange` needs that only the writer is ever inside `inc` and `dec`
(`OnlyWriter`), that outside them it has turned at the end it has reached (`TurnedInTime`) and that
inside there is room for the step it is yet to make (`RoomToMove`).

`BufferDemo` uses the buffer's invariant as it is: its steps are steps of `EventedBuffer` with the
writer and main as its writers (`BufferStep`), so `IInv` of that module holds in the demo.  On top of
it come where the threads stand while they are in the buffer (`WhereInv`), that the writer's writes
are numbered by their offsets and main's is the last (`NumberInv`), that a region holds its own write
or none and `last_write_info_` and the readers' copies of it say where a write is (`PlaceInv`), and
what a reader has after `wait_write` and after `read` (`ToldInv`).  That the writer may be ahead does
no harm because `ReadsWhatItWasTold` says that the region is not older than what the reader was told,
and `PlaceInv` that it cannot be newer.

**The search tree.**  `FindsTheKeys` speaks of one search, and what a search finds depends on every
link above it.  The invariant therefore says, without a path or a height, that every node can be
given an interval of keys (`Shaped`): the root has all keys, a node lies in its interval and splits
it between its children (`Within`, `Linked`), where a child is missing its part holds no node
(`Complete`), and two intervals are apart or one lies on one side of the other's node (`Nested`).
The recursive search is a function because the interval of a child is narrower than its parent's: the
least width at which it could fail does not exist (`Smallest`, `DescentExists`), and the same
argument says where it ends (`Nearest`), so that it is exact (`SearchExact`).

* *Insertion*: the search ends where the key's part of an interval is missing, and the new node gets
  that part (`AddRight`, `AddLeft`, `AddRoot`).
* *Erasing*: `Unlink` cuts a node off with both subtrees (`Cut`). The left one goes back to where the
  node was, because everything else is outside the node's interval (`LeftBack`); the right one goes
  below the largest key of the left one (`RightBack`).  The intervals that met at the node are
  stretched over it (`Splice`), for the largest key to the end of the right subtree.  A missing
  subtree is the undefined behaviour of 3.3, and the erasure that does not run into it keeps the
  shape (`EraseWorks`).
* *`parent_`* names the node above for every node but the root, at every step.  A right subtree that
  becomes the tree keeps the erased node as its parent (`RootRight`).  That happens only in the
  rollback of a range that was inserted into an empty tree, since the root of any other tree is not
  erased (`Extends`); such a root is itself one of the range's, and erasing it would follow the
  deleted parent.  So no such root is left when a rollback ends (`RootFree`).
* *The refinement*: during a range insertion the nodes are the old ones, with their values, and the
  range's keys inserted and not erased yet, which are new and different (`Ranged`).  When the last of
  them is erased, the tree says what it said before.

The invariant was checked by TLC with five keys and ranges of four before it was proved.

**`shared_ptr`.**  `SharedInv` is about behaviours that have not been undefined yet. `Sound` says for
every block: the shared count is the number of its shared handles, and one more for a block that
`operator=` swapped in and left behind (`assigned`); the weak count is right unless a `weak_ptr` was
copied without counting (`uncounted`); the block is freed exactly when neither count is left.
Different blocks have different objects, and an object is deleted when its block has no shared count,
unless it is in `revived`.  Lemmas say what `Sound` becomes when one handle of one block is added or
dropped, a count moves, a block is made or released; each operation is a chain of such steps on the
memory record, from one sound state to another or to undefined behaviour with its reason.

**`unique_ptr`, `scoped_ptr`, the singleton and the lazy strings.** `PtrInv`: as long as no raw
pointer was given to a second owner (`misused`), two pointers never have the same object and the
objects that live are those that have an owner; nothing else leads to a second delete; and all
clients have the same instance, which no pointer has. `LazyInv`: the reference count of a buffer is
the number of strings that have it (`Counted`), and its characters, with one zero, two or more, are
those that each of these strings should have (`AllSay`). An operation gives one string a buffer and
leaves the characters of all buffers still in use alone (`Gives`).

**The immutable strings.**  `Owned`, `Text`, `unlazy` and `advance` are recursive functions over trees
of buffers.  They are well defined because something gets smaller, not because a number counts down:
no buffer is a part of itself, so the buffers have ranks, above the sum of the ranks of their parts
even (`HeapIsWeighted`); a recursion over anything that has a measure in the naturals gives a function
(`MeasureRecursion`), and what holds wherever it holds below holds everywhere (`MeasureInduct`).  A
walk gets smaller by the ranks of what is on its stack (`OnwardGoesDown`).

* *Flattening*: `unlazy` leaves a buffer as it is or makes it say in one piece what its parts said
  (`Cuts`), unless an allocation fails (`UnlazyFlattens`); so no text changes (`TextAgrees`), that of a
  node whose halves share buffers included.  When an allocation fails, a node that is flat by then has
  the length of what it said, and characters of it or none (`Blots`, `UnlazyBlurs`); so has every tree
  above it (`TextBlurs`), and concatenating, copying and flattening such trees again keeps that
  (`TreesBlur`).
* *What is alive* has its parts alive (`LiveCloses`), so that freeing the others changes no text and
  no ranks (`SweptIs`), and a new buffer is a part of nothing (`MakeFits`).
* *The walk*: `Ahead` is the text a stack of steps has before it, the rest of the top buffer first.
  Going down, up or past an empty buffer keeps it (`OnwardKeeps`), stopping takes one character off
  (`HaltReads`), so `advance` stops at the next character or, if there is none, at the end
  (`AdvanceWalks`).  `WalkInv` says that what was passed, the character that is shown and what is ahead
  are the text of the string, and a flattening of buffers that are not on the stack keeps that
  (`BecomesWalks`).

This proof is how `WalksTheText` was corrected.  It used to claim the iterator also after an
allocation had failed; but a failed flattening leaves garbage in a part that is flat from then on, and
an iterator that goes down to that part later shows the garbage.  It takes four buffers, which the run
has not.

**The streams.**  `StreamInv` says of each stream that was not moved from that its position in the
file is not inside an item (`Between`) and behind as many items as it has yielded and still keeps in
its array (`Passed`, `Total`); at the end of the file it may have counted one more, when the file
does not end inside the last item.  The array keeps what comes next (`Keeps`), what was yielded was
next in its time (`Yields`), and for lines the slots behind are empty, since a string is appended to
what is in the slot (`Cleared`).  Extracting an item either fails at the end of the file or takes the
next one and moves behind it (`ExtractExtracts`); `Refill` is that, slot by slot (`FillNextSound`,
`RefillSound`).  The invariant was checked by TLC with five reads before it was proved.

**The pipelines.**  Since `to_vector`, `count` and `any` begin with `reset`, the invariant of the
program's steps is types only (`EnumeratorInv`), and the theorem is about what the loops compute, for
every pipeline and vector.  `IsNext` says where the next element is that passes the first k stages;
each stage's `move_next` goes there if its parent's does (`SelectMove`, `WhereMove`), so the pipeline
does (`MoveIs`).  `Lazy` is what an enumerator at a position has come past: the loop of `to_vector`
has exactly that after every round, and after as many rounds as there are elements, and one more, it
is at the end (`IterateRuns`, `ToVectorIs`).  On the eager side, what `where` and `select` make of
`Lazy` for k stages is `Lazy` for k + 1 (`LazyWhere`, `LazySelect`, `EagerIs`).

The loops are recursive functions.  That such a function exists is shown by induction on naturals,
with sets in the place of predicates (`Induct`, from the least counterexample), for any step `h`
(`Recursion`) and for the search of `where` (`Search`); that it is the one of the model, because two
functions with the same equations are equal (`Unique`).

**The stack, the monitors and the events.**  A thread in main's loop that has not been raced has an
element to use (`StackInv`).  Exactly one monitor of the thread that has the mutex of an object
carries its lock, and none of any other thread (`MonitorInv`), through every move and swap.
`EventInv` relates a handler's place in the vector to the id its deleter has (`DeletersName`), also
after removals and after an addition that failed, and says what each loop of `fire` has called by
the time it gets to a handler (`FirePasses`), and that it called none after its removal.

**The injector.**  `DataInv` and `FrameInv` give types and the stack of calls: a visited set for each
root frame, and frames that were made for a dependency of the frame below.  A step pushes a frame,
goes on in the top one, returns to the caller or cuts the stack down to a root (`InjectorSteps`), and
each invariant is proved once for each of these kinds.  `WiredInv`: a frame has the dependencies it
has passed, and what is stored has all of its own.  `StayInv`: a reference that was not
given out early has the serial of what is stored, and no frame is making its id; serials only grow.
`CauseInv`: a frame above another, without a `get` of a factory in
between, is for an id the other depends on (`Chain`); what the outermost `get` has visited, its own
frames are making; and what is stored is on no cycle.  `ReachIn` is defined by the sets that are
closed under dependencies, so that the proof needs no induction over paths.

The proof of `StayInv` is how a case `ReferencesStay` had forgotten was found: with three instances
TLC had met no factory whose nested `get` makes an id that is in progress further down than the
factory's own.  `BeingMade` now looks at the whole stack, and the run builds four instances.

**The dispatcher and the iterators.**  `DispatchesByType` is inductive with the types: a registration
is the last one of its two types, and leaves what is said of all other pairs alone.  `IteratorInv`
adds to `IteratorsVisitAll` where a loop stands: at an element of a container that is not empty, with
no empty one before it (`AtElement`); at a letter, which is the next one by `NextAlpha`; or behind
the number whose sum comes next (`StreamInv`).

### 4.1 What is only model-checked

* liveness (`TargetWakes`, `WritesEnd`, `WriterFinishes`, `SkipsAndUnlocksReturn`, ...) and the
  fairness part of `Broadcasts`: TLAPS has no `ENABLED`;
* the invariant of the run `sequences`, for the bounds above: `FunctionsAgree`, which is
  `AlgorithmsAgree` and `RoundTrips`.
  `Algorithms` and `Serialization` are written with recursive operators over nested
  values and sequences, which the provers cannot reason about.

## 5. What is not modelled

`PROJECT.json` names every component with the reason.  In short:

* pure input and output: `virtual_streams`, the calculator and the command loop of `bot_helper`,
  `inputed_filter`, the printing and the matrices of `memory`, `vfunc`'s shapes, everything logged
  under `log_mutex`;
* what the compiler does: traits, static assertions, log macros, template
  instantiation;
* what does not compile: `exchange()` of `thread_safe_obj`, the copy of a const `std_array`, the
  assignment templates of `weak_ptr`;
* floating point (`dfloat`): TLC has no such numbers;
* `get()` of the counter, which changes nothing, and the contents of bytes in the buffer;
* allocation inside the table of `libmypthread` that would enter the interposed function again (the
  source's own disclaimer);
* readers of the buffer that wait again without having read, which the program has not.

`DataMonitor` has more threads than the program: two that take the monitors of two objects in opposite
orders block each other, which is one reason why `libraries` does not check deadlock.  The program
takes its monitors from one thread.

## 6. Plan

Every safety invariant of the runs but that of `sequences` is a theorem, and both refinements are
proved as far as they are about steps.  `AlgorithmsAgree` and `RoundTrips` are about single functions
on data; they stay with TLC.  With the recursive operators of `Algorithms` turned into functions, the
loops of the sorts and of `set_add` could be reasoned about as those of `Enumerators` and `ImString`
are.
