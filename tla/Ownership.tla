------------------------------ MODULE Ownership ------------------------------
(***************************************************************************)
(* The components that own memory or a file: shared_ptr and weak_ptr, the  *)
(* pointers with one owner and the singleton, the string over shared       *)
(* buffers, the immutable strings over trees of them, the streams that can *)
(* be copied and moved, and the lazy pipelines, which own their            *)
(* enumerators.                                                            *)
(* They do not interact: component says which one a behaviour is about,    *)
(* and the others keep their initial values.                               *)
(***************************************************************************)
EXTENDS SharedPtr

CONSTANTS
  Ptrs, Clients, MaxMade,                   \* OwningPtrs
  Strings, Chars, NUL, Literals,            \* LazyString
  MaxLen, MaxBufs,
  Immutables, Pieces, MaxText, MaxTrees,    \* ImString
  Streams, Bytes, NL, Files,                \* PrefetchStream
  PREFETCH_SIZE, MaxRead,
  Enumerables, Values, Predicates,          \* Enumerators
  Transforms, MaxSize, MaxStages, MaxNodes

ASSUME OwnersAssumption == MaxMade \in Nat

ASSUME StringsAssumption ==
  /\ IsFiniteSet(Strings) /\ NUL \notin Chars /\ Literals \subseteq Seq(Chars)
  /\ MaxLen \in Nat /\ MaxBufs \in Nat

ASSUME ImmutablesAssumption == Pieces \subseteq Seq(Chars) /\ MaxTrees \in Nat

ASSUME StreamsAssumption ==
  NL \in Bytes /\ Files \subseteq Seq(Bytes) /\ PREFETCH_SIZE \in Nat /\ MaxRead \in Nat

ASSUME PipelinesAssumption == Transforms \subseteq [Values -> Values] /\ MaxSize \in Nat

VARIABLES
  component,
  ptr_, instance_, made, live, deletedTwice, misused,          \* OwningPtrs
  buf_, heap, modifier, ideal, grown, lazyUndefined,           \* LazyString
  shared_imstring_buf_, bufs, dfs_stack_,                      \* ImString
  walked, said, unlazyFailed,
  file, lines, in, streamUndefined,                            \* PrefetchStream
  vector, enumerator_, nodes, lazyMisused                      \* Enumerators

O == INSTANCE OwningPtrs WITH undefined <- deletedTwice
L == INSTANCE LazyString WITH undefined <- lazyUndefined
I == INSTANCE ImString
       WITH Strings <- Immutables, Characters <- Chars, Literals <- Pieces, MaxLen <- MaxText,
            MaxBufs <- MaxTrees, ideal <- said, failed <- unlazyFailed
P == INSTANCE PrefetchStream WITH undefined <- streamUndefined
E == INSTANCE Enumerators WITH undefined <- lazyMisused

ptrVars == <<ptr_, instance_, made, live, deletedTwice, misused>>
lazyVars == <<buf_, heap, modifier, ideal, grown, lazyUndefined>>
treeVars == <<shared_imstring_buf_, bufs, dfs_stack_, walked, said, unlazyFailed>>
streamVars == <<file, lines, in, streamUndefined>>
enumeratorVars == <<vector, enumerator_, nodes, lazyMisused>>

OwnershipInit ==
  /\ component \in {"shared_ptr", "unique_ptr", "lazy_string", "imstring", "prefetch_stream", "enumerable"}
  /\ Init /\ O!Init /\ L!Init /\ I!Init
  /\ IF component = "prefetch_stream" THEN P!Init
     ELSE file = <<>> /\ lines = FALSE /\ in = [s \in Streams |-> P!NoStream]
          /\ streamUndefined = FALSE
  /\ IF component = "enumerable" THEN E!Init
     ELSE vector = <<>> /\ enumerator_ = [e \in Enumerables |-> 0] /\ nodes = <<>>
          /\ lazyMisused = FALSE

OwnershipNext ==
  /\ UNCHANGED component
  /\ \/ /\ component = "shared_ptr" /\ Next
        /\ UNCHANGED <<ptrVars, lazyVars, treeVars, streamVars, enumeratorVars>>
     \/ /\ component = "unique_ptr" /\ O!Next
        /\ UNCHANGED <<vars, lazyVars, treeVars, streamVars, enumeratorVars>>
     \/ /\ component = "lazy_string" /\ L!Next
        /\ UNCHANGED <<vars, ptrVars, treeVars, streamVars, enumeratorVars>>
     \/ /\ component = "imstring" /\ I!Next
        /\ UNCHANGED <<vars, ptrVars, lazyVars, streamVars, enumeratorVars>>
     \/ /\ component = "prefetch_stream" /\ P!Next
        /\ UNCHANGED <<vars, ptrVars, lazyVars, treeVars, enumeratorVars>>
     \/ /\ component = "enumerable" /\ E!Next
        /\ UNCHANGED <<vars, ptrVars, lazyVars, treeVars, streamVars>>

OwnershipSpec ==
  OwnershipInit
  /\ [][OwnershipNext]_<<component, vars, ptrVars, lazyVars, treeVars, streamVars, enumeratorVars>>
-----------------------------------------------------------------------------
(* scoped_ptr, unique_ptr, the singleton: one owner; lazy_string's buffers: counted owners. *)
OwnedOnce == O!OwnedOnce /\ L!CountsStrings

(* lazy_string: writing to a string changes no other one. *)
TextIsPrivate == L!TextIsPrivate

(***************************************************************************)
(* immutable_string: a string says the text it was made with, however it   *)
(* is read, or, after an allocation of c_str() has failed, has no wrong    *)
(* character.                                                              *)
(***************************************************************************)
ReadsItsText == I!SaysItsText /\ I!WalksTheText

(* move_streams: a prefetch_stream yields the items of its file in order. *)
ReadsInOrder == P!ReadsInOrder

(* linqcpp_lazy gives what linqcpp gives. *)
LazyIsEager == E!LazyIsEager
=============================================================================
