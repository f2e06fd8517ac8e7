-------------------------- MODULE Ownership_proofs --------------------------
(***************************************************************************)
(* What the components that own memory or a file promise, for any number   *)
(* of handles, pointers, clients, strings, objects, buffers and streams,   *)
(* and any files.                                                          *)
(***************************************************************************)
EXTENDS Ownership, FiniteSetTheorems, SequenceTheorems, WellFoundedInduction, TLAPS

LEMMA PtrCardinality == \A S : O!Cardinality(S) = Cardinality(S)
BY DEF O!Cardinality, Cardinality

LEMMA StringCardinality == \A S : L!Cardinality(S) = Cardinality(S)
BY DEF L!Cardinality, Cardinality

LEMMA Smallest ==
  ASSUME NEW T \in SUBSET Nat, T # {}
  PROVE  \E x \in T : \A y \in T : x <= y
<1> DEFINE R == {ss \in Nat \X Nat : ss[1] < ss[2]}
<1>1. IsWellFoundedOn(R, Nat) BY NatLessThanWellFounded, Zenon DEF OpToRel
<1>2. \A y, z \in Nat : y < z => <<y, z>> \in R OBVIOUS
<1> HIDE DEF R
<1>3. PICK x \in T : \A y \in T : ~(<<y, x>> \in R) BY <1>1, WFMin
<1> QED
  <2> SUFFICES ASSUME NEW y \in T PROVE x <= y
      OBVIOUS
  <2>1. ~(y < x) BY <1>2, <1>3
  <2> QED BY <2>1

(* The owners of b are those of K that f says have it.  When h alone
   changes what it has, the number of owners of every b follows. *)
At(K, f, b) == {h \in K : f[h] = b}

Moves(K, h, f, g) == h \in K /\ \A k \in K \ {h} : g[k] = f[k]

LEMMA MovedCount ==
  ASSUME NEW K, IsFiniteSet(K), NEW f, NEW g, NEW h, Moves(K, h, f, g)
  PROVE  \A b : /\ Cardinality(At(K, f, b)) \in Nat /\ Cardinality(At(K, g, b)) \in Nat
                /\ Cardinality(At(K, g, b)) + (IF f[h] = b THEN 1 ELSE 0)
                     = Cardinality(At(K, f, b)) + (IF g[h] = b THEN 1 ELSE 0)
<1> TAKE b
<1>0. h \in K BY DEF Moves
<1>1. At(K, f, b) \ {h} = At(K, g, b) \ {h} BY DEF At, Moves
<1>2. /\ IsFiniteSet(At(K, f, b)) /\ Cardinality(At(K, f, b)) \in Nat
      /\ IsFiniteSet(At(K, g, b)) /\ Cardinality(At(K, g, b)) \in Nat
      BY FS_Subset, FS_CardinalityType DEF At
<1>3. Cardinality(At(K, f, b) \ {h})
        = IF f[h] = b THEN Cardinality(At(K, f, b)) - 1 ELSE Cardinality(At(K, f, b))
      BY <1>0, <1>2, FS_RemoveElement DEF At
<1>4. Cardinality(At(K, g, b) \ {h})
        = IF g[h] = b THEN Cardinality(At(K, g, b)) - 1 ELSE Cardinality(At(K, g, b))
      BY <1>0, <1>2, FS_RemoveElement DEF At
<1>5. CASE f[h] = b BY <1>1, <1>2, <1>3, <1>4, <1>5
<1>6. CASE f[h] # b BY <1>1, <1>2, <1>3, <1>4, <1>6
<1> QED BY <1>5, <1>6

LEMMA NobodyCounted ==
  ASSUME NEW K, IsFiniteSet(K), NEW f, NEW b
  PROVE  /\ Cardinality(At(K, f, b)) \in Nat /\ Cardinality(At(K, f, b)) <= Cardinality(K)
         /\ Cardinality(At(K, f, b)) = 0 <=> \A h \in K : f[h] # b
<1>1. IsFiniteSet(At(K, f, b)) /\ Cardinality(At(K, f, b)) <= Cardinality(K) BY FS_Subset DEF At
<1>2. Cardinality(At(K, f, b)) \in Nat BY <1>1, FS_CardinalityType
<1>3. Cardinality(At(K, f, b)) = 0 <=> At(K, f, b) = {} BY <1>1, FS_EmptySet
<1> QED BY <1>1, <1>2, <1>3 DEF At

-----------------------------------------------------------------------------
(* scoped_ptr, unique_ptr and the singleton.                               *)

Owner(o) == (\E p \in Ptrs : ptr_[p] = o) \/ (\E c \in Clients : instance_[c] = o)

PtrTypes ==
  /\ made \in Nat /\ ptr_ \in [Ptrs -> Int] /\ instance_ \in [Clients -> Int]
  /\ \A o \in live : o \in Int /\ 0 < o /\ o <= made
  /\ \A p \in Ptrs : -1 <= ptr_[p] /\ ptr_[p] <= made
  /\ \A c \in Clients : 0 <= instance_[c] /\ instance_[c] <= made

(* There is one instance, which no pointer owns; it lives as long as
   nothing was deleted twice, which reset() of an owned pointer alone can
   cause. *)
OneInstance ==
  /\ \A c, d \in Clients : instance_[c] > 0 /\ instance_[d] > 0 => instance_[c] = instance_[d]
  /\ \A p \in Ptrs, c \in Clients : ptr_[p] > 0 => ptr_[p] # instance_[c]

InstanceLives == ~deletedTwice => \A c \in Clients : instance_[c] > 0 => instance_[c] \in live

OnlyMisused == deletedTwice => misused

OneOwner ==
  ~misused =>
    /\ \A o \in Nat \ {0} : o \in live <=> Owner(o)
    /\ \A p, q \in Ptrs : p # q /\ ptr_[p] > 0 => ptr_[p] # ptr_[q]

PtrInv == PtrTypes /\ OneInstance /\ InstanceLives /\ OnlyMisused /\ OneOwner

LEMMA PtrInit == O!Init => PtrInv
BY DEF O!Init, O!None, O!Null, PtrInv, PtrTypes, OneInstance, InstanceLives, OnlyMisused,
   OneOwner, Owner

LEMMA PtrStep ==
  ASSUME PtrInv, O!Next
  PROVE  PtrInv'
<1> USE DEF O!Exists, O!None, O!Null, O!New, O!Makes, O!Deletes, O!Keeps, PtrInv
<1>a. \A p \in Ptrs : ~misused /\ ptr_[p] # -1 /\ ptr_[p] # 0 => ptr_[p] \in live
      BY DEF PtrTypes, OneOwner, Owner
<1>b. \A c \in Clients : ~deletedTwice /\ instance_[c] # 0 => instance_[c] \in live
      BY DEF PtrTypes, InstanceLives
<1>1. ASSUME NEW p \in Ptrs, O!construct(p), ~deletedTwice
      PROVE  PtrInv'
  <2>1. PtrTypes' BY <1>1 DEF O!construct, PtrTypes
  <2>2. OneInstance' BY <1>1 DEF O!construct, PtrTypes, OneInstance
  <2>3. InstanceLives' BY <1>1 DEF O!construct, PtrTypes, OneInstance, InstanceLives
  <2>4. OnlyMisused'
    <3>1. misused' = misused BY <1>1 DEF O!construct
    <3>2. ~deletedTwice' BY <1>1 DEF O!construct
    <3> QED BY <3>1, <3>2, Zenon DEF OnlyMisused
  <2>5. OneOwner' BY <1>1 DEF O!construct, PtrTypes, OneInstance, OneOwner, Owner
  <2> QED BY <2>1, <2>2, <2>3, <2>4, <2>5
<1>2. ASSUME NEW p \in Ptrs, O!reset(p), ~deletedTwice
      PROVE  PtrInv'
  <2>1. PtrTypes' BY <1>2 DEF O!reset, PtrTypes
  <2>2. OneInstance' BY <1>2 DEF O!reset, PtrTypes, OneInstance
  <2>3. InstanceLives' BY <1>2 DEF O!reset, PtrTypes, OneInstance, InstanceLives
  <2>4. OnlyMisused'
    <3>1. misused => misused' BY <1>2 DEF O!reset
    <3>2. deletedTwice' => misused BY <1>2, <1>a DEF O!reset
    <3> QED BY <3>1, <3>2, Zenon DEF OnlyMisused
  <2>5. OneOwner' BY <1>2 DEF O!reset, PtrTypes, OneInstance, OneOwner, Owner
  <2> QED BY <2>1, <2>2, <2>3, <2>4, <2>5
<1>3. ASSUME NEW p \in Ptrs, O!destroy(p), ~deletedTwice
      PROVE  PtrInv'
  <2>1. PtrTypes' BY <1>3 DEF O!destroy, PtrTypes
  <2>2. OneInstance' BY <1>3 DEF O!destroy, PtrTypes, OneInstance
  <2>3. InstanceLives' BY <1>3 DEF O!destroy, PtrTypes, OneInstance, InstanceLives
  <2>4. OnlyMisused' BY <1>3, <1>a, Zenon DEF O!destroy, OnlyMisused
  <2>5. OneOwner' BY <1>3 DEF O!destroy, PtrTypes, OneInstance, OneOwner, Owner
  <2> QED BY <2>1, <2>2, <2>3, <2>4, <2>5
<1>4. ASSUME NEW p \in Ptrs, NEW q \in Ptrs, O!MoveConstruct(p, q) \/ O!Swap(p, q)
      PROVE  PtrInv'
  <2>1. PtrTypes' BY <1>4 DEF O!MoveConstruct, O!Swap, PtrTypes
  <2>2. OneInstance' BY <1>4 DEF O!MoveConstruct, O!Swap, PtrTypes, OneInstance
  <2>3. InstanceLives' BY <1>4 DEF O!MoveConstruct, O!Swap, PtrTypes, OneInstance, InstanceLives
  <2>4. OnlyMisused' BY <1>4, Zenon DEF O!MoveConstruct, O!Swap, OnlyMisused
  <2>5. OneOwner' BY <1>4 DEF O!MoveConstruct, O!Swap, PtrTypes, OneInstance, OneOwner, Owner
  <2> QED BY <2>1, <2>2, <2>3, <2>4, <2>5
<1>5. ASSUME NEW p \in Ptrs, NEW q \in Ptrs, O!MoveAssign(p, q), ~deletedTwice
      PROVE  PtrInv'
  <2>1. PtrTypes' BY <1>5 DEF O!MoveAssign, PtrTypes
  <2>2. OneInstance' BY <1>5 DEF O!MoveAssign, PtrTypes, OneInstance
  <2>3. InstanceLives' BY <1>5 DEF O!MoveAssign, PtrTypes, OneInstance, InstanceLives
  <2>4. OnlyMisused' BY <1>5, <1>a, Zenon DEF O!MoveAssign, OnlyMisused
  <2>5. OneOwner' BY <1>5 DEF O!MoveAssign, PtrTypes, OneInstance, OneOwner, Owner
  <2> QED BY <2>1, <2>2, <2>3, <2>4, <2>5
<1>6. ASSUME NEW c \in Clients, O!get_instance(c), ~deletedTwice
      PROVE  PtrInv'
  <2>1. CASE O!Held = {}
    <3>1. \A d \in Clients : instance_[d] = 0 BY <2>1 DEF O!Held, PtrTypes
    <3>2. PtrTypes' BY <1>6, <2>1 DEF O!get_instance, PtrTypes
    <3>3. OneInstance' BY <1>6, <2>1, <3>1 DEF O!get_instance, PtrTypes, OneInstance
    <3>4. InstanceLives' BY <1>6, <2>1, <3>1 DEF O!get_instance, PtrTypes, OneInstance, InstanceLives
    <3>5. OnlyMisused' BY <1>6, <2>1, Zenon DEF O!get_instance, OnlyMisused
    <3>6. OneOwner' BY <1>6, <2>1, <3>1 DEF O!get_instance, PtrTypes, OneInstance, OneOwner, Owner
    <3> QED BY <3>2, <3>3, <3>4, <3>5, <3>6
  <2>2. CASE O!Held # {}
    <3> DEFINE o == CHOOSE o \in O!Held : TRUE
    <3>1. o \in O!Held BY <2>2
    <3>2. PICK d \in Clients : instance_[d] = o /\ o # 0 BY <3>1 DEF O!Held
    <3>3. instance_' = [instance_ EXCEPT ![c] = o] /\ UNCHANGED <<made, live, deletedTwice, ptr_, misused>>
          BY <1>6, <2>2 DEF O!get_instance
    <3> HIDE DEF o
    <3>4. PtrTypes' BY <3>2, <3>3 DEF PtrTypes
    <3>5. OneInstance' BY <3>2, <3>3 DEF PtrTypes, OneInstance
    <3>6. InstanceLives' BY <3>2, <3>3 DEF PtrTypes, OneInstance, InstanceLives
    <3>7. OnlyMisused' BY <3>3, Zenon DEF OnlyMisused
    <3>8. OneOwner' BY <3>2, <3>3 DEF PtrTypes, OneInstance, OneOwner, Owner
    <3> QED BY <3>4, <3>5, <3>6, <3>7, <3>8
  <2> QED BY <2>1, <2>2
<1>7. ASSUME NEW c \in Clients, O!ResetInstance(c), ~deletedTwice
      PROVE  PtrInv'
  <2>1. PtrTypes' BY <1>7 DEF O!ResetInstance, O!DiesWith, PtrTypes
  <2>2. OneInstance' BY <1>7 DEF O!ResetInstance, O!DiesWith, PtrTypes, OneInstance
  <2>3. InstanceLives' BY <1>7 DEF O!ResetInstance, O!DiesWith, PtrTypes, OneInstance, InstanceLives
  <2>4. OnlyMisused' BY <1>7, <1>b, Zenon DEF O!ResetInstance, O!DiesWith, OnlyMisused
  <2>5. OneOwner' BY <1>7 DEF O!ResetInstance, O!DiesWith, PtrTypes, OneInstance, OneOwner, Owner
  <2> QED BY <2>1, <2>2, <2>3, <2>4, <2>5
<1> QED BY <1>1, <1>2, <1>3, <1>4, <1>5, <1>6, <1>7 DEF O!Next

LEMMA PtrInvImpliesOwnedOnce == PtrInv => O!OwnedOnce
<1> SUFFICES ASSUME PtrInv PROVE O!OwnedOnce
    OBVIOUS
<1> USE DEF O!Null, PtrInv
<1>1. \A x, y \in O!Held : x = y BY DEF O!Held, PtrTypes, OneInstance
<1>2. Cardinality(O!Held) \in {0, 1}
  <2>1. CASE O!Held = {} BY <2>1, FS_EmptySet
  <2>2. CASE O!Held # {}
    <3>1. PICK x : O!Held = {x} BY <1>1, <2>2
    <3> QED BY <3>1, FS_Singleton
  <2> QED BY <2>1, <2>2
<1>3. ~deletedTwice => O!Held \subseteq live BY DEF O!Held, PtrTypes, InstanceLives
<1>4. ~misused => live = O!Held \cup {ptr_[p] : p \in {q \in Ptrs : ptr_[q] > 0}}
      BY DEF O!Held, PtrTypes, OneOwner, Owner
<1>5. ~misused => \A p, q \in Ptrs : p # q /\ ptr_[p] > 0 => ptr_[p] # ptr_[q] BY DEF OneOwner
<1>6. deletedTwice => misused BY DEF OnlyMisused
<1> QED BY <1>2, <1>3, <1>4, <1>5, <1>6, PtrCardinality DEF O!OwnedOnce

-----------------------------------------------------------------------------
(* lazy_string: what a buffer says.                                        *)

Letters == Chars \cup {NUL}

(* A string that += never made has its text and one zero; one that += made
   once has two zeros; after that the buffer is longer than the text needs
   and ends with a zero. *)
Says(d, t, g) ==
  /\ d \in Seq(Letters) /\ t \in Seq(Chars) /\ g \in 0..2
  /\ g = 0 => d = t \o L!Zeros(1)
  /\ g = 1 => d = t \o L!Zeros(2)
  /\ g = 2 => Len(d) > Len(t) + 1 /\ d[Len(d)] = NUL

LEMMA ZerosAreLetters ==
  ASSUME NEW n \in Nat
  PROVE  /\ L!Zeros(n) \in Seq(Letters) /\ Len(L!Zeros(n)) = n
         /\ \A k \in 1..n : L!Zeros(n)[k] = NUL
BY DEF L!Zeros, Letters

LEMMA CharsAreLetters == \A t \in Seq(Chars) : t \in Seq(Letters)
BY DEF Letters

(* What strlen sees of a buffer with a zero is what comes before the first one. *)
LEMMA TextEndsAtTheZero ==
  ASSUME NEW d \in Seq(Letters), NEW k \in DOMAIN d, d[k] = NUL
  PROVE  \E z \in DOMAIN d :
           /\ d[z] = NUL /\ \A n \in 1..(z - 1) : d[n] # NUL
           /\ L!Text(d) = SubSeq(d, 1, z - 1)
<1> DEFINE Zs == {n \in DOMAIN d : d[n] = NUL}
           IsFirst(n) == d[n] = NUL /\ \A j \in 1..(n - 1) : d[j] # NUL
<1>1. Zs \in SUBSET Nat /\ Zs # {} /\ DOMAIN d = 1..Len(d) /\ Len(d) \in Nat OBVIOUS
<1>2. PICK z \in Zs : \A y \in Zs : z <= y BY <1>1, Smallest
<1>3. z \in DOMAIN d /\ IsFirst(z) BY <1>1, <1>2
<1> DEFINE first == CHOOSE n \in DOMAIN d : IsFirst(n)
<1>4. first \in DOMAIN d /\ IsFirst(first) BY <1>3
<1>5. L!Text(d) = SubSeq(d, 1, first - 1) BY DEF L!Text
<1> QED BY <1>4, <1>5

LEMMA TextOfSays ==
  ASSUME NEW d, NEW t, NEW g, Says(d, t, g)
  PROVE  /\ L!Text(d) \in Seq(Chars) /\ Len(L!Text(d)) < Len(d) /\ Len(t) < Len(d)
         /\ g < 2 => L!Text(d) = t /\ Len(d) = Len(t) + g + 1
<1>1. d \in Seq(Letters) /\ t \in Seq(Chars) /\ t \in Seq(Letters) /\ g \in 0..2
      BY CharsAreLetters DEF Says
<1>2. CASE g = 2
  <2>1. Len(d) > Len(t) + 1 /\ d[Len(d)] = NUL BY <1>2 DEF Says
  <2>2. Len(d) \in DOMAIN d BY <1>1, <2>1
  <2>3. PICK z \in DOMAIN d : /\ \A n \in 1..(z - 1) : d[n] # NUL
                              /\ L!Text(d) = SubSeq(d, 1, z - 1)
        BY <1>1, <2>1, <2>2, TextEndsAtTheZero
  <2>4. \A n \in 1..(z - 1) : d[n] \in Chars BY <1>1, <2>3 DEF Letters
  <2> QED BY <1>1, <1>2, <2>1, <2>3, <2>4, SubSeqProperties
<1>3. CASE g < 2
  <2>1. d = t \o L!Zeros(g + 1) BY <1>1, <1>3 DEF Says
  <2>2. /\ L!Zeros(g + 1) \in Seq(Letters) /\ Len(L!Zeros(g + 1)) = g + 1
        /\ \A k \in 1..(g + 1) : L!Zeros(g + 1)[k] = NUL
        BY <1>1, ZerosAreLetters
  <2>3. /\ Len(d) = Len(t) + g + 1
        /\ \A i \in 1..Len(d) : d[i] = IF i <= Len(t) THEN t[i] ELSE L!Zeros(g + 1)[i - Len(t)]
        BY <1>1, <2>1, <2>2, ConcatProperties
  <2>4. /\ \A n \in 1..Len(t) : d[n] = t[n] /\ d[n] # NUL
        /\ Len(t) + 1 \in DOMAIN d /\ d[Len(t) + 1] = NUL
        BY <1>1, <2>2, <2>3, StringsAssumption
  <2>5. PICK z \in DOMAIN d : /\ d[z] = NUL /\ \A n \in 1..(z - 1) : d[n] # NUL
                              /\ L!Text(d) = SubSeq(d, 1, z - 1)
        BY <1>1, <2>4, TextEndsAtTheZero
  <2>6. z = Len(t) + 1 BY <1>1, <2>4, <2>5
  <2>7. SubSeq(d, 1, Len(t)) = t BY <1>1, <2>3, <2>4, SubSeqProperties, SeqEqual
  <2> QED BY <1>1, <2>3, <2>5, <2>6, <2>7
<1> QED BY <1>1, <1>2, <1>3

LEMMA SaysConstructed ==
  ASSUME NEW t \in Seq(Chars)
  PROVE  Says(t \o L!Zeros(1), t, 0)
BY CharsAreLetters, ZerosAreLetters, ConcatProperties DEF Says

LEMMA SaysWritten ==
  ASSUME NEW d, NEW t, NEW g, Says(d, t, g), NEW ix \in 1..Len(t), NEW c \in Chars
  PROVE  Says([d EXCEPT ![ix] = c], [t EXCEPT ![ix] = c], g)
<1> DEFINE e == [d EXCEPT ![ix] = c]
           u == [t EXCEPT ![ix] = c]
<1>1. d \in Seq(Letters) /\ t \in Seq(Chars) /\ t \in Seq(Letters) /\ g \in 0..2 /\ c \in Letters
      BY CharsAreLetters DEF Says, Letters
<1>2. ix \in 1..Len(d) BY <1>1, TextOfSays
<1>3. /\ e \in Seq(Letters) /\ Len(e) = Len(d)
      /\ \A j \in 1..Len(d) : e[j] = IF j = ix THEN c ELSE d[j]
      BY <1>1, <1>2, ExceptSeq
<1>4. /\ u \in Seq(Chars) /\ u \in Seq(Letters) /\ Len(u) = Len(t)
      /\ \A j \in 1..Len(t) : u[j] = IF j = ix THEN c ELSE t[j]
      BY <1>1, ExceptSeq, CharsAreLetters
<1> HIDE DEF e, u
<1>5. CASE g = 2
  <2>1. Len(d) > Len(t) + 1 /\ d[Len(d)] = NUL BY <1>5 DEF Says
  <2>2. e[Len(e)] = NUL BY <1>1, <1>2, <1>3, <2>1
  <2> QED BY <1>1, <1>3, <1>4, <1>5, <2>1, <2>2 DEF Says
<1>6. CASE g < 2
  <2> DEFINE zs == L!Zeros(g + 1)
  <2>1. d = t \o zs
    <3>1. CASE g = 0 /\ g + 1 = 1 BY <3>1 DEF Says
    <3>2. CASE g = 1 /\ g + 1 = 2 BY <3>2 DEF Says
    <3> QED BY <1>1, <1>6, <3>1, <3>2
  <2>2. zs \in Seq(Letters) BY <1>1, ZerosAreLetters
  <2> HIDE DEF zs
  <2>3. /\ Len(t \o zs) = Len(t) + Len(zs)
        /\ \A i \in 1..Len(t) + Len(zs) : (t \o zs)[i] = IF i <= Len(t) THEN t[i] ELSE zs[i - Len(t)]
        BY <1>1, <2>2, ConcatProperties
  <2>4. /\ u \o zs \in Seq(Letters) /\ Len(u \o zs) = Len(u) + Len(zs)
        /\ \A i \in 1..Len(u) + Len(zs) : (u \o zs)[i] = IF i <= Len(u) THEN u[i] ELSE zs[i - Len(u)]
        BY <1>4, <2>2, ConcatProperties
  <2>5. \A i \in 1..Len(e) : e[i] = (u \o zs)[i] BY <1>1, <1>3, <1>4, <2>1, <2>2, <2>3, <2>4
  <2>6. e = u \o zs BY <1>1, <1>3, <1>4, <2>1, <2>3, <2>4, <2>5, SeqEqual
  <2> QED BY <1>1, <1>3, <1>4, <1>6, <2>6 DEF Says, zs
<1> QED BY <1>1, <1>5, <1>6 DEF e, u

LEMMA Prefix ==
  ASSUME NEW S, NEW s \in Seq(S), NEW k \in 0..Len(s)
  PROVE  /\ SubSeq(s, 1, k) \in Seq(S) /\ Len(SubSeq(s, 1, k)) = k
         /\ \A i \in 1..k : SubSeq(s, 1, k)[i] = s[i]
<1>1. k \in Int /\ k >= 0 /\ \A i \in 1..k : s[i] \in S OBVIOUS
<1>2. /\ SubSeq(s, 1, k) \in Seq(S) /\ Len(SubSeq(s, 1, k)) = IF 1 <= k THEN k - 1 + 1 ELSE 0
      /\ \A i \in 1..k - 1 + 1 : SubSeq(s, 1, k)[i] = s[1 + i - 1]
      BY <1>1, SubSeqProperties
<1> QED BY <1>1, <1>2

LEMMA SaysAppended ==
  ASSUME NEW d1, NEW t1, NEW g1, Says(d1, t1, g1), NEW d2, NEW t2, NEW g2, Says(d2, t2, g2)
  PROVE  Says(L!Appended(d1, d2), t1 \o t2, IF g1 + g2 >= 1 THEN 2 ELSE 1)
<1> DEFINE s == SubSeq(d1, 1, Len(d1) - 1)
           x == L!Text(d2)
           n == Len(d1) + Len(d2) - (Len(d1) - 1) - Len(x)
           zs == L!Zeros(n)
<1>1. /\ d1 \in Seq(Letters) /\ t1 \in Seq(Chars) /\ t1 \in Seq(Letters) /\ g1 \in 0..2
      /\ d2 \in Seq(Letters) /\ t2 \in Seq(Chars) /\ t2 \in Seq(Letters) /\ g2 \in 0..2
      BY CharsAreLetters DEF Says
<1>2. /\ x \in Seq(Letters) /\ Len(x) < Len(d2) /\ Len(t2) < Len(d2) /\ Len(t1) < Len(d1)
      /\ g2 < 2 => x = t2 /\ Len(d2) = Len(t2) + g2 + 1
      BY TextOfSays, CharsAreLetters
<1>3. L!Appended(d1, d2) = (s \o x) \o zs BY DEF L!Appended
<1> HIDE DEF x
<1>4. n \in Nat /\ n = Len(d2) + 1 - Len(x) /\ n >= 2 BY <1>1, <1>2
<1>5. zs \in Seq(Letters) /\ Len(zs) = n /\ \A k \in 1..n : zs[k] = NUL BY <1>4, ZerosAreLetters
<1> HIDE DEF n, zs
<1>6. /\ s \in Seq(Letters) /\ Len(s) = Len(d1) - 1
      /\ \A i \in 1..Len(s) : s[i] = d1[i]
  <2>1. Len(d1) - 1 \in 0..Len(d1) BY <1>1, <1>2
  <2> QED BY <1>1, <2>1, Prefix
<1> HIDE DEF s
<1>7. s \o x \in Seq(Letters) /\ Len(s \o x) = Len(d1) - 1 + Len(x) BY <1>1, <1>2, <1>6, ConcatProperties
<1>8. t1 \o t2 \in Seq(Chars) /\ Len(t1 \o t2) = Len(t1) + Len(t2) BY <1>1, ConcatProperties
<1>9. /\ (s \o x) \o zs \in Seq(Letters) /\ Len((s \o x) \o zs) = Len(d1) - 1 + Len(x) + n
      /\ ((s \o x) \o zs)[Len(d1) - 1 + Len(x) + n] = zs[n]
  <2> DEFINE y == s \o x
  <2>1. /\ y \o zs \in Seq(Letters) /\ Len(y \o zs) = Len(y) + Len(zs)
        /\ \A i \in 1..Len(y) + Len(zs) : (y \o zs)[i] = IF i <= Len(y) THEN y[i] ELSE zs[i - Len(y)]
        BY <1>5, <1>7, ConcatProperties
  <2>2. y \in Seq(Letters) /\ Len(y) = Len(d1) - 1 + Len(x) BY <1>7
  <2> HIDE DEF y
  <2>3. Len(y) \in Nat /\ n \in Nat /\ n >= 2 BY <1>4, <2>2
  <2>4. (y \o zs)[Len(y) + n] = zs[n] BY <1>5, <2>1, <2>3
  <2> QED BY <1>5, <2>1, <2>2, <2>3, <2>4 DEF y
<1>10. CASE g1 + g2 >= 1
  <2>1. Len((s \o x) \o zs) > Len(t1 \o t2) + 1 BY <1>1, <1>2, <1>4, <1>8, <1>9
  <2>2. ((s \o x) \o zs)[Len((s \o x) \o zs)] = NUL BY <1>4, <1>5, <1>9
  <2>3. Says((s \o x) \o zs, t1 \o t2, 2)
    <3> DEFINE w == (s \o x) \o zs
               t == t1 \o t2
    <3>1. w \in Seq(Letters) /\ t \in Seq(Chars) /\ Len(w) > Len(t) + 1 /\ w[Len(w)] = NUL
          BY <1>8, <1>9, <2>1, <2>2
    <3> HIDE DEF w, t
    <3>2. Says(w, t, 2) BY <3>1 DEF Says
    <3> QED BY <3>2 DEF w, t
  <2> QED BY <1>3, <1>10, <2>3
<1>11. CASE ~(g1 + g2 >= 1)
  <2>1. g1 = 0 /\ g2 = 0 BY <1>1, <1>11
  <2>2. x = t2 /\ n = 2 BY <1>1, <1>2, <1>4, <2>1
  <2>3. d1 = t1 \o L!Zeros(1) BY <2>1 DEF Says
  <2>4. L!Zeros(1) \in Seq(Letters) /\ Len(L!Zeros(1)) = 1 BY ZerosAreLetters
  <2>5. Len(d1) = Len(t1) + 1 /\ \A i \in 1..Len(t1) : d1[i] = t1[i]
    <3> DEFINE z == L!Zeros(1)
    <3>1. z \in Seq(Letters) /\ Len(z) = 1 /\ d1 = t1 \o z BY <2>3, <2>4
    <3> HIDE DEF z
    <3>2. /\ Len(t1 \o z) = Len(t1) + Len(z)
          /\ \A i \in 1..Len(t1) + Len(z) : (t1 \o z)[i] = IF i <= Len(t1) THEN t1[i] ELSE z[i - Len(t1)]
          BY <1>1, <3>1, ConcatProperties
    <3> QED BY <1>1, <3>1, <3>2
  <2>6. s = t1 BY <1>1, <1>6, <2>5, SeqEqual
  <2>7. (s \o x) \o zs = (t1 \o t2) \o L!Zeros(2) BY <2>2, <2>6 DEF zs
  <2>8. Says((s \o x) \o zs, t1 \o t2, 1) BY <1>8, <1>9, <2>7 DEF Says
  <2> QED BY <1>3, <1>11, <2>8
<1> QED BY <1>10, <1>11

-----------------------------------------------------------------------------
(* lazy_string: who has a buffer.                                          *)

Buffer == [ref_cntr_ : Nat, data : Seq(Letters)]
Heaps == [L!Bufs -> Buffer]

LEMMA BufferFields ==
  /\ \A x \in Buffer : x.ref_cntr_ \in Nat /\ x.data \in Seq(Letters)
  /\ \A n \in Nat, d \in Seq(Letters) : [ref_cntr_ |-> n, data |-> d] \in Buffer
  /\ L!Free \in Buffer /\ L!Free.ref_cntr_ = 0
BY DEF Buffer, L!Free

LEMMA AddRefEffect ==
  ASSUME NEW h \in Heaps, NEW b \in L!Bufs
  PROVE  /\ L!AddRef(h, b) \in Heaps
         /\ \A c \in L!Bufs :
              /\ L!AddRef(h, b)[c].ref_cntr_ = h[c].ref_cntr_ + (IF c = b THEN 1 ELSE 0)
              /\ L!AddRef(h, b)[c].data = h[c].data
BY SMTT(30) DEF L!AddRef, Heaps, Buffer

Releasable(h, b) == b = 0 \/ (b \in L!Bufs /\ h[b].ref_cntr_ > 0)

LEMMA ReleaseEffect ==
  ASSUME NEW h \in Heaps, NEW b, Releasable(h, b)
  PROVE  /\ L!Release(h, b) \in Heaps
         /\ \A c \in L!Bufs :
              /\ L!Release(h, b)[c].ref_cntr_ = h[c].ref_cntr_ - (IF c = b THEN 1 ELSE 0)
              /\ L!Release(h, b)[c].ref_cntr_ > 0 => L!Release(h, b)[c].data = h[c].data
<1>0. 0 \notin L!Bufs BY DEF L!Bufs
<1>1. CASE b = 0 BY <1>0, <1>1, BufferFields DEF L!Release, L!None, Heaps
<1>2. CASE b # 0 /\ h[b].ref_cntr_ = 1 /\ b \in L!Bufs
  <2>1. L!Release(h, b) = [h EXCEPT ![b] = L!Free] BY <1>2 DEF L!Release, L!None
  <2> QED BY <1>2, <2>1, BufferFields DEF Heaps
<1>3. CASE b # 0 /\ h[b].ref_cntr_ # 1 /\ b \in L!Bufs /\ h[b].ref_cntr_ > 0
  <2>1. L!Release(h, b) = [h EXCEPT ![b].ref_cntr_ = @ - 1] BY <1>3 DEF L!Release, L!None
  <2>2. h[b] \in Buffer /\ h[b].ref_cntr_ - 1 \in Nat /\ h[b].ref_cntr_ \in Nat
        BY <1>3 DEF Heaps, Buffer
  <2>3. \A c \in L!Bufs : h[c].ref_cntr_ \in Nat BY DEF Heaps, Buffer
  <2> QED BY <1>3, <2>1, <2>2, <2>3 DEF Heaps, Buffer
<1> QED BY <1>1, <1>2, <1>3 DEF Releasable

LEMMA AssignEffect ==
  ASSUME NEW h \in Heaps, NEW old, NEW b \in L!Bufs, Releasable(h, old)
  PROVE  /\ L!Assign(h, old, b) \in Heaps
         /\ \A c \in L!Bufs :
              /\ L!Assign(h, old, b)[c].ref_cntr_
                   = h[c].ref_cntr_ + (IF c = b THEN 1 ELSE 0) - (IF c = old THEN 1 ELSE 0)
              /\ L!Assign(h, old, b)[c].ref_cntr_ > 0 => L!Assign(h, old, b)[c].data = h[c].data
<1> DEFINE k == L!AddRef(h, b)
<1>1. /\ k \in Heaps
      /\ \A c \in L!Bufs : /\ k[c].ref_cntr_ = h[c].ref_cntr_ + (IF c = b THEN 1 ELSE 0)
                           /\ k[c].data = h[c].data
      BY AddRefEffect
<1>2. L!Assign(h, old, b) = L!Release(k, old) BY DEF L!Assign
<1> HIDE DEF k
<1>3. \A c \in L!Bufs : h[c].ref_cntr_ \in Nat BY BufferFields DEF Heaps
<1>4. Releasable(k, old) BY <1>1, <1>3 DEF Releasable
<1>5. /\ L!Release(k, old) \in Heaps
      /\ \A c \in L!Bufs :
           /\ L!Release(k, old)[c].ref_cntr_ = k[c].ref_cntr_ - (IF c = old THEN 1 ELSE 0)
           /\ L!Release(k, old)[c].ref_cntr_ > 0 => L!Release(k, old)[c].data = k[c].data
      BY <1>1, <1>4, ReleaseEffect
<1> QED BY <1>1, <1>2, <1>3, <1>5

LazyTypes ==
  /\ buf_ \in [Strings -> {0} \cup L!Bufs] /\ heap \in Heaps
  /\ ideal \in [Strings -> Seq(Chars)] /\ grown \in [Strings -> 0..2]

ModifierNames ==
  modifier # L!NoModifier => modifier.str \in Strings /\ modifier.ix \in Nat \ {0}

Counted == \A b \in L!Bufs : heap[b].ref_cntr_ = Cardinality(At(Strings, buf_, b))

AllSay == \A s \in Strings : buf_[s] # 0 => Says(heap[buf_[s]].data, ideal[s], grown[s])

LazyInv == LazyTypes /\ ModifierNames /\ Counted /\ AllSay

(* What an operation on s does: s gets the buffer b, which says t, the
   counts follow, and the buffers that were and are in use keep their
   characters. *)
Gives(s, b, t, g) ==
  /\ b \in {0} \cup L!Bufs /\ t \in Seq(Chars) /\ g \in 0..2
  /\ buf_' = [buf_ EXCEPT ![s] = b] /\ heap' \in Heaps
  /\ ideal' = [ideal EXCEPT ![s] = t] /\ grown' = [grown EXCEPT ![s] = g]
  /\ \A c \in L!Bufs :
       /\ heap'[c].ref_cntr_
            = heap[c].ref_cntr_ + (IF c = b THEN 1 ELSE 0) - (IF c = buf_[s] THEN 1 ELSE 0)
       /\ heap[c].ref_cntr_ > 0 /\ heap'[c].ref_cntr_ > 0 => heap'[c].data = heap[c].data
  /\ b # 0 => Says(heap'[b].data, t, g)

LEMMA HeldIsCounted ==
  ASSUME LazyTypes, Counted, NEW s \in Strings, buf_[s] # 0
  PROVE  heap[buf_[s]].ref_cntr_ > 0
<1>1. buf_[s] \in L!Bufs BY DEF LazyTypes
<1>2. /\ Cardinality(At(Strings, buf_, buf_[s])) \in Nat
      /\ Cardinality(At(Strings, buf_, buf_[s])) # 0
      BY StringsAssumption, NobodyCounted
<1> QED BY <1>1, <1>2 DEF Counted

LEMMA GivesKeepsLazyInv ==
  ASSUME LazyInv, ModifierNames', NEW s \in Strings, NEW b, NEW t, NEW g, Gives(s, b, t, g)
  PROVE  LazyInv'
<1> USE DEF LazyInv
<1>0. 0 \notin L!Bufs BY DEF L!Bufs
<1>1. LazyTypes' BY DEF Gives, LazyTypes
<1>2. Counted'
  <2> SUFFICES ASSUME NEW c \in L!Bufs
               PROVE  heap'[c].ref_cntr_ = Cardinality(At(Strings, buf_', c))
      BY DEF Counted
  <2>1. (\A x \in Strings \ {s} : buf_'[x] = buf_[x]) /\ buf_'[s] = b BY DEF Gives, LazyTypes
  <2>2. /\ Cardinality(At(Strings, buf_, c)) \in Nat /\ Cardinality(At(Strings, buf_', c)) \in Nat
        /\ Cardinality(At(Strings, buf_', c)) + (IF buf_[s] = c THEN 1 ELSE 0)
             = Cardinality(At(Strings, buf_, c)) + (IF b = c THEN 1 ELSE 0)
    <3>1. IsFiniteSet(Strings) BY StringsAssumption
    <3>2. Moves(Strings, s, buf_, buf_') BY <2>1 DEF Moves
    <3> QED BY <2>1, <3>1, <3>2, MovedCount
  <2>3. heap[c].ref_cntr_ = Cardinality(At(Strings, buf_, c)) BY DEF Counted
  <2>4. heap'[c].ref_cntr_
          = heap[c].ref_cntr_ + (IF c = b THEN 1 ELSE 0) - (IF c = buf_[s] THEN 1 ELSE 0)
        BY DEF Gives
  <2> QED BY <2>2, <2>3, <2>4
<1>3. AllSay'
  <2> SUFFICES ASSUME NEW x \in Strings, buf_'[x] # 0
               PROVE  Says(heap'[buf_'[x]].data, ideal'[x], grown'[x])
      BY DEF AllSay
  <2>1. CASE x = s BY <2>1 DEF Gives, LazyTypes
  <2>2. CASE x # s
    <3>1. buf_'[x] = buf_[x] /\ ideal'[x] = ideal[x] /\ grown'[x] = grown[x]
          BY <2>2 DEF Gives, LazyTypes
    <3>2. heap[buf_[x]].ref_cntr_ > 0 BY <3>1, HeldIsCounted
    <3>3. heap'[buf_[x]].ref_cntr_ > 0
      <4>1. buf_[x] \in L!Bufs BY <3>1 DEF LazyTypes
      <4>2. /\ Cardinality(At(Strings, buf_', buf_[x])) \in Nat
            /\ Cardinality(At(Strings, buf_', buf_[x])) # 0
            BY <3>1, StringsAssumption, NobodyCounted
      <4> QED BY <1>2, <4>1, <4>2 DEF Counted
    <3>4. heap'[buf_[x]].data = heap[buf_[x]].data BY <3>1, <3>2, <3>3 DEF Gives, LazyTypes
    <3> QED BY <3>1, <3>4 DEF AllSay
  <2> QED BY <2>1, <2>2
<1> QED BY <1>1, <1>2, <1>3

(* A fresh buffer, which nobody has, becomes the buffer of s. *)
LEMMA BecomesGives ==
  ASSUME LazyInv, NEW s \in Strings, NEW d \in Seq(Letters), L!Becomes(s, d)
  PROVE  \E b \in L!Bufs :
           /\ buf_' = [buf_ EXCEPT ![s] = b] /\ heap' \in Heaps /\ heap'[b].data = d
           /\ \A c \in L!Bufs :
                /\ heap'[c].ref_cntr_
                     = heap[c].ref_cntr_ + (IF c = b THEN 1 ELSE 0) - (IF c = buf_[s] THEN 1 ELSE 0)
                /\ heap[c].ref_cntr_ > 0 /\ heap'[c].ref_cntr_ > 0 => heap'[c].data = heap[c].data
<1> USE DEF LazyInv
<1> DEFINE old == buf_[s]
           b == L!Fresh(heap)
           h1 == L!New(heap, d)
           h2 == L!Assign(h1, old, b)
<1>0. 0 \notin L!Bufs /\ L!Bufs \subseteq Nat BY StringsAssumption DEF L!Bufs
<1>1. b \in L!Bufs /\ heap[b].ref_cntr_ = 0
  <2> DEFINE Free == L!Unused(heap)
  <2>1. Free \in SUBSET Nat /\ Free # {} /\ \A c \in Free : c \in L!Bufs /\ heap[c].ref_cntr_ = 0
        BY <1>0 DEF L!Unused, L!Becomes
  <2>2. b = CHOOSE c \in Free : \A e \in Free : c <= e BY DEF L!Fresh
  <2> HIDE DEF Free, b
  <2>3. b \in Free BY <2>1, <2>2, Smallest
  <2> QED BY <2>1, <2>3
<1>2. old \in {0} \cup L!Bufs /\ (old # 0 => heap[old].ref_cntr_ > 0) /\ old # b
      BY <1>0, <1>1, HeldIsCounted DEF LazyTypes
<1>3. \A c \in L!Bufs : heap[c].ref_cntr_ \in Nat BY BufferFields DEF LazyTypes, Heaps
<1>4. h1 = [heap EXCEPT ![b] = [ref_cntr_ |-> 1, data |-> d]] BY DEF L!New
<1>5. buf_' = [buf_ EXCEPT ![s] = b] /\ heap' = L!Release(h2, b) BY DEF L!Becomes
<1> HIDE DEF old, b, h1
<1>6. /\ h1 \in Heaps /\ h1[b].data = d /\ h1[b].ref_cntr_ = 1
      /\ \A c \in L!Bufs \ {b} : h1[c] = heap[c]
      BY <1>1, <1>4, BufferFields DEF LazyTypes, Heaps
<1>a. Releasable(h1, old) BY <1>2, <1>6 DEF Releasable
<1>7. /\ h2 \in Heaps
      /\ \A c \in L!Bufs :
           /\ h2[c].ref_cntr_
                = h1[c].ref_cntr_ + (IF c = b THEN 1 ELSE 0) - (IF c = old THEN 1 ELSE 0)
           /\ h2[c].ref_cntr_ > 0 => h2[c].data = h1[c].data
      BY <1>1, <1>6, <1>a, AssignEffect
<1> HIDE DEF h2
<1>8. h2[b].ref_cntr_ = 2 /\ h2[b].data = d BY <1>1, <1>2, <1>6, <1>7
<1>9. /\ heap' \in Heaps
      /\ \A c \in L!Bufs : /\ heap'[c].ref_cntr_ = h2[c].ref_cntr_ - (IF c = b THEN 1 ELSE 0)
                           /\ heap'[c].ref_cntr_ > 0 => heap'[c].data = h2[c].data
  <2>0. Releasable(h2, b) BY <1>1, <1>8 DEF Releasable
  <2> DEFINE h3 == L!Release(h2, b)
  <2>1. /\ h3 \in Heaps
        /\ \A c \in L!Bufs : /\ h3[c].ref_cntr_ = h2[c].ref_cntr_ - (IF c = b THEN 1 ELSE 0)
                             /\ h3[c].ref_cntr_ > 0 => h3[c].data = h2[c].data
        BY <1>7, <2>0, ReleaseEffect
  <2>2. heap' = h3 BY <1>5
  <2> HIDE DEF h3
  <2> QED BY <2>1, <2>2
<1>10. heap'[b].ref_cntr_ = 1 /\ heap'[b].data = d BY <1>1, <1>8, <1>9
<1>11. ASSUME NEW c \in L!Bufs, c # b
       PROVE  /\ heap'[c].ref_cntr_ = heap[c].ref_cntr_ - (IF c = old THEN 1 ELSE 0)
              /\ heap'[c].ref_cntr_ > 0 => heap'[c].data = heap[c].data
  <2>1. h1[c] = heap[c] /\ h1[c].ref_cntr_ \in Nat BY <1>3, <1>6, <1>11
  <2>2. h2[c].ref_cntr_ = h1[c].ref_cntr_ - (IF c = old THEN 1 ELSE 0) BY <1>7, <1>11, <2>1
  <2>3. heap'[c].ref_cntr_ = h2[c].ref_cntr_ BY <1>9, <1>11, <2>1, <2>2
  <2> QED BY <1>7, <1>9, <2>1, <2>2, <2>3
<1>12. ASSUME NEW c \in L!Bufs
       PROVE  /\ heap'[c].ref_cntr_
                   = heap[c].ref_cntr_ + (IF c = b THEN 1 ELSE 0) - (IF c = old THEN 1 ELSE 0)
              /\ heap[c].ref_cntr_ > 0 /\ heap'[c].ref_cntr_ > 0 => heap'[c].data = heap[c].data
  <2>1. CASE c = b BY <1>1, <1>2, <1>10, <2>1
  <2>2. CASE c # b BY <1>3, <1>11, <2>2
  <2> QED BY <2>1, <2>2
<1> QED BY <1>1, <1>5, <1>9, <1>10, <1>12 DEF old

LEMMA BecomesKeepsLazyInv ==
  ASSUME LazyInv, ModifierNames', NEW s \in Strings, NEW d, NEW t, NEW g, Says(d, t, g),
         L!Becomes(s, d), L!Remembers(s, t, g)
  PROVE  LazyInv'
<1>1. d \in Seq(Letters) /\ t \in Seq(Chars) /\ g \in 0..2 BY DEF Says
<1>2. PICK b \in L!Bufs :
        /\ buf_' = [buf_ EXCEPT ![s] = b] /\ heap' \in Heaps /\ heap'[b].data = d
        /\ \A c \in L!Bufs :
             /\ heap'[c].ref_cntr_
                  = heap[c].ref_cntr_ + (IF c = b THEN 1 ELSE 0) - (IF c = buf_[s] THEN 1 ELSE 0)
             /\ heap[c].ref_cntr_ > 0 /\ heap'[c].ref_cntr_ > 0 => heap'[c].data = heap[c].data
      BY <1>1, BecomesGives
<1>3. Gives(s, b, t, g) BY <1>1, <1>2 DEF Gives, L!Remembers
<1> QED BY <1>3, GivesKeepsLazyInv

LEMMA LazyInit == L!Init => LazyInv
<1> SUFFICES ASSUME L!Init PROVE LazyInv
    OBVIOUS
<1> USE DEF L!Init, L!None
<1>1. LazyTypes
  <2>1. <<>> \in Seq(Chars) OBVIOUS
  <2> QED BY <2>1, BufferFields DEF LazyTypes, Heaps
<1>2. Counted
  <2> SUFFICES ASSUME NEW b \in L!Bufs PROVE Cardinality(At(Strings, buf_, b)) = 0
      BY BufferFields DEF Counted
  <2>1. \A s \in Strings : buf_[s] # b BY DEF L!Bufs
  <2> QED BY <2>1, StringsAssumption, NobodyCounted
<1>3. AllSay BY DEF AllSay
<1>4. ModifierNames BY DEF ModifierNames
<1> QED BY <1>1, <1>2, <1>3, <1>4 DEF LazyInv

LEMMA LazyStep ==
  ASSUME LazyInv, L!Next
  PROVE  LazyInv'
<1> USE DEF L!Exists, L!None, L!Data
<1>1. ASSUME NEW s \in Strings, NEW t \in Literals, L!construct(s, t)
      PROVE  LazyInv'
  <2>1. t \in Seq(Chars) BY StringsAssumption
  <2>2. ModifierNames' BY <1>1 DEF L!construct, LazyInv, ModifierNames
  <2> QED BY <1>1, <2>1, <2>2, SaysConstructed, BecomesKeepsLazyInv DEF L!construct
<1>2. ASSUME NEW s \in Strings, NEW src \in Strings, L!Shares(s, src)
      PROVE  LazyInv'
  <2> DEFINE b == buf_[src]
  <2>0. 0 \notin L!Bufs BY DEF L!Bufs
  <2>1. b # 0 /\ b \in L!Bufs /\ heap[b].ref_cntr_ > 0 BY <1>2, HeldIsCounted DEF L!Shares, LazyInv, LazyTypes
  <2>2. buf_[s] \in {0} \cup L!Bufs /\ (buf_[s] # 0 => heap[buf_[s]].ref_cntr_ > 0)
        BY HeldIsCounted DEF LazyInv, LazyTypes
  <2>3. heap \in Heaps /\ heap' = L!Assign(heap, buf_[s], b) BY <1>2 DEF L!Shares, LazyInv, LazyTypes
  <2>4. Says(heap[b].data, ideal[src], grown[src]) BY <1>2 DEF L!Shares, LazyInv, AllSay
  <2>5. /\ heap' \in Heaps
        /\ \A c \in L!Bufs :
             /\ heap'[c].ref_cntr_
                  = heap[c].ref_cntr_ + (IF c = b THEN 1 ELSE 0) - (IF c = buf_[s] THEN 1 ELSE 0)
             /\ heap'[c].ref_cntr_ > 0 => heap'[c].data = heap[c].data
    <3> DEFINE h == L!Assign(heap, buf_[s], b)
    <3>1. /\ h \in Heaps
          /\ \A c \in L!Bufs :
               /\ h[c].ref_cntr_
                    = heap[c].ref_cntr_ + (IF c = b THEN 1 ELSE 0) - (IF c = buf_[s] THEN 1 ELSE 0)
               /\ h[c].ref_cntr_ > 0 => h[c].data = heap[c].data
      <4>1. Releasable(heap, buf_[s]) BY <2>2 DEF Releasable
      <4> QED BY <2>1, <2>3, <4>1, AssignEffect
    <3>2. heap' = h BY <2>3
    <3> HIDE DEF h
    <3> QED BY <3>1, <3>2
  <2>6. heap'[b].data = heap[b].data
    <3>1. heap[b].ref_cntr_ \in Nat BY <2>1, <2>3, BufferFields DEF Heaps
    <3> QED BY <2>1, <2>5, <3>1
  <2>7. Gives(s, b, ideal[src], grown[src])
    <3>1. ideal[src] \in Seq(Chars) /\ grown[src] \in 0..2 BY DEF LazyInv, LazyTypes
    <3> QED BY <1>2, <2>1, <2>4, <2>5, <2>6, <3>1 DEF Gives, L!Shares, L!Remembers
  <2>8. ModifierNames' BY <1>2 DEF L!Shares, LazyInv, ModifierNames
  <2> QED BY <2>7, <2>8, GivesKeepsLazyInv
<1>3. ASSUME NEW s \in Strings, NEW src \in Strings, L!append(s, src)
      PROVE  LazyInv'
  <2>1. Says(heap[buf_[s]].data, ideal[s], grown[s]) /\ Says(heap[buf_[src]].data, ideal[src], grown[src])
        BY <1>3 DEF L!append, LazyInv, AllSay
  <2>2. Says(L!Appended(heap[buf_[s]].data, heap[buf_[src]].data), ideal[s] \o ideal[src],
             IF grown[s] + grown[src] >= 1 THEN 2 ELSE 1)
        BY <2>1, SaysAppended
  <2>3. ModifierNames' BY <1>3 DEF L!append, LazyInv, ModifierNames
  <2> QED BY <1>3, <2>2, <2>3, BecomesKeepsLazyInv DEF L!append
<1>4. ASSUME NEW s \in Strings, L!destroy(s)
      PROVE  LazyInv'
  <2>0. 0 \notin L!Bufs BY DEF L!Bufs
  <2>1. buf_[s] \in L!Bufs /\ heap[buf_[s]].ref_cntr_ > 0 /\ heap \in Heaps
        BY <1>4, HeldIsCounted DEF L!destroy, LazyInv, LazyTypes
  <2>2. /\ heap' \in Heaps
        /\ \A c \in L!Bufs :
             /\ heap'[c].ref_cntr_ = heap[c].ref_cntr_ - (IF c = buf_[s] THEN 1 ELSE 0)
             /\ heap'[c].ref_cntr_ > 0 => heap'[c].data = heap[c].data
    <3>1. Releasable(heap, buf_[s]) BY <2>1 DEF Releasable
    <3> QED BY <1>4, <2>1, <3>1, ReleaseEffect DEF L!destroy
  <2>3. \A c \in L!Bufs : heap[c].ref_cntr_ \in Nat BY <2>1, BufferFields DEF Heaps
  <2>4. <<>> \in Seq(Chars) OBVIOUS
  <2>5. Gives(s, 0, <<>>, 0) BY <1>4, <2>0, <2>2, <2>3, <2>4 DEF Gives, L!destroy, L!Remembers
  <2>6. ModifierNames' BY <1>4 DEF L!destroy, LazyInv, ModifierNames
  <2> QED BY <2>5, <2>6, GivesKeepsLazyInv
<1>5. ASSUME NEW s \in Strings, NEW ix \in 1..MaxLen, L!Subscript(s, ix)
      PROVE  LazyInv'
  <2>1. UNCHANGED <<buf_, heap, ideal, grown>> BY <1>5 DEF L!Subscript, L!history
  <2>2. LazyTypes' /\ Counted' /\ AllSay' BY <2>1 DEF LazyInv, LazyTypes, Counted, AllSay
  <2>3. ModifierNames' BY <1>5, StringsAssumption DEF L!Subscript, ModifierNames
  <2> QED BY <2>2, <2>3 DEF LazyInv
<1>6. ASSUME NEW c \in Chars, L!ModifierAssign(c)
      PROVE  LazyInv'
  <2> DEFINE s == modifier.str
             ix == modifier.ix
  <2>1. s \in Strings /\ ix \in Nat \ {0} BY <1>6 DEF L!ModifierAssign, LazyInv, ModifierNames
  <2>2. ModifierNames' BY <1>6 DEF L!ModifierAssign, ModifierNames
  <2>3. CASE buf_[s] # 0 /\ ix <= Len(ideal[s])
    <3>1. L!set_at(s, ix, c) /\ L!Remembers(s, [ideal[s] EXCEPT ![ix] = c], grown[s])
          BY <1>6, <2>3 DEF L!ModifierAssign
    <3> HIDE DEF s, ix
    <3>2. ideal[s] \in Seq(Chars) BY <2>1 DEF LazyInv, LazyTypes
    <3>3. ix \in 1..Len(ideal[s]) BY <2>1, <2>3, <3>2
    <3>4. Says(heap[buf_[s]].data, ideal[s], grown[s]) BY <2>1, <2>3 DEF LazyInv, AllSay
    <3>5. Says([heap[buf_[s]].data EXCEPT ![ix] = c], [ideal[s] EXCEPT ![ix] = c], grown[s])
          BY <3>3, <3>4, SaysWritten
    <3> QED BY <2>1, <2>2, <3>1, <3>5, BecomesKeepsLazyInv DEF L!set_at
  <2>4. CASE ~(buf_[s] # 0 /\ ix <= Len(ideal[s]))
    <3>1. UNCHANGED <<buf_, heap, ideal, grown>>
          BY <1>6, <2>4 DEF L!ModifierAssign, L!history
    <3>2. LazyTypes' /\ Counted' /\ AllSay' BY <3>1 DEF LazyInv, LazyTypes, Counted, AllSay
    <3> QED BY <2>2, <3>2 DEF LazyInv
  <2> QED BY <2>3, <2>4
<1> QED BY <1>1, <1>2, <1>3, <1>4, <1>5, <1>6 DEF L!Next, L!copy, L!assign

LEMMA LazyInvImplies == LazyInv => L!CountsStrings /\ L!TextIsPrivate
<1> SUFFICES ASSUME LazyInv PROVE L!CountsStrings /\ L!TextIsPrivate
    OBVIOUS
<1>1. L!CountsStrings
  <2> SUFFICES ASSUME NEW b \in L!Bufs
               PROVE  heap[b].ref_cntr_ = Cardinality({s \in Strings : buf_[s] = b})
      BY StringCardinality DEF L!CountsStrings
  <2> QED BY DEF LazyInv, Counted, At
<1>2. L!TextIsPrivate
  <2> SUFFICES ASSUME NEW s \in Strings, buf_[s] # 0
               PROVE  CASE grown[s] = 0 -> /\ L!Text(L!Data(s)) = ideal[s]
                                           /\ L!get_size(s) = Len(ideal[s])
                        [] grown[s] = 1 -> /\ L!Text(L!Data(s)) = ideal[s]
                                           /\ L!get_size(s) = Len(ideal[s]) + 1
                        [] OTHER        -> L!get_size(s) > Len(ideal[s])
      BY DEF L!TextIsPrivate, L!Exists, L!None
  <2> DEFINE d == heap[buf_[s]].data
  <2>1. Says(d, ideal[s], grown[s]) BY DEF LazyInv, AllSay
  <2>2. L!Data(s) = d /\ L!get_size(s) = Len(d) - 1 BY DEF L!Data, L!get_size
  <2> HIDE DEF d
  <2>3. d \in Seq(Letters) /\ ideal[s] \in Seq(Chars) /\ grown[s] \in 0..2 BY <2>1 DEF Says
  <2>4. grown[s] < 2 => L!Text(d) = ideal[s] /\ Len(d) = Len(ideal[s]) + grown[s] + 1
        BY <2>1, TextOfSays
  <2>5. grown[s] = 2 => Len(d) > Len(ideal[s]) + 1 BY <2>1 DEF Says
  <2> QED BY <2>2, <2>3, <2>4, <2>5
<1> QED BY <1>1, <1>2

-----------------------------------------------------------------------------
(* shared_ptr and weak_ptr: the memory.                                    *)

Cell == [ref_cnt_ : 0..SizeMax, weak_ref_cnt_ : 0..SizeMax, ptr_ : Nat, freed : BOOLEAN]
Pos == Nat \ {0}

(* The memory of a behaviour that is still defined. *)
Mem(bs, ds) == [blocks |-> bs, deleted |-> ds, undefined |-> "no"]

LEMMA CellFields ==
  /\ \A x \in Cell : /\ x.ref_cnt_ \in 0..SizeMax /\ x.weak_ref_cnt_ \in 0..SizeMax
                     /\ x.ptr_ \in Nat /\ x.freed \in BOOLEAN
  /\ \A r, w \in 0..SizeMax, o \in Nat, f \in BOOLEAN :
       [ref_cnt_ |-> r, weak_ref_cnt_ |-> w, ptr_ |-> o, freed |-> f] \in Cell
BY DEF Cell

LEMMA CellUpdates ==
  ASSUME NEW x \in Cell, NEW n \in 0..SizeMax, NEW f \in BOOLEAN
  PROVE  /\ [x EXCEPT !.ref_cnt_ = n] \in Cell /\ [x EXCEPT !.weak_ref_cnt_ = n] \in Cell
         /\ [x EXCEPT !.freed = f] \in Cell
BY DEF Cell

(* What a block of r shared and w weak handles says.  A weak handle that
   the compiler copied is not counted, but the block still lives as long
   as one of its counts is not zero. *)
Counts(x, r, w, b, unc) ==
  /\ x.ref_cnt_ = r
  /\ x.freed => r = 0 /\ (b \notin unc => w = 0)
  /\ ~x.freed => (r > 0 \/ x.weak_ref_cnt_ > 0) /\ (b \notin unc => x.weak_ref_cnt_ = w)

(* An object has one block; it is deleted when that block has no shared_ptr left. *)
Owns(bs, ds, rev, asg) ==
  /\ \A b \in DOMAIN bs : /\ bs[b].ptr_ <= Len(ds)
                          /\ b \in asg => bs[b].ptr_ = 0
                          /\ bs[b].ptr_ # 0 /\ bs[b].ptr_ \notin rev
                               => (ds[bs[b].ptr_] <=> bs[b].ref_cnt_ = 0)
  /\ \A b, c \in DOMAIN bs : bs[b].ptr_ = bs[c].ptr_ /\ bs[b].ptr_ # 0 => b = c
  /\ \A o \in DOMAIN ds : \E b \in DOMAIN bs : bs[b].ptr_ = o

Sound(bs, ds, r, w, unc, rev, asg) ==
  /\ bs \in Seq(Cell) /\ ds \in Seq(BOOLEAN)
  /\ r \in [Pos -> Nat] /\ w \in [Pos -> Nat]
  /\ unc \subseteq DOMAIN bs /\ asg \subseteq DOMAIN bs
  /\ \A b \in DOMAIN bs : Counts(bs[b], r[b], w[b], b, unc)
  /\ Owns(bs, ds, rev, asg)

(* r and q agree about every block but b. *)
Off(b, r, q) == \A c \in Pos : c # b => q[c] = r[c]

LEMMA SoundSame ==
  ASSUME NEW bs, NEW ds, NEW r, NEW w, NEW unc, NEW rev, NEW asg, Sound(bs, ds, r, w, unc, rev, asg),
         NEW q \in [Pos -> Nat], NEW v \in [Pos -> Nat], \A b \in Pos : q[b] = r[b] /\ v[b] = w[b],
         NEW rev2, rev \subseteq rev2
  PROVE  Sound(bs, ds, q, v, unc, rev2, asg)
<1>1. \A b \in DOMAIN bs : b \in Pos BY DEF Sound, Pos
<1>2. Owns(bs, ds, rev2, asg) BY DEF Sound, Owns
<1> QED BY <1>1, <1>2 DEF Sound

(* One block changes, and the object it owns. *)
LEMMA SoundUpdate ==
  ASSUME NEW bs, NEW ds, NEW r, NEW w, NEW unc, NEW rev, NEW asg, Sound(bs, ds, r, w, unc, rev, asg),
         NEW b \in DOMAIN bs, NEW y \in Cell, y.ptr_ = bs[b].ptr_,
         NEW q \in [Pos -> Nat], NEW v \in [Pos -> Nat], Off(b, r, q), Off(b, w, v),
         Counts(y, q[b], v[b], b, unc),
         NEW es \in Seq(BOOLEAN), Len(es) = Len(ds),
         \A o \in DOMAIN ds : o # y.ptr_ => es[o] = ds[o],
         NEW rev2, rev \subseteq rev2,
         y.ptr_ # 0 /\ y.ptr_ \notin rev2 => (es[y.ptr_] <=> y.ref_cnt_ = 0)
  PROVE  Sound([bs EXCEPT ![b] = y], es, q, v, unc, rev2, asg)
<1> DEFINE cs == [bs EXCEPT ![b] = y]
<1>1. /\ bs \in Seq(Cell) /\ DOMAIN bs = 1..Len(bs) /\ Len(bs) \in Nat
      /\ ds \in Seq(BOOLEAN) /\ DOMAIN ds = 1..Len(ds) /\ DOMAIN es = 1..Len(es)
      /\ unc \subseteq DOMAIN bs /\ asg \subseteq DOMAIN bs
      BY DEF Sound
<1>2. /\ cs \in Seq(Cell) /\ DOMAIN cs = DOMAIN bs
      /\ cs[b] = y /\ \A c \in DOMAIN bs : c # b => cs[c] = bs[c]
      BY <1>1, ExceptSeq
<1> HIDE DEF cs
<1>3. \A c \in DOMAIN bs : c \in Pos BY <1>1 DEF Pos
<1>4. \A c \in DOMAIN cs : Counts(cs[c], q[c], v[c], c, unc)
  <2> TAKE c \in DOMAIN cs
  <2>1. CASE c = b BY <1>2, <2>1
  <2>2. CASE c # b
    <3>1. Counts(bs[c], r[c], w[c], c, unc) BY <1>2 DEF Sound
    <3>2. cs[c] = bs[c] /\ q[c] = r[c] /\ v[c] = w[c] BY <1>2, <1>3, <2>2 DEF Off
    <3> QED BY <3>1, <3>2
  <2> QED BY <2>1, <2>2
<1>5. \A c \in DOMAIN cs : cs[c].ptr_ = bs[c].ptr_ BY <1>2
<1>6. Owns(bs, ds, rev, asg) BY DEF Sound
<1>7. \A c \in DOMAIN cs : cs[c].ptr_ # 0 /\ cs[c].ptr_ \notin rev2
                             => (es[cs[c].ptr_] <=> cs[c].ref_cnt_ = 0)
  <2> SUFFICES ASSUME NEW c \in DOMAIN cs, cs[c].ptr_ # 0, cs[c].ptr_ \notin rev2
               PROVE  es[cs[c].ptr_] <=> cs[c].ref_cnt_ = 0
      OBVIOUS
  <2>1. CASE c = b BY <1>2, <2>1
  <2>2. CASE c # b
    <3>1. cs[c] = bs[c] /\ c \in DOMAIN bs BY <1>2, <2>2
    <3>2. bs[c].ptr_ # y.ptr_ BY <1>6, <2>2, <3>1 DEF Owns
    <3>3. bs[c].ptr_ \in DOMAIN ds
      <4>1. bs[c] \in Cell BY <1>1, <3>1, ElementOfSeq
      <4>2. bs[c].ptr_ \in Nat /\ bs[c].ptr_ # 0 BY <3>1, <4>1, CellFields
      <4>3. bs[c].ptr_ <= Len(ds) BY <1>6, <3>1 DEF Owns
      <4> QED BY <1>1, <4>2, <4>3
    <3>4. es[bs[c].ptr_] = ds[bs[c].ptr_] BY <3>2, <3>3
    <3>5. ds[bs[c].ptr_] <=> bs[c].ref_cnt_ = 0 BY <1>6, <3>1 DEF Owns
    <3> QED BY <3>1, <3>4, <3>5
  <2> QED BY <2>1, <2>2
<1>8. Owns(cs, es, rev2, asg)
  <2>1. \A c \in DOMAIN cs : cs[c].ptr_ <= Len(es) /\ (c \in asg => cs[c].ptr_ = 0)
        BY <1>2, <1>5, <1>6 DEF Owns
  <2>2. \A c, d \in DOMAIN cs : cs[c].ptr_ = cs[d].ptr_ /\ cs[c].ptr_ # 0 => c = d
        BY <1>2, <1>5, <1>6 DEF Owns
  <2>3. \A o \in DOMAIN es : \E c \in DOMAIN cs : cs[c].ptr_ = o
        BY <1>1, <1>2, <1>5, <1>6 DEF Owns
  <2> QED BY <1>7, <2>1, <2>2, <2>3 DEF Owns
<1>9. Sound(cs, es, q, v, unc, rev2, asg) BY <1>1, <1>2, <1>4, <1>8 DEF Sound
<1> QED BY <1>9 DEF cs

(* A new block with one owner, to no object or to a new one. *)
NewCell(o) == [ref_cnt_ |-> 1, weak_ref_cnt_ |-> 0, ptr_ |-> o, freed |-> FALSE]

NewObject(ds, es, o) ==
  \/ o = 0 /\ es = ds
  \/ o = Len(ds) + 1 /\ es = Append(ds, FALSE)

LEMMA SoundNew ==
  ASSUME NEW bs, NEW ds, NEW r, NEW w, NEW unc, NEW rev, NEW asg, Sound(bs, ds, r, w, unc, rev, asg),
         NEW o, NEW es, NewObject(ds, es, o),
         NEW q \in [Pos -> Nat], NEW v \in [Pos -> Nat],
         Off(Len(bs) + 1, r, q), Off(Len(bs) + 1, w, v), q[Len(bs) + 1] = 1, v[Len(bs) + 1] = 0,
         NEW asg2, asg2 = asg \/ (asg2 = asg \cup {Len(bs) + 1} /\ o = 0)
  PROVE  Sound(Append(bs, NewCell(o)), es, q, v, unc, rev, asg2)
<1> DEFINE n == Len(bs) + 1
           x == NewCell(o)
           cs == Append(bs, x)
<1>1. /\ bs \in Seq(Cell) /\ DOMAIN bs = 1..Len(bs) /\ Len(bs) \in Nat
      /\ ds \in Seq(BOOLEAN) /\ DOMAIN ds = 1..Len(ds) /\ Len(ds) \in Nat
      /\ unc \subseteq DOMAIN bs /\ asg \subseteq DOMAIN bs /\ Owns(bs, ds, rev, asg)
      BY DEF Sound
<1>2. /\ es \in Seq(BOOLEAN) /\ o \in Nat /\ DOMAIN es = 1..Len(es) /\ Len(ds) <= Len(es)
      /\ DOMAIN es = DOMAIN ds \cup ({o} \ {0}) /\ o <= Len(es) /\ (o = 0 \/ (o > Len(ds) /\ ~es[o]))
      /\ \A a \in DOMAIN ds : es[a] = ds[a]
  <2>1. CASE o = 0 /\ es = ds BY <1>1, <2>1
  <2>2. CASE o = Len(ds) + 1 /\ es = Append(ds, FALSE)
    <3>1. /\ es \in Seq(BOOLEAN) /\ Len(es) = Len(ds) + 1 /\ es[Len(ds) + 1] = FALSE
          /\ \A a \in 1..Len(ds) : es[a] = ds[a]
          BY <1>1, <2>2, AppendProperties
    <3> QED BY <1>1, <2>2, <3>1
  <2> QED BY <2>1, <2>2 DEF NewObject
<1>3. /\ x \in Cell /\ x.ref_cnt_ = 1 /\ x.weak_ref_cnt_ = 0 /\ x.ptr_ = o /\ x.freed = FALSE
  <2>1. 0 \in 0..SizeMax /\ 1 \in 0..SizeMax BY BoundsAssumption
  <2> QED BY <1>2, <2>1, CellFields DEF NewCell
<1> HIDE DEF x
<1>4. /\ cs \in Seq(Cell) /\ DOMAIN cs = 1..n /\ cs[n] = x
      /\ \A b \in DOMAIN bs : cs[b] = bs[b] /\ b # n /\ b \in DOMAIN cs
      /\ \A b \in DOMAIN cs : b = n \/ b \in DOMAIN bs
      BY <1>1, <1>3, AppendProperties
<1> HIDE DEF cs
<1>5. n \in Pos /\ \A b \in DOMAIN bs : b \in Pos BY <1>1 DEF Pos
<1>6. \A b \in DOMAIN cs : Counts(cs[b], q[b], v[b], b, unc)
  <2> TAKE b \in DOMAIN cs
  <2>1. CASE b = n BY <1>3, <1>4, <2>1 DEF Counts
  <2>2. CASE b \in DOMAIN bs
    <3>1. Counts(bs[b], r[b], w[b], b, unc) BY <2>2 DEF Sound
    <3>2. cs[b] = bs[b] /\ q[b] = r[b] /\ v[b] = w[b] BY <1>4, <1>5, <2>2 DEF Off
    <3> QED BY <3>1, <3>2
  <2> QED BY <1>4, <2>1, <2>2
<1>7. n \notin asg BY <1>1
<1>8. asg2 \subseteq DOMAIN cs /\ \A b \in DOMAIN bs : b \in asg2 => b \in asg BY <1>1, <1>4, <1>5
<1>9. ASSUME NEW b \in DOMAIN bs
      PROVE  bs[b].ptr_ \in Nat /\ bs[b].ptr_ <= Len(ds)
  <2>1. bs[b] \in Cell BY <1>1, ElementOfSeq
  <2> QED BY <1>1, <2>1, CellFields DEF Owns
<1>10. \A b \in DOMAIN cs : cs[b].ptr_ <= Len(es) /\ (b \in asg2 => cs[b].ptr_ = 0)
  <2> TAKE b \in DOMAIN cs
  <2>1. CASE b = n BY <1>2, <1>3, <1>4, <1>7, <2>1
  <2>2. CASE b \in DOMAIN bs BY <1>1, <1>2, <1>4, <1>8, <1>9, <2>2 DEF Owns
  <2> QED BY <1>4, <2>1, <2>2
<1>11. ASSUME NEW b \in DOMAIN cs, cs[b].ptr_ # 0, cs[b].ptr_ \notin rev
       PROVE  es[cs[b].ptr_] <=> cs[b].ref_cnt_ = 0
  <2>1. CASE b = n BY <1>2, <1>3, <1>4, <1>11, <2>1
  <2>2. CASE b \in DOMAIN bs
    <3>1. bs[b].ptr_ \in DOMAIN ds /\ cs[b] = bs[b] BY <1>1, <1>4, <1>9, <1>11, <2>2
    <3>2. ds[bs[b].ptr_] <=> bs[b].ref_cnt_ = 0 BY <1>1, <1>11, <2>2, <3>1 DEF Owns
    <3>3. es[bs[b].ptr_] = ds[bs[b].ptr_] BY <1>2, <3>1
    <3> QED BY <3>1, <3>2, <3>3
  <2> QED BY <1>4, <2>1, <2>2
<1>12. \A b, c \in DOMAIN cs : cs[b].ptr_ = cs[c].ptr_ /\ cs[b].ptr_ # 0 => b = c
  <2>1. \A b \in DOMAIN bs : cs[b].ptr_ # o \/ o = 0 BY <1>1, <1>2, <1>4, <1>9
  <2>2. \A b, c \in DOMAIN bs : cs[b].ptr_ = cs[c].ptr_ /\ cs[b].ptr_ # 0 => b = c
        BY <1>1, <1>4 DEF Owns
  <2>3. cs[n].ptr_ = o BY <1>3, <1>4
  <2> QED BY <1>4, <2>1, <2>2, <2>3
<1>13. \A a \in DOMAIN es : \E b \in DOMAIN cs : cs[b].ptr_ = a
  <2> SUFFICES ASSUME NEW a \in DOMAIN es PROVE \E b \in DOMAIN cs : cs[b].ptr_ = a
      OBVIOUS
  <2>1. CASE a \in DOMAIN ds
    <3>1. PICK b \in DOMAIN bs : bs[b].ptr_ = a BY <1>1, <2>1 DEF Owns
    <3> QED BY <1>4, <3>1
  <2>2. CASE a = o
    <3>1. n \in DOMAIN cs BY <1>1, <1>4
    <3> QED BY <1>3, <1>4, <2>2, <3>1
  <2> QED BY <1>2, <2>1, <2>2
<1>14. Owns(cs, es, rev, asg2) BY <1>10, <1>11, <1>12, <1>13 DEF Owns
<1>15. unc \subseteq DOMAIN cs BY <1>1, <1>4
<1>16. Sound(cs, es, q, v, unc, rev, asg2) BY <1>2, <1>4, <1>6, <1>8, <1>14, <1>15 DEF Sound
<1> QED BY <1>16 DEF cs, x

(* What an operation ends with: a sound memory of n blocks, or a reason. *)
Goes(m, n, r, w, unc, rev, asg) ==
  \E bs, ds : m = Mem(bs, ds) /\ Len(bs) = n /\ Sound(bs, ds, r, w, unc, rev, asg)

Ends(m, n, r, w, unc, rev, asg) ==
  \/ Goes(m, n, r, w, unc, rev, asg)
  \/ m.undefined = "freed block" /\ unc # {}
  \/ m.undefined = "dead object" /\ rev # {}

(* The block of x after an operation, and all blocks. *)
Put(bs, b, y) == [bs EXCEPT ![b] = y]
Ref(x) == [x EXCEPT !.ref_cnt_ = Succ(x.ref_cnt_)]
WeakRef(x) == [x EXCEPT !.weak_ref_cnt_ = Succ(x.weak_ref_cnt_)]
Unref(x) == [x EXCEPT !.ref_cnt_ = Pred(x.ref_cnt_)]
Dropped(x) == [x EXCEPT !.ref_cnt_ = 0, !.freed = x.weak_ref_cnt_ = 0]
WeakUnref(x) ==
  [x EXCEPT !.weak_ref_cnt_ = Pred(x.weak_ref_cnt_),
            !.freed = Pred(x.weak_ref_cnt_) = 0 /\ x.ref_cnt_ = 0]

LEMMA PutProperties ==
  ASSUME NEW bs \in Seq(Cell), NEW b \in DOMAIN bs, NEW y \in Cell
  PROVE  Len(Put(bs, b, y)) = Len(bs)
BY ExceptSeq DEF Put

LEMMA AddRefShape ==
  ASSUME NEW bs, NEW ds, NEW b, b # 0
  PROVE  /\ bs[b].freed => AddRef(Mem(bs, ds), b).undefined = "freed block"
         /\ ~bs[b].freed => AddRef(Mem(bs, ds), b) = Mem(Put(bs, b, Ref(bs[b])), ds)
BY DEF AddRef, Usable, Unusable, Null, Mem, Put, Ref

LEMMA WeakAddRefShape ==
  ASSUME NEW bs, NEW ds, NEW b, b # 0, ~bs[b].freed
  PROVE  WeakAddRef(Mem(bs, ds), b) = Mem(Put(bs, b, WeakRef(bs[b])), ds)
BY DEF WeakAddRef, Usable, Unusable, Null, Mem, Put, WeakRef

LEMMA WeakReleaseShape ==
  ASSUME NEW bs, NEW ds, NEW b, b # 0
  PROVE  /\ bs[b].freed => WeakRelease(Mem(bs, ds), b).undefined = "freed block"
         /\ ~bs[b].freed => WeakRelease(Mem(bs, ds), b) = Mem(Put(bs, b, WeakUnref(bs[b])), ds)
BY DEF WeakRelease, Usable, Unusable, Null, Mem, Put, WeakUnref

LEMMA NullShape ==
  ASSUME NEW m
  PROVE  AddRef(m, 0) = m /\ Release(m, 0) = m /\ WeakAddRef(m, 0) = m /\ WeakRelease(m, 0) = m
BY DEF AddRef, Release, WeakAddRef, WeakRelease, Usable, Unusable, Null

(* What Release makes of block b, n being the count left and o its object. *)
Releases(m, bs, ds, b, n, o) ==
  /\ n # 0 => m = Mem(Put(bs, b, Unref(bs[b])), ds)
  /\ n = 0 /\ o = 0 => m = Mem(Put(bs, b, Dropped(bs[b])), ds)
  /\ n = 0 /\ o # 0 /\ ~ds[o] => m = Mem(Put(bs, b, Dropped(bs[b])), [ds EXCEPT ![o] = TRUE])
  /\ n = 0 /\ o # 0 /\ ds[o] => m.undefined = "dead object"

LEMMA ReleaseShape ==
  ASSUME NEW bs, NEW ds, NEW b, b # 0, ~bs[b].freed, b \in DOMAIN bs,
         NEW n, n = Pred(bs[b].ref_cnt_), NEW o, o = bs[b].ptr_
  PROVE  Releases(Release(Mem(bs, ds), b), bs, ds, b, n, o)
<1> DEFINE m == Mem(bs, ds)
           cs == [bs EXCEPT ![b] = [bs[b] EXCEPT !.ref_cnt_ = n]]
           less == [m EXCEPT !.blocks[b].ref_cnt_ = n]
           done == bs[b].weak_ref_cnt_ = 0
           es == [ds EXCEPT ![o] = TRUE]
           freed == [bs EXCEPT ![b] = [bs[b] EXCEPT !.ref_cnt_ = n, !.freed = done]]
<1>1. m.blocks = bs /\ m.deleted = ds /\ m.undefined = "no" BY DEF Mem
<1>2. less = Mem(cs, ds) BY DEF Mem
<1>3. Release(m, b) = IF n # 0 THEN less ELSE [Delete(less, o) EXCEPT !.blocks[b].freed = done]
      BY <1>1 DEF Release, Usable, Unusable, Null
<1>4. less.deleted = ds /\ less.blocks = cs /\ less.undefined = "no" BY <1>2 DEF Mem
<1>5. o = 0 => Delete(less, o) = less BY DEF Delete, Null
<1>6. o # 0 /\ ~ds[o] => Delete(less, o) = [less EXCEPT !.deleted[o] = TRUE]
      BY <1>4 DEF Delete, Null
<1>7. o # 0 /\ ds[o] => Delete(less, o) = [less EXCEPT !.undefined = "dead object"]
      BY <1>4 DEF Delete, Null
<1>8. [less EXCEPT !.deleted[o] = TRUE] = Mem(cs, es)
  <2>1. [less EXCEPT !.deleted[o] = TRUE]
          = [less EXCEPT !.deleted = [less.deleted EXCEPT ![o] = TRUE]]
        OBVIOUS
  <2>2. [less EXCEPT !.deleted = [less.deleted EXCEPT ![o] = TRUE]] = [less EXCEPT !.deleted = es]
        BY <1>4, Zenon
  <2> HIDE DEF cs, es
  <2>3. [Mem(cs, ds) EXCEPT !.deleted = es] = Mem(cs, es) BY DEF Mem
  <2> QED BY <1>2, <2>1, <2>2, <2>3, Zenon
<1>9. [cs EXCEPT ![b].freed = done] = freed OBVIOUS
<1>10. \A ee : [Mem(cs, ee) EXCEPT !.blocks[b].freed = done] = Mem([cs EXCEPT ![b].freed = done], ee)
       BY DEF Mem
<1>11. [[less EXCEPT !.undefined = "dead object"] EXCEPT !.blocks[b].freed = done].undefined = "dead object"
       BY <1>2 DEF Mem
<1> HIDE DEF m, cs, less, done, es, freed
<1>12. n = 0 /\ o = 0 => Release(m, b) = Mem(freed, ds) BY <1>2, <1>3, <1>5, <1>9, <1>10
<1>13. n = 0 /\ o # 0 /\ ~ds[o] => Release(m, b) = Mem(freed, es) BY <1>3, <1>6, <1>8, <1>9, <1>10, Zenon
<1>14. n = 0 /\ o # 0 /\ ds[o] => Release(m, b).undefined = "dead object" BY <1>3, <1>7, <1>11
<1>15. n # 0 => Release(m, b) = Mem(cs, ds) BY <1>2, <1>3
<1>16. n = 0 => freed = Put(bs, b, Dropped(bs[b])) BY DEF freed, done, Put, Dropped
<1>17. cs = Put(bs, b, Unref(bs[b])) BY DEF cs, Put, Unref
<1> QED BY <1>12, <1>13, <1>14, <1>15, <1>16, <1>17 DEF m, es, Releases

LEMMA NewShape ==
  ASSUME NEW bs, NEW ds, NEW o
  PROVE  /\ New(Mem(bs, ds), o) = Mem(Append(bs, NewCell(o)), ds)
         /\ Create(Mem(bs, ds)) = Mem(bs, Append(ds, FALSE))
<1>1. \A m, c : m = Mem(bs, ds) => [m EXCEPT !.blocks = Append(@, c)] = Mem(Append(bs, c), ds) BY DEF Mem
<1>2. New(Mem(bs, ds), o) = [Mem(bs, ds) EXCEPT !.blocks = Append(@, NewCell(o))] BY DEF New, NewCell
<1>3. Create(Mem(bs, ds)) = Mem(bs, Append(ds, FALSE))
  <2>1. \A t : [Mem(bs, ds) EXCEPT !.deleted = Append(@, t)] = Mem(bs, Append(ds, t)) BY DEF Mem
  <2>2. [Mem(bs, ds) EXCEPT !.deleted = Append(@, FALSE)] = Mem(bs, Append(ds, FALSE)) BY <2>1, Zenon
  <2> QED BY <2>2, Zenon DEF Create
<1> QED BY <1>1, <1>2, <1>3

LEMMA Arrives ==
  ASSUME NEW m, NEW n, NEW bs, NEW ds, NEW r, NEW w, NEW unc, NEW rev, NEW asg,
         m = Mem(bs, ds), Len(bs) = n, Sound(bs, ds, r, w, unc, rev, asg)
  PROVE  Goes(m, n, r, w, unc, rev, asg) /\ Ends(m, n, r, w, unc, rev, asg)
<1>1. Goes(m, n, r, w, unc, rev, asg) BY DEF Goes
<1> QED BY <1>1, Zenon DEF Ends

LEMMA SizeOps ==
  /\ \A n \in 0..SizeMax : Succ(n) \in 0..SizeMax /\ Pred(n) \in 0..SizeMax
  /\ \A n \in 0..SizeMax : (n < SizeMax => Succ(n) = n + 1) /\ (n > 0 => Pred(n) = n - 1)
BY BoundsAssumption DEF Succ, Pred

LEMMA SoundCell ==
  ASSUME NEW bs, NEW ds, NEW r, NEW w, NEW unc, NEW rev, NEW asg, Sound(bs, ds, r, w, unc, rev, asg),
         NEW b \in DOMAIN bs
  PROVE  /\ bs[b] \in Cell /\ Counts(bs[b], r[b], w[b], b, unc) /\ b \in Pos /\ b # 0
         /\ bs \in Seq(Cell) /\ ds \in Seq(BOOLEAN) /\ Len(bs) \in Nat
         /\ r \in [Pos -> Nat] /\ w \in [Pos -> Nat] /\ r[b] \in Nat /\ w[b] \in Nat
         /\ bs[b].ref_cnt_ \in 0..SizeMax /\ bs[b].weak_ref_cnt_ \in 0..SizeMax
         /\ bs[b].ptr_ \in Nat /\ bs[b].ptr_ <= Len(ds) /\ bs[b].ref_cnt_ = r[b]
<1>1. bs \in Seq(Cell) /\ r \in [Pos -> Nat] /\ w \in [Pos -> Nat] BY DEF Sound
<1>2. bs[b] \in Cell /\ DOMAIN bs = 1..Len(bs) /\ Len(bs) \in Nat BY <1>1, ElementOfSeq
<1>3. b \in Pos /\ b # 0 BY <1>2 DEF Pos
<1>4. Counts(bs[b], r[b], w[b], b, unc) BY DEF Sound
<1> QED BY <1>1, <1>2, <1>3, <1>4, CellFields DEF Counts, Sound, Owns

(* A handle is made to block b, which some handle has; its object may be dead by now. *)
Held(r, w, b) == r[b] >= 1 \/ w[b] >= 1
Revives(x, rev, rev2) == rev \subseteq rev2 /\ (x.ref_cnt_ = 0 => x.ptr_ \in rev2)

LEMMA AddRefSound ==
  ASSUME NEW bs, NEW ds, NEW r, NEW w, NEW unc, NEW rev, NEW asg, Sound(bs, ds, r, w, unc, rev, asg),
         NEW b \in DOMAIN bs, Held(r, w, b), r[b] < SizeMax,
         NEW q \in [Pos -> Nat], Off(b, r, q), q[b] = r[b] + 1,
         NEW rev2, Revives(bs[b], rev, rev2)
  PROVE  /\ Ends(AddRef(Mem(bs, ds), b), Len(bs), q, w, unc, rev2, asg)
         /\ r[b] >= 1 => Goes(AddRef(Mem(bs, ds), b), Len(bs), q, w, unc, rev2, asg)
<1> DEFINE y == Ref(bs[b])
<1>1. /\ bs[b] \in Cell /\ Counts(bs[b], r[b], w[b], b, unc) /\ b \in Pos /\ b # 0
      /\ bs \in Seq(Cell) /\ ds \in Seq(BOOLEAN) /\ w \in [Pos -> Nat] /\ r[b] \in Nat /\ w[b] \in Nat
      /\ bs[b].ref_cnt_ \in 0..SizeMax /\ bs[b].ref_cnt_ = r[b]
      BY SoundCell
<1>2. CASE bs[b].freed
  <2>1. r[b] = 0 /\ b \in unc BY <1>1, <1>2 DEF Counts, Held
  <2>2. AddRef(Mem(bs, ds), b).undefined = "freed block" BY <1>1, <1>2, AddRefShape
  <2>3. ~(r[b] >= 1) BY <2>1
  <2>4. Ends(AddRef(Mem(bs, ds), b), Len(bs), q, w, unc, rev2, asg)
        BY <2>1, <2>2, Zenon DEF Ends
  <2> QED BY <2>3, <2>4, Zenon
<1>3. CASE ~bs[b].freed
  <2>1. Succ(bs[b].ref_cnt_) \in 0..SizeMax /\ Succ(bs[b].ref_cnt_) = r[b] + 1 BY <1>1, SizeOps
  <2>2. y \in Cell BY <1>1, <2>1, CellUpdates DEF Ref
  <2>3. /\ y.ref_cnt_ = r[b] + 1 /\ y.weak_ref_cnt_ = bs[b].weak_ref_cnt_ /\ y.ptr_ = bs[b].ptr_
        /\ y.freed = bs[b].freed
        BY <1>1, <2>1 DEF Cell, Ref
  <2>4. AddRef(Mem(bs, ds), b) = Mem(Put(bs, b, y), ds) BY <1>1, <1>3, AddRefShape, Zenon
  <2> HIDE DEF y
  <2>5. Counts(y, q[b], w[b], b, unc) BY <1>1, <1>3, <2>3 DEF Counts
  <2>6. Off(b, w, w) BY DEF Off
  <2>7. rev \subseteq rev2 BY DEF Revives
  <2>8. y.ptr_ # 0 /\ y.ptr_ \notin rev2 => (ds[y.ptr_] <=> y.ref_cnt_ = 0)
    <3> SUFFICES ASSUME y.ptr_ # 0, y.ptr_ \notin rev2 PROVE ds[y.ptr_] <=> y.ref_cnt_ = 0
        OBVIOUS
    <3>1. bs[b].ref_cnt_ # 0 /\ bs[b].ptr_ \notin rev BY <2>3 DEF Revives
    <3>2. ds[bs[b].ptr_] <=> bs[b].ref_cnt_ = 0 BY <2>3, <3>1 DEF Sound, Owns
    <3>3. y.ref_cnt_ # 0 BY <1>1, <2>3
    <3> QED BY <2>3, <3>1, <3>2, <3>3
  <2>9. Sound(Put(bs, b, y), ds, q, w, unc, rev2, asg)
        BY <1>1, <2>2, <2>3, <2>5, <2>6, <2>7, <2>8, SoundUpdate DEF Put
  <2>10. Len(Put(bs, b, y)) = Len(bs) BY <1>1, <2>2, PutProperties
  <2> QED BY <2>4, <2>9, <2>10, Arrives
<1> QED BY <1>2, <1>3

LEMMA WeakAddRefSound ==
  ASSUME NEW bs, NEW ds, NEW r, NEW w, NEW unc, NEW rev, NEW asg, Sound(bs, ds, r, w, unc, rev, asg),
         NEW b \in DOMAIN bs, r[b] >= 1, w[b] < SizeMax,
         NEW v \in [Pos -> Nat], Off(b, w, v), v[b] = w[b] + 1
  PROVE  Goes(WeakAddRef(Mem(bs, ds), b), Len(bs), r, v, unc, rev, asg)
<1> DEFINE y == WeakRef(bs[b])
<1>1. /\ bs[b] \in Cell /\ Counts(bs[b], r[b], w[b], b, unc) /\ b \in Pos /\ b # 0
      /\ bs \in Seq(Cell) /\ ds \in Seq(BOOLEAN) /\ r \in [Pos -> Nat] /\ r[b] \in Nat /\ w[b] \in Nat
      /\ bs[b].weak_ref_cnt_ \in 0..SizeMax /\ bs[b].ref_cnt_ = r[b]
      BY SoundCell
<1>2. ~bs[b].freed BY <1>1 DEF Counts
<1>3. /\ Succ(bs[b].weak_ref_cnt_) \in 0..SizeMax
      /\ bs[b].weak_ref_cnt_ = w[b] => Succ(bs[b].weak_ref_cnt_) = w[b] + 1
      BY <1>1, SizeOps
<1>4. y \in Cell BY <1>1, <1>3, CellUpdates DEF WeakRef
<1>5. /\ y.ref_cnt_ = r[b] /\ y.weak_ref_cnt_ = Succ(bs[b].weak_ref_cnt_)
      /\ y.ptr_ = bs[b].ptr_ /\ y.freed = bs[b].freed
      BY <1>1, <1>3 DEF Cell, WeakRef
<1>6. WeakAddRef(Mem(bs, ds), b) = Mem(Put(bs, b, y), ds) BY <1>1, <1>2, WeakAddRefShape, Zenon
<1> HIDE DEF y
<1>7. Counts(y, r[b], v[b], b, unc) BY <1>1, <1>2, <1>3, <1>5 DEF Counts
<1>8. Off(b, r, r) BY DEF Off
<1>9. y.ptr_ # 0 /\ y.ptr_ \notin rev => (ds[y.ptr_] <=> y.ref_cnt_ = 0)
      BY <1>1, <1>5 DEF Sound, Owns
<1>10. Sound(Put(bs, b, y), ds, r, v, unc, rev, asg)
       BY <1>1, <1>4, <1>5, <1>7, <1>8, <1>9, SoundUpdate DEF Put
<1>11. Len(Put(bs, b, y)) = Len(bs) BY <1>1, <1>4, PutProperties
<1> QED BY <1>6, <1>10, <1>11, Arrives

LEMMA WeakReleaseSound ==
  ASSUME NEW bs, NEW ds, NEW r, NEW w, NEW unc, NEW rev, NEW asg, Sound(bs, ds, r, w, unc, rev, asg),
         NEW b \in DOMAIN bs, w[b] >= 1,
         NEW v \in [Pos -> Nat], Off(b, w, v), v[b] = w[b] - 1
  PROVE  Ends(WeakRelease(Mem(bs, ds), b), Len(bs), r, v, unc, rev, asg)
<1> DEFINE n == Pred(bs[b].weak_ref_cnt_)
           f == n = 0 /\ bs[b].ref_cnt_ = 0
           y == WeakUnref(bs[b])
<1>1. /\ bs[b] \in Cell /\ Counts(bs[b], r[b], w[b], b, unc) /\ b \in Pos /\ b # 0
      /\ bs \in Seq(Cell) /\ ds \in Seq(BOOLEAN) /\ r \in [Pos -> Nat] /\ r[b] \in Nat /\ w[b] \in Nat
      /\ bs[b].weak_ref_cnt_ \in 0..SizeMax /\ bs[b].ref_cnt_ = r[b]
      BY SoundCell
<1>2. CASE bs[b].freed
  <2>1. b \in unc BY <1>1, <1>2 DEF Counts
  <2>2. WeakRelease(Mem(bs, ds), b).undefined = "freed block"
        BY <1>1, <1>2, WeakReleaseShape, Zenon
  <2> QED BY <2>1, <2>2, Zenon DEF Ends
<1>3. CASE ~bs[b].freed
  <2>1. n \in 0..SizeMax /\ (bs[b].weak_ref_cnt_ = w[b] => n = w[b] - 1)
    <3>1. bs[b].weak_ref_cnt_ > 0 => Pred(bs[b].weak_ref_cnt_) = bs[b].weak_ref_cnt_ - 1
          BY <1>1, SizeOps
    <3>2. Pred(bs[b].weak_ref_cnt_) \in 0..SizeMax BY <1>1, SizeOps
    <3> QED BY <1>1, <3>1, <3>2
  <2>2. WeakRelease(Mem(bs, ds), b) = Mem(Put(bs, b, y), ds)
        BY <1>1, <1>3, WeakReleaseShape, Zenon
  <2>3. f \in BOOLEAN OBVIOUS
  <2>4. f <=> n = 0 /\ r[b] = 0 BY <1>1
  <2>13. y = [[bs[b] EXCEPT !.weak_ref_cnt_ = n] EXCEPT !.freed = f] BY DEF WeakUnref
  <2> HIDE DEF n, f, y
  <2>5. y \in Cell
    <3>1. [bs[b] EXCEPT !.weak_ref_cnt_ = n] \in Cell BY <1>1, <2>1, CellUpdates
    <3>2. \A x \in Cell : [x EXCEPT !.freed = f] \in Cell BY <2>1, <2>3, CellUpdates, Zenon
    <3> QED BY <2>13, <3>1, <3>2, Zenon
  <2>6. /\ y.ref_cnt_ = r[b] /\ y.weak_ref_cnt_ = n /\ y.ptr_ = bs[b].ptr_
        BY <1>1, <2>13 DEF Cell
  <2>7. y.freed <=> f
    <3>1. \A t : \A x \in Cell : [x EXCEPT !.freed = t].freed = t BY DEF Cell
    <3> DEFINE z == [bs[b] EXCEPT !.weak_ref_cnt_ = n]
    <3>2. z \in Cell BY <1>1, <2>1, CellUpdates
    <3> HIDE DEF z
    <3>3. [z EXCEPT !.freed = f].freed = f BY <3>1, <3>2, Zenon
    <3> QED BY <2>13, <3>3, Zenon DEF z
  <2>8. Counts(y, r[b], v[b], b, unc) BY <1>1, <1>3, <2>1, <2>4, <2>6, <2>7 DEF Counts
  <2>9. Off(b, r, r) BY DEF Off
  <2>10. y.ptr_ # 0 /\ y.ptr_ \notin rev => (ds[y.ptr_] <=> y.ref_cnt_ = 0)
        BY <1>1, <2>6 DEF Sound, Owns
  <2>11. Sound(Put(bs, b, y), ds, r, v, unc, rev, asg)
         BY <1>1, <2>5, <2>6, <2>8, <2>9, <2>10, SoundUpdate DEF Put
  <2>12. Len(Put(bs, b, y)) = Len(bs) BY <1>1, <2>5, PutProperties
  <2> QED BY <2>2, <2>11, <2>12, Arrives
<1> QED BY <1>2, <1>3

LEMMA UnrefCell ==
  ASSUME NEW x \in Cell, NEW n, n = Pred(x.ref_cnt_)
  PROVE  /\ Unref(x) \in Cell /\ Unref(x).ref_cnt_ = n
         /\ Unref(x).weak_ref_cnt_ = x.weak_ref_cnt_ /\ Unref(x).ptr_ = x.ptr_
         /\ Unref(x).freed = x.freed
<1>1. x.ref_cnt_ \in 0..SizeMax BY CellFields
<1>2. n \in 0..SizeMax BY <1>1, SizeOps
<1>3. Unref(x) = [x EXCEPT !.ref_cnt_ = n] BY DEF Unref
<1> QED BY <1>2, <1>3 DEF Cell

LEMMA DroppedCell ==
  ASSUME NEW x \in Cell
  PROVE  /\ Dropped(x) \in Cell /\ Dropped(x).ref_cnt_ = 0
         /\ Dropped(x).weak_ref_cnt_ = x.weak_ref_cnt_ /\ Dropped(x).ptr_ = x.ptr_
         /\ Dropped(x).freed <=> x.weak_ref_cnt_ = 0
<1> DEFINE f == x.weak_ref_cnt_ = 0
           y == [x EXCEPT !.ref_cnt_ = 0]
<1>1. 0 \in 0..SizeMax BY BoundsAssumption
<1>2. f \in BOOLEAN OBVIOUS
<1>3. Dropped(x) = [y EXCEPT !.freed = f] BY DEF Dropped
<1>4. y \in Cell BY <1>1, CellUpdates
<1>5. y.ref_cnt_ = 0 /\ y.weak_ref_cnt_ = x.weak_ref_cnt_ /\ y.ptr_ = x.ptr_ BY <1>1 DEF Cell
<1> HIDE DEF f, y
<1>6. \A z \in Cell : [z EXCEPT !.freed = f] \in Cell BY <1>1, <1>2, CellUpdates, Zenon
<1>7. \A z \in Cell : /\ [z EXCEPT !.freed = f].ref_cnt_ = z.ref_cnt_
                      /\ [z EXCEPT !.freed = f].weak_ref_cnt_ = z.weak_ref_cnt_
                      /\ [z EXCEPT !.freed = f].ptr_ = z.ptr_
      BY DEF Cell
<1>8. \A t : \A z \in Cell : [z EXCEPT !.freed = t].freed = t BY DEF Cell
<1>9. Dropped(x).freed <=> f
  <2>1. [y EXCEPT !.freed = f].freed = f BY <1>4, <1>8, Zenon
  <2> QED BY <1>3, <2>1, Zenon
<1>10. Dropped(x) \in Cell BY <1>3, <1>4, <1>6, Zenon
<1>11. /\ Dropped(x).ref_cnt_ = 0 /\ Dropped(x).weak_ref_cnt_ = x.weak_ref_cnt_
       /\ Dropped(x).ptr_ = x.ptr_
       BY <1>3, <1>4, <1>5, <1>7, Zenon
<1> QED BY <1>9, <1>10, <1>11 DEF f

LEMMA ReleaseSound ==
  ASSUME NEW bs, NEW ds, NEW r, NEW w, NEW unc, NEW rev, NEW asg, Sound(bs, ds, r, w, unc, rev, asg),
         NEW b \in DOMAIN bs, r[b] >= 1,
         NEW q \in [Pos -> Nat], Off(b, r, q), q[b] = r[b] - 1
  PROVE  Ends(Release(Mem(bs, ds), b), Len(bs), q, w, unc, rev, asg)
<1> DEFINE x == bs[b]
           n == Pred(x.ref_cnt_)
           o == x.ptr_
           m == Release(Mem(bs, ds), b)
<1>1. /\ x \in Cell /\ Counts(x, r[b], w[b], b, unc) /\ b \in Pos /\ b # 0
      /\ bs \in Seq(Cell) /\ ds \in Seq(BOOLEAN) /\ w \in [Pos -> Nat] /\ r[b] \in Nat /\ w[b] \in Nat
      /\ x.ref_cnt_ \in 0..SizeMax /\ x.weak_ref_cnt_ \in 0..SizeMax
      /\ x.ref_cnt_ = r[b] /\ o \in Nat /\ o <= Len(ds)
      BY SoundCell
<1>2. ~x.freed BY <1>1 DEF Counts
<1>3. n = q[b] /\ n \in Nat
  <2>1. x.ref_cnt_ > 0 => Pred(x.ref_cnt_) = x.ref_cnt_ - 1 BY <1>1, SizeOps
  <2> QED BY <1>1, <2>1
<1>4. /\ n # 0 => m = Mem(Put(bs, b, Unref(x)), ds)
      /\ n = 0 /\ o = 0 => m = Mem(Put(bs, b, Dropped(x)), ds)
      /\ n = 0 /\ o # 0 /\ ~ds[o] => m = Mem(Put(bs, b, Dropped(x)), [ds EXCEPT ![o] = TRUE])
      /\ n = 0 /\ o # 0 /\ ds[o] => m.undefined = "dead object"
  <2>1. Releases(Release(Mem(bs, ds), b), bs, ds, b, n, o)
        BY <1>1, <1>2, ReleaseShape, Zenon
  <2> QED BY <2>1 DEF Releases
<1>5. /\ Unref(x) \in Cell /\ Unref(x).ref_cnt_ = n /\ Unref(x).weak_ref_cnt_ = x.weak_ref_cnt_
      /\ Unref(x).ptr_ = o /\ Unref(x).freed = x.freed
      BY <1>1, UnrefCell
<1>6. /\ Dropped(x) \in Cell /\ Dropped(x).ref_cnt_ = 0
      /\ Dropped(x).weak_ref_cnt_ = x.weak_ref_cnt_ /\ Dropped(x).ptr_ = o
      /\ Dropped(x).freed <=> x.weak_ref_cnt_ = 0
      BY <1>1, DroppedCell
<1>7. o # 0 /\ o \notin rev => ~ds[o]
  <2> SUFFICES ASSUME o # 0, o \notin rev PROVE ~ds[o]
      OBVIOUS
  <2>1. ds[o] <=> x.ref_cnt_ = 0 BY DEF Sound, Owns
  <2> QED BY <1>1, <2>1
<1>8. Off(b, w, w) BY DEF Off
<1> HIDE DEF x, n, o, m
<1>9. CASE n # 0
  <2> DEFINE y == Unref(x)
  <2>1. Counts(y, q[b], w[b], b, unc) BY <1>1, <1>2, <1>3, <1>5, <1>9 DEF Counts
  <2>2. y.ptr_ # 0 /\ y.ptr_ \notin rev => (ds[y.ptr_] <=> y.ref_cnt_ = 0) BY <1>5, <1>7, <1>9
  <2>3. y.ptr_ = bs[b].ptr_ BY <1>5 DEF o, x
  <2>4. y \in Cell BY <1>5
  <2> HIDE DEF y
  <2>5. Sound(Put(bs, b, y), ds, q, w, unc, rev, asg)
        BY <1>1, <1>8, <2>1, <2>2, <2>3, <2>4, SoundUpdate DEF Put
  <2>6. Len(Put(bs, b, y)) = Len(bs) BY <1>1, <2>4, PutProperties
  <2>7. m = Mem(Put(bs, b, y), ds) BY <1>4, <1>9 DEF y
  <2> QED BY <2>5, <2>6, <2>7, Arrives DEF m
<1>10. CASE n = 0
  <2> DEFINE y == Dropped(x)
  <2>1. Counts(y, q[b], w[b], b, unc) BY <1>1, <1>2, <1>3, <1>6, <1>10 DEF Counts
  <2>2. y.ptr_ = bs[b].ptr_ BY <1>6 DEF o, x
  <2>3. y \in Cell /\ y.ref_cnt_ = 0 /\ y.ptr_ = o BY <1>6
  <2>4. m = Mem(Put(bs, b, y), ds) \/ o # 0 BY <1>4, <1>10
  <2>5. o # 0 /\ ~ds[o] => m = Mem(Put(bs, b, y), [ds EXCEPT ![o] = TRUE]) BY <1>4, <1>10
  <2> HIDE DEF y
  <2>6. Len(Put(bs, b, y)) = Len(bs) BY <1>1, <2>3, PutProperties
  <2>7. CASE o = 0
    <3>1. Sound(Put(bs, b, y), ds, q, w, unc, rev, asg)
          BY <1>1, <1>8, <2>1, <2>2, <2>3, <2>7, SoundUpdate DEF Put
    <3> QED BY <2>4, <2>6, <2>7, <3>1, Arrives DEF m
  <2>8. CASE o # 0 /\ ~ds[o]
    <3> DEFINE es == [ds EXCEPT ![o] = TRUE]
    <3>1. o \in DOMAIN ds BY <1>1, <2>8
    <3>2. es \in Seq(BOOLEAN) /\ Len(es) = Len(ds)
      <4>1. TRUE \in BOOLEAN OBVIOUS
      <4> QED BY <1>1, <3>1, <4>1, ExceptSeq
    <3>3. \A a \in DOMAIN ds : a # o => es[a] = ds[a] OBVIOUS
    <3>4. es[o] BY <3>1, Zenon
    <3>5. m = Mem(Put(bs, b, y), es) BY <2>5, <2>8
    <3> HIDE DEF es
    <3>6. y.ptr_ # 0 /\ y.ptr_ \notin rev => (es[y.ptr_] <=> y.ref_cnt_ = 0) BY <2>3, <3>4
    <3>7. \A a \in DOMAIN ds : a # y.ptr_ => es[a] = ds[a] BY <2>3, <3>3
    <3>8. Sound(Put(bs, b, y), es, q, w, unc, rev, asg)
          BY <1>1, <1>8, <2>1, <2>2, <2>3, <3>2, <3>6, <3>7, SoundUpdate DEF Put
    <3> QED BY <2>6, <3>5, <3>8, Arrives DEF m
  <2>9. CASE o # 0 /\ ds[o]
    <3>1. rev # {} BY <1>7, <2>9
    <3>2. m.undefined = "dead object" BY <1>4, <1>10, <2>9
    <3> QED BY <3>1, <3>2, Zenon DEF Ends, m
  <2> QED BY <2>7, <2>8, <2>9
<1> QED BY <1>9, <1>10

-----------------------------------------------------------------------------
(* shared_ptr and weak_ptr: the handles.                                   *)

(* The references of the handles: the temporary of each operator= left one behind. *)
RefsOf(f, asg) ==
  [b \in Pos |-> Cardinality(At(Shared, f, b)) + (IF b \in asg THEN 1 ELSE 0)]
WeaksOf(f) == [b \in Pos |-> Cardinality(At(Weak, f, b))]

(* The handles of a memory of n blocks. *)
Pointers(f, n) ==
  /\ f \in [Handles -> Int]
  /\ \A h \in Handles : -1 <= f[h] /\ f[h] <= n

LEMMA RefsBounds ==
  ASSUME NEW f, NEW asg
  PROVE  /\ RefsOf(f, asg) \in [Pos -> Nat] /\ WeaksOf(f) \in [Pos -> Nat]
         /\ \A b \in Pos : /\ RefsOf(f, asg)[b] < SizeMax /\ WeaksOf(f)[b] <= SizeMax
                           /\ \A s \in Shared : f[s] = b => RefsOf(f, asg)[b] >= 1
                           /\ \A w \in Weak : f[w] = b => WeaksOf(f)[b] >= 1
<1>1. /\ IsFiniteSet(Shared) /\ IsFiniteSet(Weak) /\ SizeMax \in Nat
      /\ Cardinality(Shared) + 2 <= SizeMax /\ Cardinality(Weak) <= SizeMax
      /\ Cardinality(Shared) \in Nat /\ Cardinality(Weak) \in Nat
      BY HandlesAssumption, BoundsAssumption, FS_CardinalityType
<1>2. \A b : /\ Cardinality(At(Shared, f, b)) \in Nat
             /\ Cardinality(At(Shared, f, b)) <= Cardinality(Shared)
             /\ Cardinality(At(Shared, f, b)) = 0 <=> \A h \in Shared : f[h] # b
      BY <1>1, NobodyCounted
<1>3. \A b : /\ Cardinality(At(Weak, f, b)) \in Nat
             /\ Cardinality(At(Weak, f, b)) <= Cardinality(Weak)
             /\ Cardinality(At(Weak, f, b)) = 0 <=> \A h \in Weak : f[h] # b
      BY <1>1, NobodyCounted
<1>4. RefsOf(f, asg) \in [Pos -> Nat] /\ WeaksOf(f) \in [Pos -> Nat] BY <1>2, <1>3 DEF RefsOf, WeaksOf
<1>5. ASSUME NEW b \in Pos
      PROVE  RefsOf(f, asg)[b] < SizeMax /\ (\A s \in Shared : f[s] = b => RefsOf(f, asg)[b] >= 1)
  <2>1. /\ RefsOf(f, asg)[b] <= Cardinality(At(Shared, f, b)) + 1
        /\ RefsOf(f, asg)[b] >= Cardinality(At(Shared, f, b))
        BY <1>2 DEF RefsOf
  <2>2. \A s \in Shared : f[s] = b => Cardinality(At(Shared, f, b)) # 0 BY <1>2
  <2> QED BY <1>1, <1>2, <1>4, <2>1, <2>2
<1>6. ASSUME NEW b \in Pos
      PROVE  WeaksOf(f)[b] <= SizeMax /\ (\A w \in Weak : f[w] = b => WeaksOf(f)[b] >= 1)
  <2>1. WeaksOf(f)[b] = Cardinality(At(Weak, f, b)) BY DEF WeaksOf
  <2>2. \A w \in Weak : f[w] = b => Cardinality(At(Weak, f, b)) # 0 BY <1>3
  <2> QED BY <1>1, <1>3, <2>1, <2>2
<1> QED BY <1>4, <1>5, <1>6

(* One handle of a kind changes: so do the counts of that kind. *)
LEMMA SharedMoves ==
  ASSUME NEW f, NEW g, NEW s \in Shared, Moves(Handles, s, f, g), NEW asg
  PROVE  /\ WeaksOf(g) = WeaksOf(f)
         /\ \A b \in Pos : RefsOf(g, asg)[b] + (IF f[s] = b THEN 1 ELSE 0)
                            = RefsOf(f, asg)[b] + (IF g[s] = b THEN 1 ELSE 0)
<1>1. Moves(Shared, s, f, g) /\ \A w \in Weak : g[w] = f[w]
      BY HandlesAssumption DEF Moves, Handles
<1>2. \A b : At(Weak, g, b) = At(Weak, f, b) BY <1>1 DEF At
<1>3. IsFiniteSet(Shared) BY HandlesAssumption
<1>4. \A b : /\ Cardinality(At(Shared, f, b)) \in Nat /\ Cardinality(At(Shared, g, b)) \in Nat
             /\ Cardinality(At(Shared, g, b)) + (IF f[s] = b THEN 1 ELSE 0)
                  = Cardinality(At(Shared, f, b)) + (IF g[s] = b THEN 1 ELSE 0)
      BY <1>1, <1>3, MovedCount
<1>5. WeaksOf(g) = WeaksOf(f) BY <1>2 DEF WeaksOf
<1>6. ASSUME NEW b \in Pos
      PROVE  RefsOf(g, asg)[b] + (IF f[s] = b THEN 1 ELSE 0)
               = RefsOf(f, asg)[b] + (IF g[s] = b THEN 1 ELSE 0)
  <2> DEFINE a == IF b \in asg THEN 1 ELSE 0
  <2>1. /\ RefsOf(f, asg)[b] = Cardinality(At(Shared, f, b)) + a
        /\ RefsOf(g, asg)[b] = Cardinality(At(Shared, g, b)) + a
        BY DEF RefsOf
  <2>2. a \in Nat OBVIOUS
  <2> HIDE DEF a
  <2> QED BY <1>4, <2>1, <2>2
<1> QED BY <1>5, <1>6

LEMMA WeakMoves ==
  ASSUME NEW f, NEW g, NEW w \in Weak, Moves(Handles, w, f, g), NEW asg
  PROVE  /\ RefsOf(g, asg) = RefsOf(f, asg)
         /\ \A b \in Pos : WeaksOf(g)[b] + (IF f[w] = b THEN 1 ELSE 0)
                            = WeaksOf(f)[b] + (IF g[w] = b THEN 1 ELSE 0)
<1>1. Moves(Weak, w, f, g) /\ \A s \in Shared : g[s] = f[s]
      BY HandlesAssumption DEF Moves, Handles
<1>2. \A b : At(Shared, g, b) = At(Shared, f, b) BY <1>1 DEF At
<1>3. IsFiniteSet(Weak) BY HandlesAssumption
<1>4. \A b : Cardinality(At(Weak, g, b)) + (IF f[w] = b THEN 1 ELSE 0)
               = Cardinality(At(Weak, f, b)) + (IF g[w] = b THEN 1 ELSE 0)
      BY <1>1, <1>3, MovedCount
<1>5. RefsOf(g, asg) = RefsOf(f, asg) BY <1>2 DEF RefsOf
<1> QED BY <1>4, <1>5 DEF WeaksOf

LEMMA FreshCounts ==
  ASSUME NEW f, NEW n \in Nat, Pointers(f, n), NEW asg \in SUBSET (1..n)
  PROVE  /\ RefsOf(f, asg)[n + 1] = 0 /\ WeaksOf(f)[n + 1] = 0
         /\ \A g, b : b \in Pos => RefsOf(g, asg \cup {n + 1})[b]
                                   = RefsOf(g, asg)[b] + (IF b = n + 1 THEN 1 ELSE 0)
<1>1. n + 1 \in Pos /\ n + 1 \notin asg BY DEF Pos
<1>2. \A h \in Handles : f[h] # n + 1
  <2> SUFFICES ASSUME NEW h \in Handles PROVE f[h] # n + 1
      OBVIOUS
  <2>1. f[h] \in Int /\ f[h] <= n BY DEF Pointers
  <2> QED BY <2>1
<1>3. IsFiniteSet(Shared) /\ IsFiniteSet(Weak) BY HandlesAssumption
<1>4. Cardinality(At(Shared, f, n + 1)) = 0 /\ Cardinality(At(Weak, f, n + 1)) = 0
      BY <1>2, <1>3, NobodyCounted DEF Handles
<1>5. ASSUME NEW g, NEW b \in Pos
      PROVE  RefsOf(g, asg \cup {n + 1})[b] = RefsOf(g, asg)[b] + (IF b = n + 1 THEN 1 ELSE 0)
  <2>1. Cardinality(At(Shared, g, b)) \in Nat BY <1>3, NobodyCounted
  <2> QED BY <1>1, <2>1 DEF RefsOf
<1> QED BY <1>1, <1>4, <1>5 DEF RefsOf, WeaksOf

LEMMA NewGoes ==
  ASSUME NEW bs, NEW ds, NEW r, NEW w, NEW unc, NEW rev, NEW asg, Sound(bs, ds, r, w, unc, rev, asg),
         NEW o, NEW es, NewObject(ds, es, o),
         NEW q \in [Pos -> Nat], Off(Len(bs) + 1, r, q), q[Len(bs) + 1] = 1, w[Len(bs) + 1] = 0,
         NEW asg2, asg2 = asg \/ (asg2 = asg \cup {Len(bs) + 1} /\ o = 0)
  PROVE  Goes(New(Mem(bs, es), o), Len(bs) + 1, q, w, unc, rev, asg2)
<1> DEFINE cs == Append(bs, NewCell(o))
<1>1. w \in [Pos -> Nat] /\ bs \in Seq(Cell) BY DEF Sound
<1>2. Off(Len(bs) + 1, w, w) BY DEF Off
<1>3. Sound(cs, es, q, w, unc, rev, asg2) BY <1>1, <1>2, SoundNew
<1>4. Len(cs) = Len(bs) + 1
  <2>1. cs \in Seq(Cell) BY <1>3 DEF Sound
  <2> QED BY <1>1
<1>5. New(Mem(bs, es), o) = Mem(cs, es) BY NewShape
<1> HIDE DEF cs
<1> QED BY <1>3, <1>4, <1>5, Arrives

(* Until the behaviour becomes undefined, the handles point to blocks and
   the memory is sound for them. *)
SharedInv ==
  /\ undefined = "no" =>
       /\ Pointers(shared_, Len(blocks))
       /\ Sound(blocks, deleted, RefsOf(shared_, assigned), WeaksOf(shared_),
                uncounted, revived, assigned)
  /\ UndefinedForAReason

LEMMA EndsInv ==
  ASSUME NEW m, Becomes(m), NEW n, Pointers(shared_', n),
         Ends(m, n, RefsOf(shared_', assigned'), WeaksOf(shared_'), uncounted', revived', assigned')
  PROVE  SharedInv'
<1>1. blocks' = m.blocks /\ deleted' = m.deleted /\ undefined' = m.undefined BY DEF Becomes
<1>2. CASE Goes(m, n, RefsOf(shared_', assigned'), WeaksOf(shared_'), uncounted', revived', assigned')
  <2>1. PICK bs, ds : /\ m = Mem(bs, ds) /\ Len(bs) = n
                      /\ Sound(bs, ds, RefsOf(shared_', assigned'), WeaksOf(shared_'),
                               uncounted', revived', assigned')
        BY <1>2 DEF Goes
  <2>2. blocks' = bs /\ deleted' = ds /\ undefined' = "no" BY <1>1, <2>1 DEF Mem
  <2> QED BY <2>1, <2>2 DEF SharedInv, UndefinedForAReason
<1>3. CASE m.undefined = "freed block" /\ uncounted' # {}
      BY <1>1, <1>3 DEF SharedInv, UndefinedForAReason
<1>4. CASE m.undefined = "dead object" /\ revived' # {}
      BY <1>1, <1>4 DEF SharedInv, UndefinedForAReason
<1> QED BY <1>2, <1>3, <1>4 DEF Ends

LEMMA SharedInit == Init => SharedInv
<1> SUFFICES ASSUME Init PROVE SharedInv
    OBVIOUS
<1>1. /\ shared_ = [h \in Handles |-> -1] /\ blocks = <<>> /\ deleted = <<>> /\ undefined = "no"
      /\ revived = {} /\ uncounted = {} /\ assigned = {}
      BY DEF Init, None
<1>2. Pointers(shared_, Len(blocks)) BY <1>1 DEF Pointers, Handles
<1>3. RefsOf(shared_, assigned) \in [Pos -> Nat] /\ WeaksOf(shared_) \in [Pos -> Nat] BY RefsBounds
<1>4. Owns(blocks, deleted, revived, assigned) BY <1>1 DEF Owns
<1>5. Sound(blocks, deleted, RefsOf(shared_, assigned), WeaksOf(shared_), uncounted, revived, assigned)
  <2>1. blocks \in Seq(Cell) /\ DOMAIN blocks = {} /\ deleted \in Seq(BOOLEAN) BY <1>1
  <2> QED BY <1>1, <1>3, <1>4, <2>1 DEF Sound
<1> QED BY <1>1, <1>2, <1>5 DEF SharedInv, UndefinedForAReason

(* What the proofs about the steps have to work with. *)
Defined ==
  /\ undefined = "no"
  /\ Pointers(shared_, Len(blocks))
  /\ Sound(blocks, deleted, RefsOf(shared_, assigned), WeaksOf(shared_), uncounted, revived, assigned)

LEMMA DefinedMemory ==
  ASSUME Defined
  PROVE  /\ Memory = Mem(blocks, deleted) /\ Len(blocks) \in Nat /\ Len(deleted) \in Nat
         /\ blocks \in Seq(Cell) /\ deleted \in Seq(BOOLEAN)
         /\ DOMAIN blocks = 1..Len(blocks)
         /\ assigned \subseteq 1..Len(blocks) /\ uncounted \subseteq 1..Len(blocks)
         /\ RefsOf(shared_, assigned)[Len(blocks) + 1] = 0 /\ WeaksOf(shared_)[Len(blocks) + 1] = 0
<1>1. Memory = Mem(blocks, deleted) BY DEF Defined, Memory, Mem
<1>2. /\ blocks \in Seq(Cell) /\ deleted \in Seq(BOOLEAN)
      /\ assigned \subseteq DOMAIN blocks /\ uncounted \subseteq DOMAIN blocks
      BY DEF Defined, Sound
<1>3. Len(blocks) \in Nat /\ Len(deleted) \in Nat /\ DOMAIN blocks = 1..Len(blocks) BY <1>2
<1>4. Pointers(shared_, Len(blocks)) BY DEF Defined
<1>5. assigned \in SUBSET (1..Len(blocks)) BY <1>2, <1>3
<1> QED BY <1>1, <1>2, <1>3, <1>4, <1>5, FreshCounts

(* Block b, if any, has a handle of the kind that r counts. *)
HasHandle(bs, r, b) == b = 0 \/ (b \in DOMAIN bs /\ r[b] >= 1)

LEMMA HandleCounted ==
  ASSUME Defined
  PROVE  /\ \A s \in Shared : Exists(s) => /\ HasHandle(blocks, RefsOf(shared_, assigned), shared_[s])
                                        /\ shared_[s] \in 0..Len(blocks)
         /\ \A w \in Weak : Exists(w) => /\ HasHandle(blocks, WeaksOf(shared_), shared_[w])
                                      /\ shared_[w] \in 0..Len(blocks)
<1>1. \A h \in Handles : shared_[h] # -1 => shared_[h] \in 0..Len(blocks)
  <2> SUFFICES ASSUME NEW h \in Handles, shared_[h] # -1 PROVE shared_[h] \in 0..Len(blocks)
      OBVIOUS
  <2>1. shared_[h] \in Int /\ -1 <= shared_[h] /\ shared_[h] <= Len(blocks)
        BY DEF Defined, Pointers
  <2>2. Len(blocks) \in Nat BY DefinedMemory
  <2> QED BY <2>1, <2>2
<1>2. \A b \in 0..Len(blocks) : b = 0 \/ (b \in DOMAIN blocks /\ b \in Pos) BY DefinedMemory DEF Pos
<1>3. ASSUME NEW s \in Shared, Exists(s)
      PROVE  HasHandle(blocks, RefsOf(shared_, assigned), shared_[s]) /\ shared_[s] \in 0..Len(blocks)
  <2>1. shared_[s] \in 0..Len(blocks) BY <1>1, <1>3 DEF Exists, None, Handles
  <2>2. shared_[s] \in Pos => RefsOf(shared_, assigned)[shared_[s]] >= 1 BY RefsBounds
  <2> QED BY <1>2, <2>1, <2>2 DEF HasHandle
<1>4. ASSUME NEW w \in Weak, Exists(w)
      PROVE  HasHandle(blocks, WeaksOf(shared_), shared_[w]) /\ shared_[w] \in 0..Len(blocks)
  <2>1. shared_[w] \in 0..Len(blocks) BY <1>1, <1>4 DEF Exists, None, Handles
  <2>2. shared_[w] \in Pos => WeaksOf(shared_)[shared_[w]] >= 1 BY RefsBounds
  <2> QED BY <1>2, <2>1, <2>2 DEF HasHandle
<1> QED BY <1>3, <1>4

(* A handle lets x go and takes y. *)
Shift(r, q, x, y) ==
  \A b \in Pos : q[b] + (IF x = b THEN 1 ELSE 0) = r[b] + (IF y = b THEN 1 ELSE 0)

LEMMA Shifts ==
  ASSUME NEW r \in [Pos -> Nat], NEW q \in [Pos -> Nat], NEW x, NEW y, Shift(r, q, x, y)
  PROVE  /\ x \notin Pos /\ y \in Pos => Off(y, r, q) /\ q[y] = r[y] + 1
         /\ x \in Pos /\ y \notin Pos => Off(x, r, q) /\ q[x] = r[x] - 1
         /\ x \notin Pos /\ y \notin Pos => \A b \in Pos : q[b] = r[b]
<1>1. \A b \in Pos : r[b] \in Nat /\ q[b] \in Nat OBVIOUS
<1> QED BY <1>1 DEF Shift, Off

(* The four effects on a sound memory, for a handle that may be empty. *)
ReviveAt(bs, b, rev, rev2) == rev \subseteq rev2 /\ (b # 0 => Revives(bs[b], rev, rev2))

LEMMA AddRefEnds ==
  ASSUME NEW bs, NEW ds, NEW r, NEW w, NEW unc, NEW rev, NEW asg, Sound(bs, ds, r, w, unc, rev, asg),
         NEW b, HasHandle(bs, r, b) \/ HasHandle(bs, w, b), \A c \in Pos : r[c] < SizeMax,
         NEW q \in [Pos -> Nat], NEW x, x \notin Pos, Shift(r, q, x, b),
         NEW rev2, ReviveAt(bs, b, rev, rev2)
  PROVE  /\ Ends(AddRef(Mem(bs, ds), b), Len(bs), q, w, unc, rev2, asg)
         /\ HasHandle(bs, r, b) => Goes(AddRef(Mem(bs, ds), b), Len(bs), q, w, unc, rev2, asg)
<1>1. r \in [Pos -> Nat] /\ w \in [Pos -> Nat] BY DEF Sound
<1>2. CASE b = 0
  <2>1. AddRef(Mem(bs, ds), b) = Mem(bs, ds) BY <1>2, NullShape
  <2>2. \A c \in Pos : q[c] = r[c] /\ w[c] = w[c]
    <3>1. b \notin Pos BY <1>2 DEF Pos
    <3> QED BY <1>1, <3>1, Shifts
  <2>3. rev \subseteq rev2 BY DEF ReviveAt
  <2>4. Sound(bs, ds, q, w, unc, rev2, asg) BY <1>1, <2>2, <2>3, SoundSame
  <2> QED BY <2>1, <2>4, Arrives
<1>3. CASE b # 0
  <2>1. b \in DOMAIN bs BY <1>3 DEF HasHandle
  <2>2. b \in Pos BY <2>1, SoundCell
  <2>3. Held(r, w, b) BY <1>3 DEF HasHandle, Held
  <2>4. Off(b, r, q) /\ q[b] = r[b] + 1 BY <1>1, <2>2, Shifts
  <2>5. r[b] < SizeMax BY <2>2
  <2>6. Revives(bs[b], rev, rev2) BY <1>3 DEF ReviveAt
  <2>7. /\ Ends(AddRef(Mem(bs, ds), b), Len(bs), q, w, unc, rev2, asg)
        /\ r[b] >= 1 => Goes(AddRef(Mem(bs, ds), b), Len(bs), q, w, unc, rev2, asg)
        BY <2>1, <2>3, <2>4, <2>5, <2>6, AddRefSound
  <2>8. HasHandle(bs, r, b) => r[b] >= 1 BY <1>3 DEF HasHandle
  <2> QED BY <2>7, <2>8, Zenon
<1> QED BY <1>2, <1>3

LEMMA ReleaseEnds ==
  ASSUME NEW bs, NEW ds, NEW r, NEW w, NEW unc, NEW rev, NEW asg, Sound(bs, ds, r, w, unc, rev, asg),
         NEW b, HasHandle(bs, r, b), NEW q \in [Pos -> Nat], NEW y, y \notin Pos, Shift(r, q, b, y)
  PROVE  Ends(Release(Mem(bs, ds), b), Len(bs), q, w, unc, rev, asg)
<1>1. r \in [Pos -> Nat] /\ w \in [Pos -> Nat] BY DEF Sound
<1>2. CASE b = 0
  <2>1. Release(Mem(bs, ds), b) = Mem(bs, ds) BY <1>2, NullShape
  <2>2. \A c \in Pos : q[c] = r[c] /\ w[c] = w[c]
    <3>1. b \notin Pos BY <1>2 DEF Pos
    <3> QED BY <1>1, <3>1, Shifts
  <2>3. rev \subseteq rev OBVIOUS
  <2>4. Sound(bs, ds, q, w, unc, rev, asg) BY <1>1, <2>2, <2>3, SoundSame
  <2> QED BY <2>1, <2>4, Arrives
<1>3. CASE b # 0
  <2>1. b \in DOMAIN bs /\ r[b] >= 1 BY <1>3 DEF HasHandle
  <2>2. b \in Pos BY <2>1, SoundCell
  <2>3. Off(b, r, q) /\ q[b] = r[b] - 1 BY <1>1, <2>2, Shifts
  <2> QED BY <2>1, <2>3, ReleaseSound
<1> QED BY <1>2, <1>3

LEMMA WeakAddRefEnds ==
  ASSUME NEW bs, NEW ds, NEW r, NEW w, NEW unc, NEW rev, NEW asg, Sound(bs, ds, r, w, unc, rev, asg),
         NEW b, HasHandle(bs, r, b), NEW v \in [Pos -> Nat], NEW x, x \notin Pos, Shift(w, v, x, b),
         \A c \in Pos : v[c] <= SizeMax
  PROVE  Ends(WeakAddRef(Mem(bs, ds), b), Len(bs), r, v, unc, rev, asg)
<1>1. r \in [Pos -> Nat] /\ w \in [Pos -> Nat] BY DEF Sound
<1>2. CASE b = 0
  <2>1. WeakAddRef(Mem(bs, ds), b) = Mem(bs, ds) BY <1>2, NullShape
  <2>2. \A c \in Pos : r[c] = r[c] /\ v[c] = w[c]
    <3>1. b \notin Pos BY <1>2 DEF Pos
    <3> QED BY <1>1, <3>1, Shifts
  <2>3. rev \subseteq rev OBVIOUS
  <2>4. Sound(bs, ds, r, v, unc, rev, asg) BY <1>1, <2>2, <2>3, SoundSame
  <2> QED BY <2>1, <2>4, Arrives
<1>3. CASE b # 0
  <2>1. b \in DOMAIN bs /\ r[b] >= 1 BY <1>3 DEF HasHandle
  <2>2. b \in Pos BY <2>1, SoundCell
  <2>3. Off(b, w, v) /\ v[b] = w[b] + 1 BY <1>1, <2>2, Shifts
  <2>4. w[b] < SizeMax
    <3>1. w[b] \in Nat /\ v[b] <= SizeMax /\ SizeMax \in Nat BY <1>1, <2>2, BoundsAssumption
    <3> QED BY <2>3, <3>1
  <2>5. Goes(WeakAddRef(Mem(bs, ds), b), Len(bs), r, v, unc, rev, asg)
        BY <2>1, <2>3, <2>4, WeakAddRefSound
  <2> QED BY <2>5, Zenon DEF Ends
<1> QED BY <1>2, <1>3

LEMMA WeakReleaseEnds ==
  ASSUME NEW bs, NEW ds, NEW r, NEW w, NEW unc, NEW rev, NEW asg, Sound(bs, ds, r, w, unc, rev, asg),
         NEW b, HasHandle(bs, w, b), NEW v \in [Pos -> Nat], NEW y, y \notin Pos, Shift(w, v, b, y)
  PROVE  Ends(WeakRelease(Mem(bs, ds), b), Len(bs), r, v, unc, rev, asg)
<1>1. r \in [Pos -> Nat] /\ w \in [Pos -> Nat] BY DEF Sound
<1>2. CASE b = 0
  <2>1. WeakRelease(Mem(bs, ds), b) = Mem(bs, ds) BY <1>2, NullShape
  <2>2. \A c \in Pos : r[c] = r[c] /\ v[c] = w[c]
    <3>1. b \notin Pos BY <1>2 DEF Pos
    <3> QED BY <1>1, <3>1, Shifts
  <2>3. rev \subseteq rev OBVIOUS
  <2>4. Sound(bs, ds, r, v, unc, rev, asg) BY <1>1, <2>2, <2>3, SoundSame
  <2> QED BY <2>1, <2>4, Arrives
<1>3. CASE b # 0
  <2>1. b \in DOMAIN bs /\ w[b] >= 1 BY <1>3 DEF HasHandle
  <2>2. b \in Pos BY <2>1, SoundCell
  <2>3. Off(b, w, v) /\ v[b] = w[b] - 1 BY <1>1, <2>2, Shifts
  <2> QED BY <2>1, <2>3, WeakReleaseSound
<1> QED BY <1>2, <1>3

(* A handle is set. *)
LEMMA SetPointers ==
  ASSUME NEW f, NEW n \in Nat, Pointers(f, n), NEW m \in Nat, n <= m,
         NEW h \in Handles, NEW x \in -1..m
  PROVE  /\ Pointers([f EXCEPT ![h] = x], m) /\ Moves(Handles, h, f, [f EXCEPT ![h] = x])
         /\ [f EXCEPT ![h] = x][h] = x
<1> DEFINE g == [f EXCEPT ![h] = x]
<1>1. f \in [Handles -> Int] BY DEF Pointers
<1>2. g \in [Handles -> Int] /\ g[h] = x /\ \A k \in Handles \ {h} : g[k] = f[k] BY <1>1
<1> HIDE DEF g
<1>3. ASSUME NEW k \in Handles PROVE -1 <= g[k] /\ g[k] <= m
  <2>1. f[k] \in Int /\ -1 <= f[k] /\ f[k] <= n BY <1>1 DEF Pointers
  <2>2. CASE k = h BY <1>2, <2>2
  <2>3. CASE k # h
    <3>1. g[k] = f[k] BY <1>2, <2>3
    <3> QED BY <2>1, <3>1
  <2> QED BY <2>2, <2>3
<1>4. Pointers(g, m) /\ Moves(Handles, h, f, g) /\ g[h] = x BY <1>2, <1>3 DEF Pointers, Moves
<1> QED BY <1>4 DEF g

LEMMA SetShared ==
  ASSUME Defined, NEW m \in Nat, Len(blocks) <= m, NEW s \in Shared, NEW x \in -1..m
  PROVE  LET g == [shared_ EXCEPT ![s] = x] IN
         /\ Pointers(g, m) /\ WeaksOf(g) = WeaksOf(shared_)
         /\ RefsOf(g, assigned) \in [Pos -> Nat] /\ RefsOf(shared_, assigned) \in [Pos -> Nat]
         /\ Shift(RefsOf(shared_, assigned), RefsOf(g, assigned), shared_[s], x)
<1> DEFINE g == [shared_ EXCEPT ![s] = x]
<1>1. Pointers(shared_, Len(blocks)) /\ Len(blocks) \in Nat /\ s \in Handles
      BY DefinedMemory DEF Defined, Handles
<1>2. Pointers(g, m) /\ Moves(Handles, s, shared_, g) /\ g[s] = x BY <1>1, SetPointers
<1> HIDE DEF g
<1>3. RefsOf(g, assigned) \in [Pos -> Nat] /\ RefsOf(shared_, assigned) \in [Pos -> Nat] BY RefsBounds
<1>4. WeaksOf(g) = WeaksOf(shared_) BY <1>2, SharedMoves
<1>5. \A b \in Pos : RefsOf(g, assigned)[b] + (IF shared_[s] = b THEN 1 ELSE 0)
                        = RefsOf(shared_, assigned)[b] + (IF g[s] = b THEN 1 ELSE 0)
      BY <1>2, SharedMoves
<1>6. Shift(RefsOf(shared_, assigned), RefsOf(g, assigned), shared_[s], x) BY <1>2, <1>5 DEF Shift
<1> QED BY <1>2, <1>3, <1>4, <1>6 DEF g

LEMMA SetWeak ==
  ASSUME Defined, NEW w \in Weak, NEW x \in -1..Len(blocks)
  PROVE  LET g == [shared_ EXCEPT ![w] = x] IN
         /\ Pointers(g, Len(blocks)) /\ RefsOf(g, assigned) = RefsOf(shared_, assigned)
         /\ WeaksOf(g) \in [Pos -> Nat] /\ WeaksOf(shared_) \in [Pos -> Nat]
         /\ Shift(WeaksOf(shared_), WeaksOf(g), shared_[w], x)
<1> DEFINE g == [shared_ EXCEPT ![w] = x]
<1>1. Pointers(shared_, Len(blocks)) /\ Len(blocks) \in Nat /\ w \in Handles
      BY DefinedMemory DEF Defined, Handles
<1>2. Pointers(g, Len(blocks)) /\ Moves(Handles, w, shared_, g) /\ g[w] = x BY <1>1, SetPointers
<1> HIDE DEF g
<1>3. WeaksOf(g) \in [Pos -> Nat] /\ WeaksOf(shared_) \in [Pos -> Nat] BY RefsBounds
<1>4. RefsOf(g, assigned) = RefsOf(shared_, assigned) BY <1>2, WeakMoves
<1>5. \A b \in Pos : WeaksOf(g)[b] + (IF shared_[w] = b THEN 1 ELSE 0)
                        = WeaksOf(shared_)[b] + (IF g[w] = b THEN 1 ELSE 0)
      BY <1>2, WeakMoves
<1>6. Shift(WeaksOf(shared_), WeaksOf(g), shared_[w], x) BY <1>2, <1>5 DEF Shift
<1> QED BY <1>2, <1>3, <1>4, <1>6 DEF g

(* A new block to object o: es is what the objects are with it. *)
LEMMA NewEnds ==
  ASSUME Defined, NEW o, NEW es, NewObject(deleted, es, o),
         Becomes(New(Mem(blocks, es), o)), Pointers(shared_', Len(blocks) + 1),
         WeaksOf(shared_') = WeaksOf(shared_), RefsOf(shared_', assigned) \in [Pos -> Nat],
         NEW x, x \notin Pos,
         Shift(RefsOf(shared_, assigned), RefsOf(shared_', assigned), x, Len(blocks) + 1),
         UNCHANGED history
  PROVE  SharedInv'
<1> DEFINE n == Len(blocks) + 1
           r == RefsOf(shared_, assigned)
           q == RefsOf(shared_', assigned)
<1>1. /\ Len(blocks) \in Nat /\ r[n] = 0 /\ WeaksOf(shared_)[n] = 0 BY DefinedMemory
<1>2. n \in Pos /\ r \in [Pos -> Nat] BY <1>1, RefsBounds DEF Pos
<1>3. Off(n, r, q) /\ q[n] = r[n] + 1 BY <1>2, Shifts
<1>4. q[n] = 1 BY <1>1, <1>3
<1>5. Sound(blocks, deleted, r, WeaksOf(shared_), uncounted, revived, assigned) BY DEF Defined
<1>6. Goes(New(Mem(blocks, es), o), n, q, WeaksOf(shared_), uncounted, revived, assigned)
      BY <1>1, <1>3, <1>4, <1>5, NewGoes
<1>7. uncounted' = uncounted /\ revived' = revived /\ assigned' = assigned BY DEF history
<1>8. Ends(New(Mem(blocks, es), o), n, RefsOf(shared_', assigned'), WeaksOf(shared_'),
           uncounted', revived', assigned')
      BY <1>6, <1>7, Zenon DEF Ends
<1> QED BY <1>8, EndsInv

LEMMA NewBecomes ==
  ASSUME Defined, NEW es, NEW o, Becomes(New(Mem(blocks, es), o))
  PROVE  Len(blocks') = Len(blocks) + 1
<1>1. New(Mem(blocks, es), o) = Mem(Append(blocks, NewCell(o)), es) BY NewShape
<1>2. blocks' = Append(blocks, NewCell(o)) BY <1>1 DEF Becomes, Mem
<1>3. blocks \in Seq(Cell) BY DefinedMemory
<1> QED BY <1>2, <1>3, LenProperties

LEMMA DefaultConstructStep ==
  ASSUME Defined, NEW s \in Shared, DefaultConstruct(s)
  PROVE  SharedInv'
<1> DEFINE n == Len(blocks) + 1
           g == [shared_ EXCEPT ![s] = n]
<1>1. shared_[s] = -1 BY DEF DefaultConstruct, Exists, None
<1>2. Becomes(New(Mem(blocks, deleted), 0)) BY DefinedMemory DEF DefaultConstruct, Null
<1>3. Len(blocks') = n /\ Len(blocks) \in Nat /\ n \in Nat BY <1>2, NewBecomes, DefinedMemory
<1>4. shared_' = g BY <1>3 DEF DefaultConstruct, Set
<1>5. /\ Pointers(g, n) /\ WeaksOf(g) = WeaksOf(shared_) /\ RefsOf(g, assigned) \in [Pos -> Nat]
      /\ Shift(RefsOf(shared_, assigned), RefsOf(g, assigned), shared_[s], n)
  <2>1. n \in -1..n /\ Len(blocks) <= n BY <1>3
  <2> HIDE DEF n
  <2> QED BY <1>3, <2>1, SetShared
<1> HIDE DEF g
<1>6. NewObject(deleted, deleted, 0) BY DEF NewObject
<1>7. UNCHANGED history BY DEF DefaultConstruct
<1>8. -1 \notin Pos BY DEF Pos
<1> QED BY <1>1, <1>2, <1>4, <1>5, <1>6, <1>7, <1>8, NewEnds

LEMMA ConstructStep ==
  ASSUME Defined, NEW s \in Shared, Construct(s)
  PROVE  SharedInv'
<1> DEFINE n == Len(blocks) + 1
           g == [shared_ EXCEPT ![s] = n]
           o == Len(deleted) + 1
           es == Append(deleted, FALSE)
<1>1. shared_[s] = -1 BY DEF Construct, Exists, None
<1>2. Becomes(New(Mem(blocks, es), o)) BY DefinedMemory, NewShape DEF Construct
<1>6. NewObject(deleted, es, o) BY DEF NewObject
<1> HIDE DEF es, o
<1>3. Len(blocks') = n /\ Len(blocks) \in Nat /\ n \in Nat BY <1>2, NewBecomes, DefinedMemory
<1>4. shared_' = g BY <1>3 DEF Construct, Set
<1>5. /\ Pointers(g, n) /\ WeaksOf(g) = WeaksOf(shared_) /\ RefsOf(g, assigned) \in [Pos -> Nat]
      /\ Shift(RefsOf(shared_, assigned), RefsOf(g, assigned), shared_[s], n)
  <2>1. n \in -1..n /\ Len(blocks) <= n BY <1>3
  <2> HIDE DEF n
  <2> QED BY <1>3, <2>1, SetShared
<1> HIDE DEF g
<1>7. UNCHANGED history BY DEF Construct
<1>8. -1 \notin Pos BY DEF Pos
<1> QED BY <1>1, <1>2, <1>4, <1>5, <1>6, <1>7, <1>8, NewEnds

(* The source moves to the new block. *)
LEMMA MoveConstructStep ==
  ASSUME Defined, NEW s \in Shared, NEW src \in Shared, MoveConstruct(s, src)
  PROVE  SharedInv'
<1> DEFINE n == Len(blocks) + 1
           f == [shared_ EXCEPT ![s] = shared_[src]]
           g == [f EXCEPT ![src] = n]
           r == RefsOf(shared_, assigned)
<1>1. shared_[s] = -1 /\ Exists(src) /\ s # src BY DEF MoveConstruct, Exists, None
<1>2. Becomes(New(Mem(blocks, deleted), 0)) BY DefinedMemory DEF MoveConstruct, Null
<1>3. Len(blocks') = n /\ Len(blocks) \in Nat /\ n \in Nat BY <1>2, NewBecomes, DefinedMemory
<1>4. shared_' = g BY <1>1, <1>3 DEF MoveConstruct
<1>5. shared_[src] \in 0..Len(blocks) BY <1>1, HandleCounted
<1>6. /\ Pointers(f, n) /\ WeaksOf(f) = WeaksOf(shared_) /\ RefsOf(f, assigned) \in [Pos -> Nat]
      /\ r \in [Pos -> Nat] /\ Shift(r, RefsOf(f, assigned), -1, shared_[src])
  <2>1. shared_[src] \in -1..n /\ Len(blocks) <= n BY <1>3, <1>5
  <2> HIDE DEF n
  <2> QED BY <1>1, <1>3, <2>1, SetShared
<1>7. f[src] = shared_[src]
  <2>1. shared_ \in [Handles -> Int] BY DEF Defined, Pointers
  <2> QED BY <1>1, <2>1 DEF Handles
<1> HIDE DEF f
<1>8. Pointers(g, n) /\ Moves(Handles, src, f, g) /\ g[src] = n
  <2>1. n \in -1..n /\ src \in Handles BY <1>3 DEF Handles
  <2> HIDE DEF n
  <2> QED BY <1>3, <1>6, <2>1, SetPointers
<1> HIDE DEF g
<1>9. /\ WeaksOf(g) = WeaksOf(f)
      /\ \A b \in Pos : RefsOf(g, assigned)[b] + (IF f[src] = b THEN 1 ELSE 0)
                         = RefsOf(f, assigned)[b] + (IF g[src] = b THEN 1 ELSE 0)
      BY <1>8, SharedMoves
<1>10. RefsOf(g, assigned) \in [Pos -> Nat] BY RefsBounds
<1>11. Shift(r, RefsOf(g, assigned), -1, n)
  <2>1. \A b \in Pos : RefsOf(g, assigned)[b] \in Nat /\ RefsOf(f, assigned)[b] \in Nat /\ r[b] \in Nat
        BY <1>6, <1>10
  <2>2. \A b \in Pos : RefsOf(f, assigned)[b] + (IF -1 = b THEN 1 ELSE 0)
                          = r[b] + (IF shared_[src] = b THEN 1 ELSE 0)
        BY <1>6 DEF Shift
  <2> HIDE DEF r, n
  <2> QED BY <1>7, <1>8, <1>9, <2>1, <2>2 DEF Shift
<1>12. NewObject(deleted, deleted, 0) BY DEF NewObject
<1>13. UNCHANGED history BY DEF MoveConstruct
<1>14. -1 \notin Pos BY DEF Pos
<1> QED BY <1>2, <1>4, <1>6, <1>8, <1>9, <1>10, <1>11, <1>12, <1>13, <1>14, NewEnds

LEMMA CopyConstructStep ==
  ASSUME Defined, NEW s \in Shared, NEW src \in Shared, CopyConstruct(s, src)
  PROVE  SharedInv'
<1> DEFINE n == Len(blocks)
           b == shared_[src]
           g == [shared_ EXCEPT ![s] = b]
           r == RefsOf(shared_, assigned)
           q == RefsOf(g, assigned)
           m == AddRef(Mem(blocks, deleted), b)
<1>1. shared_[s] = -1 /\ Exists(src) BY DEF CopyConstruct, Exists, None
<1>2. Becomes(m) /\ shared_' = g BY DefinedMemory DEF CopyConstruct, Set
<1>3. UNCHANGED <<uncounted, revived, assigned>> BY DEF CopyConstruct, history
<1>4. HasHandle(blocks, r, b) /\ b \in 0..n /\ n \in Nat BY <1>1, HandleCounted, DefinedMemory
<1>5. /\ Pointers(g, n) /\ WeaksOf(g) = WeaksOf(shared_) /\ q \in [Pos -> Nat] /\ r \in [Pos -> Nat]
      /\ Shift(r, q, -1, b)
  <2> HIDE DEF b
  <2>1. b \in -1..n /\ n <= n BY <1>4
  <2> QED BY <1>1, <1>4, <2>1, SetShared
<1>6. ReviveAt(blocks, b, revived, revived)
  <2>1. b # 0 => b \in DOMAIN blocks /\ r[b] >= 1 BY <1>4 DEF HasHandle
  <2>2. b # 0 => blocks[b].ref_cnt_ = r[b] BY <2>1, SoundCell DEF Defined
  <2> QED BY <2>1, <2>2 DEF ReviveAt, Revives
<1> HIDE DEF b, m, g
<1>7. Sound(blocks, deleted, r, WeaksOf(shared_), uncounted, revived, assigned) BY DEF Defined
<1>8. \A c \in Pos : r[c] < SizeMax BY RefsBounds
<1>9. -1 \notin Pos BY DEF Pos
<1> HIDE DEF r, q
<1>10. Ends(m, n, q, WeaksOf(shared_), uncounted, revived, assigned)
       BY <1>4, <1>5, <1>6, <1>7, <1>8, <1>9, AddRefEnds DEF m
<1>11. Ends(m, n, RefsOf(shared_', assigned'), WeaksOf(shared_'), uncounted', revived', assigned')
       BY <1>2, <1>3, <1>5, <1>10 DEF q
<1> QED BY <1>2, <1>5, <1>11, EndsInv

(* The object may be dead already: revived remembers it. *)
LEMMA ConstructFromWeakStep ==
  ASSUME Defined, NEW s \in Shared, NEW w \in Weak, ConstructFromWeak(s, w)
  PROVE  SharedInv'
<1> DEFINE n == Len(blocks)
           b == shared_[w]
           g == [shared_ EXCEPT ![s] = b]
           r == RefsOf(shared_, assigned)
           q == RefsOf(g, assigned)
           m == AddRef(Mem(blocks, deleted), b)
<1>1. shared_[s] = -1 /\ Exists(w) BY DEF ConstructFromWeak, Exists, None
<1>2. Becomes(m) /\ shared_' = g BY DefinedMemory DEF ConstructFromWeak, Set
<1>3. UNCHANGED <<uncounted, assigned>> BY DEF ConstructFromWeak
<1>4. HasHandle(blocks, WeaksOf(shared_), b) /\ b \in 0..n /\ n \in Nat
      BY <1>1, HandleCounted, DefinedMemory
<1>5. /\ Pointers(g, n) /\ WeaksOf(g) = WeaksOf(shared_) /\ q \in [Pos -> Nat] /\ r \in [Pos -> Nat]
      /\ Shift(r, q, -1, b)
  <2> HIDE DEF b
  <2>1. b \in -1..n /\ n <= n BY <1>4
  <2> QED BY <1>1, <1>4, <2>1, SetShared
<1>6. ReviveAt(blocks, b, revived, revived')
  <2>1. revived' = IF b # 0 /\ blocks[b].ref_cnt_ = 0
                   THEN revived \cup {blocks[b].ptr_} ELSE revived
        BY DEF ConstructFromWeak, Null
  <2> QED BY <2>1 DEF ReviveAt, Revives
<1> HIDE DEF b, m, g
<1>7. Sound(blocks, deleted, r, WeaksOf(shared_), uncounted, revived, assigned) BY DEF Defined
<1>8. \A c \in Pos : r[c] < SizeMax BY RefsBounds
<1>9. -1 \notin Pos BY DEF Pos
<1> HIDE DEF r, q
<1>10. Ends(m, n, q, WeaksOf(shared_), uncounted, revived', assigned)
       BY <1>4, <1>5, <1>6, <1>7, <1>8, <1>9, AddRefEnds DEF m
<1>11. Ends(m, n, RefsOf(shared_', assigned'), WeaksOf(shared_'), uncounted', revived', assigned')
       BY <1>2, <1>3, <1>5, <1>10 DEF q
<1> QED BY <1>2, <1>5, <1>11, EndsInv

LEMMA DestroyStep ==
  ASSUME Defined, NEW s \in Shared, Destroy(s)
  PROVE  SharedInv'
<1> DEFINE n == Len(blocks)
           b == shared_[s]
           g == [shared_ EXCEPT ![s] = -1]
           r == RefsOf(shared_, assigned)
           q == RefsOf(g, assigned)
           m == Release(Mem(blocks, deleted), b)
<1>1. Exists(s) BY DEF Destroy
<1>2. Becomes(m) /\ shared_' = g BY DefinedMemory DEF Destroy, Set, None
<1>3. UNCHANGED <<uncounted, revived, assigned>> BY DEF Destroy, history
<1>4. HasHandle(blocks, r, b) /\ n \in Nat BY <1>1, HandleCounted, DefinedMemory
<1>5. /\ Pointers(g, n) /\ WeaksOf(g) = WeaksOf(shared_) /\ q \in [Pos -> Nat] /\ r \in [Pos -> Nat]
      /\ Shift(r, q, b, -1)
  <2>1. -1 \in -1..n /\ n <= n BY <1>4
  <2> QED BY <1>4, <2>1, SetShared
<1> HIDE DEF b, m, g
<1>6. Sound(blocks, deleted, r, WeaksOf(shared_), uncounted, revived, assigned) BY DEF Defined
<1>7. -1 \notin Pos BY DEF Pos
<1> HIDE DEF r, q
<1>8. Ends(m, n, q, WeaksOf(shared_), uncounted, revived, assigned)
      BY <1>4, <1>5, <1>6, <1>7, ReleaseEnds DEF m
<1>9. Ends(m, n, RefsOf(shared_', assigned'), WeaksOf(shared_'), uncounted', revived', assigned')
      BY <1>2, <1>3, <1>5, <1>8 DEF q
<1> QED BY <1>2, <1>5, <1>9, EndsInv

(* The handle that is set to the new block is known once the memory is. *)
LEMMA EndsSetInv ==
  ASSUME NEW m, Becomes(m), NEW n, NEW g, Pointers(g, n),
         Len(blocks') = n => shared_' = g,
         Ends(m, n, RefsOf(g, assigned'), WeaksOf(g), uncounted', revived', assigned')
  PROVE  SharedInv'
<1>1. CASE Goes(m, n, RefsOf(g, assigned'), WeaksOf(g), uncounted', revived', assigned')
  <2>1. PICK bs, ds : m = Mem(bs, ds) /\ Len(bs) = n BY <1>1 DEF Goes
  <2>2. blocks' = bs BY <2>1 DEF Becomes, Mem
  <2>3. shared_' = g BY <2>1, <2>2
  <2> QED BY <2>3, EndsInv
<1>2. CASE m.undefined = "freed block" /\ uncounted' # {}
      BY <1>2 DEF Becomes, SharedInv, UndefinedForAReason
<1>3. CASE m.undefined = "dead object" /\ revived' # {}
      BY <1>3 DEF Becomes, SharedInv, UndefinedForAReason
<1> QED BY <1>1, <1>2, <1>3 DEF Ends

(* Block n + 1 is new: its one reference is s', and then s lets its old block go. *)
LEMMA ResetEnds ==
  ASSUME Defined, NEW s \in Shared, Exists(s), NEW o, NEW es, NewObject(deleted, es, o)
  PROVE  LET n == Len(blocks) + 1
             g == [shared_ EXCEPT ![s] = n]
         IN  /\ Pointers(g, n)
             /\ Ends(Release(New(Mem(blocks, es), o), shared_[s]), n,
                     RefsOf(g, assigned), WeaksOf(g), uncounted, revived, assigned)
<1> DEFINE n == Len(blocks) + 1
           b == shared_[s]
           g == [shared_ EXCEPT ![s] = n]
           r == RefsOf(shared_, assigned)
           r1 == [r EXCEPT ![n] = 1]
           q == RefsOf(g, assigned)
           m1 == New(Mem(blocks, es), o)
<1>1. /\ Len(blocks) \in Nat /\ n \in Nat /\ n \in Pos /\ r[n] = 0 /\ WeaksOf(shared_)[n] = 0
      /\ DOMAIN blocks = 1..Len(blocks)
      BY DefinedMemory DEF Pos
<1>2. HasHandle(blocks, r, b) BY HandleCounted
<1>3. /\ Pointers(g, n) /\ WeaksOf(g) = WeaksOf(shared_) /\ q \in [Pos -> Nat] /\ r \in [Pos -> Nat]
      /\ Shift(r, q, b, n)
  <2>1. n \in -1..n /\ Len(blocks) <= n BY <1>1
  <2> HIDE DEF n
  <2> QED BY <1>1, <2>1, SetShared
<1>4. Sound(blocks, deleted, r, WeaksOf(shared_), uncounted, revived, assigned) BY DEF Defined
<1> HIDE DEF g, r, q, b, m1
<1>5. r1 \in [Pos -> Nat] /\ Off(n, r, r1) /\ r1[n] = 1 BY <1>1, <1>3 DEF Off
<1>6. Goes(m1, n, r1, WeaksOf(shared_), uncounted, revived, assigned)
      BY <1>1, <1>4, <1>5, NewGoes DEF m1
<1>7. PICK bs, ds : /\ m1 = Mem(bs, ds) /\ Len(bs) = n
                    /\ Sound(bs, ds, r1, WeaksOf(shared_), uncounted, revived, assigned)
      BY <1>6 DEF Goes
<1>8. DOMAIN bs = 1..n
  <2>1. bs \in Seq(Cell) BY <1>7 DEF Sound
  <2> QED BY <1>7, <2>1
<1>9. HasHandle(bs, r1, b)
  <2>1. b # 0 => b \in 1..Len(blocks) /\ r[b] >= 1 BY <1>1, <1>2 DEF HasHandle
  <2>2. b \in 1..Len(blocks) => b \in Pos /\ b # n /\ b \in 1..n BY <1>1 DEF Pos
  <2>3. b \in Pos /\ b # n => r1[b] = r[b] BY <1>5 DEF Off
  <2> QED BY <1>8, <2>1, <2>2, <2>3 DEF HasHandle
<1>10. Shift(r1, q, b, -1)
  <2>1. \A c \in Pos : c # -1 /\ r[c] \in Nat /\ q[c] \in Nat BY <1>3 DEF Pos
  <2>2. \A c \in Pos : r1[c] = IF c = n THEN 1 ELSE r[c] BY <1>5 DEF Off
  <2>3. \A c \in Pos : q[c] + (IF b = c THEN 1 ELSE 0) = r[c] + (IF n = c THEN 1 ELSE 0)
        BY <1>3 DEF Shift
  <2> HIDE DEF n, r1
  <2> QED BY <1>1, <2>1, <2>2, <2>3 DEF Shift
<1>11. -1 \notin Pos BY DEF Pos
<1> HIDE DEF n, r1
<1>12. Ends(Release(Mem(bs, ds), b), n, q, WeaksOf(shared_), uncounted, revived, assigned)
       BY <1>3, <1>7, <1>9, <1>10, <1>11, ReleaseEnds
<1>13. Pointers(g, n) /\ Ends(Release(m1, b), n, q, WeaksOf(g), uncounted, revived, assigned)
       BY <1>3, <1>7, <1>12
<1> QED BY <1>13 DEF n, b, g, q, m1

LEMMA ResetStep ==
  ASSUME Defined, NEW s \in Shared, Reset(s) \/ ResetTo(s)
  PROVE  SharedInv'
<1> DEFINE n == Len(blocks) + 1
           g == [shared_ EXCEPT ![s] = n]
<1>1. Exists(s) BY DEF Reset, ResetTo
<1>2. UNCHANGED <<uncounted, revived, assigned>> BY DEF Reset, ResetTo, history
<1>3. Len(blocks') = n => shared_' = g BY DEF Reset, ResetTo, Set
<1>4. ASSUME NEW o, NEW es, NewObject(deleted, es, o),
             Becomes(Release(New(Mem(blocks, es), o), shared_[s]))
      PROVE  SharedInv'
  <2> DEFINE m == Release(New(Mem(blocks, es), o), shared_[s])
  <2>1. /\ Pointers(g, n)
        /\ Ends(m, n, RefsOf(g, assigned), WeaksOf(g), uncounted, revived, assigned)
        BY <1>1, <1>4, ResetEnds
  <2> HIDE DEF n, g
  <2>2. Becomes(m) BY <1>4
  <2> HIDE DEF m
  <2>3. Ends(m, n, RefsOf(g, assigned'), WeaksOf(g), uncounted', revived', assigned')
        BY <1>2, <2>1
  <2> QED BY <1>3, <2>1, <2>2, <2>3, EndsSetInv
<1>5. CASE Reset(s)
  <2>1. NewObject(deleted, deleted, 0) BY DEF NewObject
  <2>2. Becomes(Release(New(Mem(blocks, deleted), 0), shared_[s])) BY <1>5, DefinedMemory DEF Reset, Null
  <2> QED BY <1>4, <2>1, <2>2
<1>6. CASE ResetTo(s)
  <2> DEFINE es == Append(deleted, FALSE)
             o == Len(deleted) + 1
  <2>1. NewObject(deleted, es, o) BY DEF NewObject
  <2>2. Create(Memory) = Mem(blocks, es) BY DefinedMemory, NewShape
  <2>3. Becomes(Release(New(Mem(blocks, es), o), shared_[s])) BY <1>6, <2>2 DEF ResetTo
  <2> HIDE DEF es, o
  <2> QED BY <1>4, <2>1, <2>3
<1> QED BY <1>5, <1>6

(* The default block n has one reference, which it keeps; s takes source
   (the default block when s is assigned to itself) and lets its old block
   go. *)
LEMMA AssignStep ==
  ASSUME Defined, NEW s \in Shared, NEW src \in Shared, Assign(s, src)
  PROVE  SharedInv'
<1> DEFINE n == Len(blocks) + 1
           source == IF src = s THEN n ELSE shared_[src]
           b == shared_[s]
           g == [shared_ EXCEPT ![s] = source]
           asg2 == assigned \cup {n}
           r == RefsOf(shared_, assigned)
           r1 == [r EXCEPT ![n] = 1]
           r2 == [r1 EXCEPT ![source] = @ + 1]
           p == RefsOf(g, assigned)
           q == RefsOf(g, asg2)
           W == WeaksOf(shared_)
           m1 == New(Mem(blocks, deleted), 0)
           m == Release(AddRef(m1, source), b)
<1>1. /\ Len(blocks) \in Nat /\ n \in Nat /\ n \in Pos /\ r[n] = 0 /\ W[n] = 0
      /\ DOMAIN blocks = 1..Len(blocks) /\ assigned \in SUBSET (1..Len(blocks))
      BY DefinedMemory DEF Pos
<1>2. Exists(s) /\ Exists(src) /\ Becomes(m) /\ shared_' = g /\ assigned' = asg2
      BY DefinedMemory DEF Assign, Null, Set
<1>3. UNCHANGED <<uncounted, revived>> BY DEF Assign
<1>4. HasHandle(blocks, r, b) /\ (source = n \/ HasHandle(blocks, r, source)) /\ source \in 0..n
  <2>1. HasHandle(blocks, r, shared_[src]) /\ shared_[src] \in 0..Len(blocks) /\ HasHandle(blocks, r, b)
        BY <1>2, HandleCounted
  <2>2. n \in 0..n /\ 0..Len(blocks) \subseteq 0..n BY <1>1
  <2> HIDE DEF n
  <2> QED BY <2>1, <2>2
<1>5. /\ Pointers(g, n) /\ WeaksOf(g) = W /\ p \in [Pos -> Nat] /\ r \in [Pos -> Nat]
      /\ Shift(r, p, b, source)
  <2> HIDE DEF source
  <2>1. source \in -1..n /\ Len(blocks) <= n BY <1>1, <1>4
  <2> HIDE DEF n
  <2> QED BY <1>1, <2>1, SetShared
<1>6. q \in [Pos -> Nat] /\ \A c \in Pos : q[c] = p[c] + (IF c = n THEN 1 ELSE 0)
  <2>1. Pointers(shared_, Len(blocks)) BY DEF Defined
  <2> QED BY <1>1, <2>1, RefsBounds, FreshCounts
<1>7. Sound(blocks, deleted, r, W, uncounted, revived, assigned) BY DEF Defined
<1>8. \A c \in Pos : r[c] < SizeMax BY RefsBounds
<1> HIDE DEF g, r, p, q, b, m1, source, W
<1>9. r1 \in [Pos -> Nat] /\ Off(n, r, r1) /\ r1[n] = 1 BY <1>1, <1>5 DEF Off
<1>10. Goes(m1, n, r1, W, uncounted, revived, asg2)
  <2>1. NewObject(deleted, deleted, 0) BY DEF NewObject
  <2> QED BY <1>1, <1>7, <1>9, <2>1, NewGoes DEF m1
<1>11. PICK bs, ds : m1 = Mem(bs, ds) /\ Len(bs) = n /\ Sound(bs, ds, r1, W, uncounted, revived, asg2)
       BY <1>10 DEF Goes
<1>12. DOMAIN bs = 1..n
  <2>1. bs \in Seq(Cell) BY <1>11 DEF Sound
  <2> QED BY <1>11, <2>1
<1>13. \A c : HasHandle(blocks, r, c) => HasHandle(bs, r1, c)
  <2> TAKE c
  <2>1. HasHandle(blocks, r, c) /\ c # 0 => c \in 1..Len(blocks) /\ r[c] >= 1 BY <1>1 DEF HasHandle
  <2>2. c \in 1..Len(blocks) => c \in Pos /\ c # n /\ c \in 1..n BY <1>1 DEF Pos
  <2>3. c \in Pos /\ c # n => r1[c] = r[c] BY <1>9 DEF Off
  <2> QED BY <1>12, <2>1, <2>2, <2>3 DEF HasHandle
<1>14. HasHandle(bs, r1, source) /\ HasHandle(bs, r1, b)
  <2>1. n \in 1..n BY <1>1
  <2>2. HasHandle(bs, r1, n) BY <1>9, <1>12, <2>1 DEF HasHandle
  <2> QED BY <1>4, <1>13, <2>2
<1>15. \A c \in Pos : r1[c] = r[c] + (IF c = n THEN 1 ELSE 0) BY <1>1, <1>5, <1>9 DEF Off
<1>16. \A c \in Pos : r1[c] < SizeMax
  <2>1. 1 < SizeMax BY HandlesAssumption, BoundsAssumption, FS_CardinalityType
  <2> QED BY <1>8, <1>9, <2>1 DEF Off
<1> HIDE DEF n, r1, asg2
<1>17. r2 \in [Pos -> Nat] /\ \A c \in Pos : r2[c] = r1[c] + (IF source = c THEN 1 ELSE 0)
  <2>1. \A c \in Pos : r1[c] \in Nat BY <1>9
  <2>2. \A c \in Pos : r2[c] = IF c = source THEN r1[c] + 1 ELSE r1[c] BY <1>9
  <2>3. r2 \in [Pos -> Nat]
    <3>1. CASE source \in Pos
      <4>1. r1[source] + 1 \in Nat BY <2>1, <3>1
      <4> QED BY <1>9, <4>1
    <3>2. CASE source \notin Pos
      <4>1. r2 = r1 BY <1>9, <3>2
      <4> QED BY <1>9, <4>1
    <3> QED BY <3>1, <3>2
  <2> HIDE DEF r2
  <2> QED BY <2>1, <2>2, <2>3
<1> HIDE DEF r2
<1>18. \A c \in Pos : c # -1 BY DEF Pos
<1>19. Shift(r1, r2, -1, source) BY <1>9, <1>17, <1>18 DEF Shift
<1>20. ReviveAt(bs, source, revived, revived)
  <2>1. source # 0 => source \in DOMAIN bs /\ r1[source] >= 1 BY <1>14 DEF HasHandle
  <2>2. source # 0 => bs[source].ref_cnt_ = r1[source] BY <1>11, <2>1, SoundCell
  <2> QED BY <2>1, <2>2 DEF ReviveAt, Revives
<1>21. Goes(AddRef(m1, source), n, r2, W, uncounted, revived, asg2)
  <2>1. -1 \notin Pos BY DEF Pos
  <2> QED BY <1>11, <1>14, <1>16, <1>17, <1>19, <1>20, <2>1, AddRefEnds
<1>22. PICK cs, es : /\ AddRef(m1, source) = Mem(cs, es) /\ Len(cs) = n
                     /\ Sound(cs, es, r2, W, uncounted, revived, asg2)
       BY <1>21 DEF Goes
<1>23. HasHandle(cs, r2, b)
  <2>1. cs \in Seq(Cell) BY <1>22 DEF Sound
  <2>2. DOMAIN cs = DOMAIN bs BY <1>12, <1>22, <2>1
  <2>3. b # 0 => b \in DOMAIN bs /\ r1[b] >= 1 /\ b \in Pos BY <1>11, <1>14, SoundCell DEF HasHandle
  <2>4. b # 0 => r2[b] >= 1 BY <1>9, <1>17, <2>3
  <2> QED BY <2>2, <2>3, <2>4 DEF HasHandle
<1>24. Shift(r2, q, b, -1)
  <2>1. \A c \in Pos : /\ r[c] \in Nat /\ p[c] \in Nat /\ q[c] \in Nat
                       /\ p[c] + (IF b = c THEN 1 ELSE 0) = r[c] + (IF source = c THEN 1 ELSE 0)
        BY <1>5, <1>6 DEF Shift
  <2> QED BY <1>6, <1>15, <1>17, <1>18, <2>1 DEF Shift
<1>25. Ends(m, n, q, W, uncounted, revived, asg2)
  <2>1. -1 \notin Pos BY DEF Pos
  <2> QED BY <1>6, <1>22, <1>23, <1>24, <2>1, ReleaseEnds
<1>26. Becomes(m) BY <1>2
<1> HIDE DEF m
<1>27. Ends(m, n, RefsOf(shared_', assigned'), WeaksOf(shared_'), uncounted', revived', assigned')
       BY <1>2, <1>3, <1>5, <1>25 DEF q
<1> QED BY <1>2, <1>5, <1>26, <1>27, EndsInv

(* The memory stays what it is, and so do the counts. *)
LEMMA SameCounts ==
  ASSUME Defined, UNCHANGED <<mem, history>>, Pointers(shared_', Len(blocks)),
         NEW q \in [Pos -> Nat], q = RefsOf(shared_', assigned),
         NEW v \in [Pos -> Nat], v = WeaksOf(shared_'),
         \A b \in Pos : q[b] = RefsOf(shared_, assigned)[b] /\ v[b] = WeaksOf(shared_)[b]
  PROVE  SharedInv'
<1>1. Sound(blocks, deleted, RefsOf(shared_, assigned), WeaksOf(shared_), uncounted, revived, assigned)
      BY DEF Defined
<1>2. Sound(blocks, deleted, q, v, uncounted, revived, assigned) BY <1>1, SoundSame
<1>3. /\ blocks' = blocks /\ deleted' = deleted /\ undefined' = undefined
      /\ uncounted' = uncounted /\ revived' = revived /\ assigned' = assigned
      BY DEF mem, history
<1>4. undefined = "no" BY DEF Defined
<1> QED BY <1>2, <1>3, <1>4 DEF SharedInv, UndefinedForAReason

LEMMA SwapStep ==
  ASSUME Defined, NEW x, NEW y, Swap(x, y), (x \in Shared /\ y \in Shared) \/ (x \in Weak /\ y \in Weak)
  PROVE  SharedInv'
<1> DEFINE n == Len(blocks)
           a == shared_[x]
           b == shared_[y]
           f == [shared_ EXCEPT ![x] = b]
           g == [f EXCEPT ![y] = a]
           R(k) == RefsOf(k, assigned)
<1>1. UNCHANGED <<mem, history>> /\ Exists(x) /\ Exists(y) BY DEF Swap
<1>2. x \in Handles /\ y \in Handles /\ n \in Nat /\ n <= n BY DefinedMemory DEF Handles
<1>3. shared_' = g BY DEF Swap, Exchange
<1>4. a \in -1..n /\ b \in -1..n
  <2>1. a \in 0..n /\ b \in 0..n BY <1>1, HandleCounted
  <2> QED BY <2>1
<1>5. Pointers(shared_, n) BY DEF Defined
<1>6. f[y] = b
  <2>1. shared_ \in [Handles -> Int] BY <1>5 DEF Pointers
  <2> QED BY <1>2, <2>1
<1>7. Pointers(f, n) /\ Moves(Handles, x, shared_, f) /\ f[x] = b
  <2> HIDE DEF b, n
  <2> QED BY <1>2, <1>4, <1>5, SetPointers
<1> HIDE DEF f
<1>8. Pointers(g, n) /\ Moves(Handles, y, f, g) /\ g[y] = a
  <2> HIDE DEF a, n
  <2> QED BY <1>2, <1>4, <1>7, SetPointers
<1> HIDE DEF g
<1>9. \A k : /\ R(k) \in [Pos -> Nat] /\ WeaksOf(k) \in [Pos -> Nat]
             /\ \A c \in Pos : R(k)[c] \in Nat /\ WeaksOf(k)[c] \in Nat
  <2> TAKE k
  <2>1. R(k) \in [Pos -> Nat] /\ WeaksOf(k) \in [Pos -> Nat] BY RefsBounds
  <2> QED BY <2>1
<1>10. \A c \in Pos : R(g)[c] = R(shared_)[c] /\ WeaksOf(g)[c] = WeaksOf(shared_)[c]
  <2>1. CASE x \in Shared /\ y \in Shared
    <3>1. /\ WeaksOf(f) = WeaksOf(shared_)
          /\ \A c \in Pos : R(f)[c] + (IF a = c THEN 1 ELSE 0) = R(shared_)[c] + (IF b = c THEN 1 ELSE 0)
          BY <1>7, <2>1, SharedMoves
    <3>2. /\ WeaksOf(g) = WeaksOf(f)
          /\ \A c \in Pos : R(g)[c] + (IF b = c THEN 1 ELSE 0) = R(f)[c] + (IF a = c THEN 1 ELSE 0)
          BY <1>6, <1>8, <2>1, SharedMoves
    <3> HIDE DEF R, a, b
    <3> QED BY <1>9, <3>1, <3>2
  <2>2. CASE x \in Weak /\ y \in Weak
    <3>1. /\ R(f) = R(shared_)
          /\ \A c \in Pos : WeaksOf(f)[c] + (IF a = c THEN 1 ELSE 0)
                             = WeaksOf(shared_)[c] + (IF b = c THEN 1 ELSE 0)
          BY <1>7, <2>2, WeakMoves
    <3>2. /\ R(g) = R(f)
          /\ \A c \in Pos : WeaksOf(g)[c] + (IF b = c THEN 1 ELSE 0)
                             = WeaksOf(f)[c] + (IF a = c THEN 1 ELSE 0)
          BY <1>6, <1>8, <2>2, WeakMoves
    <3> HIDE DEF R, a, b
    <3> QED BY <1>9, <3>1, <3>2
  <2> QED BY <2>1, <2>2
<1>11. R(g) \in [Pos -> Nat] /\ WeaksOf(g) \in [Pos -> Nat] BY <1>9
<1> QED BY <1>1, <1>3, <1>8, <1>10, <1>11, SameCounts

LEMMA WeakDefaultConstructStep ==
  ASSUME Defined, NEW w \in Weak, WeakDefaultConstruct(w)
  PROVE  SharedInv'
<1> DEFINE n == Len(blocks)
           g == [shared_ EXCEPT ![w] = 0]
           v == WeaksOf(g)
           q == RefsOf(g, assigned)
<1>1. /\ UNCHANGED <<mem, history>> /\ shared_[w] = -1 /\ shared_' = g
      BY DEF WeakDefaultConstruct, Exists, None, Null, Set
<1>2. /\ Pointers(g, n) /\ q = RefsOf(shared_, assigned)
      /\ v \in [Pos -> Nat] /\ WeaksOf(shared_) \in [Pos -> Nat]
      /\ Shift(WeaksOf(shared_), v, -1, 0)
  <2>1. n \in Nat BY DefinedMemory
  <2>2. 0 \in -1..n BY <2>1
  <2> QED BY <1>1, <2>2, SetWeak
<1>3. q \in [Pos -> Nat] BY RefsBounds
<1> HIDE DEF g
<1>4. \A b \in Pos : q[b] = RefsOf(shared_, assigned)[b] /\ v[b] = WeaksOf(shared_)[b]
  <2>1. -1 \notin Pos /\ 0 \notin Pos BY DEF Pos
  <2> QED BY <1>2, <2>1, Shifts
<1> QED BY <1>1, <1>2, <1>3, <1>4, SameCounts

LEMMA WeakConstructStep ==
  ASSUME Defined, NEW w \in Weak, NEW s \in Shared, WeakConstruct(w, s)
  PROVE  SharedInv'
<1> DEFINE n == Len(blocks)
           b == shared_[s]
           g == [shared_ EXCEPT ![w] = b]
           r == RefsOf(shared_, assigned)
           v == WeaksOf(g)
           m == WeakAddRef(Mem(blocks, deleted), b)
<1>1. shared_[w] = -1 /\ Exists(s) BY DEF WeakConstruct, Exists, None
<1>2. Becomes(m) /\ shared_' = g BY DefinedMemory DEF WeakConstruct, Set
<1>3. UNCHANGED <<uncounted, revived, assigned>> BY DEF WeakConstruct, history
<1>4. HasHandle(blocks, r, b) /\ b \in 0..n /\ n \in Nat BY <1>1, HandleCounted, DefinedMemory
<1>5. /\ Pointers(g, n) /\ RefsOf(g, assigned) = r /\ v \in [Pos -> Nat]
      /\ Shift(WeaksOf(shared_), v, -1, b)
  <2>1. b \in -1..n BY <1>4
  <2> HIDE DEF b
  <2> QED BY <1>1, <2>1, SetWeak
<1> HIDE DEF b, m, g
<1>6. Sound(blocks, deleted, r, WeaksOf(shared_), uncounted, revived, assigned) BY DEF Defined
<1>7. \A c \in Pos : v[c] <= SizeMax BY RefsBounds
<1>8. -1 \notin Pos BY DEF Pos
<1> HIDE DEF r, v
<1>9. Ends(m, n, r, v, uncounted, revived, assigned)
      BY <1>4, <1>5, <1>6, <1>7, <1>8, WeakAddRefEnds DEF m
<1>10. Ends(m, n, RefsOf(shared_', assigned'), WeaksOf(shared_'), uncounted', revived', assigned')
       BY <1>2, <1>3, <1>5, <1>9 DEF v
<1> QED BY <1>2, <1>5, <1>10, EndsInv

LEMMA WeakReleaseStep ==
  ASSUME Defined, NEW w \in Weak, WeakDestroy(w) \/ WeakReset(w)
  PROVE  SharedInv'
<1> DEFINE n == Len(blocks)
           b == shared_[w]
           m == WeakRelease(Mem(blocks, deleted), b)
           r == RefsOf(shared_, assigned)
<1>1. Exists(w) /\ Becomes(m) /\ (shared_' = [shared_ EXCEPT ![w] = -1] \/ shared_' = [shared_ EXCEPT ![w] = 0])
      BY DefinedMemory DEF WeakDestroy, WeakReset, Set, None, Null
<1>2. UNCHANGED <<uncounted, revived, assigned>> BY DEF WeakDestroy, WeakReset, history
<1>3. HasHandle(blocks, WeaksOf(shared_), b) /\ n \in Nat BY <1>1, HandleCounted, DefinedMemory
<1>4. Sound(blocks, deleted, r, WeaksOf(shared_), uncounted, revived, assigned) BY DEF Defined
<1>5. PICK x \in {-1, 0} : shared_' = [shared_ EXCEPT ![w] = x] BY <1>1
<1> DEFINE g == [shared_ EXCEPT ![w] = x]
           v == WeaksOf(g)
<1>6. x \in -1..n /\ x \notin Pos BY <1>3 DEF Pos
<1>7. /\ Pointers(g, n) /\ RefsOf(g, assigned) = r /\ v \in [Pos -> Nat]
      /\ Shift(WeaksOf(shared_), v, b, x)
      BY <1>6, SetWeak
<1>8. Becomes(m) BY <1>1
<1> HIDE DEF b, m, g, r, v
<1>9. Ends(m, n, r, v, uncounted, revived, assigned)
      BY <1>3, <1>4, <1>6, <1>7, WeakReleaseEnds DEF m
<1>10. shared_' = g BY <1>5 DEF g
<1>11. Ends(m, n, RefsOf(shared_', assigned'), WeaksOf(shared_'), uncounted', revived', assigned')
       BY <1>2, <1>7, <1>9, <1>10 DEF v
<1> QED BY <1>7, <1>8, <1>10, <1>11, EndsInv

(* The compiler's copy: from here on the weak counts of both blocks mean nothing. *)
LEMMA WeakCopyStep ==
  ASSUME Defined, NEW w \in Weak, NEW src \in Weak, WeakCopy(w, src)
  PROVE  SharedInv'
<1> DEFINE n == Len(blocks)
           a == shared_[w]
           b == shared_[src]
           g == [shared_ EXCEPT ![w] = b]
           r == RefsOf(shared_, assigned)
           W == WeaksOf(shared_)
           v == WeaksOf(g)
           unc2 == uncounted \cup ({a, b} \ {-1, 0})
<1>1. Exists(src) /\ shared_' = g /\ uncounted' = unc2 BY DEF WeakCopy, Set, None, Null
<1>2. UNCHANGED <<mem, revived, assigned>> BY DEF WeakCopy
<1>3. n \in Nat /\ DOMAIN blocks = 1..n BY DefinedMemory
<1>4. b \in 0..n BY <1>1, HandleCounted
<1>5. a \in -1..n
  <2>1. a \in Int /\ -1 <= a /\ a <= n BY DEF Defined, Pointers, Handles
  <2> QED BY <1>3, <2>1
<1>6. /\ Pointers(g, n) /\ RefsOf(g, assigned) = r /\ v \in [Pos -> Nat] /\ W \in [Pos -> Nat]
      /\ Shift(W, v, a, b)
  <2>1. b \in -1..n BY <1>4
  <2> HIDE DEF b, n
  <2> QED BY <2>1, SetWeak DEF n
<1>7. Sound(blocks, deleted, r, W, uncounted, revived, assigned) BY DEF Defined
<1> HIDE DEF g, r, v, W
<1>8. unc2 \subseteq DOMAIN blocks /\ uncounted \subseteq unc2
  <2>1. a \in {-1, 0} \/ a \in 1..n BY <1>3, <1>5
  <2>2. b = 0 \/ b \in 1..n BY <1>3, <1>4
  <2>3. uncounted \subseteq DOMAIN blocks BY <1>7 DEF Sound
  <2> HIDE DEF a, b, n
  <2> QED BY <1>3, <2>1, <2>2, <2>3
<1>9. \A c \in DOMAIN blocks : c \in Pos /\ (c \notin unc2 => v[c] = W[c])
  <2> TAKE c \in DOMAIN blocks
  <2>1. c \in Pos /\ c \notin {-1, 0} BY <1>3 DEF Pos
  <2>2. c \notin unc2 => a # c /\ b # c BY <2>1
  <2>3. a # c /\ b # c => v[c] = W[c] BY <1>6, <2>1 DEF Shift
  <2> QED BY <2>1, <2>2, <2>3
<1> HIDE DEF unc2
<1>10. \A c \in DOMAIN blocks : Counts(blocks[c], r[c], v[c], c, unc2)
  <2> TAKE c \in DOMAIN blocks
  <2>1. Counts(blocks[c], r[c], W[c], c, uncounted) BY <1>7 DEF Sound
  <2>2. c \notin unc2 => c \notin uncounted /\ v[c] = W[c] BY <1>8, <1>9
  <2> QED BY <2>1, <2>2 DEF Counts
<1>11. Sound(blocks, deleted, r, v, unc2, revived, assigned) BY <1>6, <1>7, <1>8, <1>10 DEF Sound
<1>12. /\ blocks' = blocks /\ deleted' = deleted /\ undefined' = undefined
       /\ revived' = revived /\ assigned' = assigned /\ undefined = "no"
       BY <1>2 DEF mem, Defined
<1>13. /\ Pointers(shared_', Len(blocks'))
       /\ Sound(blocks', deleted', RefsOf(shared_', assigned'), WeaksOf(shared_'),
                uncounted', revived', assigned')
       BY <1>1, <1>6, <1>11, <1>12 DEF v
<1> QED BY <1>12, <1>13 DEF SharedInv, UndefinedForAReason

LEMMA SharedStep ==
  ASSUME SharedInv, Next
  PROVE  SharedInv'
<1>1. Defined BY DEF Next, SharedInv, Defined
<1>2. ASSUME NEW s \in Shared, SharedOp(s)
      PROVE  SharedInv'
  <2>1. CASE DefaultConstruct(s) BY <1>1, <2>1, DefaultConstructStep
  <2>2. CASE Construct(s) BY <1>1, <2>2, ConstructStep
  <2>3. CASE Destroy(s) BY <1>1, <2>3, DestroyStep
  <2>4. CASE Reset(s) \/ ResetTo(s) BY <1>1, <2>4, ResetStep
  <2>5. ASSUME NEW src \in Shared,
               CopyConstruct(s, src) \/ MoveConstruct(s, src) \/ Assign(s, src) \/ Swap(s, src)
        PROVE  SharedInv'
    <3>1. CASE CopyConstruct(s, src) BY <1>1, <3>1, CopyConstructStep
    <3>2. CASE MoveConstruct(s, src) BY <1>1, <3>2, MoveConstructStep
    <3>3. CASE Assign(s, src) BY <1>1, <3>3, AssignStep
    <3>4. CASE Swap(s, src) BY <1>1, <3>4, SwapStep
    <3> QED BY <2>5, <3>1, <3>2, <3>3, <3>4
  <2>6. ASSUME NEW w \in Weak, ConstructFromWeak(s, w)
        PROVE  SharedInv'
        BY <1>1, <2>6, ConstructFromWeakStep
  <2> QED BY <1>2, <2>1, <2>2, <2>3, <2>4, <2>5, <2>6 DEF SharedOp
<1>3. ASSUME NEW w \in Weak, WeakOp(w)
      PROVE  SharedInv'
  <2>1. CASE WeakDefaultConstruct(w) BY <1>1, <2>1, WeakDefaultConstructStep
  <2>2. CASE WeakDestroy(w) \/ WeakReset(w) BY <1>1, <2>2, WeakReleaseStep
  <2>3. ASSUME NEW s \in Shared, WeakConstruct(w, s)
        PROVE  SharedInv'
        BY <1>1, <2>3, WeakConstructStep
  <2>4. ASSUME NEW src \in Weak, WeakCopy(w, src)
        PROVE  SharedInv'
        BY <1>1, <2>4, WeakCopyStep
  <2>5. ASSUME NEW src \in Weak, Swap(w, src)
        PROVE  SharedInv'
        BY <1>1, <2>5, SwapStep
  <2> QED BY <1>3, <2>1, <2>2, <2>3, <2>4, <2>5 DEF WeakOp
<1> QED BY <1>2, <1>3 DEF Next

LEMMA SharedInvImpliesCounts == SharedInv => CountsHandles
<1> SUFFICES ASSUME SharedInv, undefined = "no", NEW b \in Allocated \ uncounted
             PROVE  IF Pointing(Handles, b) = {} /\ b \notin assigned THEN blocks[b].freed
                    ELSE /\ ~blocks[b].freed
                         /\ blocks[b].weak_ref_cnt_ = Cardinality(Pointing(Weak, b))
                         /\ b \notin assigned =>
                              blocks[b].ref_cnt_ = Cardinality(Pointing(Shared, b))
    BY DEF CountsHandles
<1> DEFINE r == RefsOf(shared_, assigned)
           w == WeaksOf(shared_)
           x == blocks[b]
<1>1. Sound(blocks, deleted, r, w, uncounted, revived, assigned) BY DEF SharedInv
<1>2. b \in DOMAIN blocks /\ b \notin uncounted BY DEF Allocated
<1>3. /\ Counts(x, r[b], w[b], b, uncounted) /\ b \in Pos
      /\ r[b] \in Nat /\ w[b] \in Nat /\ x.weak_ref_cnt_ \in 0..SizeMax
      BY <1>1, <1>2, SoundCell
<1>4. IsFiniteSet(Shared) /\ IsFiniteSet(Weak) BY HandlesAssumption
<1>5. /\ Cardinality(At(Shared, shared_, b)) \in Nat
      /\ Cardinality(At(Shared, shared_, b)) = 0 <=> \A h \in Shared : shared_[h] # b
      BY <1>4, NobodyCounted
<1>6. Cardinality(At(Weak, shared_, b)) = 0 <=> \A h \in Weak : shared_[h] # b
      BY <1>4, NobodyCounted
<1>7. /\ r[b] = Cardinality(At(Shared, shared_, b)) + (IF b \in assigned THEN 1 ELSE 0)
      /\ w[b] = Cardinality(At(Weak, shared_, b))
      BY <1>3 DEF RefsOf, WeaksOf
<1>8. /\ Pointing(Shared, b) = At(Shared, shared_, b) /\ Pointing(Weak, b) = At(Weak, shared_, b)
      /\ Pointing(Handles, b) = {} <=> /\ \A h \in Shared : shared_[h] # b
                                      /\ \A h \in Weak : shared_[h] # b
      BY DEF Pointing, At, Handles
<1> HIDE DEF r, w, x
<1>9. x.freed <=> r[b] = 0 /\ w[b] = 0 BY <1>2, <1>3 DEF Counts
<1>10. r[b] = 0 /\ w[b] = 0 <=> Pointing(Handles, b) = {} /\ b \notin assigned
       BY <1>5, <1>6, <1>7, <1>8
<1>11. CASE Pointing(Handles, b) = {} /\ b \notin assigned BY <1>9, <1>10, <1>11 DEF x
<1>12. CASE ~(Pointing(Handles, b) = {} /\ b \notin assigned)
  <2>1. ~x.freed BY <1>9, <1>10, <1>12
  <2>2. x.ref_cnt_ = r[b] /\ x.weak_ref_cnt_ = w[b] BY <1>2, <1>3, <2>1 DEF Counts
  <2>3. b \notin assigned => x.ref_cnt_ = Cardinality(Pointing(Shared, b)) BY <1>5, <1>7, <1>8, <2>2
  <2> QED BY <1>7, <1>8, <1>12, <2>1, <2>2, <2>3 DEF x
<1> QED BY <1>11, <1>12

LEMMA SharedInvImpliesLive == SharedInv => OwnedObjectsLive
<1> SUFFICES ASSUME SharedInv, undefined = "no", NEW o \in Objects \ revived
             PROVE  deleted[o] <=> ~\E s \in Shared :
                                     shared_[s] > Null /\ blocks[shared_[s]].ptr_ = o
    BY DEF OwnedObjectsLive
<1> DEFINE r == RefsOf(shared_, assigned)
<1>1. Sound(blocks, deleted, r, WeaksOf(shared_), uncounted, revived, assigned)
      /\ Pointers(shared_, Len(blocks)) /\ Defined
      BY DEF SharedInv, Defined
<1>2. Owns(blocks, deleted, revived, assigned) BY <1>1 DEF Sound
<1>3. o \in DOMAIN deleted /\ o \notin revived /\ o # 0
  <2>1. deleted \in Seq(BOOLEAN) BY <1>1 DEF Sound
  <2> QED BY <2>1 DEF Objects
<1>4. PICK b \in DOMAIN blocks : blocks[b].ptr_ = o BY <1>2, <1>3 DEF Owns
<1>5. /\ b \in Pos /\ blocks[b].ref_cnt_ = r[b] /\ r[b] \in Nat BY <1>1, SoundCell
<1>6. b \notin assigned /\ (deleted[o] <=> blocks[b].ref_cnt_ = 0) BY <1>2, <1>3, <1>4 DEF Owns
<1>7. r[b] = 0 <=> \A h \in Shared : shared_[h] # b
  <2>1. /\ Cardinality(At(Shared, shared_, b)) \in Nat
        /\ Cardinality(At(Shared, shared_, b)) = 0 <=> \A h \in Shared : shared_[h] # b
        BY HandlesAssumption, NobodyCounted
  <2>2. r[b] = Cardinality(At(Shared, shared_, b)) BY <1>5, <1>6, <2>1 DEF RefsOf
  <2> QED BY <2>1, <2>2
<1>8. \A s \in Shared : shared_[s] > Null /\ blocks[shared_[s]].ptr_ = o <=> shared_[s] = b
  <2> SUFFICES ASSUME NEW s \in Shared
               PROVE  shared_[s] > Null /\ blocks[shared_[s]].ptr_ = o <=> shared_[s] = b
      OBVIOUS
  <2>1. shared_[s] \in Int /\ shared_[s] <= Len(blocks) BY <1>1 DEF Pointers, Handles
  <2>2. DOMAIN blocks = 1..Len(blocks) /\ Len(blocks) \in Nat BY <1>1, DefinedMemory
  <2>3. shared_[s] > 0 => shared_[s] \in DOMAIN blocks BY <2>1, <2>2
  <2>4. shared_[s] > 0 /\ blocks[shared_[s]].ptr_ = o => shared_[s] = b
        BY <1>2, <1>3, <1>4, <2>3 DEF Owns
  <2>5. b > 0 BY <1>5 DEF Pos
  <2> QED BY <1>4, <2>4, <2>5 DEF Null
<1> HIDE DEF r
<1>9. deleted[o] <=> \A s \in Shared : shared_[s] # b BY <1>5, <1>6, <1>7
<1>10. (\E s \in Shared : shared_[s] > Null /\ blocks[shared_[s]].ptr_ = o)
         <=> \E s \in Shared : shared_[s] = b
       BY <1>8
<1> QED BY <1>9, <1>10, Zenon

-----------------------------------------------------------------------------
(* prefetch_stream.  A stream's position in its file is behind as many
   items as it has yielded and still keeps in its array; when the file is
   at its end it may have counted more. *)
Item == Seq(Bytes \cup {"?"})
FileType == [open : BOOLEAN, pos : Nat \ {0}, eof : BOOLEAN, error : BOOLEAN]
StreamType ==
  [file_ : FileType, prefetched_ : [P!Slots -> Item], read_pos_ : 0..PREFETCH_SIZE,
   prefetched_cnt_ : 0..PREFETCH_SIZE, said : Seq(Item), moved : BOOLEAN, copied : BOOLEAN]

Count(text) == Cardinality(P!Begins(text, Len(text)))
Passed(text, s) == Cardinality(P!Begins(text, s.file_.pos - 1))
Total(s) == Len(s.said) + s.prefetched_cnt_ - s.read_pos_

\* The position is not inside an item.
Between(text, ln, pos) ==
  /\ pos \in 1..(Len(text) + 1)
  /\ pos = 1 \/ pos > Len(text) \/ (IF ln THEN text[pos - 1] = NL ELSE text[pos] = NL)

\* The array: what it has from the file is what comes next.
Keeps(text, s) ==
  \A k \in P!Slots : s.read_pos_ <= k /\ k < s.prefetched_cnt_ =>
    LET n == Len(s.said) + k - s.read_pos_ + 1 IN
    n <= Count(text) => s.prefetched_[k] = P!Items(text)[n]

Yields(text, s) ==
  \A n \in DOMAIN s.said : n <= Count(text) => s.said[n] = P!Items(text)[n]

\* A string is appended to what is in the slot.
Cleared(s) ==
  \A k \in P!Slots : ~(s.read_pos_ <= k /\ k < s.prefetched_cnt_) => s.prefetched_[k] = <<>>

StreamSound(text, ln, s) ==
  /\ Between(text, ln, s.file_.pos)
  /\ Passed(text, s) <= Total(s)
  /\ Passed(text, s) = Total(s) \/ s.file_.pos > Len(text)
  /\ Keeps(text, s) /\ Yields(text, s)
  /\ ln => Cleared(s)
  /\ P!EndsInside(text) /\ ~s.copied =>
       /\ Passed(text, s) = Total(s)
       /\ s.file_.pos > Len(text) => ~P!good(s.file_)

StreamOk(text, ln, s) ==
  /\ s.read_pos_ <= s.prefetched_cnt_
  /\ s.file_.pos \in 1..Len(text)+1
  /\ s.moved \/ (ln /\ P!HasEmptyLine(text)) \/ StreamSound(text, ln, s)

SoundStreams(text, ln) == {s \in StreamType : StreamOk(text, ln, s)}

StreamInv ==
  /\ file \in Seq(Bytes) /\ lines \in BOOLEAN
  /\ in \in [Streams -> SoundStreams(file, lines) \cup {P!NoStream}]

LEMMA StreamCardinality == \A S : P!Cardinality(S) = Cardinality(S)
BY DEF P!Cardinality, Cardinality

\* What a text is, and what its beginnings are.
LEMMA TextIs ==
  ASSUME NEW text \in Seq(Bytes)
  PROVE  /\ Len(text) \in Nat /\ DOMAIN text = 1..Len(text)
         /\ \A k \in 1..Len(text) : text[k] \in Bytes
BY LenProperties, ElementOfSeq

LEMMA BeginsIs ==
  ASSUME NEW text, NEW k \in Nat
  PROVE  /\ IsFiniteSet(P!Begins(text, k)) /\ Cardinality(P!Begins(text, k)) \in Nat
         /\ \A i \in P!Begins(text, k) : i \in 1..k /\ P!Begin(text, i)
<1>1. IsFiniteSet(1..k) BY FS_Interval
<1>2. P!Begins(text, k) \in SUBSET (1..k) BY DEF P!Begins
<1>3. IsFiniteSet(P!Begins(text, k)) BY <1>1, <1>2, FS_Subset
<1> QED BY <1>3, FS_CardinalityType DEF P!Begins

\* One more beginning, or none.
LEMMA BeginsNext ==
  ASSUME NEW text, NEW k \in Nat \ {0}
  PROVE  Cardinality(P!Begins(text, k))
           = Cardinality(P!Begins(text, k - 1)) + (IF P!Begin(text, k) THEN 1 ELSE 0)
<1>0. k - 1 \in Nat /\ 1..k = (1..k-1) \cup {k} /\ k \notin 1..k-1 OBVIOUS
<1>1. IsFiniteSet(P!Begins(text, k - 1)) /\ Cardinality(P!Begins(text, k - 1)) \in Nat
      BY <1>0, BeginsIs
<1>2. k \notin P!Begins(text, k - 1) BY <1>0 DEF P!Begins
<1>3. CASE P!Begin(text, k)
  <2>1. P!Begins(text, k) = P!Begins(text, k - 1) \cup {k} BY <1>0, <1>3 DEF P!Begins
  <2> QED BY <1>1, <1>2, <1>3, <2>1, FS_AddElement
<1>4. CASE ~P!Begin(text, k)
  <2>1. P!Begins(text, k) = P!Begins(text, k - 1) BY <1>0, <1>4 DEF P!Begins
  <2> QED BY <1>1, <1>4, <2>1
<1> QED BY <1>3, <1>4

LEMMA BeginsGrow ==
  ASSUME NEW text, NEW j \in Nat, NEW i \in 0..j
  PROVE  Cardinality(P!Begins(text, i)) <= Cardinality(P!Begins(text, j))
<1>1. P!Begins(text, i) \in SUBSET P!Begins(text, j) BY DEF P!Begins
<1> QED BY <1>1, BeginsIs, FS_Subset

LEMMA NoBegins ==
  ASSUME NEW text, NEW j \in Nat, NEW i \in 0..j,
         \A k \in i+1..j : ~P!Begin(text, k)
  PROVE  P!Begins(text, i) = P!Begins(text, j)
BY DEF P!Begins

\* EndOfLine and EndOfBlanks find what they look for.
LEMMA EndOfLineIs ==
  ASSUME NEW text \in Seq(Bytes), NEW from \in 1..Len(text)+1
  PROVE  LET end == P!EndOfLine(text, from) IN
         /\ end \in from..Len(text)+1
         /\ end <= Len(text) => text[end] = NL
         /\ \A n \in from..end-1 : text[n] # NL
<1> DEFINE T == {k \in from..Len(text)+1 : k \in DOMAIN text => text[k] = NL}
<1>0. Len(text) \in Nat /\ DOMAIN text = 1..Len(text) BY TextIs
<1>1. T \in SUBSET Nat /\ Len(text)+1 \in T BY <1>0
<1>2. PICK x \in T : \A y \in T : x <= y
  <2> HIDE DEF T
  <2> QED BY <1>1, Smallest
<1>3. ASSUME NEW n \in from..x-1 PROVE text[n] # NL
  <2>1. n \in from..Len(text)+1 /\ ~(x <= n) BY <1>0, <1>2
  <2>2. n \notin T BY <1>2, <2>1
  <2> QED BY <2>1, <2>2
<1>4. \E k \in from..Len(text)+1 : /\ k \in DOMAIN text => text[k] = NL
                                   /\ \A n \in from..(k - 1) : text[n] # NL
      BY <1>2, <1>3
<1> DEFINE end == P!EndOfLine(text, from)
<1>5. /\ end \in from..Len(text)+1
      /\ end \in DOMAIN text => text[end] = NL
      /\ \A n \in from..(end - 1) : text[n] # NL
  <2> SUFFICES \E k \in from..Len(text)+1 : /\ k \in DOMAIN text => text[k] = NL
                                   /\ \A n \in from..(k - 1) : text[n] # NL
      BY Zenon DEF P!EndOfLine
  <2> QED BY <1>4
<1> QED BY <1>0, <1>5

LEMMA EndOfBlanksIs ==
  ASSUME NEW text \in Seq(Bytes), NEW from \in 1..Len(text)+1
  PROVE  LET end == P!EndOfBlanks(text, from) IN
         /\ end \in from..Len(text)+1
         /\ end <= Len(text) => text[end] # NL
         /\ \A n \in from..end-1 : text[n] = NL
<1> DEFINE T == {k \in from..Len(text)+1 : k \in DOMAIN text => text[k] # NL}
<1>0. Len(text) \in Nat /\ DOMAIN text = 1..Len(text) BY TextIs
<1>1. T \in SUBSET Nat /\ Len(text)+1 \in T BY <1>0
<1>2. PICK x \in T : \A y \in T : x <= y
  <2> HIDE DEF T
  <2> QED BY <1>1, Smallest
<1>3. ASSUME NEW n \in from..x-1 PROVE text[n] = NL
  <2>1. n \in from..Len(text)+1 /\ ~(x <= n) BY <1>0, <1>2
  <2>2. n \notin T BY <1>2, <2>1
  <2> QED BY <2>1, <2>2
<1>4. \E k \in from..Len(text)+1 : /\ k \in DOMAIN text => text[k] # NL
                                   /\ \A n \in from..(k - 1) : text[n] = NL
      BY <1>2, <1>3
<1> DEFINE end == P!EndOfBlanks(text, from)
<1>5. /\ end \in from..Len(text)+1
      /\ end \in DOMAIN text => text[end] # NL
      /\ \A n \in from..(end - 1) : text[n] = NL
  <2> SUFFICES \E k \in from..Len(text)+1 : /\ k \in DOMAIN text => text[k] # NL
                                   /\ \A n \in from..(k - 1) : text[n] = NL
      BY Zenon DEF P!EndOfBlanks
  <2> QED BY <1>4
<1> QED BY <1>0, <1>5

\* An item is known by the number of beginnings up to its own.
LEMMA ItemAt ==
  ASSUME NEW text \in Seq(Bytes), NEW start \in 1..Len(text), P!Begin(text, start)
  PROVE  LET n == Cardinality(P!Begins(text, start)) IN
         /\ n \in 1..Count(text)
         /\ P!Items(text)[n] = SubSeq(text, start, P!EndOfLine(text, start) - 1)
<1> DEFINE n == Cardinality(P!Begins(text, start))
<1>0. Len(text) \in Nat BY TextIs
<1>1. n \in Nat /\ n = Cardinality(P!Begins(text, start - 1)) + 1
      BY BeginsIs, BeginsNext, <1>0
<1>2. n \in 1..Count(text)
  <2>1. n <= Count(text) BY <1>0, BeginsGrow DEF Count
  <2>2. Cardinality(P!Begins(text, start - 1)) \in Nat /\ Count(text) \in Nat
        BY <1>0, BeginsIs DEF Count
  <2> QED BY <1>1, <2>1, <2>2
<1>3. ASSUME NEW k \in P!Begins(text, Len(text)), Cardinality(P!Begins(text, k)) = n
      PROVE  k = start
  <2>1. k \in 1..Len(text) /\ P!Begin(text, k) BY <1>0, BeginsIs
  <2>2. Cardinality(P!Begins(text, k)) = Cardinality(P!Begins(text, k - 1)) + 1
        BY <2>1, BeginsNext
  <2>3. /\ Cardinality(P!Begins(text, k - 1)) \in Nat /\ k - 1 \in Nat
        /\ Cardinality(P!Begins(text, start - 1)) \in Nat /\ start - 1 \in Nat
        BY <1>0, <2>1, BeginsIs
  <2>4. ~(k < start)
    <3> SUFFICES ASSUME k < start PROVE FALSE OBVIOUS
    <3>1. k \in 0..start-1 BY <2>1
    <3>2. n <= Cardinality(P!Begins(text, start - 1)) BY <1>3, <2>3, <3>1, BeginsGrow
    <3> QED BY <1>1, <2>3, <3>2
  <2>5. ~(start < k)
    <3> SUFFICES ASSUME start < k PROVE FALSE OBVIOUS
    <3>1. start \in 0..k-1 BY <2>1
    <3>2. n <= Cardinality(P!Begins(text, k - 1)) BY <2>3, <3>1, BeginsGrow
    <3> QED BY <1>1, <1>3, <2>2, <2>3, <3>2
  <2> QED BY <2>1, <2>4, <2>5
<1>4. start \in P!Begins(text, Len(text)) BY <1>0 DEF P!Begins
<1>5. P!Nth(text, n) = start
  <2>1. P!Nth(text, n) = CHOOSE k \in P!Begins(text, Len(text)) :
                           Cardinality(P!Begins(text, k)) = n
        BY Zenon DEF P!Nth, P!Cardinality, Cardinality
  <2> HIDE DEF n
  <2>2. Cardinality(P!Begins(text, start)) = n BY DEF n
  <2> QED BY <1>3, <1>4, <2>1, <2>2
<1>6. P!Items(text) = [i \in 1..Count(text) |->
                         SubSeq(text, P!Nth(text, i), P!EndOfLine(text, P!Nth(text, i)) - 1)]
      BY Zenon DEF P!Items, Count, P!Cardinality, Cardinality
<1> HIDE DEF n
<1>7. P!Items(text)[n] = SubSeq(text, start, P!EndOfLine(text, start) - 1)
      BY <1>2, <1>5, <1>6
<1> QED BY <1>2, <1>7 DEF n

\* Behind the item there is one beginning more than before it.
LEMMA ItemPassed ==
  ASSUME NEW text \in Seq(Bytes), NEW start \in 1..Len(text), P!Begin(text, start)
  PROVE  LET n == Cardinality(P!Begins(text, start))
             end == P!EndOfLine(text, start)
         IN  /\ n = Cardinality(P!Begins(text, start - 1)) + 1
             /\ end \in start+1..Len(text)+1
             /\ Cardinality(P!Begins(text, end - 1)) = n
             /\ end <= Len(text) => Cardinality(P!Begins(text, end)) = n
<1> DEFINE end == P!EndOfLine(text, start)
<1>0. Len(text) \in Nat BY TextIs
<1>1. /\ end \in start..Len(text)+1
      /\ end <= Len(text) => text[end] = NL
      /\ \A n \in start..end-1 : text[n] # NL
      BY <1>0, EndOfLineIs
<1> HIDE DEF end
<1>2. end # start BY <1>0, <1>1 DEF P!Begin
<1>3. end \in start+1..Len(text)+1 BY <1>0, <1>1, <1>2
<1>4. \A k \in start+1..end-1 : ~P!Begin(text, k) BY <1>0, <1>1, <1>3 DEF P!Begin
<1>5. P!Begins(text, start) = P!Begins(text, end - 1) BY <1>3, <1>4, NoBegins
<1>6. end <= Len(text) => P!Begins(text, end - 1) = P!Begins(text, end)
  <2> SUFFICES ASSUME end <= Len(text) PROVE P!Begins(text, end - 1) = P!Begins(text, end)
      OBVIOUS
  <2>1. ~P!Begin(text, end) BY <1>1 DEF P!Begin
  <2>2. \A k \in (end-1)+1..end : ~P!Begin(text, k) BY <1>3, <2>1
  <2>3. end \in Nat /\ end - 1 \in 0..end BY <1>3
  <2> QED BY <2>2, <2>3, NoBegins
<1>7. Cardinality(P!Begins(text, start)) = Cardinality(P!Begins(text, start - 1)) + 1
      BY BeginsNext
<1> QED BY <1>3, <1>5, <1>6, <1>7 DEF end

\* What operator>> of ifstream finds: nothing but the end, or the next item.
NoItem(text, f, x) ==
  /\ Cardinality(P!Begins(text, f.pos - 1)) = Count(text)
  /\ x.f.pos = Len(text) + 1
  /\ f.pos <= Len(text) => ~P!EndsInside(text)

NextItem(text, ln, f, out, x) ==
  LET n == Cardinality(P!Begins(text, f.pos - 1)) + 1 IN
  /\ n \in 1..Count(text)
  /\ Cardinality(P!Begins(text, x.f.pos - 1)) = n
  /\ P!Items(text)[n] \in Item
  /\ x.out = (IF ln THEN out \o P!Items(text)[n] ELSE P!Items(text)[n])
  /\ P!EndsInside(text) /\ x.f.pos > Len(text) => x.f.eof

Extracts(text, ln, f, out, x) ==
  /\ Between(text, ln, x.f.pos)
  /\ NoItem(text, f, x) \/ NextItem(text, ln, f, out, x)

Moved(f, pos) == [f EXCEPT !.pos = pos]

LEMMA FilePositions ==
  ASSUME file \in Seq(Bytes), NEW f \in FileType, NEW pos \in 1..Len(file)+1
  PROVE  /\ P!At(f, pos) \in FileType /\ P!At(f, pos).pos = pos
         /\ P!At(f, pos).eof = (pos > Len(file))
         /\ Moved(f, pos) \in FileType /\ Moved(f, pos).pos = pos
<1>1. Len(file) \in Nat BY TextIs
<1>2. pos \in Nat \ {0} /\ (pos > Len(file)) \in BOOLEAN BY <1>1
<1> QED BY <1>2 DEF FileType, P!At, Moved

LEMMA TextPart ==
  ASSUME NEW text \in Seq(Bytes), NEW from \in 1..Len(text)+1, NEW end \in from..Len(text)+1
  PROVE  SubSeq(text, from, end - 1) \in Item
<1>1. Len(text) \in Nat /\ \A k \in 1..Len(text) : text[k] \in Bytes BY TextIs
<1>2. \A k \in from..end-1 : text[k] \in Bytes \cup {"?"} BY <1>1
<1>3. from \in Int /\ end - 1 \in Int BY <1>1
<1> QED BY <1>2, <1>3, SubSeqProperties DEF Item

LEMMA EndsInsideIs ==
  ASSUME NEW text \in Seq(Bytes), P!EndsInside(text)
  PROVE  Len(text) \in Nat \ {0} /\ text[Len(text)] # NL
<1>1. Len(text) \in Nat /\ text # <<>> BY TextIs DEF P!EndsInside
<1> QED BY <1>1, EmptySeq DEF P!EndsInside

\* Numbers: fscanf skips the newlines before one and stops behind it.
LEMMA ScanNumberExtracts ==
  ASSUME file \in Seq(Bytes), NEW f \in FileType, NEW out \in Item, Between(file, FALSE, f.pos)
  PROVE  Extracts(file, FALSE, f, out, P!ScanNumber(f, out))
<1> DEFINE start == P!EndOfBlanks(file, f.pos)
           end == P!EndOfLine(file, start)
           x == P!ScanNumber(f, out)
<1> SUFFICES Extracts(file, FALSE, f, out, x) OBVIOUS
<1>0. Len(file) \in Nat /\ DOMAIN file = 1..Len(file) BY TextIs
<1>1. /\ f.pos \in 1..Len(file)+1
      /\ f.pos = 1 \/ f.pos > Len(file) \/ file[f.pos] = NL
      BY DEF Between
<1>2. /\ start \in f.pos..Len(file)+1
      /\ start <= Len(file) => file[start] # NL
      /\ \A n \in f.pos..start-1 : file[n] = NL
      BY <1>1, EndOfBlanksIs
<1>3. start \in 1..Len(file)+1 BY <1>0, <1>1, <1>2
<1>4. end \in start..Len(file)+1 BY <1>3, EndOfLineIs
<1>5. end \in 1..Len(file)+1 BY <1>0, <1>3, <1>4
<1>6. /\ x.f = P!At(f, end)
      /\ start > Len(file) => x.out = out
      /\ ~(start > Len(file)) => x.out = SubSeq(file, start, end - 1)
      BY DEF P!ScanNumber
<1> HIDE DEF start, end, x
<1>7. x.f \in FileType /\ x.f.pos = end /\ x.f.eof = (end > Len(file))
      BY <1>5, <1>6, FilePositions
<1>8. Cardinality(P!Begins(file, f.pos - 1)) = Cardinality(P!Begins(file, start - 1))
  <2>1. \A k \in (f.pos-1)+1..start-1 : ~P!Begin(file, k)
        BY <1>0, <1>1, <1>2, <1>3 DEF P!Begin
  <2>2. start - 1 \in Nat /\ f.pos - 1 \in 0..start-1 BY <1>0, <1>1, <1>2
  <2> QED BY <2>1, <2>2, NoBegins
<1>9. x.out \in Item BY <1>3, <1>4, <1>6, TextPart
<1>10. CASE start > Len(file)
  <2>1. start = Len(file) + 1 /\ end = Len(file) + 1 BY <1>0, <1>3, <1>4, <1>10
  <2>2. Between(file, FALSE, x.f.pos) BY <1>0, <1>7, <2>1 DEF Between
  <2>3. f.pos <= Len(file) => ~P!EndsInside(file)
    <3> SUFFICES ASSUME f.pos <= Len(file), P!EndsInside(file) PROVE FALSE OBVIOUS
    <3>1. Len(file) \in f.pos..start-1 BY <1>0, <1>1, <2>1
    <3> QED BY <1>2, <3>1, EndsInsideIs
  <2>4. NoItem(file, f, x)
        BY <1>0, <1>7, <1>8, <2>1, <2>3 DEF NoItem, Count
  <2> QED BY <1>7, <1>9, <2>2, <2>4 DEF Extracts
<1>11. CASE start <= Len(file)
  <2>1. start \in 1..Len(file) BY <1>0, <1>3, <1>11
  <2>2. P!Begin(file, start)
    <3>1. CASE start = 1 BY <1>2, <1>11, <3>1 DEF P!Begin
    <3>2. CASE start # 1 /\ start = f.pos BY <1>1, <1>2, <1>11, <3>2, <1>0
    <3>3. CASE start # f.pos
      <4>1. start - 1 \in f.pos..start-1 BY <1>0, <1>1, <1>2, <3>3
      <4> QED BY <1>2, <1>11, <4>1 DEF P!Begin
    <3> QED BY <3>1, <3>2, <3>3
  <2> DEFINE n == Cardinality(P!Begins(file, start))
  <2>3. /\ n \in 1..Count(file)
        /\ P!Items(file)[n] = SubSeq(file, start, end - 1)
        BY <2>1, <2>2, ItemAt DEF end
  <2>4. /\ n = Cardinality(P!Begins(file, start - 1)) + 1
        /\ Cardinality(P!Begins(file, end - 1)) = n
        BY <2>1, <2>2, ItemPassed DEF end
  <2>5. Between(file, FALSE, x.f.pos)
    <3>1. end <= Len(file) => file[end] = NL BY <1>3, EndOfLineIs DEF end
    <3> QED BY <1>0, <1>5, <1>7, <3>1 DEF Between
  <2> HIDE DEF n
  <2>5a. ~(start > Len(file)) BY <1>0, <2>1
  <2>6. x.out = P!Items(file)[n] BY Zenon, <1>6, <2>3, <2>5a
  <2>7. x.f.pos > Len(file) => x.f.eof BY <1>7
  <2>8. NextItem(file, FALSE, f, out, x)
        BY <1>7, <1>8, <1>9, <2>3, <2>4, <2>6, <2>7 DEF NextItem
  <2> QED BY <1>7, <1>9, <2>5, <2>8 DEF Extracts
<1>12. start > Len(file) \/ start <= Len(file) BY <1>0, <1>3
<1> QED BY Zenon, <1>10, <1>11, <1>12

\* Strings: the characters up to the newline are added, and the newline is read.
LEMMA ScanLineExtracts ==
  ASSUME file \in Seq(Bytes), NEW f \in FileType, NEW out \in Item, Between(file, TRUE, f.pos),
         ~P!HasEmptyLine(file)
  PROVE  Extracts(file, TRUE, f, out, P!ScanLine(f, out))
<1> DEFINE end == IF f.pos > Len(file) THEN f.pos ELSE P!EndOfLine(file, f.pos + 1)
           x == P!ScanLine(f, out)
<1> SUFFICES Extracts(file, TRUE, f, out, x) OBVIOUS
<1>0. Len(file) \in Nat /\ DOMAIN file = 1..Len(file) BY TextIs
<1>1. /\ f.pos \in 1..Len(file)+1
      /\ f.pos = 1 \/ f.pos > Len(file) \/ file[f.pos - 1] = NL
      BY DEF Between
<1>2. /\ x.f = (IF end > Len(file) THEN P!At(f, end) ELSE Moved(f, end + 1))
      /\ x.out = out \o SubSeq(file, f.pos, end - 1)
      BY DEF P!ScanLine, Moved
<1>3. end \in f.pos..Len(file)+1
  <2>1. CASE f.pos > Len(file) BY <1>0, <1>1, <2>1
  <2>2. CASE ~(f.pos > Len(file))
    <3>1. f.pos + 1 \in 1..Len(file)+1 BY <1>0, <1>1, <2>2
    <3>2. P!EndOfLine(file, f.pos + 1) \in f.pos+1..Len(file)+1 BY <3>1, EndOfLineIs
    <3> QED BY <1>0, <1>1, <2>2, <3>2
  <2> QED BY <2>1, <2>2
<1>3a. /\ f.pos > Len(file) => end = f.pos
       /\ ~(f.pos > Len(file)) => end = P!EndOfLine(file, f.pos + 1)
      OBVIOUS
<1> HIDE DEF x, end
<1>4. x.out \in Item
  <2>1. SubSeq(file, f.pos, end - 1) \in Item BY <1>1, <1>3, TextPart
  <2> QED BY <1>2, <2>1, ConcatProperties DEF Item
<1>5. CASE f.pos > Len(file)
  <2>1. f.pos = Len(file) + 1 /\ end = Len(file) + 1 BY <1>0, <1>1, <1>3a, <1>5
  <2>2. x.f = P!At(f, end) BY <1>0, <1>2, <2>1
  <2>2a. end \in 1..Len(file)+1 BY <1>0, <2>1
  <2>2b. P!At(f, end) \in FileType /\ P!At(f, end).pos = end BY <2>2a, FilePositions
  <2>3. x.f \in FileType /\ x.f.pos = Len(file) + 1 BY <2>1, <2>2, <2>2b
  <2>4. Between(file, TRUE, x.f.pos) BY <1>0, <2>3 DEF Between
  <2>5. NoItem(file, f, x) BY <1>0, <1>5, <2>1, <2>3 DEF NoItem, Count
  <2> QED BY <1>4, <2>3, <2>4, <2>5 DEF Extracts
<1>6. CASE f.pos <= Len(file)
  <2>1. f.pos \in 1..Len(file) /\ f.pos + 1 \in 1..Len(file)+1 BY <1>0, <1>1, <1>6
  <2>2. P!Begin(file, f.pos)
    <3>1. ~(file[f.pos] = NL /\ (f.pos = 1 \/ file[f.pos - 1] = NL))
          BY <1>0, <2>1 DEF P!HasEmptyLine
    <3>2. f.pos = 1 \/ file[f.pos - 1] = NL BY <1>0, <1>1, <2>1
    <3> QED BY <3>1, <3>2 DEF P!Begin
  <2> DEFINE n == Cardinality(P!Begins(file, f.pos))
             stop == P!EndOfLine(file, f.pos)
  <2>3. end = P!EndOfLine(file, f.pos + 1) BY <1>0, <1>1, <1>3a, <1>6
  <2>4. /\ n \in 1..Count(file)
        /\ P!Items(file)[n] = SubSeq(file, f.pos, stop - 1)
        BY <2>1, <2>2, ItemAt
  <2>5. /\ n = Cardinality(P!Begins(file, f.pos - 1)) + 1
        /\ stop \in f.pos+1..Len(file)+1
        /\ Cardinality(P!Begins(file, stop - 1)) = n
        /\ stop <= Len(file) => Cardinality(P!Begins(file, stop)) = n
        BY <2>1, <2>2, ItemPassed
  <2>6. /\ stop <= Len(file) => file[stop] = NL
        /\ \A k \in f.pos..stop-1 : file[k] # NL
        BY <1>1, EndOfLineIs
  <2>7. /\ end \in f.pos+1..Len(file)+1
        /\ end <= Len(file) => file[end] = NL
        /\ \A k \in f.pos+1..end-1 : file[k] # NL
        BY <2>1, <2>3, EndOfLineIs
  <2>8. end = stop
    <3> HIDE DEF stop
    <3>1. ~(end < stop)
      <4> SUFFICES ASSUME end < stop PROVE FALSE OBVIOUS
      <4>1. end \in f.pos..stop-1 /\ end <= Len(file) BY <1>0, <1>1, <2>5, <2>7
      <4> QED BY <2>6, <2>7, <4>1
    <3>2. ~(stop < end)
      <4> SUFFICES ASSUME stop < end PROVE FALSE OBVIOUS
      <4>1. stop \in f.pos+1..end-1 /\ stop <= Len(file) BY <1>0, <1>1, <2>5, <2>7
      <4> QED BY <2>6, <2>7, <4>1
    <3> QED BY <1>0, <1>1, <2>5, <2>7, <3>1, <3>2
  <2> HIDE DEF stop, n
  <2>8a. P!Items(file)[n] \in Item
    <3>1. f.pos \in 1..Len(file)+1 /\ stop \in f.pos..Len(file)+1 BY <1>0, <1>1, <2>5
    <3> QED BY <2>4, <3>1, TextPart
  <2>9. x.out = out \o P!Items(file)[n] BY <1>2, <2>4, <2>8
  <2>10. CASE end > Len(file)
    <3>1. end = Len(file) + 1 /\ x.f = P!At(f, end) BY <1>0, <1>2, <1>3, <2>10, <2>7
    <3>1a. end \in 1..Len(file)+1 BY <1>0, <3>1
    <3>1b. /\ P!At(f, end) \in FileType /\ P!At(f, end).pos = end
           /\ P!At(f, end).eof = (end > Len(file))
           BY <3>1a, FilePositions
    <3>2. x.f \in FileType /\ x.f.pos = end /\ x.f.eof BY <2>10, <3>1, <3>1b
    <3>3. Between(file, TRUE, x.f.pos) BY <1>0, <3>1, <3>2 DEF Between
    <3>4. NextItem(file, TRUE, f, out, x)
          BY <2>4, <2>5, <2>8, <2>8a, <2>9, <3>2 DEF NextItem
    <3> QED BY <1>4, <3>2, <3>3, <3>4 DEF Extracts
  <2>11. CASE end <= Len(file)
    <3>1. end + 1 \in 1..Len(file)+1 /\ x.f = Moved(f, end + 1)
          BY <1>0, <1>1, <1>2, <2>7, <2>11
    <3>2. x.f \in FileType /\ x.f.pos = end + 1 BY <3>1, FilePositions
    <3>3. end + 1 - 1 = end BY <3>1, <1>3, <1>1, <1>0
    <3>4. Between(file, TRUE, x.f.pos) BY <2>7, <2>11, <3>1, <3>2, <3>3 DEF Between
    <3>5. P!EndsInside(file) => ~(x.f.pos > Len(file))
      <4> SUFFICES ASSUME P!EndsInside(file), end + 1 > Len(file) PROVE FALSE BY <3>2
      <4>0. end \in 1..Len(file)+1 BY <1>0, <1>1, <2>7
      <4>1. end <= Len(file) /\ ~(end < Len(file)) BY <1>0, <2>11, <4>0
      <4>2. ASSUME NEW a \in Nat, NEW b \in 1..a+1, b <= a, ~(b < a) PROVE b = a BY <4>2
      <4>3. end = Len(file) BY Zenon, <1>0, <4>0, <4>1, <4>2
      <4> QED BY <2>7, <2>11, <4>3, EndsInsideIs
    <3>5a. Cardinality(P!Begins(file, x.f.pos - 1)) = n
          BY <2>5, <2>8, <2>11, <3>2, <3>3
    <3>6. NextItem(file, TRUE, f, out, x)
          BY <2>4, <2>5, <2>8a, <2>9, <3>5, <3>5a DEF NextItem
    <3> QED BY <1>4, <3>2, <3>4, <3>6 DEF Extracts
  <2>12. end > Len(file) \/ end <= Len(file) BY <1>0, <1>1, <2>7
  <2> QED BY Zenon, <2>10, <2>11, <2>12
<1>7. f.pos > Len(file) \/ f.pos <= Len(file) BY <1>0, <1>1
<1> QED BY Zenon, <1>5, <1>6, <1>7

LEMMA ExtractExtracts ==
  ASSUME file \in Seq(Bytes), lines \in BOOLEAN, NEW f \in FileType, NEW out \in Item,
         Between(file, lines, f.pos), ~(lines /\ P!HasEmptyLine(file))
  PROVE  Extracts(file, lines, f, out, P!Extract(f, out))
<1>1. CASE lines = TRUE BY <1>1, ScanLineExtracts DEF P!Extract
<1>2. CASE lines = FALSE BY <1>2, ScanNumberExtracts DEF P!Extract
<1> QED BY <1>1, <1>2


\* Wherever a stream stands, what it finds has its type.
Extracted(text, x) ==
  x.f \in FileType /\ x.f.pos \in 1..Len(text)+1 /\ x.out \in Item

LEMMA ScanNumberType ==
  ASSUME file \in Seq(Bytes), NEW f \in FileType, NEW out \in Item, f.pos \in 1..Len(file)+1
  PROVE  Extracted(file, P!ScanNumber(f, out))
<1> DEFINE start == P!EndOfBlanks(file, f.pos)
           end == P!EndOfLine(file, start)
           x == P!ScanNumber(f, out)
<1> SUFFICES Extracted(file, x) OBVIOUS
<1>0. Len(file) \in Nat BY TextIs
<1>1. start \in 1..Len(file)+1 BY <1>0, EndOfBlanksIs
<1>2. end \in start..Len(file)+1 BY <1>1, EndOfLineIs
<1>3. end \in 1..Len(file)+1 BY <1>0, <1>1, <1>2
<1>4. /\ x.f = P!At(f, end)
      /\ x.out = out \/ x.out = SubSeq(file, start, end - 1)
      BY DEF P!ScanNumber
<1> HIDE DEF start, end, x
<1>5. P!At(f, end) \in FileType /\ P!At(f, end).pos = end BY <1>3, FilePositions
<1>6. SubSeq(file, start, end - 1) \in Item BY <1>1, <1>2, TextPart
<1> QED BY <1>3, <1>4, <1>5, <1>6 DEF Extracted

LEMMA ScanLineType ==
  ASSUME file \in Seq(Bytes), NEW f \in FileType, NEW out \in Item, f.pos \in 1..Len(file)+1
  PROVE  Extracted(file, P!ScanLine(f, out))
<1> DEFINE end == IF f.pos > Len(file) THEN f.pos ELSE P!EndOfLine(file, f.pos + 1)
           x == P!ScanLine(f, out)
<1> SUFFICES Extracted(file, x) OBVIOUS
<1>0. Len(file) \in Nat BY TextIs
<1>1. end \in f.pos..Len(file)+1
  <2>1. CASE f.pos > Len(file) BY <1>0, <2>1
  <2>2. CASE ~(f.pos > Len(file))
    <3>1. f.pos + 1 \in 1..Len(file)+1 BY <1>0, <2>2
    <3>2. P!EndOfLine(file, f.pos + 1) \in f.pos+1..Len(file)+1 BY <3>1, EndOfLineIs
    <3> QED BY <1>0, <2>2, <3>2
  <2> QED BY <2>1, <2>2
<1>2. /\ x.f = (IF end > Len(file) THEN P!At(f, end) ELSE Moved(f, end + 1))
      /\ x.out = out \o SubSeq(file, f.pos, end - 1)
      BY DEF P!ScanLine, Moved
<1> HIDE DEF end, x
<1>3. x.out \in Item
  <2>1. SubSeq(file, f.pos, end - 1) \in Item BY <1>1, TextPart
  <2> QED BY <1>2, <2>1, ConcatProperties DEF Item
<1>4. end \in 1..Len(file)+1 BY <1>0, <1>1
<1>5. CASE end > Len(file)
  <2>1. P!At(f, end) \in FileType /\ P!At(f, end).pos = end BY <1>4, FilePositions
  <2>2. x.f = P!At(f, end) BY <1>2, <1>5
  <2> QED BY <1>3, <1>4, <2>1, <2>2 DEF Extracted
<1>6. CASE ~(end > Len(file))
  <2>1. end + 1 \in 1..Len(file)+1 BY <1>0, <1>4, <1>6
  <2>2. Moved(f, end + 1) \in FileType /\ Moved(f, end + 1).pos = end + 1
        BY <2>1, FilePositions
  <2>3. x.f = Moved(f, end + 1) BY <1>2, <1>6
  <2> QED BY <1>3, <2>1, <2>2, <2>3 DEF Extracted
<1> QED BY Zenon, <1>5, <1>6

LEMMA ExtractType ==
  ASSUME file \in Seq(Bytes), lines \in BOOLEAN, NEW f \in FileType, NEW out \in Item,
         f.pos \in 1..Len(file)+1
  PROVE  Extracted(file, P!Extract(f, out))
<1>1. CASE lines = TRUE BY <1>1, ScanLineType DEF P!Extract
<1>2. CASE lines = FALSE BY <1>2, ScanNumberType DEF P!Extract
<1> QED BY <1>1, <1>2

\* One item more in the array.
Filled(s, x) ==
  [s EXCEPT !.file_ = x.f, !.prefetched_[s.prefetched_cnt_] = x.out,
            !.prefetched_cnt_ = s.prefetched_cnt_ + 1]

LEMMA FilledIs ==
  ASSUME NEW s \in StreamType, NEW x, x.f \in FileType, x.out \in Item,
         s.prefetched_cnt_ \in P!Slots
  PROVE  LET t == Filled(s, x) n == s.prefetched_cnt_ IN
         /\ t \in StreamType
         /\ t.file_ = x.f
         /\ t.prefetched_ = [s.prefetched_ EXCEPT ![n] = x.out]
         /\ t.read_pos_ = s.read_pos_ /\ t.prefetched_cnt_ = n + 1
         /\ t.said = s.said /\ t.moved = s.moved /\ t.copied = s.copied
<1>1. s.prefetched_cnt_ + 1 \in 0..PREFETCH_SIZE BY StreamsAssumption DEF P!Slots
<1>2. [s.prefetched_ EXCEPT ![s.prefetched_cnt_] = x.out] \in [P!Slots -> Item]
      BY DEF StreamType
<1> QED BY <1>1, <1>2 DEF StreamType, Filled

\* The disk failed.
Failed(s) == [s EXCEPT !.file_.error = TRUE]

LEMMA FailedIs ==
  ASSUME NEW s \in StreamType
  PROVE  LET t == Failed(s) IN
         /\ t \in StreamType
         /\ t.file_.pos = s.file_.pos /\ t.file_.error = TRUE
         /\ t.prefetched_ = s.prefetched_
         /\ t.read_pos_ = s.read_pos_ /\ t.prefetched_cnt_ = s.prefetched_cnt_
         /\ t.said = s.said /\ t.moved = s.moved /\ t.copied = s.copied
<1>1. /\ [s.file_ EXCEPT !.error = TRUE] \in FileType
      /\ [s.file_ EXCEPT !.error = TRUE].pos = s.file_.pos
      /\ [s.file_ EXCEPT !.error = TRUE].error = TRUE
      BY DEF StreamType, FileType
<1> QED BY <1>1 DEF StreamType, Failed

LEMMA StreamNumbers ==
  ASSUME NEW s \in StreamType
  PROVE  /\ Len(s.said) \in Nat /\ DOMAIN s.said = 1..Len(s.said)
         /\ s.prefetched_cnt_ \in Nat /\ s.read_pos_ \in Nat
         /\ s.file_ \in FileType /\ s.file_.pos \in Nat \ {0}
BY LenProperties, StreamsAssumption DEF StreamType, FileType

LEMMA FailedSound ==
  ASSUME file \in Seq(Bytes), NEW s \in StreamType, StreamSound(file, lines, s)
  PROVE  StreamSound(file, lines, Failed(s))
<1> DEFINE t == Failed(s)
<1>1. /\ t.file_.pos = s.file_.pos /\ t.file_.error = TRUE
      /\ t.prefetched_ = s.prefetched_
      /\ t.read_pos_ = s.read_pos_ /\ t.prefetched_cnt_ = s.prefetched_cnt_
      /\ t.said = s.said /\ t.moved = s.moved /\ t.copied = s.copied
      BY FailedIs
<1> SUFFICES StreamSound(file, lines, t) OBVIOUS
<1> HIDE DEF t
<1>2. Passed(file, t) = Passed(file, s) /\ Total(t) = Total(s) BY <1>1 DEF Passed, Total
<1>3. Keeps(file, t) BY <1>1 DEF Keeps, StreamSound
<1>4. Yields(file, t) BY <1>1 DEF Yields, StreamSound
<1>5. lines => Cleared(t) BY <1>1 DEF Cleared, StreamSound
<1>6. ~P!good(t.file_) BY <1>1 DEF P!good
<1>7. /\ Between(file, lines, s.file_.pos)
      /\ Passed(file, s) <= Total(s)
      /\ Passed(file, s) = Total(s) \/ s.file_.pos > Len(file)
      /\ P!EndsInside(file) /\ ~s.copied => Passed(file, s) = Total(s)
      BY DEF StreamSound
<1>8. /\ Between(file, lines, t.file_.pos)
      /\ Passed(file, t) <= Total(t)
      /\ Passed(file, t) = Total(t) \/ t.file_.pos > Len(file)
      /\ P!EndsInside(file) /\ ~t.copied => Passed(file, t) = Total(t)
      BY Zenon, <1>1, <1>2, <1>7
<1> QED BY Zenon, <1>3, <1>4, <1>5, <1>6, <1>8 DEF StreamSound

LEMMA FilledSound ==
  ASSUME file \in Seq(Bytes), lines \in BOOLEAN, NEW s \in StreamType,
         s.read_pos_ = 0, s.prefetched_cnt_ \in P!Slots, P!good(s.file_),
         StreamSound(file, lines, s), ~(lines /\ P!HasEmptyLine(file))
  PROVE  StreamSound(file, lines, Filled(s, P!Extract(s.file_, s.prefetched_[s.prefetched_cnt_])))
<1> DEFINE n == s.prefetched_cnt_
           out == s.prefetched_[n]
           x == P!Extract(s.file_, out)
           t == Filled(s, x)
<1> SUFFICES StreamSound(file, lines, t) OBVIOUS
<1>0. /\ Len(file) \in Nat /\ n \in Nat /\ n < PREFETCH_SIZE
      /\ Len(s.said) \in Nat /\ DOMAIN s.said = 1..Len(s.said)
      BY TextIs, StreamNumbers, StreamsAssumption DEF P!Slots
<1>1. out \in Item /\ s.file_ \in FileType BY DEF StreamType
<1>2. /\ Between(file, lines, s.file_.pos)
      /\ Passed(file, s) <= Total(s)
      /\ Passed(file, s) = Total(s) \/ s.file_.pos > Len(file)
      /\ Keeps(file, s) /\ Yields(file, s)
      /\ lines => Cleared(s)
      /\ P!EndsInside(file) /\ ~s.copied => Passed(file, s) = Total(s)
      /\ P!EndsInside(file) /\ ~s.copied => ~(s.file_.pos > Len(file))
      BY Zenon DEF StreamSound
<1>3. s.file_.pos \in 1..Len(file)+1 BY <1>2 DEF Between
<1> HIDE DEF out
<1>4. Extracts(file, lines, s.file_, out, x) BY <1>1, <1>2, ExtractExtracts
<1>5. x.f \in FileType /\ x.out \in Item BY <1>1, <1>3, ExtractType DEF Extracted
<1> HIDE DEF x
<1>6. /\ t.file_ = x.f
      /\ t.prefetched_ = [s.prefetched_ EXCEPT ![n] = x.out]
      /\ t.read_pos_ = s.read_pos_ /\ t.prefetched_cnt_ = n + 1
      /\ t.said = s.said /\ t.moved = s.moved /\ t.copied = s.copied
      BY <1>5, FilledIs
<1>7. /\ \A k \in P!Slots : k # n => t.prefetched_[k] = s.prefetched_[k]
      /\ t.prefetched_[n] = x.out
      BY <1>6 DEF StreamType
<1>8. /\ Total(s) = Len(s.said) + n /\ Total(t) = Total(s) + 1
      /\ Passed(file, s) \in Nat /\ Passed(file, t) = Cardinality(P!Begins(file, x.f.pos - 1))
      /\ Passed(file, s) = Cardinality(P!Begins(file, s.file_.pos - 1))
  <2>1. s.file_.pos - 1 \in Nat BY <1>0, <1>3
  <2> QED BY <1>0, <1>6, <2>1, BeginsIs DEF Total, Passed
<1> HIDE DEF t
<1>9. Yields(file, t) BY <1>2, <1>6 DEF Yields
<1>10. lines => Cleared(t)
  <2> SUFFICES ASSUME lines, NEW k \in P!Slots, ~(t.read_pos_ <= k /\ k < t.prefetched_cnt_)
               PROVE  t.prefetched_[k] = <<>>
      BY DEF Cleared
  <2>1. k # n /\ ~(s.read_pos_ <= k /\ k < s.prefetched_cnt_)
        BY <1>0, <1>6 DEF P!Slots
  <2> QED BY <1>2, <1>7, <2>1 DEF Cleared
<1>11. ASSUME x.out = P!Items(file)[Total(s) + 1] \/ Count(file) < Total(s) + 1
       PROVE  Keeps(file, t)
  <2> SUFFICES ASSUME NEW k \in P!Slots, k < n + 1, Len(s.said) + k + 1 <= Count(file)
               PROVE  t.prefetched_[k] = P!Items(file)[Len(s.said) + k + 1]
    <3>1. ASSUME NEW k \in P!Slots PROVE Len(s.said) + k - 0 + 1 = Len(s.said) + k + 1
          BY <1>0 DEF P!Slots
    <3> QED BY <1>6, <3>1 DEF Keeps
  <2>1. k \in Nat BY DEF P!Slots
  <2>2. CASE k = n
    <3>1. Len(s.said) + k + 1 = Total(s) + 1 BY <1>0, <1>8, <2>2
    <3>2. Count(file) \in Nat BY <1>0, BeginsIs DEF Count
    <3>3. ~(Count(file) < Total(s) + 1) BY <1>0, <1>8, <3>1, <3>2
    <3> QED BY <1>7, <1>11, <2>2, <3>1, <3>3
  <2>3. CASE k # n
    <3>1. s.read_pos_ <= k /\ k < s.prefetched_cnt_ BY <1>0, <2>1, <2>3
    <3>2. Len(s.said) + k - s.read_pos_ + 1 = Len(s.said) + k + 1 BY <1>0, <2>1
    <3> QED BY <1>2, <1>7, <2>3, <3>1, <3>2 DEF Keeps
  <2> QED BY Zenon, <2>2, <2>3
<1>12. Between(file, lines, t.file_.pos) BY <1>4, <1>6 DEF Extracts
<1>13. Passed(file, s) <= Count(file) /\ Count(file) \in Nat
  <2>1. s.file_.pos - 1 \in 0..Len(file) BY <1>0, <1>3
  <2> QED BY <1>0, <1>8, <2>1, BeginsGrow, BeginsIs DEF Count
<1>14. CASE NoItem(file, s.file_, x)
  <2>1. Passed(file, t) = Passed(file, s) /\ Passed(file, s) = Count(file)
        /\ t.file_.pos = Len(file) + 1
    <3>1. Cardinality(P!Begins(file, s.file_.pos - 1)) = Count(file) /\ x.f.pos = Len(file) + 1
          BY <1>14 DEF NoItem
    <3>2. Len(file) + 1 - 1 = Len(file) BY <1>0
    <3> QED BY <1>6, <1>8, <3>1, <3>2 DEF Count
  <2>2. Passed(file, t) <= Total(t) /\ t.file_.pos > Len(file) BY <1>0, <1>2, <1>8, <2>1
  <2>3. ~(P!EndsInside(file) /\ ~t.copied)
    <3> SUFFICES ASSUME P!EndsInside(file), ~t.copied PROVE FALSE OBVIOUS
    <3>1. ~(s.file_.pos > Len(file)) BY <1>2, <1>6
    <3>2. s.file_.pos <= Len(file) BY <1>0, <1>3, <3>1
    <3> QED BY <1>14, <3>2 DEF NoItem
  <2>4. Count(file) < Total(s) + 1 BY <1>0, <1>2, <1>8, <1>13, <2>1
  <2>5. Keeps(file, t) BY <1>11, <2>4
  <2> QED BY Zenon, <1>9, <1>10, <1>12, <2>2, <2>3, <2>5 DEF StreamSound
<1>15. CASE NextItem(file, lines, s.file_, out, x)
  <2>1. /\ Passed(file, s) + 1 \in 1..Count(file) /\ Passed(file, t) = Passed(file, s) + 1
        /\ P!Items(file)[Passed(file, s) + 1] \in Item
        /\ x.out = (IF lines THEN out \o P!Items(file)[Passed(file, s) + 1]
                             ELSE P!Items(file)[Passed(file, s) + 1])
        /\ P!EndsInside(file) /\ x.f.pos > Len(file) => x.f.eof
        BY <1>8, <1>15 DEF NextItem
  <2>2. Passed(file, s) = Total(s)
    <3> SUFFICES ASSUME s.file_.pos > Len(file) PROVE FALSE BY <1>2
    <3>1. s.file_.pos - 1 = Len(file) BY <1>0, <1>3
    <3>2. Passed(file, s) = Count(file) BY <1>8, <3>1 DEF Count
    <3> QED BY <1>13, <2>1, <3>2
  <2>3. Passed(file, t) = Total(t) BY <1>8, <2>1, <2>2
  <2>4. x.out = P!Items(file)[Total(s) + 1]
    <3>1. CASE lines
      <4>1. out = <<>>
        <5>1. ~(s.read_pos_ <= n /\ n < s.prefetched_cnt_) BY <1>0
        <5> QED BY <1>2, <3>1, <5>1 DEF Cleared, out
      <4>2. <<>> \o P!Items(file)[Total(s) + 1] = P!Items(file)[Total(s) + 1]
            BY <2>1, <2>2, ConcatEmptySeq DEF Item
      <4> QED BY <2>1, <2>2, <3>1, <4>1, <4>2
    <3>2. CASE ~lines BY <2>1, <2>2, <3>2
    <3> QED BY <3>1, <3>2
  <2>5. Keeps(file, t) BY <1>11, <2>4
  <2>6. Passed(file, t) <= Total(t) BY <1>0, <1>8, <2>3
  <2>7. P!EndsInside(file) /\ t.file_.pos > Len(file) => ~P!good(t.file_)
        BY <1>6, <2>1 DEF P!good
  <2> QED BY Zenon, <1>9, <1>10, <1>12, <2>3, <2>5, <2>6, <2>7 DEF StreamSound
<1> QED BY Zenon, <1>4, <1>14, <1>15 DEF Extracts

\* While the array is filled nothing of it has been read.
FillSound(text, ln, s) ==
  s \in StreamType /\ s.read_pos_ = 0 /\ StreamOk(text, ln, s)

LEMMA FillNextSound ==
  ASSUME file \in Seq(Bytes), lines \in BOOLEAN, NEW s, FillSound(file, lines, s), NEW fails
  PROVE  FillSound(file, lines, P!FillNext(s, fails))
<1> DEFINE n == s.prefetched_cnt_
           out == s.prefetched_[n]
           x == P!Extract(s.file_, out)
           t == P!FillNext(s, fails)
<1>0. /\ s \in StreamType /\ s.read_pos_ = 0 /\ s.file_.pos \in 1..Len(file)+1
      /\ s.moved \/ (lines /\ P!HasEmptyLine(file)) \/ StreamSound(file, lines, s)
      BY Zenon DEF FillSound, StreamOk
<1>1. t = s \/ t = Failed(s) \/ (n # PREFETCH_SIZE /\ P!good(s.file_) /\ t = Filled(s, x))
      BY Zenon DEF P!FillNext, Failed, Filled
<1> SUFFICES FillSound(file, lines, t) OBVIOUS
<1> HIDE DEF t
<1>2. CASE t = s BY <1>2
<1>3. CASE t = Failed(s)
  <2>1. /\ t \in StreamType /\ t.read_pos_ = s.read_pos_ /\ t.file_.pos = s.file_.pos
        /\ t.prefetched_cnt_ = s.prefetched_cnt_ /\ t.moved = s.moved
        BY Zenon, <1>0, <1>3, FailedIs
  <2>2. StreamSound(file, lines, s) => StreamSound(file, lines, t)
        BY Zenon, <1>0, <1>3, FailedSound
  <2>3. s.read_pos_ <= s.prefetched_cnt_ BY Zenon DEF FillSound, StreamOk
  <2> QED BY Zenon, <1>0, <2>1, <2>2, <2>3 DEF FillSound, StreamOk
<1>4. CASE n # PREFETCH_SIZE /\ P!good(s.file_) /\ t = Filled(s, x)
  <2>1. n \in P!Slots /\ n + 1 \in Nat BY <1>0, <1>4, StreamsAssumption DEF StreamType, P!Slots
  <2>2. out \in Item /\ s.file_ \in FileType BY <1>0, <2>1 DEF StreamType
  <2>3. x.f \in FileType /\ x.f.pos \in 1..Len(file)+1 /\ x.out \in Item
        BY <1>0, <2>2, ExtractType DEF Extracted
  <2>4. /\ t \in StreamType /\ t.file_ = x.f /\ t.read_pos_ = s.read_pos_
        /\ t.prefetched_cnt_ = n + 1 /\ t.moved = s.moved
    <3> HIDE DEF x
    <3> QED BY Zenon, <1>0, <1>4, <2>1, <2>3, FilledIs
  <2>5. ~(lines /\ P!HasEmptyLine(file)) /\ StreamSound(file, lines, s)
          => StreamSound(file, lines, t)
        BY Zenon, <1>0, <1>4, <2>1, FilledSound
  <2>6. t.read_pos_ <= t.prefetched_cnt_ BY <1>0, <2>1, <2>4
  <2>7. t.read_pos_ = 0 /\ t.file_.pos \in 1..Len(file)+1 BY Zenon, <1>0, <2>3, <2>4
  <2>8. t.moved \/ (lines /\ P!HasEmptyLine(file)) \/ StreamSound(file, lines, t)
        BY Zenon, <1>0, <2>4, <2>5
  <2> QED BY Zenon, <2>4, <2>6, <2>7, <2>8 DEF FillSound, StreamOk
<1> QED BY Zenon, <1>1, <1>2, <1>3, <1>4

\* The recursive function of Refill: one FillNext after the other.
Fills(s, fails, n, f) ==
  f = [k \in 0..n |-> IF k = 0 THEN s ELSE P!FillNext(f[k - 1], fails)]

LEMMA FillsExists ==
  ASSUME NEW s, NEW fails, NEW n \in Nat
  PROVE  \E f : Fills(s, fails, n, f)
<1> DEFINE Bad == {d \in Nat : ~\E f : Fills(s, fails, d, f)}
<1>1. SUFFICES ASSUME Bad # {} PROVE FALSE OBVIOUS
<1>2. PICK d \in Bad : \A e \in Bad : d <= e
  <2>1. Bad \in SUBSET Nat OBVIOUS
  <2> HIDE DEF Bad
  <2> QED BY <1>1, <2>1, Smallest
<1>3. d \in Nat /\ ~\E f : Fills(s, fails, d, f) BY <1>2
<1>4. CASE d = 0
  <2> DEFINE g == [k \in 0..0 |-> s]
  <2>1. g = [k \in 0..0 |-> IF k = 0 THEN s ELSE P!FillNext(g[k - 1], fails)]
    <3> HIDE DEF g
    <3>1. \A k \in 0..0 : k = 0 OBVIOUS
    <3>2. g = [k \in 0..0 |-> s] BY DEF g
    <3> QED BY Zenon, <3>1, <3>2
  <2> HIDE DEF g
  <2>2. Fills(s, fails, 0, g) BY Zenon, <2>1 DEF Fills
  <2> QED BY <1>3, <1>4, <2>2
<1>5. CASE d # 0
  <2>1. d - 1 \in Nat /\ d - 1 < d /\ ~(d <= d - 1) BY <1>3, <1>5
  <2>2. d - 1 \notin Bad BY <1>2, <2>1
  <2>3. PICK f : Fills(s, fails, d - 1, f) BY <2>1, <2>2
  <2> DEFINE F(k) == P!FillNext(f[k], fails)
             g == [k \in 0..d |-> IF k = d THEN F(d - 1) ELSE f[k]]
  <2>4. \A k \in 0..d-1 : f[k] = IF k = 0 THEN s ELSE F(k - 1)
        BY Zenon, <2>3 DEF Fills
  <2> HIDE DEF F
  <2>5. \A k \in 0..d-1 : g[k] = f[k] /\ k \in 0..d BY <1>3
  <2>6. \A k \in 0..d : k # 0 => k - 1 \in 0..d-1 BY <1>3
  <2>7. \A k \in 0..d : g[k] = IF k = 0 THEN s ELSE F(k - 1)
    <3> TAKE k \in 0..d
    <3>1. CASE k = d BY <1>5, <3>1
    <3>2. CASE k # d
      <4>1. k \in 0..d-1 BY <1>3, <3>2
      <4> QED BY Zenon, <2>4, <2>5, <4>1
    <3> QED BY <3>1, <3>2
  <2>8. g = [k \in 0..d |-> g[k]] OBVIOUS
  <2> HIDE DEF g
  <2>9. \A k \in 0..d : k # 0 => F(k - 1) = P!FillNext(g[k - 1], fails)
        BY Zenon, <2>5, <2>6 DEF F
  <2>10. \A k \in 0..d : g[k] = IF k = 0 THEN s ELSE P!FillNext(g[k - 1], fails)
        BY Zenon, <2>7, <2>9
  <2>11. Fills(s, fails, d, g) BY Zenon, <2>8, <2>10 DEF Fills
  <2> QED BY <1>3, <2>11
<1> QED BY <1>4, <1>5

LEMMA RefillIsFills ==
  ASSUME NEW s, NEW fails
  PROVE  \E f : Fills(s, fails, PREFETCH_SIZE, f) /\ P!Refill(s, fails) = f[PREFETCH_SIZE]
<1> DEFINE d == CHOOSE f : f = [n \in 0..PREFETCH_SIZE |->
                  IF n = 0 THEN s ELSE P!FillNext(f[n - 1], fails)]
<1>1. P!Refill(s, fails) = d[PREFETCH_SIZE] BY Zenon DEF P!Refill
<1>2. \E f : Fills(s, fails, PREFETCH_SIZE, f) BY FillsExists, StreamsAssumption
<1>3. Fills(s, fails, PREFETCH_SIZE, d) BY Zenon, <1>2 DEF Fills
<1> QED BY Zenon, <1>1, <1>3

LEMMA RefillSound ==
  ASSUME file \in Seq(Bytes), lines \in BOOLEAN, NEW s, FillSound(file, lines, s), NEW fails
  PROVE  FillSound(file, lines, P!Refill(s, fails))
<1>1. PICK f : /\ Fills(s, fails, PREFETCH_SIZE, f)
               /\ P!Refill(s, fails) = f[PREFETCH_SIZE]
      BY RefillIsFills
<1>2. \A k \in 0..PREFETCH_SIZE : f[k] = IF k = 0 THEN s ELSE P!FillNext(f[k - 1], fails)
      BY Zenon, <1>1 DEF Fills
<1> DEFINE Bad == {k \in 0..PREFETCH_SIZE : ~FillSound(file, lines, f[k])}
<1>3. ASSUME Bad # {} PROVE FALSE
  <2>1. PICK k \in Bad : \A e \in Bad : k <= e
    <3>1. Bad \in SUBSET Nat OBVIOUS
    <3> HIDE DEF Bad
    <3> QED BY <1>3, <3>1, Smallest
  <2>2. k \in 0..PREFETCH_SIZE /\ ~FillSound(file, lines, f[k]) BY <2>1
  <2>3. k # 0 BY Zenon, <1>2, <2>2
  <2>4. k - 1 \in 0..PREFETCH_SIZE /\ ~(k <= k - 1) BY <2>2, <2>3, StreamsAssumption
  <2>5. FillSound(file, lines, f[k - 1]) BY <2>1, <2>4
  <2>6. FillSound(file, lines, P!FillNext(f[k - 1], fails)) BY <2>5, FillNextSound
  <2> QED BY Zenon, <1>2, <2>2, <2>3, <2>6
<1>4. PREFETCH_SIZE \in 0..PREFETCH_SIZE BY StreamsAssumption
<1>5. FillSound(file, lines, f[PREFETCH_SIZE]) BY <1>3, <1>4
<1> QED BY <1>1, <1>5

\* The next item of the array is handed out.
Taken(s) ==
  [s EXCEPT !.read_pos_ = s.read_pos_ + 1, !.said = Append(s.said, s.prefetched_[s.read_pos_]),
            !.prefetched_[s.read_pos_] = P!Left(s.prefetched_[s.read_pos_])]

LEMMA TakenIs ==
  ASSUME lines \in BOOLEAN, NEW s \in StreamType, s.read_pos_ < s.prefetched_cnt_
  PROVE  LET t == Taken(s) n == s.read_pos_ IN
         /\ n \in P!Slots
         /\ t \in StreamType
         /\ t.file_ = s.file_
         /\ t.prefetched_ = [s.prefetched_ EXCEPT ![n] = P!Left(s.prefetched_[n])]
         /\ t.read_pos_ = n + 1 /\ t.prefetched_cnt_ = s.prefetched_cnt_
         /\ t.said = Append(s.said, s.prefetched_[n])
         /\ t.moved = s.moved /\ t.copied = s.copied
<1>1. s.read_pos_ \in P!Slots /\ s.read_pos_ + 1 \in 0..PREFETCH_SIZE
      BY StreamsAssumption DEF StreamType, P!Slots
<1>2. s.prefetched_[s.read_pos_] \in Item BY <1>1 DEF StreamType
<1>3. P!Left(s.prefetched_[s.read_pos_]) \in Item
  <2>1. <<>> \in Item BY EmptySeq DEF Item
  <2> QED BY Zenon, <1>2, <2>1 DEF P!Left
<1>4. [s.prefetched_ EXCEPT ![s.read_pos_] = P!Left(s.prefetched_[s.read_pos_])] \in [P!Slots -> Item]
  <2>1. s.prefetched_ \in [P!Slots -> Item] BY DEF StreamType
  <2> QED BY Zenon, <1>1, <1>3, <2>1
<1>5. Append(s.said, s.prefetched_[s.read_pos_]) \in Seq(Item)
      BY <1>2, AppendProperties DEF StreamType
<1> QED BY <1>1, <1>4, <1>5 DEF StreamType, Taken

LEMMA TakenSound ==
  ASSUME file \in Seq(Bytes), lines \in BOOLEAN, NEW s \in StreamType,
         s.read_pos_ < s.prefetched_cnt_, StreamSound(file, lines, s)
  PROVE  StreamSound(file, lines, Taken(s))
<1> DEFINE n == s.read_pos_
           t == Taken(s)
<1>0. /\ n \in P!Slots /\ n \in Nat /\ s.prefetched_cnt_ \in Nat
      /\ Len(s.said) \in Nat /\ DOMAIN s.said = 1..Len(s.said)
      BY TakenIs, StreamNumbers
<1>1. /\ t.file_ = s.file_
      /\ t.prefetched_ = [s.prefetched_ EXCEPT ![n] = P!Left(s.prefetched_[n])]
      /\ t.read_pos_ = n + 1 /\ t.prefetched_cnt_ = s.prefetched_cnt_
      /\ t.said = Append(s.said, s.prefetched_[n])
      /\ t.moved = s.moved /\ t.copied = s.copied
      BY TakenIs
<1>2. /\ Between(file, lines, s.file_.pos)
      /\ Passed(file, s) <= Total(s)
      /\ Passed(file, s) = Total(s) \/ s.file_.pos > Len(file)
      /\ Keeps(file, s) /\ Yields(file, s)
      /\ lines => Cleared(s)
      /\ P!EndsInside(file) /\ ~s.copied =>
           /\ Passed(file, s) = Total(s)
           /\ s.file_.pos > Len(file) => ~P!good(s.file_)
      BY Zenon DEF StreamSound
<1>3. /\ Len(t.said) = Len(s.said) + 1 /\ DOMAIN t.said = 1..Len(s.said)+1
      /\ \A k \in 1..Len(s.said) : t.said[k] = s.said[k]
      /\ t.said[Len(s.said) + 1] = s.prefetched_[n]
  <2>1. s.said \in Seq(Item) /\ s.prefetched_[n] \in Item BY <1>0 DEF StreamType
  <2>2. /\ Append(s.said, s.prefetched_[n]) \in Seq(Item)
        /\ Len(Append(s.said, s.prefetched_[n])) = Len(s.said) + 1
        /\ \A k \in 1..Len(s.said) : Append(s.said, s.prefetched_[n])[k] = s.said[k]
        /\ Append(s.said, s.prefetched_[n])[Len(s.said) + 1] = s.prefetched_[n]
        BY <2>1, AppendProperties
  <2> QED BY <1>1, <2>2, LenProperties
<1>4. /\ \A k \in P!Slots : k # n => t.prefetched_[k] = s.prefetched_[k]
      /\ t.prefetched_[n] = P!Left(s.prefetched_[n])
      BY <1>0, <1>1 DEF StreamType
<1> SUFFICES StreamSound(file, lines, t) OBVIOUS
<1> HIDE DEF t
<1>4a. \A a, c, k \in Nat : /\ a + 1 + c - (k + 1) = a + c - k
                            /\ a + 1 + c - (k + 1) + 1 = a + c - k + 1
       OBVIOUS
<1>5. Total(t) = Total(s) /\ Passed(file, t) = Passed(file, s)
  <2>1. Total(t) = Len(s.said) + 1 + s.prefetched_cnt_ - (n + 1) BY <1>1, <1>3 DEF Total
  <2>2. Total(t) = Total(s) BY Zenon, <1>0, <1>4a, <2>1 DEF Total
  <2> QED BY Zenon, <1>1, <2>2 DEF Passed
<1>6. Keeps(file, t)
  <2> SUFFICES ASSUME NEW k \in P!Slots, n + 1 <= k, k < s.prefetched_cnt_,
                      Len(s.said) + 1 + k - (n + 1) + 1 <= Count(file)
               PROVE  t.prefetched_[k] = P!Items(file)[Len(s.said) + 1 + k - (n + 1) + 1]
      BY Zenon, <1>1, <1>3 DEF Keeps
  <2>1. k \in Nat BY DEF P!Slots
  <2>2. k # n /\ n <= k BY <1>0, <2>1
  <2>3. Len(s.said) + 1 + k - (n + 1) + 1 = Len(s.said) + k - n + 1
        BY Zenon, <1>0, <1>4a, <2>1
  <2> QED BY <1>2, <1>4, <2>2, <2>3 DEF Keeps
<1>7. Yields(file, t)
  <2> SUFFICES ASSUME NEW k \in 1..Len(s.said)+1, k <= Count(file)
               PROVE  t.said[k] = P!Items(file)[k]
      BY <1>3 DEF Yields
  <2>1. CASE k = Len(s.said) + 1
    <3>1. n <= n /\ n < s.prefetched_cnt_ /\ Len(s.said) + n - n + 1 = k BY <1>0, <2>1
    <3>2. s.prefetched_[n] = P!Items(file)[k] BY Zenon, <1>0, <1>2, <3>1 DEF Keeps
    <3> QED BY <1>3, <2>1, <3>2
  <2>2. CASE k # Len(s.said) + 1
    <3>1. k \in 1..Len(s.said) BY <1>0, <2>2
    <3> QED BY <1>0, <1>2, <1>3, <3>1 DEF Yields
  <2> QED BY <2>1, <2>2
<1>8. lines => Cleared(t)
  <2> SUFFICES ASSUME lines, NEW k \in P!Slots, ~(n + 1 <= k /\ k < s.prefetched_cnt_)
               PROVE  t.prefetched_[k] = <<>>
      BY Zenon, <1>1 DEF Cleared
  <2>1. CASE k = n BY <1>4, <2>1 DEF P!Left
  <2>2. CASE k # n
    <3>1. ~(n <= k /\ k < s.prefetched_cnt_) BY <1>0, <2>2 DEF P!Slots
    <3> QED BY <1>2, <1>4, <2>2, <3>1 DEF Cleared
  <2> QED BY <2>1, <2>2
<1>9. /\ Between(file, lines, t.file_.pos)
      /\ Passed(file, t) <= Total(t)
      /\ Passed(file, t) = Total(t) \/ t.file_.pos > Len(file)
      /\ P!EndsInside(file) /\ ~t.copied =>
           /\ Passed(file, t) = Total(t)
           /\ t.file_.pos > Len(file) => ~P!good(t.file_)
      BY Zenon, <1>1, <1>2, <1>5
<1> QED BY Zenon, <1>6, <1>7, <1>8, <1>9 DEF StreamSound

LEMMA TakeNextSound ==
  ASSUME file \in Seq(Bytes), lines \in BOOLEAN, NEW s \in SoundStreams(file, lines)
  PROVE  P!TakeNext(s) \in SoundStreams(file, lines)
<1>0. s \in StreamType /\ StreamOk(file, lines, s) BY DEF SoundStreams
<1> DEFINE t == P!TakeNext(s)
<1>1. CASE s.read_pos_ < s.prefetched_cnt_
  <2>1. t = Taken(s) BY Zenon, <1>1 DEF P!TakeNext, Taken
  <2> HIDE DEF t
  <2>2. /\ t \in StreamType /\ t.file_ = s.file_ /\ t.moved = s.moved
        /\ t.read_pos_ = s.read_pos_ + 1 /\ t.prefetched_cnt_ = s.prefetched_cnt_
        BY Zenon, <1>0, <1>1, <2>1, TakenIs
  <2>3. StreamSound(file, lines, s) => StreamSound(file, lines, t)
        BY Zenon, <1>0, <1>1, <2>1, TakenSound
  <2>4. t.read_pos_ <= t.prefetched_cnt_ BY <1>0, <1>1, <2>2, StreamNumbers
  <2>5. StreamOk(file, lines, t) BY Zenon, <1>0, <2>2, <2>3, <2>4 DEF StreamOk
  <2> QED BY <2>2, <2>5 DEF SoundStreams, t
<1>2. CASE ~(s.read_pos_ < s.prefetched_cnt_)
  <2>1. t = s BY Zenon, <1>2 DEF P!TakeNext
  <2> QED BY <2>1
<1> QED BY <1>1, <1>2

\* All that was read ahead has been yielded.
Emptied(s) == [s EXCEPT !.read_pos_ = 0, !.prefetched_cnt_ = 0]

LEMMA EmptiedSound ==
  ASSUME file \in Seq(Bytes), lines \in BOOLEAN, NEW s \in SoundStreams(file, lines),
         s.read_pos_ = s.prefetched_cnt_
  PROVE  FillSound(file, lines, Emptied(s))
<1> DEFINE t == Emptied(s)
<1>0. s \in StreamType /\ StreamOk(file, lines, s) BY DEF SoundStreams
<1>1. 0 \in 0..PREFETCH_SIZE BY StreamsAssumption
<1>2. /\ t \in StreamType /\ t.file_ = s.file_ /\ t.prefetched_ = s.prefetched_
      /\ t.read_pos_ = 0 /\ t.prefetched_cnt_ = 0
      /\ t.said = s.said /\ t.moved = s.moved /\ t.copied = s.copied
      BY <1>0, <1>1 DEF StreamType, Emptied
<1>3. /\ Len(s.said) \in Nat /\ s.prefetched_cnt_ \in Nat /\ s.read_pos_ \in Nat
      BY <1>0, StreamNumbers
<1> SUFFICES FillSound(file, lines, t) OBVIOUS
<1> HIDE DEF t
<1>4. ASSUME StreamSound(file, lines, s) PROVE StreamSound(file, lines, t)
  <2>1. /\ Between(file, lines, s.file_.pos)
        /\ Passed(file, s) <= Total(s)
        /\ Passed(file, s) = Total(s) \/ s.file_.pos > Len(file)
        /\ Keeps(file, s) /\ Yields(file, s)
        /\ lines => Cleared(s)
        /\ P!EndsInside(file) /\ ~s.copied =>
             /\ Passed(file, s) = Total(s)
             /\ s.file_.pos > Len(file) => ~P!good(s.file_)
        BY Zenon, <1>4 DEF StreamSound
  <2>2. Total(t) = Total(s) /\ Passed(file, t) = Passed(file, s)
        BY <1>2, <1>3 DEF Total, Passed
  <2>3. Keeps(file, t) BY <1>2 DEF Keeps, P!Slots
  <2>4. Yields(file, t) BY Zenon, <1>2, <2>1 DEF Yields
  <2>5. lines => Cleared(t)
    <3> SUFFICES ASSUME lines, NEW k \in P!Slots PROVE t.prefetched_[k] = <<>>
        BY DEF Cleared
    <3>1. ~(s.read_pos_ <= k /\ k < s.prefetched_cnt_) BY <1>3 DEF P!Slots
    <3> QED BY <1>2, <2>1, <3>1 DEF Cleared
  <2>6. /\ Between(file, lines, t.file_.pos)
        /\ Passed(file, t) <= Total(t)
        /\ Passed(file, t) = Total(t) \/ t.file_.pos > Len(file)
        /\ P!EndsInside(file) /\ ~t.copied =>
             /\ Passed(file, t) = Total(t)
             /\ t.file_.pos > Len(file) => ~P!good(t.file_)
        BY Zenon, <1>2, <2>1, <2>2
  <2> QED BY Zenon, <2>3, <2>4, <2>5, <2>6 DEF StreamSound
<1>5. t.read_pos_ <= t.prefetched_cnt_ BY <1>2
<1>6. StreamOk(file, lines, t) BY Zenon, <1>0, <1>2, <1>4, <1>5 DEF StreamOk
<1> QED BY Zenon, <1>2, <1>6 DEF FillSound

LEMMA ReadSound ==
  ASSUME file \in Seq(Bytes), lines \in BOOLEAN, NEW s \in SoundStreams(file, lines), NEW fails
  PROVE  P!TakeNext(IF s.read_pos_ = s.prefetched_cnt_
             THEN P!Refill([s EXCEPT !.read_pos_ = 0, !.prefetched_cnt_ = 0], fails) ELSE s)
           \in SoundStreams(file, lines)
<1> DEFINE t == IF s.read_pos_ = s.prefetched_cnt_ THEN P!Refill(Emptied(s), fails) ELSE s
<1>1. t \in SoundStreams(file, lines)
  <2>1. CASE s.read_pos_ = s.prefetched_cnt_
    <3>1. FillSound(file, lines, P!Refill(Emptied(s), fails))
          BY <2>1, EmptiedSound, RefillSound
    <3> QED BY <2>1, <3>1 DEF FillSound, SoundStreams
  <2>2. CASE s.read_pos_ # s.prefetched_cnt_ BY <2>2
  <2> QED BY <2>1, <2>2
<1>2. P!TakeNext(t) \in SoundStreams(file, lines)
  <2> HIDE DEF t
  <2> QED BY <1>1, TakeNextSound
<1> QED BY Zenon, <1>2 DEF Emptied

\* A copy opens the file again: its position is what matters.
LEMMA CopySound ==
  ASSUME file \in Seq(Bytes), NEW s \in SoundStreams(file, lines)
  PROVE  [s EXCEPT !.file_ = P!CopyOfFile(@), !.copied = TRUE] \in SoundStreams(file, lines)
<1> DEFINE t == [s EXCEPT !.file_ = P!CopyOfFile(@), !.copied = TRUE]
<1>0. s \in StreamType /\ StreamOk(file, lines, s) BY DEF SoundStreams
<1>1. /\ P!CopyOfFile(s.file_) \in FileType /\ P!CopyOfFile(s.file_).pos = s.file_.pos
      BY <1>0, StreamNumbers DEF P!CopyOfFile, P!Opened, FileType
<1>2. /\ t \in StreamType /\ t.file_ = P!CopyOfFile(s.file_) /\ t.prefetched_ = s.prefetched_
      /\ t.read_pos_ = s.read_pos_ /\ t.prefetched_cnt_ = s.prefetched_cnt_
      /\ t.said = s.said /\ t.moved = s.moved /\ t.copied = TRUE
      BY <1>0, <1>1 DEF StreamType
<1> SUFFICES t \in SoundStreams(file, lines) OBVIOUS
<1> HIDE DEF t
<1>3. t.file_.pos = s.file_.pos BY <1>1, <1>2
<1>4. ASSUME StreamSound(file, lines, s) PROVE StreamSound(file, lines, t)
  <2>1. /\ Between(file, lines, s.file_.pos)
        /\ Passed(file, s) <= Total(s)
        /\ Passed(file, s) = Total(s) \/ s.file_.pos > Len(file)
        /\ Keeps(file, s) /\ Yields(file, s)
        /\ lines => Cleared(s)
        BY Zenon, <1>4 DEF StreamSound
  <2>2. Total(t) = Total(s) /\ Passed(file, t) = Passed(file, s)
        BY <1>2, <1>3 DEF Total, Passed
  <2>3a. Keeps(file, t)
    <3>1. Keeps(file, s) BY <2>1
    <3> QED BY <1>2, <3>1 DEF Keeps
  <2>3b. Yields(file, t)
    <3>1. Yields(file, s) BY <2>1
    <3> QED BY <1>2, <3>1 DEF Yields
  <2>4. lines => Cleared(t) BY Zenon, <1>2, <2>1 DEF Cleared
  <2> QED BY Zenon, <1>2, <1>3, <2>1, <2>2, <2>3a, <2>3b, <2>4 DEF StreamSound
<1>5. StreamOk(file, lines, t) BY Zenon, <1>0, <1>2, <1>3, <1>4 DEF StreamOk
<1> QED BY <1>2, <1>5 DEF SoundStreams

\* What a stream was moved from is only known to have its type.
LEMMA MovedFromSound ==
  ASSUME file \in Seq(Bytes), NEW s \in SoundStreams(file, lines)
  PROVE  P!MovedFrom(s) \in SoundStreams(file, lines)
<1> DEFINE t == P!MovedFrom(s)
<1>0. s \in StreamType /\ StreamOk(file, lines, s) BY DEF SoundStreams
<1>1. P!NullFile \in FileType /\ P!NullFile.pos = 1 BY DEF P!NullFile, FileType
<1>2. [k \in P!Slots |-> P!Left(s.prefetched_[k])] \in [P!Slots -> Item]
  <2>1. \A k \in P!Slots : s.prefetched_[k] \in Item BY <1>0 DEF StreamType
  <2>2. <<>> \in Item BY EmptySeq DEF Item
  <2>3. \A k \in P!Slots : P!Left(s.prefetched_[k]) \in Item BY Zenon, <2>1, <2>2 DEF P!Left
  <2> QED BY Zenon, <2>3
<1>3. /\ t \in StreamType /\ t.file_ = P!NullFile /\ t.moved = TRUE
      /\ t.read_pos_ = s.read_pos_ /\ t.prefetched_cnt_ = s.prefetched_cnt_
      BY <1>0, <1>1, <1>2 DEF StreamType, P!MovedFrom
<1>4. t.file_.pos \in 1..Len(file)+1 BY <1>1, <1>3, TextIs
<1> HIDE DEF t
<1>5. s.read_pos_ <= s.prefetched_cnt_ BY <1>0 DEF StreamOk
<1>6. StreamOk(file, lines, t) BY Zenon, <1>3, <1>4, <1>5 DEF StreamOk
<1> QED BY <1>3, <1>6 DEF SoundStreams, t

\* Of a new stream nothing has been read.
LEMMA ConstructSound ==
  ASSUME file \in Seq(Bytes), lines \in BOOLEAN, NEW f \in {P!Opened(1), P!NullFile}
  PROVE  [file_ |-> f, prefetched_ |-> [k \in P!Slots |-> P!Fresh], read_pos_ |-> 0,
          prefetched_cnt_ |-> 0, said |-> <<>>, moved |-> FALSE, copied |-> FALSE]
           \in SoundStreams(file, lines)
<1> DEFINE t == [file_ |-> f, prefetched_ |-> [k \in P!Slots |-> P!Fresh], read_pos_ |-> 0,
                 prefetched_cnt_ |-> 0, said |-> <<>>, moved |-> FALSE, copied |-> FALSE]
<1>1. f \in FileType /\ f.pos = 1
  <2>1. CASE f = P!Opened(1) BY <2>1 DEF P!Opened, FileType
  <2>2. CASE f = P!NullFile BY <2>2 DEF P!NullFile, FileType
  <2> QED BY <2>1, <2>2
<1>2. P!Fresh \in Item
  <2>1. <<>> \in Item BY EmptySeq DEF Item
  <2>2. <<"?">> \in Item BY DEF Item
  <2> QED BY Zenon, <2>1, <2>2 DEF P!Fresh
<1>3. [k \in P!Slots |-> P!Fresh] \in [P!Slots -> Item] BY <1>2
<1>4. <<>> \in Seq(Item) /\ Len(<<>>) = 0 /\ 0 \in 0..PREFETCH_SIZE
      BY EmptySeq, StreamsAssumption
<1>5. t \in StreamType BY <1>1, <1>3, <1>4 DEF StreamType
<1>6. /\ t.file_ = f /\ t.read_pos_ = 0 /\ t.prefetched_cnt_ = 0 /\ t.said = <<>>
      /\ t.prefetched_ = [k \in P!Slots |-> P!Fresh]
      OBVIOUS
<1> SUFFICES t \in SoundStreams(file, lines) OBVIOUS
<1> HIDE DEF t
<1>7. Len(file) \in Nat BY TextIs
<1>8. Total(t) = 0 BY <1>4, <1>6 DEF Total
<1>9. Passed(file, t) = 0
  <2>1. P!Begins(file, 0) = {} BY DEF P!Begins
  <2>2. Cardinality(P!Begins(file, 0)) = 0 BY <2>1, FS_EmptySet
  <2>3. t.file_.pos - 1 = 0 BY <1>1, <1>6
  <2> QED BY <2>2, <2>3 DEF Passed
<1>10. Between(file, lines, t.file_.pos) BY <1>1, <1>6, <1>7 DEF Between
<1>11. Keeps(file, t) BY <1>6 DEF Keeps, P!Slots
<1>12. Yields(file, t)
  <2>1. DOMAIN t.said = {} BY <1>4, <1>6
  <2> QED BY <2>1 DEF Yields
<1>13. lines => Cleared(t) BY <1>6 DEF Cleared, P!Fresh
<1>14. P!EndsInside(file) => ~(t.file_.pos > Len(file))
       BY <1>1, <1>6, <1>7, EndsInsideIs
<1>15. Passed(file, t) <= Total(t) /\ Passed(file, t) = Total(t) BY <1>8, <1>9
<1>16. StreamSound(file, lines, t)
       BY Zenon, <1>10, <1>11, <1>12, <1>13, <1>14, <1>15 DEF StreamSound
<1>17. t.read_pos_ <= t.prefetched_cnt_ /\ t.file_.pos \in 1..Len(file)+1
       BY <1>1, <1>6, <1>7
<1> QED BY <1>5, <1>16, <1>17 DEF SoundStreams, StreamOk

LEMMA StreamInit ==
  ASSUME P!Init
  PROVE  StreamInv
<1>1. file \in Seq(Bytes) /\ lines \in BOOLEAN BY StreamsAssumption DEF P!Init
<1> QED BY <1>1 DEF P!Init, StreamInv

LEMMA NoStreamInit ==
  ASSUME file = <<>>, lines = FALSE, in = [s \in Streams |-> P!NoStream]
  PROVE  StreamInv
<1>1. file \in Seq(Bytes) BY EmptySeq
<1> QED BY <1>1 DEF StreamInv

LEMMA StreamKeeps ==
  ASSUME StreamInv, UNCHANGED <<file, lines, in>>
  PROVE  StreamInv'
BY Zenon DEF StreamInv, SoundStreams, StreamOk, StreamSound

LEMMA StreamNext ==
  ASSUME StreamInv, P!Next
  PROVE  StreamInv'
<1> DEFINE OneOf == SoundStreams(file, lines) \cup {P!NoStream}
<1>1. /\ file \in Seq(Bytes) /\ lines \in BOOLEAN /\ in \in [Streams -> OneOf]
      /\ file' = file /\ lines' = lines
      BY DEF StreamInv, P!Next
<1>2. SUFFICES in' \in [Streams -> OneOf]
      BY Zenon, <1>1 DEF StreamInv, SoundStreams, StreamOk, StreamSound
<1>3. \A s \in Streams : P!Exists(s) => in[s] \in SoundStreams(file, lines)
      BY <1>1 DEF P!Exists
<1>4. ASSUME NEW s \in Streams, NEW src \in Streams, P!copy(s, src)
      PROVE  in' \in [Streams -> OneOf]
  <2>1. P!Exists(src) BY <1>4 DEF P!copy
  <2>2. [in[src] EXCEPT !.file_ = P!CopyOfFile(@), !.copied = TRUE] \in OneOf
        BY <1>1, <1>3, <2>1, CopySound
  <2> DEFINE c == [in[src] EXCEPT !.file_ = P!CopyOfFile(@), !.copied = TRUE]
  <2>3. in' = [in EXCEPT ![s] = c] \/ in' = in BY Zenon, <1>4 DEF P!copy
  <2> HIDE DEF c, OneOf
  <2> QED BY <1>1, <2>2, <2>3 DEF c
<1>5. ASSUME NEW s \in Streams, P!construct(s) PROVE in' \in [Streams -> OneOf]
  <2>1. PICK f \in {P!Opened(1), P!NullFile} :
          in' = [in EXCEPT ![s] =
            [file_ |-> f, prefetched_ |-> [k \in P!Slots |-> P!Fresh], read_pos_ |-> 0,
             prefetched_cnt_ |-> 0, said |-> <<>>, moved |-> FALSE, copied |-> FALSE]]
        BY Zenon, <1>5 DEF P!construct
  <2> DEFINE c == [file_ |-> f, prefetched_ |-> [k \in P!Slots |-> P!Fresh], read_pos_ |-> 0,
                   prefetched_cnt_ |-> 0, said |-> <<>>, moved |-> FALSE, copied |-> FALSE]
  <2>2. c \in OneOf BY <1>1, ConstructSound
  <2>3. in' = [in EXCEPT ![s] = c] BY <2>1
  <2> HIDE DEF c, OneOf
  <2> QED BY <1>1, <2>2, <2>3
<1>6. ASSUME NEW s \in Streams, P!destroy(s) PROVE in' \in [Streams -> OneOf]
  <2>1. in' = [in EXCEPT ![s] = P!NoStream] /\ P!NoStream \in OneOf BY <1>6 DEF P!destroy
  <2> HIDE DEF OneOf
  <2> QED BY <1>1, <2>1
<1>7. ASSUME NEW s \in Streams, NEW n \in 0..PREFETCH_SIZE, P!read(s, n)
      PROVE  in' \in [Streams -> OneOf]
  <2> DEFINE c == P!TakeNext(IF in[s].read_pos_ = in[s].prefetched_cnt_
             THEN P!Refill([in[s] EXCEPT !.read_pos_ = 0, !.prefetched_cnt_ = 0], n) ELSE in[s])
  <2>1. P!Exists(s) BY <1>7 DEF P!read
  <2>2. c \in OneOf BY <1>1, <1>3, <2>1, ReadSound
  <2>3. in' = [in EXCEPT ![s] = c] BY Zenon, <1>7 DEF P!read
  <2> HIDE DEF c, OneOf
  <2> QED BY <1>1, <2>2, <2>3
<1>8. ASSUME NEW s \in Streams, NEW t \in Streams, P!move(s, t) PROVE in' \in [Streams -> OneOf]
  <2> DEFINE c == P!MovedFrom(in[t])
  <2>1. P!Exists(t) /\ s # t BY <1>8 DEF P!move
  <2>2. c \in OneOf /\ in[t] \in OneOf BY <1>1, <1>3, <2>1, MovedFromSound
  <2>3. in' = [in EXCEPT ![s] = in[t], ![t] = c] BY Zenon, <1>8 DEF P!move
  <2> HIDE DEF c, OneOf
  <2> QED BY <1>1, <2>1, <2>2, <2>3
<1>9. ASSUME NEW s \in Streams, NEW t \in Streams, P!swap(s, t) PROVE in' \in [Streams -> OneOf]
  <2>1. in' = [in EXCEPT ![s] = in[t], ![t] = in[s]] BY <1>9 DEF P!swap
  <2> HIDE DEF OneOf
  <2> QED BY <1>1, <2>1
<1>10. \/ \E s, src \in Streams : P!copy(s, src)
       \/ \E s \in Streams : P!construct(s) \/ P!destroy(s)
                             \/ \E n \in 0..PREFETCH_SIZE : P!read(s, n)
       \/ \E s, t \in Streams : P!move(s, t) \/ P!swap(s, t)
       BY Zenon DEF P!Next
<1> HIDE DEF OneOf
<1> QED BY Zenon, <1>4, <1>5, <1>6, <1>7, <1>8, <1>9, <1>10

LEMMA StreamsRead ==
  ASSUME StreamInv
  PROVE  ReadsInOrder
<1>1. file \in Seq(Bytes) /\ lines \in BOOLEAN
      /\ in \in [Streams -> SoundStreams(file, lines) \cup {P!NoStream}]
      BY DEF StreamInv
<1>2. Len(P!Items(file)) = Count(file)
  <2>1. DOMAIN P!Items(file) = 1..Count(file)
        BY Zenon DEF P!Items, Count, P!Cardinality, Cardinality
  <2>2. Len(file) \in Nat BY <1>1, TextIs
  <2>3. Count(file) \in Nat BY <2>2, BeginsIs DEF Count
  <2> QED BY <2>1, <2>3, LenProperties
<1> SUFFICES ASSUME NEW s \in Streams, P!Exists(s)
             PROVE  /\ in[s].read_pos_ <= in[s].prefetched_cnt_
                    /\ in[s].prefetched_cnt_ <= PREFETCH_SIZE
                    /\ in[s].moved \/ (lines /\ P!HasEmptyLine(file)) \/
                         /\ \A k \in DOMAIN in[s].said : k <= Count(file) =>
                              in[s].said[k] = P!Items(file)[k]
                         /\ P!EndsInside(file) /\ ~in[s].copied => Len(in[s].said) <= Count(file)
    BY Zenon, <1>2 DEF ReadsInOrder, P!ReadsInOrder
<1>3. in[s] \in StreamType /\ StreamOk(file, lines, in[s])
      BY <1>1 DEF P!Exists, SoundStreams
<1>4. /\ Len(in[s].said) \in Nat /\ in[s].prefetched_cnt_ \in Nat /\ in[s].read_pos_ \in Nat
      /\ in[s].file_.pos \in Nat \ {0}
      BY Zenon, <1>3, StreamNumbers
<1>5. in[s].prefetched_cnt_ <= PREFETCH_SIZE BY <1>3, StreamsAssumption DEF StreamType
<1>6. in[s].read_pos_ <= in[s].prefetched_cnt_ BY <1>3 DEF StreamOk
<1>7. ASSUME StreamSound(file, lines, in[s]), P!EndsInside(file), ~in[s].copied
      PROVE  Len(in[s].said) <= Count(file)
  <2>1. Passed(file, in[s]) = Total(in[s]) BY Zenon, <1>7 DEF StreamSound
  <2>2. Len(file) \in Nat /\ in[s].file_.pos - 1 \in 0..Len(file)
        BY <1>1, <1>3, <1>4, TextIs DEF StreamOk
  <2>3. Passed(file, in[s]) <= Count(file) BY <2>2, BeginsGrow DEF Passed, Count
  <2>4. Count(file) \in Nat BY <2>2, BeginsIs DEF Count
  <2>5. Total(in[s]) = Len(in[s].said) + in[s].prefetched_cnt_ - in[s].read_pos_ BY DEF Total
  <2>6. \A a, b, c, n \in Nat : c <= b /\ a + b - c <= n => a <= n OBVIOUS
  <2> QED BY <1>4, <1>6, <2>1, <2>3, <2>4, <2>5, <2>6
<1>8. StreamSound(file, lines, in[s]) =>
        \A k \in DOMAIN in[s].said : k <= Count(file) => in[s].said[k] = P!Items(file)[k]
      BY Zenon DEF StreamSound, Yields
<1> QED BY Zenon, <1>3, <1>5, <1>6, <1>7, <1>8 DEF StreamOk

-----------------------------------------------------------------------------
(* Enumerators.  Its operators are loops over positions and over stages:
   recursive functions, which exist and have the values their equations
   give them by induction on the naturals. *)
LEMMA Induct ==
  ASSUME NEW T, 0 \in T, \A d \in Nat : d \in T => d + 1 \in T
  PROVE  Nat \subseteq T
<1> DEFINE Bad == {d \in Nat : d \notin T}
<1>1. SUFFICES ASSUME Bad # {} PROVE FALSE OBVIOUS
<1>2. PICK d \in Bad : \A c \in Bad : d <= c
  <2>1. Bad \in SUBSET Nat OBVIOUS
  <2> HIDE DEF Bad
  <2> QED BY <1>1, <2>1, Smallest
<1>3. d \in Nat /\ d \notin T /\ d # 0 BY <1>2
<1>4. d - 1 \in Nat /\ ~(d <= d - 1) /\ (d - 1) + 1 = d BY <1>3
<1>5. d - 1 \in T BY <1>2, <1>4
<1> QED BY <1>3, <1>4, <1>5

LEMMA Largest ==
  ASSUME NEW n \in Nat, NEW T \in SUBSET (0..n), T # {}
  PROVE  \E d \in T : \A c \in T : c <= d
<1> DEFINE Far == {d \in Nat : d <= n /\ n - d \in T}
<1>1. \A c \in T : n - c \in Nat /\ n - c \in Far
  <2> TAKE c \in T
  <2>1. c \in 0..n /\ n - (n - c) = c OBVIOUS
  <2> QED BY <2>1
<1>2. Far # {} /\ Far \in SUBSET Nat BY <1>1
<1>3. \A d \in Far : d \in 0..n /\ n - d \in T OBVIOUS
<1> HIDE DEF Far
<1>4. PICK d \in Far : \A c \in Far : d <= c BY <1>2, Smallest
<1>5. \A c \in T : c <= n - d
  <2> TAKE c \in T
  <2>1. d <= n - c /\ c \in 0..n BY <1>1, <1>4
  <2> QED BY <1>3, <2>1
<1> QED BY <1>3, <1>5

\* h[k] is what step k makes of what the steps before it gave.
Recurs(n, a, h, f) == f = [k \in 0..n |-> IF k = 0 THEN a ELSE h[k][f[k - 1]]]

LEMMA Recursion ==
  ASSUME NEW n \in Nat, NEW S, NEW a \in S[0], NEW h,
         \A k \in 1..n : \A x \in S[k - 1] : h[k][x] \in S[k]
  PROVE  \E f : Recurs(n, a, h, f) /\ \A k \in 0..n : f[k] \in S[k]
<1> DEFINE Upto(d, f) == \A k \in 0..n : k <= d =>
             f[k] \in S[k] /\ f[k] = IF k = 0 THEN a ELSE h[k][f[k - 1]]
           T == {d \in Nat : \E f : f = [k \in 0..n |-> f[k]] /\ Upto(d, f)}
<1>1. 0 \in T
  <2> DEFINE g == [k \in 0..n |-> a]
  <2>1. g = [k \in 0..n |-> g[k]] /\ Upto(0, g) OBVIOUS
  <2> HIDE DEF g
  <2> QED BY <2>1
<1>2. ASSUME NEW d \in Nat, d \in T PROVE d + 1 \in T
  <2>1. PICK f : f = [k \in 0..n |-> f[k]] /\ Upto(d, f) BY <1>2
  <2>2. CASE d >= n
    <3>1. \A k \in 0..n : k <= d BY <2>2
    <3>2. Upto(d + 1, f) BY Zenon, <2>1, <3>1
    <3>3. d + 1 \in Nat OBVIOUS
    <3> HIDE DEF Upto
    <3> QED BY Zenon, <2>1, <3>2, <3>3
  <2>3. CASE d < n
    <3> DEFINE v == h[d + 1][f[d]]
               g == [k \in 0..n |-> IF k = d + 1 THEN v ELSE f[k]]
    <3>1. d + 1 \in 1..n /\ (d + 1) - 1 = d /\ d \in 0..n BY <2>3
    <3>2. v \in S[d + 1] BY <2>1, <3>1
    <3>3. g = [k \in 0..n |-> g[k]] OBVIOUS
    <3>4. g[d + 1] = v /\ \A k \in 0..n : k # d + 1 => g[k] = f[k] BY <3>1
    <3> HIDE DEF g
    <3>5. Upto(d + 1, g)
      <4> SUFFICES ASSUME NEW k \in 0..n, k <= d + 1
                   PROVE  g[k] \in S[k] /\ g[k] = IF k = 0 THEN a ELSE h[k][g[k - 1]]
          OBVIOUS
      <4>1. CASE k = d + 1
        <5>1. k # 0 /\ k - 1 = d /\ g[d] = f[d] BY <3>1, <3>4, <4>1
        <5> QED BY <3>2, <3>4, <4>1, <5>1
      <4>2. CASE k # d + 1 /\ k # 0
        <5>1. k - 1 \in 0..n /\ k - 1 # d + 1 /\ k <= d BY <4>2
        <5>2. g[k] = f[k] /\ g[k - 1] = f[k - 1] BY <3>4, <4>2, <5>1
        <5> QED BY <2>1, <4>2, <5>1, <5>2
      <4>3. CASE k = 0
        <5>1. k # d + 1 /\ k <= d BY <4>3
        <5>2. g[k] = f[k] BY <3>4, <5>1
        <5>3. f[k] \in S[k] /\ f[k] = a BY <2>1, <4>3, <5>1
        <5> QED BY Zenon, <4>3, <5>2, <5>3
      <4> QED BY <4>1, <4>2, <4>3
    <3> HIDE DEF Upto
    <3>6. \E e : e = [k \in 0..n |-> e[k]] /\ Upto(d + 1, e) BY Zenon, <3>3, <3>5
    <3>7. d + 1 \in Nat OBVIOUS
    <3> QED BY Zenon, <3>6, <3>7
  <2> QED BY <2>2, <2>3
<1>3. n \in T
  <2> HIDE DEF T
  <2> QED BY <1>1, <1>2, Induct
<1>4. PICK f : f = [k \in 0..n |-> f[k]] /\ Upto(n, f) BY <1>3
<1>5. \A k \in 0..n : f[k] \in S[k] /\ f[k] = IF k = 0 THEN a ELSE h[k][f[k - 1]] BY <1>4
<1>6. Recurs(n, a, h, f) BY Zenon, <1>4, <1>5 DEF Recurs
<1> QED BY Zenon, <1>5, <1>6

\* Functions that satisfy the same equations are equal.
LEMMA Unique ==
  ASSUME NEW n \in Nat, NEW f, NEW g, f[0] = g[0],
         \A k \in 1..n : f[k - 1] = g[k - 1] => f[k] = g[k]
  PROVE  \A k \in 0..n : f[k] = g[k]
<1> DEFINE T == {k \in Nat : k <= n => f[k] = g[k]}
<1>1. 0 \in T OBVIOUS
<1>2. ASSUME NEW k \in Nat, k \in T PROVE k + 1 \in T
  <2>1. k + 1 <= n => k + 1 \in 1..n /\ (k + 1) - 1 = k /\ k <= n OBVIOUS
  <2> QED BY <1>2, <2>1
<1>3. \A k \in Nat : k \in T
  <2> HIDE DEF T
  <2> QED BY <1>1, <1>2, Induct
<1> QED BY <1>3

\* A search that goes from p to g[p], and on from there unless it may stop at p.
Searches(n, stop, g, f) == f = [p \in 0..n |-> IF p \in stop THEN g[p] ELSE f[g[p]]]

LEMMA Search ==
  ASSUME NEW n \in Nat, NEW stop, NEW g \in [0..n -> 1..(n + 1)],
         \A p \in 0..n : p < g[p], \A p \in 0..n : p \notin stop => g[p] <= n
  PROVE  \E f \in [0..n -> 1..(n + 1)] : Searches(n, stop, g, f)
<1> DEFINE From(d, f) == \A p \in 0..n : p + d >= n => f[p] = IF p \in stop THEN g[p] ELSE f[g[p]]
           T == {d \in Nat : \E f \in [0..n -> 1..(n + 1)] : From(d, f)}
<1>1. 0 \in T
  <2>1. \A p \in 0..n : p >= n => p \in stop OBVIOUS
  <2>2. From(0, g) BY <2>1
  <2> QED BY <2>2
<1>2. ASSUME NEW d \in Nat, d \in T PROVE d + 1 \in T
  <2>1. PICK f \in [0..n -> 1..(n + 1)] : From(d, f) BY <1>2
  <2>2. CASE d >= n
    <3>1. From(d + 1, f) BY <2>1, <2>2
    <3> HIDE DEF From
    <3> QED BY <3>1
  <2>3. CASE d < n
    <3> DEFINE c == n - d - 1
               v == IF c \in stop THEN g[c] ELSE f[g[c]]
               e == [f EXCEPT ![c] = v]
    <3>1. c \in 0..n /\ \A p \in 0..n : p + (d + 1) >= n => p = c \/ (p + d >= n /\ p > c) BY <2>3
    <3>2. c \notin stop => g[c] \in 0..n /\ g[c] # c BY <3>1
    <3>3. v \in 1..(n + 1) BY <3>1, <3>2
    <3>4. e \in [0..n -> 1..(n + 1)] BY <3>3
    <3>5. e[c] = v /\ \A p \in 0..n : p # c => e[p] = f[p] BY <3>1
    <3>6. From(d + 1, e)
      <4> HIDE DEF e
      <4> SUFFICES ASSUME NEW p \in 0..n, p + (d + 1) >= n
                   PROVE  e[p] = IF p \in stop THEN g[p] ELSE e[g[p]]
          OBVIOUS
      <4>1. CASE p = c BY <3>2, <3>5, <4>1
      <4>2. CASE p # c
        <5>1. p + d >= n /\ p > c BY <3>1, <4>2
        <5>2. e[p] = f[p] BY <3>5, <4>2
        <5>3. p \notin stop => g[p] \in 0..n /\ g[p] # c BY <3>1, <5>1
        <5>4. p \notin stop => e[g[p]] = f[g[p]] BY <3>5, <5>3
        <5> QED BY <2>1, <5>1, <5>2, <5>4
      <4> QED BY <4>1, <4>2
    <3> HIDE DEF From, e
    <3>7. \E y \in [0..n -> 1..(n + 1)] : From(d + 1, y) BY Zenon, <3>4, <3>6
    <3>8. d + 1 \in Nat OBVIOUS
    <3> QED BY Zenon, <3>7, <3>8
  <2>4. d >= n \/ d < n OBVIOUS
  <2> HIDE DEF T
  <2> QED BY <2>2, <2>3, <2>4
<1>3. n \in T
  <2> HIDE DEF T
  <2> QED BY <1>1, <1>2, Induct
<1>4. PICK f \in [0..n -> 1..(n + 1)] : From(n, f) BY <1>3
<1>5. \A p \in 0..n : f[p] = IF p \in stop THEN g[p] ELSE f[g[p]] BY <1>4
<1>6. f = [p \in 0..n |-> f[p]] OBVIOUS
<1>7. Searches(n, stop, g, f) BY Zenon, <1>5, <1>6 DEF Searches
<1> QED BY <1>7

-----------------------------------------------------------------------------
(* What the stages give for an element of the vector, whether an element
   passes them, and where the next one is that does. *)
Stage ==
  [op : {"where"}, predicate : Predicates] \cup [op : {"select"}, transform : Transforms]

LEMMA StageIs ==
  ASSUME NEW stages \in Seq(Stage)
  PROVE  /\ Len(stages) \in Nat
         /\ \A i \in 1..Len(stages) :
              /\ stages[i].op = "where" \/ stages[i].op = "select"
              /\ stages[i].op = "select" => stages[i].transform \in [Values -> Values]
<1>1. Len(stages) \in Nat /\ \A i \in 1..Len(stages) : stages[i] \in Stage
      BY LenProperties, ElementOfSeq
<1>2. \A x \in Stage : /\ x.op = "where" \/ x.op = "select"
                       /\ x.op = "select" => x.transform \in [Values -> Values]
      BY PipelinesAssumption DEF Stage
<1> QED BY <1>1, <1>2

LEMMA VectorIs ==
  ASSUME vector \in Seq(Values)
  PROVE  Len(vector) \in Nat /\ \A pos \in 1..Len(vector) : vector[pos] \in Values
BY LenProperties, ElementOfSeq

ThroughStage(x, v) == IF x.op = "select" THEN x.transform[v] ELSE v

LEMMA CurrentIs ==
  ASSUME vector \in Seq(Values), NEW stages \in Seq(Stage), NEW pos \in 1..Len(vector)
  PROVE  /\ E!get_current(stages, pos, 0) = vector[pos]
         /\ \A i \in 1..Len(stages) :
              E!get_current(stages, pos, i)
                = ThroughStage(stages[i], E!get_current(stages, pos, i - 1))
         /\ \A i \in 0..Len(stages) : E!get_current(stages, pos, i) \in Values
<1> DEFINE n == Len(stages)
           S == [i \in 0..n |-> Values]
           h == [i \in 1..n |-> [v \in Values |-> ThroughStage(stages[i], v)]]
           Is(f) == f = [i \in 0..n |->
                      IF i = 0 THEN vector[pos]
                      ELSE IF stages[i].op = "select" THEN stages[i].transform[f[i - 1]]
                           ELSE f[i - 1]]
           d == CHOOSE f : Is(f)
<1>1. n \in Nat /\ vector[pos] \in Values BY StageIs, VectorIs
<1>2. \A i \in 1..n : \A v \in Values : ThroughStage(stages[i], v) \in Values
      BY StageIs DEF ThroughStage
<1>3. \A i \in 1..n : \A v \in Values : h[i][v] = ThroughStage(stages[i], v) OBVIOUS
<1>4. \A i \in 0..n : S[i] = Values OBVIOUS
<1>5. \A i \in 1..n : i \in 0..n /\ i - 1 \in 0..n /\ i # 0 BY <1>1
<1>6. 0 \in 0..n BY <1>1
<1> HIDE DEF h, S
<1>7. PICK f : Recurs(n, vector[pos], h, f) /\ \A i \in 0..n : f[i] \in S[i]
  <2>1. vector[pos] \in S[0] BY <1>1, <1>4, <1>6
  <2>2. \A i \in 1..n : S[i] = Values /\ S[i - 1] = Values BY Zenon, <1>4, <1>5
  <2>3. \A i \in 1..n : \A v \in S[i - 1] : h[i][v] \in S[i]
    <3> TAKE i \in 1..n
    <3>1. S[i] = Values /\ S[i - 1] = Values BY Zenon, <2>2
    <3>2. \A v \in Values : h[i][v] \in Values BY <1>2, <1>3
    <3> QED BY <3>1, <3>2
  <2> QED BY Zenon, <1>1, <2>1, <2>3, Recursion
<1>8. \A i \in 0..n : f[i] \in Values BY Zenon, <1>4, <1>7
<1>9. \A i \in 0..n : f[i] = IF i = 0 THEN vector[pos] ELSE h[i][f[i - 1]]
      BY Zenon, <1>7 DEF Recurs
<1>10. \A i \in 0..n : i # 0 => i \in 1..n BY <1>1
<1>11. \A i \in 0..n : f[i] = IF i = 0 THEN vector[pos] ELSE ThroughStage(stages[i], f[i - 1])
       BY Zenon, <1>3, <1>5, <1>8, <1>9, <1>10
<1>12. f = [i \in 0..n |-> f[i]] BY Zenon, <1>7, <1>9 DEF Recurs
<1>13. Is(f) BY Zenon, <1>11, <1>12 DEF ThroughStage
<1>14. Is(d)
  <2> HIDE DEF Is
  <2> QED BY Zenon, <1>13
<1>15. \A k : E!get_current(stages, pos, k) = d[k] BY Zenon DEF E!get_current
<1>16. \A i \in 0..n : d[i] = IF i = 0 THEN vector[pos] ELSE ThroughStage(stages[i], d[i - 1])
       BY Zenon, <1>14 DEF ThroughStage
<1> HIDE DEF d, Is
<1>17. d[0] = vector[pos] /\ \A i \in 1..n : d[i] = ThroughStage(stages[i], d[i - 1])
       BY Zenon, <1>5, <1>6, <1>16
<1>18. \A i \in 0..n : f[i] = d[i]
  <2>1. f[0] = vector[pos] BY Zenon, <1>6, <1>11
  <2>2. \A i \in 1..n : f[i] = ThroughStage(stages[i], f[i - 1]) BY Zenon, <1>5, <1>11
  <2>3. f[0] = d[0] /\ \A i \in 1..n : f[i - 1] = d[i - 1] => f[i] = d[i]
        BY Zenon, <1>17, <2>1, <2>2
  <2> QED BY Zenon, <1>1, <2>3, Unique
<1> QED BY Zenon, <1>8, <1>15, <1>17, <1>18

\* The element at pos passes the first k stages.
Passes(stages, pos, k) ==
  \A i \in 1..k :
    stages[i].op = "where" => E!get_current(stages, pos, i - 1) \in stages[i].predicate

LEMMA PassesMore ==
  ASSUME NEW stages, NEW pos, NEW k \in Nat \ {0}
  PROVE  /\ Passes(stages, pos, 0)
         /\ stages[k].op # "where" => (Passes(stages, pos, k) <=> Passes(stages, pos, k - 1))
         /\ stages[k].op = "where" =>
              (Passes(stages, pos, k) <=>
                 /\ Passes(stages, pos, k - 1)
                 /\ E!get_current(stages, pos, k - 1) \in stages[k].predicate)
<1>1. 1..0 = {} /\ 1..k = (1..k-1) \cup {k} OBVIOUS
<1> QED BY <1>1, Zenon DEF Passes

\* q is the first position after p whose element passes, or behind the last one.
IsNext(stages, k, p, q) ==
  /\ q \in 1..(Len(vector) + 1) /\ p < q
  /\ q <= Len(vector) => Passes(stages, q, k)
  /\ \A m \in 1..Len(vector) : p < m /\ m < q => ~Passes(stages, m, k)

AreNext(stages, k, g) ==
  g \in [0..Len(vector) -> 1..(Len(vector) + 1)] /\ \A p \in 0..Len(vector) : IsNext(stages, k, p, g[p])

LEMMA FirstMove ==
  ASSUME vector \in Seq(Values), NEW stages
  PROVE  AreNext(stages, 0, [p \in 0..Len(vector) |-> p + 1])
<1>1. Len(vector) \in Nat BY VectorIs
<1>2. \A q : Passes(stages, q, 0) BY DEF Passes
<1> QED BY <1>1, <1>2 DEF AreNext, IsNext

LEMMA SelectMove ==
  ASSUME NEW stages \in Seq(Stage), NEW k \in 1..Len(stages), stages[k].op = "select",
         NEW g, AreNext(stages, k - 1, g)
  PROVE  AreNext(stages, k, g)
<1>1. k \in Nat \ {0} /\ stages[k].op # "where" BY StageIs
<1>2. \A m : Passes(stages, m, k) <=> Passes(stages, m, k - 1) BY <1>1, PassesMore
<1> QED BY Zenon, <1>2 DEF AreNext, IsNext

LEMMA WhereMove ==
  ASSUME vector \in Seq(Values), NEW stages \in Seq(Stage), NEW k \in 1..Len(stages),
         stages[k].op = "where", NEW g, AreNext(stages, k - 1, g)
  PROVE  AreNext(stages, k, E!where_move(stages, k, g))
<1> DEFINE n == Len(vector)
           Ok(p) == E!get_current(stages, p, k - 1) \in stages[k].predicate
           stop == {p \in 0..n : g[p] > n \/ Ok(g[p])}
           Is(f) == f = [p \in 0..n |-> IF g[p] > n \/ Ok(g[p]) THEN g[p] ELSE f[g[p]]]
           d == CHOOSE f : Is(f)
<1>1. n \in Nat BY VectorIs
<1>2. g \in [0..n -> 1..(n + 1)] /\ \A p \in 0..n : IsNext(stages, k - 1, p, g[p])
      BY Zenon DEF AreNext
<1>3. \A p \in 0..n : p < g[p] BY Zenon, <1>2 DEF IsNext
<1>4. \A p \in 0..n : p \notin stop => g[p] <= n /\ g[p] \in 0..n BY <1>1, <1>2
<1>5. \A p \in 0..n : p \in stop <=> (g[p] > n \/ Ok(g[p])) OBVIOUS
<1>6. E!where_move(stages, k, g) = d BY Zenon DEF E!where_move
<1> HIDE DEF Ok, stop
<1>7. PICK f \in [0..n -> 1..(n + 1)] : Searches(n, stop, g, f)
  <2>1. \A p \in 0..n : p \notin stop => g[p] <= n BY <1>4
  <2> QED BY Zenon, <1>1, <1>2, <1>3, <2>1, Search
<1>8. \A p \in 0..n : f[p] = IF p \in stop THEN g[p] ELSE f[g[p]]
      BY Zenon, <1>7 DEF Searches
<1>9. f = [p \in 0..n |-> f[p]] OBVIOUS
<1>10. \A p \in 0..n : f[p] = IF g[p] > n \/ Ok(g[p]) THEN g[p] ELSE f[g[p]]
       BY Zenon, <1>5, <1>8
<1>11. Is(f) BY Zenon, <1>9, <1>10
<1>12. Is(d)
  <2> HIDE DEF Is
  <2> QED BY Zenon, <1>11
<1>13. \A p \in 0..n : d[p] = IF g[p] > n \/ Ok(g[p]) THEN g[p] ELSE d[g[p]] BY Zenon, <1>12
<1>14. d = [p \in 0..n |-> d[p]] BY Zenon, <1>12, <1>13
<1> HIDE DEF d, Is
<1>15. \A p \in 0..n : IsNext(stages, k, p, d[p])
  <2> DEFINE Bad == {p \in 0..n : ~IsNext(stages, k, p, d[p])}
  <2>1. SUFFICES ASSUME Bad # {} PROVE FALSE OBVIOUS
  <2>2. PICK p \in Bad : \A c \in Bad : c <= p
    <3>1. Bad \in SUBSET (0..n) OBVIOUS
    <3> HIDE DEF Bad
    <3> QED BY <1>1, <2>1, <3>1, Largest
  <2>3. p \in 0..n /\ ~IsNext(stages, k, p, d[p]) BY <2>2
  <2>4. \A c \in 0..n : p < c => IsNext(stages, k, c, d[c]) BY <1>1, <2>2, <2>3
  <2> HIDE DEF Bad
  <2>5. \A m : Passes(stages, m, k) <=> Passes(stages, m, k - 1) /\ Ok(m)
        BY PassesMore, StageIs DEF Ok
  <2>6. /\ g[p] \in 1..(n + 1) /\ p < g[p]
        /\ g[p] <= n => Passes(stages, g[p], k - 1)
        /\ \A m \in 1..n : p < m /\ m < g[p] => ~Passes(stages, m, k - 1)
        BY Zenon, <1>2, <2>3 DEF IsNext
  <2>7. CASE g[p] > n \/ Ok(g[p])
    <3>1. d[p] = g[p] BY Zenon, <1>13, <2>3, <2>7
    <3>2. g[p] <= n => Passes(stages, g[p], k) BY <1>1, <2>5, <2>6, <2>7
    <3>3. IsNext(stages, k, p, g[p]) BY Zenon, <2>5, <2>6, <3>2 DEF IsNext
    <3> QED BY <2>3, <3>1, <3>3
  <2>8. CASE ~(g[p] > n \/ Ok(g[p]))
    <3>1. d[p] = d[g[p]] BY Zenon, <1>13, <2>3, <2>8
    <3>2. g[p] \in 0..n BY <1>1, <2>6, <2>8
    <3>3. IsNext(stages, k, g[p], d[g[p]]) BY <2>4, <2>6, <3>2
    <3>4. ~Passes(stages, g[p], k) BY <2>5, <2>8
    <3>5. \A m \in 1..n : p < m /\ m < d[g[p]] =>
            (p < m /\ m < g[p]) \/ m = g[p] \/ (g[p] < m /\ m < d[g[p]])
          BY <1>1, <3>2
    <3>6. \A m \in 1..n : p < m /\ m < d[g[p]] => ~Passes(stages, m, k)
          BY Zenon, <2>5, <2>6, <3>3, <3>4, <3>5 DEF IsNext
    <3>7. d[g[p]] \in 1..(n + 1) /\ g[p] < d[g[p]]
          /\ (d[g[p]] <= n => Passes(stages, d[g[p]], k))
          BY Zenon, <3>3 DEF IsNext
    <3>8. p < d[g[p]] BY <1>1, <2>3, <2>6, <3>2, <3>7
    <3>9. IsNext(stages, k, p, d[g[p]]) BY Zenon, <3>6, <3>7, <3>8 DEF IsNext
    <3> QED BY <2>3, <3>1, <3>9
  <2> QED BY <2>7, <2>8
<1>16. \A p \in 0..n : d[p] \in 1..(n + 1) BY Zenon, <1>15 DEF IsNext
<1>17. d \in [0..n -> 1..(n + 1)] BY <1>14, <1>16
<1> QED BY Zenon, <1>6, <1>15, <1>17 DEF AreNext

LEMMA MoveIs ==
  ASSUME vector \in Seq(Values), NEW stages \in Seq(Stage)
  PROVE  AreNext(stages, Len(stages), E!move_next(stages))
<1> DEFINE n == Len(stages)
           first == [p \in 0..Len(vector) |-> p + 1]
           G == [0..Len(vector) -> 1..(Len(vector) + 1)]
           S == [k \in 0..n |-> {g \in G : AreNext(stages, k, g)}]
           Go(k, g) == IF stages[k].op = "select" THEN g ELSE E!where_move(stages, k, g)
           h == [k \in 1..n |-> [g \in G |-> Go(k, g)]]
           Is(f) == f = [k \in 0..n |-> IF k = 0 THEN first ELSE Go(k, f[k - 1])]
           d == CHOOSE f : Is(f)
<1>1. n \in Nat BY StageIs
<1>2. \A k \in 1..n : k \in 0..n /\ k - 1 \in 0..n /\ k # 0 BY <1>1
<1>3. 0 \in 0..n BY <1>1
<1>4. \A k \in 0..n : \A g : g \in S[k] <=> AreNext(stages, k, g) BY DEF AreNext
<1>5. \A k \in 1..n : \A g : AreNext(stages, k - 1, g) => h[k][g] = Go(k, g) BY DEF AreNext
<1>6. \A k \in 1..n : \A g : AreNext(stages, k - 1, g) => AreNext(stages, k, Go(k, g))
  <2> TAKE k \in 1..n
  <2> SUFFICES ASSUME NEW g, AreNext(stages, k - 1, g) PROVE AreNext(stages, k, Go(k, g))
      OBVIOUS
  <2>1. CASE stages[k].op = "select" BY <2>1, SelectMove
  <2>2. CASE stages[k].op # "select"
    <3>1. stages[k].op = "where" BY <2>2, StageIs
    <3>2. Go(k, g) = E!where_move(stages, k, g) BY Zenon, <2>2
    <3> QED BY Zenon, <3>1, <3>2, WhereMove
  <2> QED BY <2>1, <2>2
<1>7. AreNext(stages, 0, first) BY FirstMove
<1>8. E!move_next(stages) = d[n] BY Zenon DEF E!move_next
<1> HIDE DEF Go, h, S, first
<1>9. PICK f : Recurs(n, first, h, f) /\ \A k \in 0..n : f[k] \in S[k]
  <2>1. first \in S[0] BY Zenon, <1>3, <1>4, <1>7
  <2>2. \A k \in 1..n : \A g \in S[k - 1] : h[k][g] \in S[k] BY Zenon, <1>2, <1>4, <1>5, <1>6
  <2> QED BY Zenon, <1>1, <2>1, <2>2, Recursion
<1>10. \A k \in 0..n : AreNext(stages, k, f[k]) BY Zenon, <1>4, <1>9
<1>11. \A k \in 0..n : f[k] = IF k = 0 THEN first ELSE h[k][f[k - 1]] BY Zenon, <1>9 DEF Recurs
<1>12. \A k \in 0..n : k # 0 => k \in 1..n BY <1>1
<1>13. \A k \in 0..n : f[k] = IF k = 0 THEN first ELSE Go(k, f[k - 1])
       BY Zenon, <1>2, <1>5, <1>10, <1>11, <1>12
<1>14. f = [k \in 0..n |-> f[k]] BY Zenon, <1>9, <1>11 DEF Recurs
<1>15. Is(f) BY Zenon, <1>13, <1>14
<1>16. Is(d)
  <2> HIDE DEF Is
  <2> QED BY Zenon, <1>15
<1>17. \A k \in 0..n : d[k] = IF k = 0 THEN first ELSE Go(k, d[k - 1]) BY Zenon, <1>16
<1> HIDE DEF d, Is
<1>18. \A k \in 0..n : f[k] = d[k]
  <2>1. f[0] = d[0] BY Zenon, <1>3, <1>13, <1>17
  <2>2. \A k \in 1..n : f[k - 1] = d[k - 1] => f[k] = d[k] BY Zenon, <1>2, <1>13, <1>17
  <2> QED BY Zenon, <1>1, <2>1, <2>2, Unique
<1>19. n \in 0..n BY <1>1
<1> QED BY Zenon, <1>8, <1>10, <1>18, <1>19

-----------------------------------------------------------------------------
(* The loop of to_vector: what it has when it is at a position are the
   values of the elements up to there that pass. *)
KeepNext(stages, k, j, r) ==
  IF Passes(stages, j, k) THEN Append(r, E!get_current(stages, j, k)) ELSE r
IsLazy(stages, k, f) ==
  /\ f[0] = <<>> /\ \A j \in 1..Len(vector) : f[j] = KeepNext(stages, k, j, f[j - 1])
  /\ \A j \in 0..Len(vector) : f[j] \in Seq(Values)
Lazy(stages, k) == CHOOSE f : IsLazy(stages, k, f)

LEMMA LazyIs ==
  ASSUME vector \in Seq(Values), NEW stages \in Seq(Stage), NEW k \in 0..Len(stages)
  PROVE  IsLazy(stages, k, Lazy(stages, k))
<1> DEFINE n == Len(vector)
           S == [j \in 0..n |-> Seq(Values)]
           h == [j \in 1..n |-> [r \in Seq(Values) |-> KeepNext(stages, k, j, r)]]
<1>1. n \in Nat BY VectorIs
<1>2. \A j \in 1..n : j \in 0..n /\ j - 1 \in 0..n /\ j # 0 BY <1>1
<1>3. 0 \in 0..n BY <1>1
<1>4. \A j \in 0..n : S[j] = Seq(Values) OBVIOUS
<1>5. \A j \in 1..n : \A r \in Seq(Values) : h[j][r] = KeepNext(stages, k, j, r) OBVIOUS
<1>6. \A j \in 1..n : \A r \in Seq(Values) : KeepNext(stages, k, j, r) \in Seq(Values)
  <2> TAKE j \in 1..n
  <2> TAKE r \in Seq(Values)
  <2>1. E!get_current(stages, j, k) \in Values BY CurrentIs
  <2>2. Append(r, E!get_current(stages, j, k)) \in Seq(Values) BY <2>1, AppendProperties
  <2> QED BY Zenon, <2>2 DEF KeepNext
<1> HIDE DEF S, h
<1>7. PICK f : Recurs(n, <<>>, h, f) /\ \A j \in 0..n : f[j] \in S[j]
  <2>1. <<>> \in S[0] BY <1>3, <1>4, EmptySeq
  <2>2. \A j \in 1..n : \A r \in S[j - 1] : h[j][r] \in S[j]
    <3> TAKE j \in 1..n
    <3>1. S[j] = Seq(Values) /\ S[j - 1] = Seq(Values) BY Zenon, <1>2, <1>4
    <3>2. \A r \in Seq(Values) : h[j][r] \in Seq(Values) BY Zenon, <1>5, <1>6
    <3> QED BY Zenon, <3>1, <3>2
  <2> QED BY Zenon, <1>1, <2>1, <2>2, Recursion
<1>8. \A j \in 0..n : f[j] = IF j = 0 THEN <<>> ELSE h[j][f[j - 1]] BY Zenon, <1>7 DEF Recurs
<1>9. \A j \in 0..n : f[j] \in Seq(Values) BY Zenon, <1>4, <1>7
<1>10. \A j \in 1..n : f[j] = KeepNext(stages, k, j, f[j - 1]) BY Zenon, <1>2, <1>5, <1>8, <1>9
<1>11. f[0] = <<>> BY Zenon, <1>3, <1>8
<1>12. IsLazy(stages, k, f) BY Zenon, <1>9, <1>10, <1>11 DEF IsLazy
<1> QED BY Zenon, <1>12 DEF Lazy

\* Nothing is added where nothing passes, and nothing is ever taken away.
LEMMA LazySkips ==
  ASSUME vector \in Seq(Values), NEW stages \in Seq(Stage), NEW k \in 0..Len(stages),
         NEW p \in 0..Len(vector), NEW q \in p..Len(vector),
         \A m \in 1..Len(vector) : p < m /\ m <= q => ~Passes(stages, m, k)
  PROVE  Lazy(stages, k)[q] = Lazy(stages, k)[p]
<1> DEFINE f == Lazy(stages, k)
           T == {d \in Nat : p + d <= q => f[p + d] = f[p]}
<1>1. Len(vector) \in Nat BY VectorIs
<1>2. \A j \in 1..Len(vector) : ~Passes(stages, j, k) => f[j] = f[j - 1]
      BY Zenon, LazyIs DEF IsLazy, KeepNext
<1> HIDE DEF f
<1>3. 0 \in T OBVIOUS
<1>4. ASSUME NEW d \in Nat, d \in T PROVE d + 1 \in T
  <2>1. CASE p + (d + 1) <= q
    <3>1. p + (d + 1) \in 1..Len(vector) /\ (p + (d + 1)) - 1 = p + d /\ p < p + (d + 1)
          /\ p + d <= q
          BY <1>1, <2>1
    <3>2. ~Passes(stages, p + (d + 1), k) BY <2>1, <3>1
    <3>3. f[p + (d + 1)] = f[p + d] BY <1>2, <3>1, <3>2
    <3> QED BY <1>4, <3>1, <3>3
  <2>2. CASE ~(p + (d + 1) <= q) BY <2>2
  <2> QED BY <2>1, <2>2
<1>5. \A d \in Nat : d \in T
  <2> HIDE DEF T
  <2> QED BY <1>3, <1>4, Induct
<1>6. q - p \in Nat /\ p + (q - p) = q BY <1>1
<1>7. p + (q - p) <= q => f[p + (q - p)] = f[p] BY <1>5, <1>6
<1>8. f[q] = f[p] BY <1>6, <1>7
<1> QED BY <1>8 DEF f

LEMMA LazyGrows ==
  ASSUME vector \in Seq(Values), NEW stages \in Seq(Stage), NEW k \in 0..Len(stages),
         NEW p \in 0..Len(vector), NEW q \in p..Len(vector)
  PROVE  Len(Lazy(stages, k)[p]) <= Len(Lazy(stages, k)[q])
<1> DEFINE f == Lazy(stages, k)
           l == [j \in 0..Len(vector) |-> Len(f[j])]
           T == {d \in Nat : p + d <= q => l[p] <= l[p + d]}
<1>1. Len(vector) \in Nat BY VectorIs
<1>2. \A j \in 0..Len(vector) : f[j] \in Seq(Values) BY Zenon, LazyIs DEF IsLazy
<1>3. \A j \in 0..Len(vector) : l[j] \in Nat BY <1>2, LenProperties
<1>4. \A j \in 1..Len(vector) : l[j - 1] <= l[j]
  <2> TAKE j \in 1..Len(vector)
  <2>1. f[j] = KeepNext(stages, k, j, f[j - 1]) BY Zenon, LazyIs DEF IsLazy
  <2>2. j \in 0..Len(vector) /\ j - 1 \in 0..Len(vector) BY <1>1
  <2>3. Len(Append(f[j - 1], E!get_current(stages, j, k))) = Len(f[j - 1]) + 1
    <3>1. E!get_current(stages, j, k) \in Values BY CurrentIs
    <3> QED BY <1>2, <2>2, <3>1, AppendProperties
  <2>4. Len(f[j]) = Len(f[j - 1]) \/ Len(f[j]) = Len(f[j - 1]) + 1
        BY Zenon, <2>1, <2>3 DEF KeepNext
  <2> HIDE DEF f
  <2>5. l[j] = Len(f[j]) /\ l[j - 1] = Len(f[j - 1]) BY <2>2
  <2> HIDE DEF l
  <2> QED BY <1>3, <2>2, <2>4, <2>5
<1> HIDE DEF f
<1>5. l[p] = Len(f[p]) /\ l[q] = Len(f[q]) BY <1>1
<1> HIDE DEF l
<1>6. 0 \in T BY <1>3
<1>7. ASSUME NEW d \in Nat, d \in T PROVE d + 1 \in T
  <2>1. CASE p + (d + 1) <= q
    <3>1. p + (d + 1) \in 1..Len(vector) /\ (p + (d + 1)) - 1 = p + d /\ p + d <= q
          /\ p + d \in 0..Len(vector) /\ p + (d + 1) \in 0..Len(vector)
          BY <1>1, <2>1
    <3>2. l[p + d] <= l[p + (d + 1)] BY <1>4, <3>1
    <3>3. l[p] <= l[p + d] BY <1>7, <3>1
    <3>4. l[p] \in Nat /\ l[p + d] \in Nat /\ l[p + (d + 1)] \in Nat BY Zenon, <1>3, <3>1
    <3> QED BY <3>2, <3>3, <3>4
  <2>2. CASE ~(p + (d + 1) <= q) BY <2>2
  <2> QED BY <2>1, <2>2
<1>8. \A d \in Nat : d \in T
  <2> HIDE DEF T
  <2> QED BY <1>6, <1>7, Induct
<1>9. q - p \in Nat /\ p + (q - p) = q BY <1>1
<1>10. l[p] <= l[q] BY <1>8, <1>9
<1> QED BY <1>5, <1>10 DEF f

NodeType == [stages : Seq(Stage), current : Nat, valid : BOOLEAN, deleted : BOOLEAN]

SameButCurrent(m, n, c) ==
  m \in NodeType /\ m.stages = n.stages /\ m.valid = n.valid /\ m.deleted = n.deleted /\ m.current = c

LEMMA ResetNode ==
  ASSUME NEW n \in NodeType
  PROVE  SameButCurrent(E!reset(n), n, 0)
BY DEF NodeType, E!reset, SameButCurrent

LEMMA MoveNode ==
  ASSUME vector \in Seq(Values), NEW n \in NodeType, n.current <= Len(vector)
  PROVE  /\ SameButCurrent(E!Move(n), n, E!move_next(n.stages)[n.current])
         /\ IsNext(n.stages, Len(n.stages), n.current, E!Move(n).current)
<1> DEFINE c == E!move_next(n.stages)[n.current]
<1>1. Len(vector) \in Nat /\ n.stages \in Seq(Stage) /\ n.current \in 0..Len(vector)
      BY VectorIs DEF NodeType
<1>2. AreNext(n.stages, Len(n.stages), E!move_next(n.stages)) BY <1>1, MoveIs
<1>3. IsNext(n.stages, Len(n.stages), n.current, c) BY <1>1, <1>2 DEF AreNext
<1>4. c \in Nat BY <1>1, <1>3 DEF IsNext
<1>5. E!Move(n) = [n EXCEPT !.current = c] BY DEF E!Move
<1> HIDE DEF c
<1>6. SameButCurrent(E!Move(n), n, c) BY <1>4, <1>5 DEF NodeType, SameButCurrent
<1> QED BY <1>3, <1>6 DEF c, SameButCurrent

\* Where the loop is after k rounds, and what it has.
Reached(p) == IF p > Len(vector) THEN Len(vector) ELSE p
Run == [node : NodeType, result : Seq(Values)]
RunTo(n, k, r) ==
  /\ r \in Run
  /\ SameButCurrent(r.node, n, r.node.current)
  /\ k <= r.node.current /\ r.node.current <= Len(vector) + 1
  /\ r.result = Lazy(n.stages, Len(n.stages))[Reached(r.node.current)]

LEMMA IterateRuns ==
  ASSUME vector \in Seq(Values), NEW n \in NodeType, NEW k \in 1..(Len(vector) + 1),
         NEW r, RunTo(n, k - 1, r)
  PROVE  RunTo(n, k, E!Iterate(r))
<1> DEFINE N == Len(vector)
           K == Len(n.stages)
           L0 == Lazy(n.stages, K)
           p == r.node.current
           m == E!Move(r.node)
           q == m.current
<1>1. N \in Nat /\ n.stages \in Seq(Stage) /\ K \in 0..K
      BY VectorIs, StageIs DEF NodeType
<1>2. /\ r.node \in NodeType /\ r.node.stages = n.stages /\ p \in Nat
      /\ r.node.valid = n.valid /\ r.node.deleted = n.deleted
      /\ k - 1 <= p /\ p <= N + 1 /\ r.result = L0[Reached(p)]
      BY DEF RunTo, SameButCurrent, NodeType
<1>3. CASE p > N
  <2>1. E!Iterate(r) = r BY Zenon, <1>3 DEF E!Iterate, E!AtEnd
  <2>2. k <= p BY <1>1, <1>2, <1>3
  <2> QED BY Zenon, <2>1, <2>2 DEF RunTo
<1>4. CASE ~(p > N)
  <2>1. p \in 0..N BY <1>1, <1>2, <1>4
  <2>2. SameButCurrent(m, r.node, q) /\ IsNext(n.stages, K, p, q)
        BY <1>2, <2>1, MoveNode DEF SameButCurrent
  <2>3. SameButCurrent(m, n, q) BY <1>2, <2>2 DEF SameButCurrent
  <2>4. q \in 1..(N + 1) /\ p < q
        /\ (q <= N => Passes(n.stages, q, K))
        /\ \A c \in 1..N : p < c /\ c < q => ~Passes(n.stages, c, K)
        BY Zenon, <2>2 DEF IsNext
  <2>5. m.stages = n.stages BY Zenon, <2>3 DEF SameButCurrent
  <2>6. q - 1 \in p..N /\ k <= q /\ q <= N + 1 BY <1>1, <1>2, <2>1, <2>4
  <2>7. L0[q - 1] = L0[p]
    <3>1. \A c \in 1..N : p < c /\ c <= q - 1 => ~Passes(n.stages, c, K) BY <1>1, <2>4
    <3> QED BY <1>1, <2>1, <2>6, <3>1, LazySkips
  <2>8. Reached(p) = p BY <1>4 DEF Reached
  <2> DEFINE x == IF q > N THEN r.result ELSE Append(r.result, E!get_current(n.stages, q, K))
  <2>9. E!Iterate(r) = [node |-> m, result |-> x]
        BY Zenon, <1>4, <2>5 DEF E!Iterate, E!AtEnd
  <2>10. x = L0[Reached(q)]
    <3>1. CASE q > N
      <4>1. Reached(q) = q - 1 BY <1>1, <2>4, <3>1 DEF Reached
      <4> QED BY Zenon, <1>2, <2>7, <2>8, <3>1, <4>1
    <3>2. CASE ~(q > N)
      <4>1. q \in 1..N /\ Reached(q) = q BY <1>1, <2>4, <3>2 DEF Reached
      <4>2. L0[q] = KeepNext(n.stages, K, q, L0[q - 1]) BY Zenon, <1>1, <4>1, LazyIs DEF IsLazy
      <4>3. Passes(n.stages, q, K) BY <1>1, <2>4, <4>1
      <4>4. L0[q] = Append(L0[q - 1], E!get_current(n.stages, q, K))
            BY Zenon, <4>2, <4>3 DEF KeepNext
      <4> QED BY Zenon, <1>2, <2>7, <2>8, <3>2, <4>1, <4>4
    <3> QED BY <3>1, <3>2
  <2>13. x \in Seq(Values)
    <3>1. Reached(q) \in 0..N BY <1>1, <2>4 DEF Reached
    <3> QED BY Zenon, <1>1, <2>10, <3>1, LazyIs DEF IsLazy
  <2> HIDE DEF x, m
  <2>14. [node |-> m, result |-> x] \in Run BY <2>3, <2>13 DEF Run, SameButCurrent
  <2> DEFINE i == E!Iterate(r)
  <2>11. i.node = m /\ i.result = x /\ i \in Run BY <2>9, <2>14
  <2> HIDE DEF i
  <2>12. RunTo(n, k, i) BY Zenon, <2>3, <2>6, <2>10, <2>11 DEF RunTo
  <2> QED BY <2>12 DEF i
<1> QED BY <1>3, <1>4

LEMMA ToVectorIs ==
  ASSUME vector \in Seq(Values), NEW n \in NodeType
  PROVE  /\ E!to_vector(n).node \in NodeType
         /\ E!to_vector(n).result = Lazy(n.stages, Len(n.stages))[Len(vector)]
<1> DEFINE N == Len(vector) + 1
           K == Len(n.stages)
           first == [node |-> E!reset(n), result |-> <<>>]
           S == [k \in 0..N |-> {r \in Run : RunTo(n, k, r)}]
           h == [k \in 1..N |-> [r \in Run |-> E!Iterate(r)]]
           Is(f) == f = [k \in 0..N |-> IF k = 0 THEN first ELSE E!Iterate(f[k - 1])]
           d == CHOOSE f : Is(f)
<1>1. Len(vector) \in Nat /\ N \in Nat /\ n.stages \in Seq(Stage) /\ K \in 0..K
      BY VectorIs, StageIs DEF NodeType
<1>2. \A k \in 1..N : k \in 0..N /\ k - 1 \in 0..N /\ k # 0 BY <1>1
<1>3. 0 \in 0..N /\ N \in 0..N BY <1>1
<1>4. \A k \in 0..N : \A r : r \in S[k] <=> RunTo(n, k, r) BY DEF RunTo
<1>5. \A k \in 1..N : \A r \in Run : h[k][r] = E!Iterate(r) OBVIOUS
<1>6. \A k \in 1..N : \A r : RunTo(n, k - 1, r) => RunTo(n, k, E!Iterate(r))
      BY IterateRuns
<1>7. RunTo(n, 0, first)
  <2>1. SameButCurrent(first.node, n, 0) BY ResetNode
  <2>2. Lazy(n.stages, K)[0] = <<>> BY Zenon, <1>1, LazyIs DEF IsLazy
  <2>3. first.node.current = 0 BY <2>1 DEF SameButCurrent
  <2>4. Reached(0) = 0 BY <1>1 DEF Reached
  <2>5. <<>> \in Seq(Values) BY EmptySeq
  <2>6. first.node \in NodeType BY <2>1 DEF SameButCurrent
  <2>7. first \in Run /\ first.result = <<>> BY <2>5, <2>6 DEF Run
  <2>8. 0 <= 0 /\ 0 <= Len(vector) + 1 BY <1>1
  <2> HIDE DEF first
  <2> QED BY Zenon, <2>1, <2>2, <2>3, <2>4, <2>7, <2>8 DEF RunTo
<1>8. E!to_vector(n) = d[N] BY Zenon DEF E!to_vector
<1> HIDE DEF h, S, first
<1>9. PICK f : Recurs(N, first, h, f) /\ \A k \in 0..N : f[k] \in S[k]
  <2>1. first \in S[0] BY Zenon, <1>3, <1>4, <1>7
  <2>2. \A k \in 1..N : \A r \in S[k - 1] : h[k][r] \in S[k]
    <3> SUFFICES ASSUME NEW k \in 1..N, NEW r \in S[k - 1] PROVE h[k][r] \in S[k]
        OBVIOUS
    <3>1. RunTo(n, k - 1, r) BY Zenon, <1>2, <1>4
    <3>2. h[k][r] = E!Iterate(r) BY Zenon, <1>5, <3>1 DEF RunTo
    <3>3. RunTo(n, k, E!Iterate(r)) BY Zenon, <1>6, <3>1
    <3> QED BY Zenon, <1>2, <1>4, <3>2, <3>3
  <2> QED BY Zenon, <1>1, <2>1, <2>2, Recursion
<1>10. \A k \in 0..N : RunTo(n, k, f[k]) BY Zenon, <1>4, <1>9
<1>11. \A k \in 0..N : f[k] = IF k = 0 THEN first ELSE h[k][f[k - 1]] BY Zenon, <1>9 DEF Recurs
<1>12. \A k \in 0..N : k # 0 => k \in 1..N BY <1>1
<1>13. \A k \in 0..N : f[k] = IF k = 0 THEN first ELSE E!Iterate(f[k - 1])
       BY Zenon, <1>2, <1>5, <1>10, <1>11, <1>12 DEF RunTo
<1>14. f = [k \in 0..N |-> f[k]] BY Zenon, <1>9, <1>11 DEF Recurs
<1>15. Is(f) BY Zenon, <1>13, <1>14
<1>16. Is(d)
  <2> HIDE DEF Is
  <2> QED BY Zenon, <1>15
<1>17. \A k \in 0..N : d[k] = IF k = 0 THEN first ELSE E!Iterate(d[k - 1]) BY Zenon, <1>16
<1> HIDE DEF d, Is
<1>18. \A k \in 0..N : f[k] = d[k]
  <2>1. f[0] = d[0] BY Zenon, <1>3, <1>13, <1>17
  <2>2. \A k \in 1..N : f[k - 1] = d[k - 1] => f[k] = d[k] BY Zenon, <1>2, <1>13, <1>17
  <2> QED BY Zenon, <1>1, <2>1, <2>2, Unique
<1> DEFINE r == E!to_vector(n)
<1>19. RunTo(n, N, r) BY Zenon, <1>3, <1>8, <1>10, <1>18
<1> HIDE DEF r
<1>20. /\ r.node \in NodeType /\ N <= r.node.current
       /\ r.result = Lazy(n.stages, K)[Reached(r.node.current)]
       BY Zenon, <1>19 DEF RunTo, SameButCurrent
<1>21. Reached(r.node.current) = Len(vector)
  <2>1. r.node.current \in Nat BY <1>20 DEF NodeType
  <2> QED BY <1>1, <1>20, <2>1 DEF Reached
<1>22. r.node \in NodeType /\ r.result = Lazy(n.stages, K)[Len(vector)] BY Zenon, <1>20, <1>21
<1> QED BY <1>22 DEF r

LEMMA AnyIs ==
  ASSUME vector \in Seq(Values), NEW n \in NodeType
  PROVE  E!any(n) <=> Lazy(n.stages, Len(n.stages))[Len(vector)] # <<>>
<1> DEFINE N == Len(vector)
           K == Len(n.stages)
           L0 == Lazy(n.stages, K)
           q == E!Move(E!reset(n)).current
<1>1. N \in Nat /\ n.stages \in Seq(Stage) /\ K \in 0..K
      BY VectorIs, StageIs DEF NodeType
<1>2. SameButCurrent(E!reset(n), n, 0) BY ResetNode
<1>3. IsNext(n.stages, K, 0, q)
  <2>1. E!reset(n) \in NodeType /\ E!reset(n).current = 0 /\ E!reset(n).stages = n.stages
        BY <1>2 DEF SameButCurrent
  <2> QED BY <1>1, <2>1, MoveNode
<1>4. /\ q \in 1..(N + 1) /\ (q <= N => Passes(n.stages, q, K))
      /\ \A c \in 1..N : 0 < c /\ c < q => ~Passes(n.stages, c, K)
      BY Zenon, <1>3 DEF IsNext
<1>5. E!any(n) <=> ~(q > N) BY DEF E!any, E!AtEnd
<1> HIDE DEF q
<1>6. CASE q > N
  <2>1. \A c \in 1..N : 0 < c /\ c <= N => ~Passes(n.stages, c, K) BY <1>1, <1>4, <1>6
  <2>2. 0 \in 0..N /\ N \in 0..N BY <1>1
  <2>3. L0[N] = L0[0] BY <1>1, <2>1, <2>2, LazySkips
  <2>4. L0[0] = <<>> BY Zenon, <1>1, LazyIs DEF IsLazy
  <2> QED BY <1>5, <1>6, <2>3, <2>4
<1>7. CASE ~(q > N)
  <2>1. q \in 1..N /\ q \in 0..N /\ q - 1 \in 0..N /\ N \in q..N BY <1>1, <1>4, <1>7
  <2>2. Passes(n.stages, q, K) BY <1>1, <1>4, <2>1
  <2>3. IsLazy(n.stages, K, L0) BY <1>1, LazyIs
  <2> HIDE DEF L0
  <2>4. L0[q] = Append(L0[q - 1], E!get_current(n.stages, q, K))
        BY Zenon, <2>1, <2>2, <2>3 DEF IsLazy, KeepNext
  <2>5. L0[q - 1] \in Seq(Values) /\ L0[N] \in Seq(Values)
    <3>1. N \in 0..N BY <1>1
    <3> QED BY Zenon, <2>1, <2>3, <3>1 DEF IsLazy
  <2>7. E!get_current(n.stages, q, K) \in Values BY <1>1, <2>1, CurrentIs
  <2>8. Len(L0[q]) = Len(L0[q - 1]) + 1 /\ Len(L0[q - 1]) \in Nat
        BY <2>4, <2>5, <2>7, AppendProperties, LenProperties
  <2>9. Len(L0[q]) <= Len(L0[N]) BY <1>1, <2>1, LazyGrows DEF L0
  <2>10. Len(L0[N]) # 0 BY <2>5, <2>8, <2>9, LenProperties
  <2>11. L0[N] # <<>> BY <2>10
  <2> QED BY <1>5, <1>7, <2>11 DEF L0
<1> QED BY <1>6, <1>7

-----------------------------------------------------------------------------
(* linqcpp: each stage makes a sequence of the one before it. *)
KeepIf(p, x, r) == IF x \in p THEN Append(r, x) ELSE r
Kept(c, p, f) ==
  /\ f[0] = <<>> /\ \A k \in 1..Len(c) : f[k] = KeepIf(p, c[k], f[k - 1])
  /\ \A k \in 0..Len(c) : f[k] \in Seq(Values)

LEMMA EagerWhereIs ==
  ASSUME NEW c \in Seq(Values), NEW p
  PROVE  \E f : Kept(c, p, f) /\ E!EagerWhere(c, p) = f[Len(c)]
<1> DEFINE n == Len(c)
           S == [k \in 0..n |-> Seq(Values)]
           h == [k \in 1..n |-> [r \in Seq(Values) |-> KeepIf(p, c[k], r)]]
           Is(f) == f = [k \in 0..n |->
                      IF k = 0 THEN <<>>
                      ELSE IF c[k] \in p THEN Append(f[k - 1], c[k]) ELSE f[k - 1]]
           d == CHOOSE f : Is(f)
<1>1. n \in Nat /\ \A k \in 1..n : c[k] \in Values BY LenProperties, ElementOfSeq
<1>2. \A k \in 1..n : k \in 0..n /\ k - 1 \in 0..n /\ k # 0 BY <1>1
<1>3. 0 \in 0..n /\ n \in 0..n BY <1>1
<1>4. \A k \in 0..n : S[k] = Seq(Values) OBVIOUS
<1>5. \A k \in 1..n : \A r \in Seq(Values) : h[k][r] = KeepIf(p, c[k], r) OBVIOUS
<1>6. \A k \in 1..n : \A r \in Seq(Values) : KeepIf(p, c[k], r) \in Seq(Values)
      BY <1>1, AppendProperties DEF KeepIf
<1>7. E!EagerWhere(c, p) = d[n] BY Zenon DEF E!EagerWhere
<1> HIDE DEF S, h
<1>8. PICK f : Recurs(n, <<>>, h, f) /\ \A k \in 0..n : f[k] \in S[k]
  <2>1. <<>> \in S[0] BY <1>3, <1>4, EmptySeq
  <2>2. \A k \in 1..n : \A r \in S[k - 1] : h[k][r] \in S[k]
    <3> TAKE k \in 1..n
    <3>1. S[k] = Seq(Values) /\ S[k - 1] = Seq(Values) BY Zenon, <1>2, <1>4
    <3>2. \A r \in Seq(Values) : h[k][r] \in Seq(Values) BY Zenon, <1>5, <1>6
    <3> QED BY Zenon, <3>1, <3>2
  <2> QED BY Zenon, <1>1, <2>1, <2>2, Recursion
<1>9. \A k \in 0..n : f[k] = IF k = 0 THEN <<>> ELSE h[k][f[k - 1]] BY Zenon, <1>8 DEF Recurs
<1>10. \A k \in 0..n : f[k] \in Seq(Values) BY Zenon, <1>4, <1>8
<1>11. \A k \in 0..n : k # 0 => k \in 1..n BY <1>1
<1>12. \A k \in 0..n : f[k] = IF k = 0 THEN <<>> ELSE KeepIf(p, c[k], f[k - 1])
       BY Zenon, <1>2, <1>5, <1>9, <1>10, <1>11
<1>13. f = [k \in 0..n |-> f[k]] BY Zenon, <1>8, <1>9 DEF Recurs
<1>14. Is(f) BY Zenon, <1>12, <1>13 DEF KeepIf
<1>15. Is(d)
  <2> HIDE DEF Is
  <2> QED BY Zenon, <1>14
<1>16. \A k \in 0..n : d[k] = IF k = 0 THEN <<>> ELSE KeepIf(p, c[k], d[k - 1])
       BY Zenon, <1>15 DEF KeepIf
<1> HIDE DEF d, Is
<1>17. \A k \in 0..n : f[k] = d[k]
  <2>1. f[0] = d[0] BY Zenon, <1>3, <1>12, <1>16
  <2>2. \A k \in 1..n : f[k - 1] = d[k - 1] => f[k] = d[k] BY Zenon, <1>2, <1>12, <1>16
  <2> QED BY Zenon, <1>1, <2>1, <2>2, Unique
<1>18. f[0] = <<>> /\ \A k \in 1..n : f[k] = KeepIf(p, c[k], f[k - 1])
       BY Zenon, <1>2, <1>3, <1>12
<1>19. Kept(c, p, f) BY Zenon, <1>10, <1>18 DEF Kept
<1> QED BY Zenon, <1>3, <1>7, <1>17, <1>19

LEMMA EagerWhereType ==
  ASSUME NEW c \in Seq(Values), NEW p
  PROVE  E!EagerWhere(c, p) \in Seq(Values)
<1>1. Len(c) \in 0..Len(c) BY LenProperties
<1> QED BY Zenon, <1>1, EagerWhereIs DEF Kept

LEMMA EagerWhereAppend ==
  ASSUME NEW c \in Seq(Values), NEW x \in Values, NEW p
  PROVE  /\ E!EagerWhere(<<>>, p) = <<>>
         /\ E!EagerWhere(Append(c, x), p) = KeepIf(p, x, E!EagerWhere(c, p))
<1> DEFINE e == Append(c, x)
           n == Len(c)
<1>1. /\ n \in Nat /\ e \in Seq(Values) /\ Len(e) = n + 1 /\ e[n + 1] = x
      /\ \A k \in 1..n : e[k] = c[k]
      BY LenProperties, AppendProperties
<1> HIDE DEF e
<1>2. PICK f : Kept(c, p, f) /\ E!EagerWhere(c, p) = f[n] BY EagerWhereIs
<1>3. PICK g : Kept(e, p, g) /\ E!EagerWhere(e, p) = g[Len(e)] BY <1>1, EagerWhereIs
<1>4. \A k \in 0..n : f[k] = g[k]
  <2>1. \A k \in 1..n : k \in 1..Len(e) BY <1>1
  <2>2. f[0] = g[0] BY Zenon, <1>2, <1>3 DEF Kept
  <2>3. \A k \in 1..n : f[k - 1] = g[k - 1] => f[k] = g[k]
        BY Zenon, <1>1, <1>2, <1>3, <2>1 DEF Kept
  <2> QED BY Zenon, <1>1, <2>2, <2>3, Unique
<1>5. n + 1 \in 1..Len(e) /\ (n + 1) - 1 = n /\ n \in 0..n BY <1>1
<1>6. g[n + 1] = KeepIf(p, e[n + 1], g[(n + 1) - 1]) BY Zenon, <1>3, <1>5 DEF Kept
<1>7. E!EagerWhere(e, p) = KeepIf(p, x, E!EagerWhere(c, p))
      BY Zenon, <1>1, <1>2, <1>3, <1>4, <1>5, <1>6
<1>8. E!EagerWhere(<<>>, p) = <<>>
  <2>1. <<>> \in Seq(Values) /\ Len(<<>>) = 0 BY EmptySeq
  <2> QED BY Zenon, <2>1, EagerWhereIs DEF Kept
<1> QED BY <1>7, <1>8 DEF e

LEMMA EagerAnyIs ==
  ASSUME NEW c \in Seq(Values), NEW p
  PROVE  E!EagerWhere(c, p) # <<>> <=> E!EagerAny(c, p)
<1> DEFINE n == Len(c)
           Any(k) == \E j \in 1..k : c[j] \in p
<1>1. n \in Nat /\ DOMAIN c = 1..n /\ \A k \in 1..n : c[k] \in Values
      BY LenProperties, ElementOfSeq
<1>2. PICK f : Kept(c, p, f) /\ E!EagerWhere(c, p) = f[n] BY EagerWhereIs
<1> DEFINE T == {k \in Nat : k <= n => (f[k] # <<>> <=> Any(k))}
<1>3. 0 \in T
  <2>1. f[0] = <<>> BY Zenon, <1>2 DEF Kept
  <2>2. ~Any(0) OBVIOUS
  <2> QED BY <2>1, <2>2
<1>4. ASSUME NEW k \in Nat, k \in T PROVE k + 1 \in T
  <2>1. CASE k + 1 <= n
    <3>1. k + 1 \in 1..n /\ (k + 1) - 1 = k /\ k \in 0..n /\ k <= n BY <1>1, <2>1
    <3>2. f[k] # <<>> <=> Any(k) BY <1>4, <3>1
    <3>3. f[k + 1] = KeepIf(p, c[k + 1], f[(k + 1) - 1]) BY Zenon, <1>2, <3>1 DEF Kept
    <3>4. Any(k + 1) <=> Any(k) \/ c[k + 1] \in p
      <4>1. 1..(k + 1) = (1..k) \cup {k + 1} OBVIOUS
      <4> QED BY Zenon, <4>1
    <3>5. f[k] \in Seq(Values) BY Zenon, <1>2, <3>1 DEF Kept
    <3>6. Append(f[k], c[k + 1]) # <<>> BY <1>1, <3>1, <3>5, AppendProperties
    <3> HIDE DEF Any
    <3>7. f[k + 1] # <<>> <=> Any(k + 1) BY Zenon, <3>1, <3>2, <3>3, <3>4, <3>6 DEF KeepIf
    <3> QED BY <3>7
  <2>2. CASE ~(k + 1 <= n) BY <2>2
  <2> QED BY <2>1, <2>2
<1>5. n \in T
  <2> HIDE DEF T
  <2> QED BY <1>1, <1>3, <1>4, Induct
<1>6. f[n] # <<>> <=> Any(n)
  <2>1. n <= n BY <1>1
  <2> HIDE DEF Any
  <2> QED BY <1>5, <2>1
<1> QED BY Zenon, <1>1, <1>2, <1>6 DEF E!EagerAny

LEMMA EagerSelectAppend ==
  ASSUME NEW c \in Seq(Values), NEW x \in Values, NEW t \in [Values -> Values]
  PROVE  /\ E!EagerSelect(<<>>, t) = <<>>
         /\ E!EagerSelect(Append(c, x), t) = Append(E!EagerSelect(c, t), t[x])
         /\ E!EagerSelect(c, t) \in Seq(Values)
<1> DEFINE n == Len(c)
           e == Append(c, x)
<1>1. /\ n \in Nat /\ DOMAIN c = 1..n /\ DOMAIN e = 1..(n + 1)
      /\ e[n + 1] = x /\ \A k \in 1..n : e[k] = c[k] /\ c[k] \in Values
      BY LenProperties, AppendProperties, ElementOfSeq
<1>2. E!EagerSelect(c, t) = [k \in 1..n |-> t[c[k]]] BY <1>1 DEF E!EagerSelect
<1>3. E!EagerSelect(e, t) = [k \in 1..(n + 1) |-> t[e[k]]] BY Zenon, <1>1 DEF E!EagerSelect
<1>4. E!EagerSelect(c, t) \in Seq(Values) /\ Len(E!EagerSelect(c, t)) = n
  <2>1. \A k \in 1..n : t[c[k]] \in Values BY <1>1
  <2> QED BY <1>1, <1>2, <2>1
<1> DEFINE s == E!EagerSelect(c, t)
<1>5. \A k \in 1..n : s[k] = t[c[k]] BY <1>2
<1>6. t[x] \in Values OBVIOUS
<1> HIDE DEF s, e
<1>7. /\ Append(s, t[x]) \in Seq(Values) /\ Len(Append(s, t[x])) = n + 1
      /\ Append(s, t[x])[n + 1] = t[x] /\ \A k \in 1..n : Append(s, t[x])[k] = s[k]
      BY <1>4, <1>6, AppendProperties DEF s
<1> DEFINE a == Append(s, t[x])
           b == [k \in 1..(n + 1) |-> t[e[k]]]
<1>8. a = [k \in 1..(n + 1) |-> a[k]]
  <2>1. DOMAIN a = 1..(n + 1) BY <1>1, <1>7, LenProperties
  <2>2. \A y \in Seq(Values) : y = [k \in DOMAIN y |-> y[k]] BY SeqDef
  <2>3. a \in Seq(Values) BY <1>7
  <2> HIDE DEF a
  <2> QED BY Zenon, <2>1, <2>2, <2>3
<1>9. \A k \in 1..(n + 1) : a[k] = t[e[k]]
  <2> TAKE k \in 1..(n + 1)
  <2>1. CASE k = n + 1 BY <1>1, <1>7, <2>1
  <2>2. CASE k # n + 1
    <3>1. k \in 1..n BY <1>1, <2>2
    <3> QED BY Zenon, <1>1, <1>5, <1>7, <3>1
  <2> QED BY <2>1, <2>2
<1>10. a = b BY Zenon, <1>8, <1>9
<1>11. E!EagerSelect(<<>>, t) = <<>> BY DEF E!EagerSelect
<1> QED BY <1>3, <1>4, <1>10, <1>11 DEF e, s


LEMMA LazyStart ==
  ASSUME vector \in Seq(Values), NEW stages \in Seq(Stage)
  PROVE  Lazy(stages, 0)[Len(vector)] = vector
<1> DEFINE N == Len(vector)
           f == Lazy(stages, 0)
           T == {j \in Nat : j <= N => /\ Len(f[j]) = j /\ \A k \in 1..j : f[j][k] = vector[k]}
<1>1. N \in Nat /\ 0 \in 0..Len(stages) /\ \A j \in 1..N : vector[j] \in Values
      BY VectorIs, StageIs
<1>2. IsLazy(stages, 0, f) BY <1>1, LazyIs
<1> HIDE DEF f
<1>3. \A j \in 1..N : f[j] = Append(f[j - 1], vector[j])
  <2> TAKE j \in 1..N
  <2>1. E!get_current(stages, j, 0) = vector[j] BY CurrentIs
  <2>2. Passes(stages, j, 0) BY DEF Passes
  <2> QED BY Zenon, <1>2, <2>1, <2>2 DEF IsLazy, KeepNext
<1>4. \A j \in 0..N : f[j] \in Seq(Values) BY Zenon, <1>2 DEF IsLazy
<1>5. 0 \in T
  <2>1. f[0] = <<>> BY Zenon, <1>2 DEF IsLazy
  <2> QED BY <2>1
<1>6. ASSUME NEW j \in Nat, j \in T PROVE j + 1 \in T
  <2>1. CASE j + 1 <= N
    <3>1. j + 1 \in 1..N /\ (j + 1) - 1 = j /\ j \in 0..N /\ j <= N BY <1>1, <2>1
    <3>2. Len(f[j]) = j /\ \A k \in 1..j : f[j][k] = vector[k] BY <1>6, <3>1
    <3>3. f[j + 1] = Append(f[j], vector[j + 1]) BY Zenon, <1>3, <3>1
    <3>4. f[j] \in Seq(Values) /\ vector[j + 1] \in Values BY Zenon, <1>1, <1>4, <3>1
    <3>5. /\ Len(f[j + 1]) = j + 1 /\ f[j + 1][j + 1] = vector[j + 1]
          /\ \A k \in 1..j : f[j + 1][k] = f[j][k]
          BY <3>2, <3>3, <3>4, AppendProperties
    <3>6. \A k \in 1..(j + 1) : k = j + 1 \/ k \in 1..j OBVIOUS
    <3>7. \A k \in 1..(j + 1) : f[j + 1][k] = vector[k] BY Zenon, <3>2, <3>5, <3>6
    <3> QED BY <3>5, <3>7
  <2>2. CASE ~(j + 1 <= N) BY <2>2
  <2> QED BY <2>1, <2>2
<1>7. N \in T
  <2> HIDE DEF T
  <2> QED BY <1>1, <1>5, <1>6, Induct
<1>8. Len(f[N]) = N /\ (\A k \in 1..N : f[N][k] = vector[k]) /\ f[N] \in Seq(Values)
      BY <1>1, <1>4, <1>7
<1>9. f[N] = vector
  <2>1. \A y, z \in Seq(Values) : Len(y) = Len(z) /\ (\A k \in 1..Len(z) : y[k] = z[k]) => y = z
        BY SeqEqual
  <2> QED BY <1>8, <2>1
<1> QED BY <1>9 DEF f

LEMMA LazyWhere ==
  ASSUME vector \in Seq(Values), NEW stages \in Seq(Stage), NEW k \in 1..Len(stages),
         stages[k].op = "where"
  PROVE  E!EagerWhere(Lazy(stages, k - 1)[Len(vector)], stages[k].predicate)
           = Lazy(stages, k)[Len(vector)]
<1> DEFINE N == Len(vector)
           p == stages[k].predicate
           f == Lazy(stages, k - 1)
           g == Lazy(stages, k)
           T == {j \in Nat : j <= N => E!EagerWhere(f[j], p) = g[j]}
<1>1. /\ N \in Nat /\ k \in Nat \ {0} /\ k \in 0..Len(stages) /\ k - 1 \in 0..Len(stages)
      /\ stages[k].op # "select"
      BY VectorIs, StageIs
<1>2. IsLazy(stages, k - 1, f) /\ IsLazy(stages, k, g) BY <1>1, LazyIs
<1>3. \A j \in 1..N : E!get_current(stages, j, k) = E!get_current(stages, j, k - 1)
      BY Zenon, <1>1, CurrentIs DEF ThroughStage
<1>4. \A j : Passes(stages, j, k) <=>
               Passes(stages, j, k - 1) /\ E!get_current(stages, j, k - 1) \in p
      BY Zenon, <1>1, PassesMore
<1>5. \A j \in 1..N : E!get_current(stages, j, k - 1) \in Values BY Zenon, <1>1, CurrentIs
<1> HIDE DEF f, g, p
<1>6. 0 \in T
  <2>1. f[0] = <<>> /\ g[0] = <<>> BY Zenon, <1>2 DEF IsLazy
  <2>2. E!EagerWhere(<<>>, p) = <<>>
    <3>1. <<>> \in Seq(Values) /\ Len(<<>>) = 0 BY EmptySeq
    <3> QED BY Zenon, <3>1, EagerWhereIs DEF Kept
  <2> QED BY <2>1, <2>2
<1>7. ASSUME NEW j \in Nat, j \in T PROVE j + 1 \in T
  <2>1. CASE j + 1 <= N
    <3> DEFINE i == j + 1
               x == E!get_current(stages, i, k - 1)
    <3>1. i \in 1..N /\ i - 1 = j /\ j \in 0..N /\ j <= N BY <1>1, <2>1
    <3>2. E!EagerWhere(f[j], p) = g[j] BY <1>7, <3>1
    <3> HIDE DEF i, x
    <3>3. f[j] \in Seq(Values) /\ x \in Values BY Zenon, <1>2, <1>5, <3>1 DEF IsLazy, x
    <3>4. f[i] = (IF Passes(stages, i, k - 1) THEN Append(f[j], x) ELSE f[j])
          BY Zenon, <1>2, <3>1 DEF IsLazy, KeepNext, x
    <3>5. g[i] = (IF Passes(stages, i, k) THEN Append(g[j], x) ELSE g[j])
          BY Zenon, <1>2, <1>3, <3>1 DEF IsLazy, KeepNext, x
    <3>6. Passes(stages, i, k) <=> Passes(stages, i, k - 1) /\ x \in p
          BY Zenon, <1>4 DEF x
    <3>7. E!EagerWhere(Append(f[j], x), p) = (IF x \in p THEN Append(g[j], x) ELSE g[j])
          BY Zenon, <3>2, <3>3, EagerWhereAppend DEF KeepIf
    <3>8. E!EagerWhere(f[i], p) = g[i] BY Zenon, <3>2, <3>4, <3>5, <3>6, <3>7
    <3> QED BY <3>8 DEF i
  <2>2. CASE ~(j + 1 <= N) BY <2>2
  <2> QED BY <2>1, <2>2
<1>8. N \in T
  <2> HIDE DEF T
  <2> QED BY <1>1, <1>6, <1>7, Induct
<1>9. E!EagerWhere(f[N], p) = g[N]
  <2>1. N <= N BY <1>1
  <2> QED BY <1>8, <2>1
<1> QED BY <1>9 DEF f, g, p

LEMMA LazySelect ==
  ASSUME vector \in Seq(Values), NEW stages \in Seq(Stage), NEW k \in 1..Len(stages),
         stages[k].op = "select"
  PROVE  E!EagerSelect(Lazy(stages, k - 1)[Len(vector)], stages[k].transform)
           = Lazy(stages, k)[Len(vector)]
<1> DEFINE N == Len(vector)
           t == stages[k].transform
           f == Lazy(stages, k - 1)
           g == Lazy(stages, k)
           T == {j \in Nat : j <= N => E!EagerSelect(f[j], t) = g[j]}
<1>1. /\ N \in Nat /\ k \in Nat \ {0} /\ k \in 0..Len(stages) /\ k - 1 \in 0..Len(stages)
      /\ stages[k].op # "where" /\ t \in [Values -> Values]
      BY VectorIs, StageIs
<1>2. IsLazy(stages, k - 1, f) /\ IsLazy(stages, k, g) BY <1>1, LazyIs
<1>3. \A j \in 1..N : E!get_current(stages, j, k) = t[E!get_current(stages, j, k - 1)]
      BY Zenon, CurrentIs DEF ThroughStage
<1>4. \A j : Passes(stages, j, k) <=> Passes(stages, j, k - 1) BY Zenon, <1>1, PassesMore
<1>5. \A j \in 1..N : E!get_current(stages, j, k - 1) \in Values BY Zenon, <1>1, CurrentIs
<1> HIDE DEF f, g, t
<1>6. 0 \in T
  <2>1. f[0] = <<>> /\ g[0] = <<>> BY Zenon, <1>2 DEF IsLazy
  <2>2. E!EagerSelect(<<>>, t) = <<>> BY DEF E!EagerSelect
  <2> QED BY <2>1, <2>2
<1>7. ASSUME NEW j \in Nat, j \in T PROVE j + 1 \in T
  <2>1. CASE j + 1 <= N
    <3> DEFINE i == j + 1
               x == E!get_current(stages, i, k - 1)
    <3>1. i \in 1..N /\ i - 1 = j /\ j \in 0..N /\ j <= N BY <1>1, <2>1
    <3>2. E!EagerSelect(f[j], t) = g[j] BY <1>7, <3>1
    <3> HIDE DEF i, x
    <3>3. f[j] \in Seq(Values) /\ x \in Values BY Zenon, <1>2, <1>5, <3>1 DEF IsLazy, x
    <3>4. f[i] = (IF Passes(stages, i, k - 1) THEN Append(f[j], x) ELSE f[j])
          BY Zenon, <1>2, <3>1 DEF IsLazy, KeepNext, x
    <3>5. g[i] = (IF Passes(stages, i, k) THEN Append(g[j], t[x]) ELSE g[j])
          BY Zenon, <1>2, <1>3, <3>1 DEF IsLazy, KeepNext, x
    <3>6. Passes(stages, i, k) <=> Passes(stages, i, k - 1) BY Zenon, <1>4
    <3>7. E!EagerSelect(Append(f[j], x), t) = Append(g[j], t[x])
      <4>1. E!EagerSelect(Append(f[j], x), t) = Append(E!EagerSelect(f[j], t), t[x])
            BY <1>1, <3>3, EagerSelectAppend
      <4> QED BY Zenon, <3>2, <4>1
    <3>8. E!EagerSelect(f[i], t) = g[i] BY Zenon, <3>2, <3>4, <3>5, <3>6, <3>7
    <3> QED BY <3>8 DEF i
  <2>2. CASE ~(j + 1 <= N) BY <2>2
  <2> QED BY <2>1, <2>2
<1>8. N \in T
  <2> HIDE DEF T
  <2> QED BY <1>1, <1>6, <1>7, Induct
<1>9. E!EagerSelect(f[N], t) = g[N]
  <2>1. N <= N BY <1>1
  <2> QED BY <1>8, <2>1
<1> QED BY <1>9 DEF f, g, t

\* What the eager pipeline has after each stage.
EagerStage(x, c) ==
  IF x.op = "where" THEN E!EagerWhere(c, x.predicate) ELSE E!EagerSelect(c, x.transform)
Through(stages, f) ==
  f[0] = vector /\ \A k \in 1..Len(stages) : f[k] = EagerStage(stages[k], f[k - 1])

LEMMA EagerIs ==
  ASSUME vector \in Seq(Values), NEW stages \in Seq(Stage)
  PROVE  /\ E!Eager(stages) = Lazy(stages, Len(stages))[Len(vector)]
         /\ \E f : Through(stages, f) /\ E!Eager(stages) = f[Len(stages)]
<1> DEFINE n == Len(stages)
           Last(k) == Lazy(stages, k)[Len(vector)]
           S == [k \in 0..n |-> {Last(k)}]
           h == [k \in 1..n |-> [c \in {Last(k - 1)} |-> EagerStage(stages[k], c)]]
           Is(f) == f = [k \in 0..n |->
                      IF k = 0 THEN vector
                      ELSE IF stages[k].op = "where" THEN E!EagerWhere(f[k - 1], stages[k].predicate)
                           ELSE E!EagerSelect(f[k - 1], stages[k].transform)]
           d == CHOOSE f : Is(f)
<1>1. n \in Nat BY StageIs
<1>2. \A k \in 1..n : k \in 0..n /\ k - 1 \in 0..n /\ k # 0 BY <1>1
<1>3. 0 \in 0..n /\ n \in 0..n BY <1>1
<1>4. \A k \in 1..n : EagerStage(stages[k], Last(k - 1)) = Last(k)
  <2> TAKE k \in 1..n
  <2>1. CASE stages[k].op = "where" BY Zenon, <2>1, LazyWhere DEF EagerStage
  <2>2. CASE stages[k].op # "where"
    <3>1. stages[k].op = "select" BY <2>2, StageIs
    <3> QED BY Zenon, <2>2, <3>1, LazySelect DEF EagerStage
  <2> QED BY <2>1, <2>2
<1>5. Last(0) = vector BY LazyStart
<1>6. E!Eager(stages) = d[n] BY Zenon DEF E!Eager
<1> HIDE DEF Last
<1>7. \A k \in 0..n : S[k] = {Last(k)} OBVIOUS
<1>8. \A k \in 1..n : h[k][Last(k - 1)] = EagerStage(stages[k], Last(k - 1)) OBVIOUS
<1> HIDE DEF S, h
<1>9. PICK f : Recurs(n, vector, h, f) /\ \A k \in 0..n : f[k] \in S[k]
  <2>1. vector \in S[0] BY <1>3, <1>5, <1>7
  <2>2. \A k \in 1..n : \A c \in S[k - 1] : h[k][c] \in S[k]
    <3> SUFFICES ASSUME NEW k \in 1..n, NEW c \in S[k - 1] PROVE h[k][c] \in S[k]
        OBVIOUS
    <3>1. S[k - 1] = {Last(k - 1)} /\ S[k] = {Last(k)} BY Zenon, <1>2, <1>7
    <3>2. c = Last(k - 1) BY <3>1
    <3>3. h[k][Last(k - 1)] = Last(k) BY Zenon, <1>4, <1>8
    <3> QED BY <3>1, <3>2, <3>3
  <2> QED BY Zenon, <1>1, <2>1, <2>2, Recursion
<1>10. \A k \in 0..n : f[k] = Last(k)
  <2> TAKE k \in 0..n
  <2>1. f[k] \in {Last(k)} BY Zenon, <1>7, <1>9
  <2> QED BY <2>1
<1>11. \A k \in 0..n : k # 0 => k \in 1..n BY <1>1
<1>12. \A k \in 0..n : f[k] = IF k = 0 THEN vector ELSE h[k][f[k - 1]]
       BY Zenon, <1>9 DEF Recurs
<1>13. \A k \in 0..n : f[k] = IF k = 0 THEN vector ELSE EagerStage(stages[k], f[k - 1])
       BY Zenon, <1>2, <1>8, <1>10, <1>11, <1>12
<1>14. f = [k \in 0..n |-> f[k]] BY Zenon, <1>9, <1>12 DEF Recurs
<1>15. Is(f) BY Zenon, <1>13, <1>14 DEF EagerStage
<1>16. Is(d)
  <2> HIDE DEF Is
  <2> QED BY Zenon, <1>15
<1>17. \A k \in 0..n : d[k] = IF k = 0 THEN vector ELSE EagerStage(stages[k], d[k - 1])
       BY Zenon, <1>16 DEF EagerStage
<1> HIDE DEF d, Is
<1>18. \A k \in 0..n : f[k] = d[k]
  <2>1. f[0] = d[0] BY Zenon, <1>3, <1>13, <1>17
  <2>2. \A k \in 1..n : f[k - 1] = d[k - 1] => f[k] = d[k] BY Zenon, <1>2, <1>13, <1>17
  <2> QED BY Zenon, <1>1, <2>1, <2>2, Unique
<1>19. E!Eager(stages) = f[n] /\ f[n] = Last(n) BY Zenon, <1>3, <1>6, <1>10, <1>18
<1>20. Through(stages, f) BY Zenon, <1>2, <1>3, <1>13 DEF Through
<1> QED BY Zenon, <1>19, <1>20 DEF Last

LEMMA EagerAppend ==
  ASSUME vector \in Seq(Values), NEW stages \in Seq(Stage), NEW x \in Stage
  PROVE  E!Eager(Append(stages, x)) = EagerStage(x, E!Eager(stages))
<1> DEFINE e == Append(stages, x)
           n == Len(stages)
<1>1. /\ n \in Nat /\ e \in Seq(Stage) /\ Len(e) = n + 1 /\ e[n + 1] = x
      /\ \A k \in 1..n : e[k] = stages[k]
      BY LenProperties, AppendProperties
<1> HIDE DEF e
<1>2. PICK f : Through(stages, f) /\ E!Eager(stages) = f[n] BY EagerIs
<1>3. PICK g : Through(e, g) /\ E!Eager(e) = g[Len(e)] BY <1>1, EagerIs
<1>4. \A k \in 0..n : f[k] = g[k]
  <2>1. \A k \in 1..n : k \in 1..Len(e) BY <1>1
  <2>2. f[0] = g[0] BY Zenon, <1>2, <1>3 DEF Through
  <2>3. \A k \in 1..n : f[k - 1] = g[k - 1] => f[k] = g[k]
        BY Zenon, <1>1, <1>2, <1>3, <2>1 DEF Through
  <2> QED BY Zenon, <1>1, <2>2, <2>3, Unique
<1>5. n + 1 \in 1..Len(e) /\ (n + 1) - 1 = n /\ n \in 0..n BY <1>1
<1>6. g[n + 1] = EagerStage(e[n + 1], g[(n + 1) - 1]) BY Zenon, <1>3, <1>5 DEF Through
<1>7. E!Eager(e) = EagerStage(x, E!Eager(stages))
      BY Zenon, <1>1, <1>2, <1>3, <1>4, <1>5, <1>6
<1> QED BY <1>7 DEF e

-----------------------------------------------------------------------------
(* The enumerables together: whatever the program did to its pipelines and
   its vector, each is a sequence of stages over values, which is all that
   LazyIsEager needs, since to_vector, count and any start with reset. *)
EnumeratorInv ==
  /\ vector \in Seq(Values) /\ nodes \in Seq(NodeType)
  /\ enumerator_ \in [Enumerables -> 0..Len(nodes)]
  /\ lazyMisused \in BOOLEAN

LEMMA NodeUpdates ==
  /\ E!make_enumerator \in NodeType /\ E!Deleted \in NodeType
  /\ \A n \in NodeType :
       /\ \A p \in Predicates : E!Where(n, p) \in NodeType
       /\ \A f \in Transforms : E!Select(n, f) \in NodeType
<1>1. <<>> \in Seq(Stage) BY EmptySeq
<1>2. E!make_enumerator \in NodeType /\ E!Deleted \in NodeType
      BY <1>1 DEF NodeType, E!make_enumerator, E!Deleted
<1>3. ASSUME NEW n \in NodeType, NEW x \in Stage
      PROVE  [n EXCEPT !.stages = Append(@, x)] \in NodeType
  <2>1. Append(n.stages, x) \in Seq(Stage) BY <1>3, AppendProperties DEF NodeType
  <2> QED BY <1>3, <2>1 DEF NodeType
<1>4. \A p \in Predicates : [op |-> "where", predicate |-> p] \in Stage BY DEF Stage
<1>5. \A f \in Transforms : [op |-> "select", transform |-> f] \in Stage BY DEF Stage
<1> QED BY Zenon, <1>2, <1>3, <1>4, <1>5 DEF E!Where, E!Select

LEMMA NoEnumeratorInit ==
  ASSUME vector \in Seq(Values), enumerator_ = [e \in Enumerables |-> 0], nodes = <<>>,
         lazyMisused = FALSE
  PROVE  EnumeratorInv
<1>1. nodes \in Seq(NodeType) /\ Len(nodes) = 0 BY EmptySeq
<1>2. enumerator_ \in [Enumerables -> 0..0] OBVIOUS
<1> QED BY <1>1, <1>2 DEF EnumeratorInv

LEMMA EnumeratorInit ==
  ASSUME E!Init
  PROVE  EnumeratorInv
<1>1. \A n \in 0..MaxSize : [1..n -> Values] \subseteq Seq(Values)
      BY PipelinesAssumption, SeqDef
<1>2. vector \in Seq(Values) BY <1>1 DEF E!Init
<1> QED BY <1>2, NoEnumeratorInit DEF E!Init

LEMMA EnumeratorKeeps ==
  ASSUME EnumeratorInv, UNCHANGED enumeratorVars
  PROVE  EnumeratorInv'
BY DEF EnumeratorInv, enumeratorVars

LEMMA NodeIs ==
  ASSUME EnumeratorInv, NEW e \in Enumerables, E!Exists(e)
  PROVE  E!Node(e) \in NodeType /\ enumerator_[e] \in 1..Len(nodes)
<1>1. enumerator_[e] \in 1..Len(nodes) BY LenProperties DEF EnumeratorInv, E!Exists
<1> QED BY <1>1, ElementOfSeq DEF EnumeratorInv, E!Node

LEMMA ConstructsStep ==
  ASSUME EnumeratorInv, NEW e \in Enumerables, NEW n \in NodeType, E!Constructs(e, n)
  PROVE  EnumeratorInv'
<1>1. /\ nodes \in Seq(NodeType) /\ nodes' = Append(nodes, n)
      /\ enumerator_ \in [Enumerables -> 0..Len(nodes)]
      /\ enumerator_' = [enumerator_ EXCEPT ![e] = Len(nodes) + 1]
      /\ vector' = vector /\ lazyMisused' = lazyMisused
      BY DEF EnumeratorInv, E!Constructs
<1>2. Len(nodes) \in Nat /\ nodes' \in Seq(NodeType) /\ Len(nodes') = Len(nodes) + 1
      BY <1>1, AppendProperties, LenProperties
<1>3. enumerator_' \in [Enumerables -> 0..Len(nodes')] BY <1>1, <1>2
<1> QED BY <1>1, <1>2, <1>3 DEF EnumeratorInv

LEMMA RunsStep ==
  ASSUME EnumeratorInv, NEW e \in Enumerables, E!Exists(e), NEW n \in NodeType, E!Runs(e, n)
  PROVE  EnumeratorInv'
<1>1. enumerator_[e] \in 1..Len(nodes) BY NodeIs
<1>2. \/ nodes' = [nodes EXCEPT ![enumerator_[e]] = n] /\ UNCHANGED <<vector, enumerator_, lazyMisused>>
      \/ lazyMisused' = TRUE /\ UNCHANGED <<vector, enumerator_, nodes>>
      BY Zenon DEF E!Runs, E!Uses
<1>3. [nodes EXCEPT ![enumerator_[e]] = n] \in Seq(NodeType)
      /\ Len([nodes EXCEPT ![enumerator_[e]] = n]) = Len(nodes)
      BY <1>1, ExceptSeq DEF EnumeratorInv
<1> QED BY <1>2, <1>3 DEF EnumeratorInv

LEMMA EnumeratorNext ==
  ASSUME EnumeratorInv, E!Next
  PROVE  EnumeratorInv'
<1>0. /\ vector \in Seq(Values) /\ nodes \in Seq(NodeType) /\ Len(nodes) \in Nat
      /\ enumerator_ \in [Enumerables -> 0..Len(nodes)] /\ lazyMisused \in BOOLEAN
      BY LenProperties DEF EnumeratorInv
<1>u. ASSUME lazyMisused' = TRUE, UNCHANGED <<vector, enumerator_, nodes>> PROVE EnumeratorInv'
      BY <1>u DEF EnumeratorInv
<1>1. ASSUME NEW e \in Enumerables, E!from(e) PROVE EnumeratorInv'
      BY <1>1, NodeUpdates, ConstructsStep DEF E!from
<1>2. ASSUME NEW e \in Enumerables, E!RunsToEnd(e) PROVE EnumeratorInv'
  <2>1. E!Exists(e) /\ E!Runs(e, E!to_vector(E!Node(e)).node) BY <1>2 DEF E!RunsToEnd
  <2>2. E!Node(e) \in NodeType BY <2>1, NodeIs
  <2>3. E!to_vector(E!Node(e)).node \in NodeType BY <1>0, <2>2, ToVectorIs
  <2> QED BY <2>1, <2>3, RunsStep
<1>3. ASSUME NEW e \in Enumerables, E!RunsToFirst(e) PROVE EnumeratorInv'
  <2>1. E!Exists(e) /\ E!Runs(e, E!Move(E!reset(E!Node(e)))) BY <1>3 DEF E!RunsToFirst
  <2>2. E!Node(e) \in NodeType BY <2>1, NodeIs
  <2>3. E!reset(E!Node(e)) \in NodeType /\ E!reset(E!Node(e)).current = 0
        BY <2>2, ResetNode DEF SameButCurrent
  <2>4. 0 <= Len(vector) BY <1>0, VectorIs
  <2>5. E!Move(E!reset(E!Node(e))) \in NodeType BY <1>0, <2>3, <2>4, MoveNode DEF SameButCurrent
  <2> QED BY <2>1, <2>5, RunsStep
<1>4. ASSUME NEW e \in Enumerables, E!destroy(e) PROVE EnumeratorInv'
  <2>1. E!Exists(e) BY <1>4 DEF E!destroy, E!Uses
  <2>2. \/ /\ nodes' = [nodes EXCEPT ![enumerator_[e]] = E!Deleted]
           /\ enumerator_' = [enumerator_ EXCEPT ![e] = 0] /\ UNCHANGED <<vector, lazyMisused>>
        \/ lazyMisused' = TRUE /\ UNCHANGED <<vector, enumerator_, nodes>>
        BY Zenon, <1>4 DEF E!destroy, E!Uses
  <2>3. enumerator_[e] \in 1..Len(nodes) BY <2>1, NodeIs
  <2>4. [nodes EXCEPT ![enumerator_[e]] = E!Deleted] \in Seq(NodeType)
        /\ Len([nodes EXCEPT ![enumerator_[e]] = E!Deleted]) = Len(nodes)
        BY <1>0, <2>3, NodeUpdates, ExceptSeq
  <2>5. [enumerator_ EXCEPT ![e] = 0] \in [Enumerables -> 0..Len(nodes)] BY <1>0
  <2> QED BY <1>0, <1>u, <2>2, <2>4, <2>5 DEF EnumeratorInv
<1>5. ASSUME NEW e \in Enumerables, NEW src \in Enumerables, E!copy(e, src) PROVE EnumeratorInv'
  <2>1. /\ enumerator_' = [enumerator_ EXCEPT ![e] = enumerator_[src]]
        /\ UNCHANGED <<vector, nodes, lazyMisused>>
        BY <1>5 DEF E!copy
  <2>2. enumerator_' \in [Enumerables -> 0..Len(nodes)] BY <1>0, <2>1
  <2> QED BY <1>0, <2>1, <2>2 DEF EnumeratorInv
<1>6. ASSUME NEW e \in Enumerables, NEW src \in Enumerables, NEW p \in Predicates,
             E!where(e, src, p)
      PROVE  EnumeratorInv'
  <2>1. E!Exists(src) BY <1>6 DEF E!where, E!Uses
  <2>2. \/ E!Constructs(e, E!Where(E!Node(src), p))
        \/ lazyMisused' = TRUE /\ UNCHANGED <<vector, enumerator_, nodes>>
        BY Zenon, <1>6 DEF E!where, E!Uses
  <2>3. E!Where(E!Node(src), p) \in NodeType BY <2>1, NodeIs, NodeUpdates
  <2> QED BY <1>u, <2>2, <2>3, ConstructsStep
<1>7. ASSUME NEW e \in Enumerables, NEW src \in Enumerables, NEW f \in Transforms,
             E!select(e, src, f)
      PROVE  EnumeratorInv'
  <2>1. E!Exists(src) BY <1>7 DEF E!select, E!Uses
  <2>2. \/ E!Constructs(e, E!Select(E!Node(src), f))
        \/ lazyMisused' = TRUE /\ UNCHANGED <<vector, enumerator_, nodes>>
        BY Zenon, <1>7 DEF E!select, E!Uses
  <2>3. E!Select(E!Node(src), f) \in NodeType BY <2>1, NodeIs, NodeUpdates
  <2> QED BY <1>u, <2>2, <2>3, ConstructsStep
<1>8. ASSUME NEW x \in Values, E!Grow(x) PROVE EnumeratorInv'
  <2>1. /\ vector' = Append(vector, x)
        /\ nodes' = [k \in DOMAIN nodes |-> [nodes[k] EXCEPT !.valid = FALSE]]
        /\ UNCHANGED <<enumerator_, lazyMisused>>
        BY <1>8 DEF E!Grow
  <2>2. vector' \in Seq(Values) BY <1>0, <2>1, AppendProperties
  <2>3. \A n \in NodeType : [n EXCEPT !.valid = FALSE] \in NodeType BY DEF NodeType
  <2>4. DOMAIN nodes = 1..Len(nodes) /\ \A k \in 1..Len(nodes) : nodes[k] \in NodeType
        BY <1>0, LenProperties, ElementOfSeq
  <2>5. nodes' \in [1..Len(nodes) -> NodeType] BY <2>1, <2>3, <2>4
  <2>6. nodes' \in Seq(NodeType) /\ Len(nodes') = Len(nodes)
    <3>1. nodes' \in Seq(NodeType) /\ DOMAIN nodes' = 1..Len(nodes) BY <1>0, <2>5, SeqDef
    <3> QED BY <1>0, <3>1, LenProperties
  <2> QED BY <1>0, <2>1, <2>2, <2>6 DEF EnumeratorInv
<1>9. ASSUME NEW x \in Values, NEW k \in 1..MaxSize, E!Overwrite(k, x) PROVE EnumeratorInv'
  <2>1. k \in DOMAIN vector /\ vector' = [vector EXCEPT ![k] = x]
        /\ UNCHANGED <<enumerator_, nodes, lazyMisused>>
        BY <1>9 DEF E!Overwrite
  <2>2. vector' \in Seq(Values) BY <1>0, <2>1, ExceptSeq, LenProperties
  <2> QED BY <1>0, <2>1, <2>2 DEF EnumeratorInv
<1>10. \/ \E e \in Enumerables : E!from(e) \/ E!RunsToEnd(e) \/ E!RunsToFirst(e) \/ E!destroy(e)
       \/ \E e, src \in Enumerables :
            \/ E!copy(e, src)
            \/ \E p \in Predicates : E!where(e, src, p)
            \/ \E f \in Transforms : E!select(e, src, f)
       \/ \E x \in Values : E!Grow(x) \/ \E k \in 1..MaxSize : E!Overwrite(k, x)
       BY Zenon DEF E!Next
<1> QED BY Zenon, <1>1, <1>2, <1>3, <1>4, <1>5, <1>6, <1>7, <1>8, <1>9, <1>10

LEMMA PipelinesAreEager ==
  ASSUME EnumeratorInv
  PROVE  LazyIsEager
<1>1. vector \in Seq(Values) BY DEF EnumeratorInv
<1>2. ASSUME NEW n \in NodeType
      PROVE  /\ E!to_vector(n).result = E!Eager(n.stages)
             /\ E!any(n) <=> E!Eager(n.stages) # <<>>
             /\ E!Eager(n.stages) \in Seq(Values)
  <2>1. n.stages \in Seq(Stage) BY <1>2 DEF NodeType
  <2>2. E!Eager(n.stages) = Lazy(n.stages, Len(n.stages))[Len(vector)] BY <1>1, <2>1, EagerIs
  <2>3. Len(n.stages) \in 0..Len(n.stages) /\ Len(vector) \in 0..Len(vector)
        BY <1>1, <2>1, LenProperties
  <2>4. Lazy(n.stages, Len(n.stages))[Len(vector)] \in Seq(Values)
        BY Zenon, <1>1, <2>1, <2>3, LazyIs DEF IsLazy
  <2> QED BY Zenon, <1>1, <1>2, <2>2, <2>4, ToVectorIs, AnyIs
<1>3. ASSUME NEW n \in NodeType, NEW p \in Predicates
      PROVE  /\ E!count_pred(n, p) = E!EagerCount(E!Eager(n.stages), p)
             /\ E!any_pred(n, p) <=> E!EagerAny(E!Eager(n.stages), p)
  <2> DEFINE w == [op |-> "where", predicate |-> p]
             m == E!Where(n, p)
             now == E!Eager(n.stages)
  <2>1. m \in NodeType BY NodeUpdates
  <2>2. w \in Stage /\ n.stages \in Seq(Stage) BY DEF Stage, NodeType
  <2>3. m.stages = Append(n.stages, w) BY DEF NodeType, E!Where
  <2>4. EagerStage(w, now) = E!EagerWhere(now, p) BY DEF EagerStage
  <2> HIDE DEF w, m, now
  <2>5. E!Eager(Append(n.stages, w)) = EagerStage(w, now) BY Zenon, <1>1, <2>2, EagerAppend DEF now
  <2>6. E!Eager(m.stages) = E!EagerWhere(now, p) BY Zenon, <2>3, <2>4, <2>5
  <2>7. E!to_vector(m).result = E!EagerWhere(now, p) BY Zenon, <1>2, <2>1, <2>6
  <2>8. E!any(m) <=> E!EagerWhere(now, p) # <<>> BY Zenon, <1>2, <2>1, <2>6
  <2>9. E!EagerWhere(now, p) # <<>> <=> E!EagerAny(now, p) BY Zenon, <1>2, EagerAnyIs DEF now
  <2> QED BY Zenon, <2>7, <2>8, <2>9
          DEF m, now, E!count_pred, E!count, E!EagerCount, E!any_pred
<1>4. \A e \in Enumerables : E!Exists(e) => E!Node(e) \in NodeType BY NodeIs
<1> SUFFICES ASSUME NEW e \in Enumerables, E!Exists(e)
             PROVE  LET n == E!Node(e) now == E!Eager(n.stages) IN
                    /\ E!to_vector(n).result = now
                    /\ E!any(n) = (now # <<>>)
                    /\ \A p \in Predicates :
                         /\ E!count_pred(n, p) = E!EagerCount(now, p)
                         /\ E!any_pred(n, p) = E!EagerAny(now, p)
    BY Zenon DEF LazyIsEager, E!LazyIsEager
<1>5. E!Node(e) \in NodeType BY <1>4
<1> DEFINE n == E!Node(e)
<1> HIDE DEF n
<1>6. n \in NodeType BY <1>5 DEF n
<1>7. E!any(n) \in BOOLEAN /\ \A p : E!any_pred(n, p) \in BOOLEAN /\ \A c : E!EagerAny(c, p) \in BOOLEAN
      BY Zenon DEF E!any, E!any_pred, E!EagerAny
<1> QED BY Zenon, <1>2, <1>3, <1>6, <1>7 DEF n

-----------------------------------------------------------------------------
(* ImString.  Its operators walk trees of buffers: recursive functions
   that call themselves on what a measure makes smaller. *)
LEMMA MeasureInduct ==
  ASSUME NEW D, NEW mu \in [D -> Nat], NEW T,
         \A x \in D : (\A y \in D : mu[y] < mu[x] => y \in T) => x \in T
  PROVE  D \subseteq T
<1> DEFINE Below == {n \in Nat : \A x \in D : mu[x] < n => x \in T}
<1>1. 0 \in Below OBVIOUS
<1>2. \A n \in Nat : n \in Below => n + 1 \in Below
  <2> SUFFICES ASSUME NEW n \in Nat, n \in Below, NEW x \in D, mu[x] < n + 1
               PROVE  x \in T
      OBVIOUS
  <2>1. \A y \in D : mu[y] < mu[x] => mu[y] < n OBVIOUS
  <2> QED BY <2>1
<1>3. Nat \subseteq Below
  <2> HIDE DEF Below
  <2> QED BY <1>1, <1>2, Induct
<1> SUFFICES ASSUME NEW x \in D PROVE x \in T
    OBVIOUS
<1>4. mu[x] + 1 \in Below BY <1>3
<1> QED BY <1>4

\* The functions whose value at x is in V[x].
Within(D, V) == {F \in [D -> UNION {V[x] : x \in D}] : \A x \in D : F[x] \in V[x]}

\* h[F][x] is what the definition gives for x when the recursive calls give what F does.
LEMMA MeasureRecursion ==
  ASSUME NEW D, NEW mu \in [D -> Nat], NEW V, NEW h, Within(D, V) # {},
         \A F \in Within(D, V) : \A x \in D : h[F][x] \in V[x],
         \A F, G \in Within(D, V) : \A x \in D :
           (\A y \in D : mu[y] < mu[x] => F[y] = G[y]) => h[F][x] = h[G][x]
  PROVE  \E F \in Within(D, V) : \A x \in D : F[x] = h[F][x]
<1> DEFINE Good(n, F) == \A x \in D : mu[x] < n => F[x] = h[F][x]
<1>1. ASSUME NEW F \in Within(D, V), NEW G \in Within(D, V), NEW n \in Nat, Good(n, F), Good(n, G)
      PROVE  \A x \in D : mu[x] < n => F[x] = G[x]
  <2> DEFINE T == {x \in D : mu[x] < n => F[x] = G[x]}
  <2>1. \A x \in D : (\A y \in D : mu[y] < mu[x] => y \in T) => x \in T
    <3> SUFFICES ASSUME NEW x \in D, \A y \in D : mu[y] < mu[x] => y \in T, mu[x] < n
                 PROVE  F[x] = G[x]
        OBVIOUS
    <3>1. \A y \in D : mu[y] < mu[x] => F[y] = G[y] OBVIOUS
    <3>2. h[F][x] = h[G][x] BY Zenon, <3>1
    <3>3. F[x] = h[F][x] /\ G[x] = h[G][x] BY <1>1
    <3> QED BY <3>2, <3>3
  <2>2. D \subseteq T
    <3> HIDE DEF T
    <3> QED BY <2>1, MeasureInduct
  <2> QED BY <2>2
<1> DEFINE T == {n \in Nat : \E F \in Within(D, V) : Good(n, F)}
<1>2. 0 \in T OBVIOUS
<1>3. ASSUME NEW n \in Nat, n \in T PROVE n + 1 \in T
  <2>1. PICK F \in Within(D, V) : Good(n, F) BY <1>3
  <2> DEFINE G == [x \in D |-> h[F][x]]
  <2>2. \A x \in D : G[x] = h[F][x] /\ h[F][x] \in V[x] BY Zenon
  <2>3. G \in Within(D, V) BY <2>2 DEF Within
  <2> HIDE DEF G
  <2>4. \A x \in D : mu[x] < n => G[x] = F[x] BY <2>1, <2>2
  <2>5. Good(n + 1, G)
    <3> SUFFICES ASSUME NEW x \in D, mu[x] < n + 1 PROVE G[x] = h[G][x]
        OBVIOUS
    <3>1. \A y \in D : mu[y] < mu[x] => F[y] = G[y] BY <2>4
    <3>2. h[F][x] = h[G][x] BY Zenon, <2>3, <3>1
    <3> QED BY <2>2, <3>2
  <2>6. \E H \in Within(D, V) : Good(n + 1, H) BY Zenon, <2>3, <2>5
  <2>7. n + 1 \in Nat OBVIOUS
  <2> QED BY Zenon, <2>6, <2>7
<1>4. \A n \in Nat : n \in T
  <2> HIDE DEF T
  <2> QED BY <1>2, <1>3, Induct
<1> DEFINE Best(n) == CHOOSE F \in Within(D, V) : Good(n, F)
           G == [x \in D |-> Best(mu[x] + 1)[x]]
<1>5. \A n \in Nat : Best(n) \in Within(D, V) /\ Good(n, Best(n))
  <2> HIDE DEF Good
  <2> QED BY Zenon, <1>4
<1>6. \A x \in D : mu[x] + 1 \in Nat OBVIOUS
<1>7. \A x \in D : G[x] = Best(mu[x] + 1)[x] OBVIOUS
<1>a. G = [x \in D |-> G[x]] OBVIOUS
<1> HIDE DEF G, Best, Good, T
<1>8. \A x \in D : G[x] \in V[x]
  <2> TAKE x \in D
  <2>1. Best(mu[x] + 1) \in Within(D, V) BY <1>5, <1>6
  <2>2. Best(mu[x] + 1)[x] \in V[x] BY <2>1 DEF Within
  <2> QED BY <1>7, <2>2
<1>9. G \in Within(D, V) BY <1>a, <1>8 DEF Within
<1> USE DEF Good
<1>10. ASSUME NEW x \in D PROVE G[x] = h[G][x]
  <2> DEFINE F == Best(mu[x] + 1)
  <2>1. F \in Within(D, V) /\ Good(mu[x] + 1, F) BY <1>5, <1>6
  <2>2. ASSUME NEW y \in D, mu[y] < mu[x] PROVE F[y] = G[y]
    <3>1. Best(mu[y] + 1) \in Within(D, V) /\ Good(mu[y] + 1, Best(mu[y] + 1)) BY <1>5, <1>6
    <3>2. Good(mu[y] + 1, F)
      <4>1. \A z \in D : mu[z] < mu[y] + 1 => mu[z] < mu[x] + 1 BY <2>2
      <4> QED BY Zenon, <2>1, <4>1
    <3>3. mu[y] + 1 \in Nat /\ mu[y] < mu[y] + 1 OBVIOUS
    <3> HIDE DEF Good, F
    <3>4. F[y] = Best(mu[y] + 1)[y] BY Zenon, <1>1, <2>1, <3>1, <3>2, <3>3
    <3> QED BY <1>7, <3>4
  <2> HIDE DEF F
  <2>3. h[F][x] = h[G][x] BY Zenon, <1>9, <2>1, <2>2
  <2>4. F[x] = h[F][x] BY <2>1
  <2> QED BY <1>7, <2>3, <2>4 DEF F
<1> QED BY <1>9, <1>10

-----------------------------------------------------------------------------
(* The trees: a buffer has a rank above the ranks of its parts.            *)

Parts(h, b) == {h[b].left_, h[b].right_}

Ranked(h, rk) ==
  rk \in [I!Bufs -> Nat] /\ \A b \in I!Bufs : \A c \in Parts(h, b) \ {I!None} : rk[c] < rk[b]

LEMMA HeapFields ==
  ASSUME NEW h \in I!Heaps, NEW b \in I!Bufs
  PROVE  /\ h[b].is_lazy_ \in BOOLEAN /\ h[b].cstr_ \in I!Texts
         /\ h[b].left_ \in I!Bufs \cup {I!None} /\ h[b].right_ \in I!Bufs \cup {I!None}
         /\ h[b].is_lazy_ => h[b].left_ \in I!Bufs /\ h[b].right_ \in I!Bufs
<1>1. h[b] \in I!Lazy \cup I!Plain BY DEF I!Heaps
<1>2. <<>> \in I!Texts BY DEF I!Texts
<1>3. CASE h[b] \in I!Lazy BY <1>2, <1>3 DEF I!Lazy
<1>4. CASE h[b] \in I!Plain BY <1>4 DEF I!Plain
<1> QED BY <1>1, <1>3, <1>4

LEMMA BufsAreNumbers == I!Bufs \subseteq Nat \ {I!None} /\ I!None \notin I!Bufs
BY ImmutablesAssumption DEF I!Bufs, I!None

LEMMA TreeTextIs ==
  ASSUME NEW h \in I!Heaps, NEW rk, Ranked(h, rk)
  PROVE  \A b \in I!Bufs :
           /\ I!Text(h, b) \in I!Texts
           /\ I!Text(h, b) = IF h[b].is_lazy_ THEN I!Text(h, h[b].left_) \o I!Text(h, h[b].right_)
                             ELSE h[b].cstr_
<1> DEFINE Body(F, c) == IF h[c].is_lazy_ THEN F[h[c].left_] \o F[h[c].right_] ELSE h[c].cstr_
           Is(f) == f = [c \in I!Bufs |-> Body(f, c)]
           V == [c \in I!Bufs |-> I!Texts]
           W == Within(I!Bufs, V)
           H == [F \in W |-> [c \in I!Bufs |-> Body(F, c)]]
           d == CHOOSE f : Is(f)
<1>1. \A b \in I!Bufs : I!Text(h, b) = d[b] BY DEF I!Text
<1>2. \A F \in W, c \in I!Bufs : F[c] \in I!Texts BY DEF Within
<1>3. \A F \in W, c \in I!Bufs : H[F][c] = Body(F, c) OBVIOUS
<1>4. \A s, t \in I!Texts : s \o t \in I!Texts BY DEF I!Texts
<1>5. \A F \in W, c \in I!Bufs : H[F][c] \in V[c]
  <2> TAKE F \in W, c \in I!Bufs
  <2> HIDE DEF W, H
  <2>1. CASE h[c].is_lazy_
    <3>1. F[h[c].left_] \in I!Texts /\ F[h[c].right_] \in I!Texts BY <1>2, <2>1, HeapFields
    <3> QED BY <1>3, <1>4, <2>1, <3>1
  <2>2. CASE ~h[c].is_lazy_
    <3>1. h[c].cstr_ \in I!Texts BY HeapFields
    <3> QED BY <1>3, <2>2, <3>1
  <2> QED BY <2>1, <2>2
<1>6. \A c \in I!Bufs : h[c].is_lazy_ =>
         /\ h[c].left_ \in I!Bufs /\ rk[h[c].left_] < rk[c]
         /\ h[c].right_ \in I!Bufs /\ rk[h[c].right_] < rk[c]
      BY HeapFields, BufsAreNumbers DEF Ranked, Parts
<1>7. \A F, G \in W : \A c \in I!Bufs :
        (\A b \in I!Bufs : rk[b] < rk[c] => F[b] = G[b]) => H[F][c] = H[G][c]
  <2> SUFFICES ASSUME NEW F \in W, NEW G \in W, NEW c \in I!Bufs,
                      \A b \in I!Bufs : rk[b] < rk[c] => F[b] = G[b]
               PROVE  Body(F, c) = Body(G, c)
      BY <1>3
  <2> QED BY <1>6
<1>8. W # {}
  <2>1. <<>> \in I!Texts BY DEF I!Texts
  <2>2. [c \in I!Bufs |-> <<>>] \in W BY <2>1 DEF Within
  <2> QED BY <2>2
<1>9. rk \in [I!Bufs -> Nat] BY DEF Ranked
<1>10. PICK F \in W : \A c \in I!Bufs : F[c] = H[F][c]
  <2> HIDE DEF H, V
  <2> QED BY <1>5, <1>7, <1>8, <1>9, MeasureRecursion
<1>11. Is(F)
  <2>1. F = [c \in I!Bufs |-> F[c]] BY DEF Within
  <2>2. \A c \in I!Bufs : F[c] = Body(F, c) BY Zenon, <1>3, <1>10
  <2> HIDE DEF Body, W
  <2> QED BY Zenon, <2>1, <2>2
<1>12. Is(d)
  <2> HIDE DEF Is
  <2> QED BY Zenon, <1>11
<1> HIDE DEF d
<1>13. \A c \in I!Bufs : d[c] = Body(d, c) BY Zenon, <1>12
<1>14. \A c \in I!Bufs : d[c] = F[c]
  <2> DEFINE T == {c \in I!Bufs : d[c] = F[c]}
  <2>1. \A c \in I!Bufs : (\A b \in I!Bufs : rk[b] < rk[c] => b \in T) => c \in T
    <3> SUFFICES ASSUME NEW c \in I!Bufs, \A b \in I!Bufs : rk[b] < rk[c] => b \in T
                 PROVE  d[c] = F[c]
        OBVIOUS
    <3>1. F[c] = Body(F, c) BY Zenon, <1>3, <1>10
    <3>2. d[c] = Body(d, c) BY <1>13
    <3> QED BY <1>6, <3>1, <3>2
  <2>2. I!Bufs \subseteq T
    <3> HIDE DEF T
    <3> QED BY <1>9, <2>1, MeasureInduct
  <2> QED BY <2>2
<1> HIDE DEF W, H
<1> SUFFICES ASSUME NEW b \in I!Bufs
             PROVE  I!Text(h, b) \in I!Texts
                    /\ I!Text(h, b) = IF h[b].is_lazy_
                                      THEN I!Text(h, h[b].left_) \o I!Text(h, h[b].right_) ELSE h[b].cstr_
    OBVIOUS
<1>15. I!Text(h, b) \in I!Texts BY <1>1, <1>2, <1>14
<1>16. I!Text(h, b) = Body(d, b) BY <1>1, <1>13
<1> QED BY <1>1, <1>6, <1>15, <1>16

LEMMA TextOfLazy ==
  ASSUME NEW h \in I!Heaps, NEW rk, Ranked(h, rk), NEW b \in I!Bufs, h[b].is_lazy_
  PROVE  I!Text(h, b) = I!Text(h, h[b].left_) \o I!Text(h, h[b].right_)
BY TreeTextIs, Zenon

LEMMA TextOfPlain ==
  ASSUME NEW h \in I!Heaps, NEW rk, Ranked(h, rk), NEW b \in I!Bufs, ~h[b].is_lazy_
  PROVE  I!Text(h, b) = h[b].cstr_
BY TreeTextIs, Zenon

LEMMA OwnedIs ==
  ASSUME NEW h \in I!Heaps, NEW rk, Ranked(h, rk)
  PROVE  /\ I!Owned(h, I!None) = {}
         /\ \A b \in I!Bufs :
              I!Owned(h, b) = {b} \cup I!Owned(h, h[b].left_) \cup I!Owned(h, h[b].right_)
         /\ \A b \in I!Bufs \cup {I!None} : I!Owned(h, b) \subseteq I!Bufs
<1> DEFINE D == I!Bufs \cup {I!None}
           Body(F, c) == IF c = I!None THEN {} ELSE {c} \cup F[h[c].left_] \cup F[h[c].right_]
           Is(f) == f = [c \in D |-> Body(f, c)]
           V == [c \in D |-> SUBSET I!Bufs]
           W == Within(D, V)
           H == [F \in W |-> [c \in D |-> Body(F, c)]]
           mu == [c \in D |-> IF c = I!None THEN 0 ELSE rk[c] + 1]
           d == CHOOSE f : Is(f)
<1>1. \A b \in D : I!Owned(h, b) = d[b] BY DEF I!Owned
<1>2. \A F \in W, c \in D : F[c] \subseteq I!Bufs BY DEF Within
<1>3. \A F \in W, c \in D : H[F][c] = Body(F, c) OBVIOUS
<1>4. rk \in [I!Bufs -> Nat] BY DEF Ranked
<1>5. mu \in [D -> Nat] BY <1>4
<1>6. \A c \in I!Bufs :
        /\ h[c].left_ \in D /\ mu[h[c].left_] < mu[c]
        /\ h[c].right_ \in D /\ mu[h[c].right_] < mu[c]
  <2> TAKE c \in I!Bufs
  <2>1. c # I!None /\ rk[c] \in Nat /\ mu[c] = rk[c] + 1 BY <1>4, BufsAreNumbers
  <2>2. ASSUME NEW p \in D, p \in Parts(h, c) PROVE mu[p] < mu[c]
    <3>1. CASE p = I!None BY <2>1, <3>1
    <3>2. CASE p # I!None
      <4>1. rk[p] < rk[c] /\ p \in I!Bufs /\ mu[p] = rk[p] + 1 BY <2>2, <3>2 DEF Ranked
      <4> QED BY <1>4, <2>1, <4>1
    <3> QED BY <3>1, <3>2
  <2>3. h[c].left_ \in D /\ h[c].right_ \in D BY HeapFields
  <2> HIDE DEF mu
  <2> QED BY <2>2, <2>3 DEF Parts
<1> HIDE DEF mu
<1>7. \A F \in W, c \in D : H[F][c] \in V[c]
  <2> TAKE F \in W, c \in D
  <2> HIDE DEF W, H
  <2>1. CASE c # I!None
    <3>1. F[h[c].left_] \subseteq I!Bufs /\ F[h[c].right_] \subseteq I!Bufs /\ c \in I!Bufs
          BY <1>2, <1>6, <2>1
    <3>2. Body(F, c) \subseteq I!Bufs BY <2>1, <3>1
    <3>3. H[F][c] = Body(F, c) BY <1>3
    <3> HIDE DEF Body
    <3> QED BY <3>2, <3>3
  <2>2. CASE c = I!None BY <1>3, <2>2
  <2> QED BY <2>1, <2>2
<1>8. \A F, G \in W : \A c \in D :
        (\A b \in D : mu[b] < mu[c] => F[b] = G[b]) => H[F][c] = H[G][c]
  <2> SUFFICES ASSUME NEW F \in W, NEW G \in W, NEW c \in D,
                      \A b \in D : mu[b] < mu[c] => F[b] = G[b]
               PROVE  H[F][c] = H[G][c]
      BY Zenon
  <2> HIDE DEF W, H, V
  <2>0. H[F][c] = Body(F, c) /\ H[G][c] = Body(G, c) BY Zenon, <1>3
  <2>1. CASE c = I!None BY <2>0, <2>1
  <2>2. CASE c # I!None
    <3>1. F[h[c].left_] = G[h[c].left_] /\ F[h[c].right_] = G[h[c].right_] BY <1>6, <2>2
    <3> QED BY <2>0, <3>1
  <2> QED BY <2>1, <2>2
<1>9. W # {}
  <2>1. [c \in D |-> {}] \in W BY DEF Within
  <2> QED BY <2>1
<1>10. PICK F \in W : \A c \in D : F[c] = H[F][c]
  <2> HIDE DEF H, V, D
  <2> QED BY <1>5, <1>7, <1>8, <1>9, MeasureRecursion
<1>11. Is(F)
  <2>1. F = [c \in D |-> F[c]] BY DEF Within
  <2>2. \A c \in D : F[c] = Body(F, c) BY Zenon, <1>3, <1>10
  <2> HIDE DEF Body, W, D
  <2> QED BY Zenon, <2>1, <2>2
<1>12. Is(d)
  <2> HIDE DEF Is
  <2> QED BY Zenon, <1>11
<1> HIDE DEF d
<1>13. \A c \in D : d[c] = Body(d, c) BY Zenon, <1>12
<1>14. \A c \in D : d[c] = F[c]
  <2> DEFINE T == {c \in D : d[c] = F[c]}
  <2>1. \A c \in D : (\A b \in D : mu[b] < mu[c] => b \in T) => c \in T
    <3> SUFFICES ASSUME NEW c \in D, \A b \in D : mu[b] < mu[c] => b \in T
                 PROVE  d[c] = F[c]
        OBVIOUS
    <3>1. F[c] = Body(F, c) BY Zenon, <1>3, <1>10
    <3>2. d[c] = Body(d, c) BY <1>13
    <3> HIDE DEF W, H, V
    <3>3. CASE c = I!None BY <3>1, <3>2, <3>3
    <3>4. CASE c # I!None
      <4>1. F[h[c].left_] = d[h[c].left_] /\ F[h[c].right_] = d[h[c].right_] BY <1>6, <3>4
      <4> QED BY <3>1, <3>2, <4>1
    <3> QED BY <3>3, <3>4
  <2>2. D \subseteq T
    <3> HIDE DEF T, D
    <3> QED BY <1>5, <2>1, MeasureInduct
  <2> QED BY <2>2
<1>15. \A b \in D : I!Owned(h, b) \subseteq I!Bufs
  <2>1. \A b \in D : I!Owned(h, b) = F[b] BY <1>1, <1>14
  <2>2. \A b \in D : F[b] \subseteq I!Bufs BY <1>2
  <2> QED BY <2>1, <2>2, Zenon
<1>16. \A b \in D : I!Owned(h, b) = Body(d, b) BY <1>1, <1>13
<1> HIDE DEF W, H, V
<1>17. I!Owned(h, I!None) = {} BY <1>16
<1>18. \A b \in I!Bufs :
         I!Owned(h, b) = {b} \cup I!Owned(h, h[b].left_) \cup I!Owned(h, h[b].right_)
       BY <1>1, <1>6, <1>16, BufsAreNumbers
<1> QED BY <1>15, <1>17, <1>18

\* There are such ranks, above the sum of the parts' even, which bounds the steps of a walk.
Weighted(h, rk) ==
  \A b \in I!Bufs : h[b].is_lazy_ => rk[h[b].left_] + rk[h[b].right_] + 5 <= rk[b]

LEMMA HeapIsWeighted ==
  ASSUME NEW h \in I!Heaps
  PROVE  \E rk : Ranked(h, rk) /\ Weighted(h, rk)
<1> DEFINE Closed(A) == \A b \in A : Parts(h, b) \subseteq A \cup {I!None}
           RanksIn(A, rk) == /\ rk \in [I!Bufs -> Nat]
                             /\ \A b \in A : \A c \in Parts(h, b) \ {I!None} : rk[c] < rk[b]
                             /\ \A b \in A : h[b].is_lazy_ =>
                                  rk[h[b].left_] + rk[h[b].right_] + 5 <= rk[b]
           T == {n \in Nat : \E A \in SUBSET I!Bufs :
                   /\ Closed(A) /\ \E rk : RanksIn(A, rk)
                   /\ IsFiniteSet(A) /\ (Cardinality(A) >= n \/ A = I!Bufs)}
<1>1. IsFiniteSet(I!Bufs) /\ Cardinality(I!Bufs) = MaxTrees /\ MaxTrees \in Nat
  <2>1. MaxTrees \in Nat BY ImmutablesAssumption
  <2> QED BY <2>1, FS_Interval DEF I!Bufs
<1>2. 0 \in T
  <2>1. Closed({}) /\ IsFiniteSet({}) /\ Cardinality({}) = 0 /\ {} \in SUBSET I!Bufs BY FS_EmptySet
  <2>2. RanksIn({}, [b \in I!Bufs |-> 0]) OBVIOUS
  <2>3. \E rk : RanksIn({}, rk) BY <2>2
  <2>4. Cardinality({}) >= 0 /\ 0 \in Nat BY <2>1
  <2> HIDE DEF Closed, RanksIn
  <2> QED BY <2>1, <2>3, <2>4, Zenon
<1>3. ASSUME NEW n \in Nat, n \in T PROVE n + 1 \in T
  <2>1. PICK A \in SUBSET I!Bufs : /\ Closed(A) /\ \E rk : RanksIn(A, rk)
                                   /\ IsFiniteSet(A) /\ (Cardinality(A) >= n \/ A = I!Bufs)
        BY <1>3
  <2>2. CASE A = I!Bufs
    <3>1. A = I!Bufs /\ n + 1 \in Nat BY <2>2
    <3> HIDE DEF Closed, RanksIn
    <3> QED BY Zenon, <2>1, <3>1
  <2>3. CASE A # I!Bufs
    <3> DEFINE B == I!Bufs \ A
    <3>1. B \subseteq I!Bufs /\ B # {} BY <2>3
    <3>2. PICK b \in B : h[b].left_ \notin B /\ h[b].right_ \notin B BY <3>1 DEF I!Heaps
    <3>3. Parts(h, b) \subseteq A \cup {I!None} BY <3>2, HeapFields DEF Parts
    <3>4. PICK rk : RanksIn(A, rk) BY <2>1
    <3> DEFINE lr == IF h[b].left_ = I!None THEN 0 ELSE rk[h[b].left_]
               rr == IF h[b].right_ = I!None THEN 0 ELSE rk[h[b].right_]
               rk2 == [rk EXCEPT ![b] = lr + rr + 5]
    <3>5. b \in I!Bufs /\ b \notin A OBVIOUS
    <3>6. lr \in Nat /\ rr \in Nat
      <4>1. \A c \in Parts(h, b) \ {I!None} : rk[c] \in Nat BY <3>3, <3>4
      <4> QED BY <4>1 DEF Parts
    <3>7. rk2 \in [I!Bufs -> Nat] BY <3>4, <3>6
    <3>8. rk2[b] = lr + rr + 5 /\ \A c \in I!Bufs : c # b => rk2[c] = rk[c] BY <3>4, <3>5
    <3>9. \A c \in Parts(h, b) \ {I!None} : rk[c] <= lr + rr /\ rk[c] \in Nat /\ c # b /\ c \in I!Bufs
          BY <3>3, <3>4, <3>5, <3>6 DEF Parts
    <3> HIDE DEF rk2
    <3>10. \A c \in Parts(h, b) \ {I!None} : rk2[c] < rk2[b]
      <4> HIDE DEF lr, rr
      <4> QED BY <3>6, <3>8, <3>9
    <3>11. \A a \in A : \A c \in Parts(h, a) \ {I!None} : c \in A BY <2>1
    <3>12. \A a \in A : \A c \in Parts(h, a) \ {I!None} : rk2[c] < rk2[a]
      <4> TAKE a \in A
      <4> TAKE c \in Parts(h, a) \ {I!None}
      <4>1. c \in A BY <3>11
      <4>2. c # b /\ a # b /\ a \in I!Bufs /\ c \in I!Bufs BY <3>5, <4>1
      <4>3. rk[c] < rk[a] BY <3>4
      <4> QED BY <3>8, <4>2, <4>3
    <3>a. ASSUME NEW a \in A, h[a].is_lazy_
          PROVE  rk2[h[a].left_] + rk2[h[a].right_] + 5 <= rk2[a]
      <4>1. \A c \in Parts(h, a) : c \in A /\ c # b /\ c \in I!Bufs /\ rk2[c] = rk[c]
        <5> TAKE c \in Parts(h, a)
        <5>1. c # I!None BY <3>a, HeapFields, BufsAreNumbers DEF Parts
        <5>2. c \in A BY <3>11, <5>1
        <5>3. c \in I!Bufs /\ c # b BY <3>5, <5>2
        <5> QED BY <3>8, <5>2, <5>3
      <4>2. rk[h[a].left_] + rk[h[a].right_] + 5 <= rk[a] BY Zenon, <3>4, <3>a
      <4>3. rk2[a] = rk[a] BY <3>5, <3>8
      <4> QED BY <4>1, <4>2, <4>3 DEF Parts
    <3>b. h[b].is_lazy_ => rk2[h[b].left_] + rk2[h[b].right_] + 5 <= rk2[b]
      <4> SUFFICES ASSUME h[b].is_lazy_ PROVE rk2[h[b].left_] + rk2[h[b].right_] + 5 <= rk2[b]
          OBVIOUS
      <4>1. \A c \in Parts(h, b) : c # I!None /\ c # b /\ c \in I!Bufs /\ rk2[c] = rk[c]
        <5> TAKE c \in Parts(h, b)
        <5>1. c # I!None BY HeapFields, BufsAreNumbers DEF Parts
        <5> QED BY <3>8, <3>9, <5>1
      <4>2. rk2[h[b].left_] = lr /\ rk2[h[b].right_] = rr BY <4>1 DEF Parts
      <4> HIDE DEF lr, rr
      <4> QED BY <3>6, <3>8, <4>2
    <3>c. \A a \in A \cup {b} : \A c \in Parts(h, a) \ {I!None} : rk2[c] < rk2[a]
          BY <3>10, <3>12
    <3>d. \A a \in A \cup {b} : h[a].is_lazy_ =>
            rk2[h[a].left_] + rk2[h[a].right_] + 5 <= rk2[a]
          BY <3>a, <3>b
    <3>13. RanksIn(A \cup {b}, rk2) BY <3>7, <3>c, <3>d
    <3>14. Closed(A \cup {b})
      <4> SUFFICES ASSUME NEW a \in A \cup {b} PROVE Parts(h, a) \subseteq (A \cup {b}) \cup {I!None}
          OBVIOUS
      <4>1. CASE a = b BY <3>3, <4>1
      <4>2. CASE a \in A BY <2>1, <4>2
      <4> QED BY <4>1, <4>2
    <3>15. IsFiniteSet(A \cup {b}) /\ Cardinality(A \cup {b}) = Cardinality(A) + 1
           BY <2>1, <3>5, FS_AddElement
    <3>16. Cardinality(A) \in Nat BY <2>1, FS_CardinalityType
    <3>17. Cardinality(A \cup {b}) >= n + 1 /\ n + 1 \in Nat BY <2>1, <2>3, <3>15, <3>16
    <3>18. A \cup {b} \in SUBSET I!Bufs BY <3>5
    <3> HIDE DEF Closed, RanksIn
    <3> QED BY Zenon, <3>13, <3>14, <3>15, <3>17, <3>18
  <2> QED BY <2>2, <2>3
<1>4. MaxTrees + 1 \in T
  <2>1. \A n \in Nat : n \in T
    <3> HIDE DEF T
    <3> QED BY <1>2, <1>3, Induct
  <2> HIDE DEF T
  <2> QED BY <1>1, <2>1
<1>5. PICK A \in SUBSET I!Bufs : /\ \E rk : RanksIn(A, rk)
                                 /\ IsFiniteSet(A) /\ (Cardinality(A) >= MaxTrees + 1 \/ A = I!Bufs)
  <2> HIDE DEF Closed, RanksIn
  <2> QED BY <1>4
<1>6. Cardinality(A) <= MaxTrees /\ Cardinality(A) \in Nat BY <1>1, <1>5, FS_Subset, FS_CardinalityType
<1>7. A = I!Bufs BY <1>1, <1>5, <1>6
<1>8. PICK rk : RanksIn(I!Bufs, rk)
  <2> HIDE DEF RanksIn
  <2> QED BY <1>5, <1>7
<1>9. Ranked(h, rk) BY <1>8 DEF Ranked
<1>10. Weighted(h, rk) BY Zenon, <1>8 DEF Weighted
<1> QED BY <1>9, <1>10

LEMMA HeapIsRanked ==
  ASSUME NEW h \in I!Heaps
  PROVE  \E rk : Ranked(h, rk)
BY HeapIsWeighted

LEMMA RankedIsHeap ==
  ASSUME NEW h \in [I!Bufs -> I!Lazy \cup I!Plain], NEW rk, Ranked(h, rk)
  PROVE  h \in I!Heaps
<1> SUFFICES ASSUME NEW B \in SUBSET I!Bufs, B # {}
             PROVE  \E b \in B : h[b].left_ \notin B /\ h[b].right_ \notin B
    BY DEF I!Heaps
<1>1. rk \in [I!Bufs -> Nat] BY DEF Ranked
<1> DEFINE Rs == {rk[b] : b \in B}
<1>2. Rs \subseteq Nat /\ Rs # {} BY <1>1
<1>3. PICK n \in Rs : \A m \in Rs : n <= m
  <2> HIDE DEF Rs
  <2> QED BY <1>2, Smallest
<1>4. PICK b \in B : rk[b] = n BY <1>3
<1>5. \A c \in B : rk[b] <= rk[c] BY <1>3, <1>4
<1>6. \A c \in Parts(h, b) : c \notin B
  <2> SUFFICES ASSUME NEW c \in Parts(h, b), c \in B PROVE FALSE
      OBVIOUS
  <2>1. c # I!None BY BufsAreNumbers
  <2>2. rk[c] < rk[b] BY <2>1 DEF Ranked
  <2> QED BY <1>1, <1>5, <2>2
<1> QED BY <1>6 DEF Parts

LEMMA OwnedCloses ==
  ASSUME NEW h \in I!Heaps
  PROVE  \A b \in I!Bufs :
           b \in I!Owned(h, b) /\ \A c \in I!Owned(h, b) : Parts(h, c) \subseteq I!Owned(h, b) \cup {I!None}
<1>1. PICK rk : Ranked(h, rk) BY HeapIsRanked
<1>2. /\ I!Owned(h, I!None) = {}
      /\ \A b \in I!Bufs :
           I!Owned(h, b) = {b} \cup I!Owned(h, h[b].left_) \cup I!Owned(h, h[b].right_)
      BY <1>1, OwnedIs, Zenon
<1> DEFINE T == {b \in I!Bufs : \A c \in I!Owned(h, b) :
                                  Parts(h, c) \subseteq I!Owned(h, b) \cup {I!None}}
<1>3. \A b \in I!Bufs : (\A c \in I!Bufs : rk[c] < rk[b] => c \in T) => b \in T
  <2> SUFFICES ASSUME NEW b \in I!Bufs, \A c \in I!Bufs : rk[c] < rk[b] => c \in T,
                      NEW c \in I!Owned(h, b)
               PROVE  Parts(h, c) \subseteq I!Owned(h, b) \cup {I!None}
      OBVIOUS
  <2>1. \A p \in Parts(h, b) : p # I!None => p \in I!Bufs /\ p \in T /\ p \in I!Owned(h, p)
    <3> TAKE p \in Parts(h, b)
    <3>1. p \in I!Bufs \cup {I!None} BY HeapFields DEF Parts
    <3>2. p # I!None => rk[p] < rk[b] BY <1>1 DEF Ranked
    <3> QED BY <1>2, <3>1, <3>2
  <2>2. \A p \in Parts(h, b) : I!Owned(h, p) \subseteq I!Owned(h, b) BY <1>2 DEF Parts
  <2>3. CASE c = b BY <2>1, <2>2, <2>3
  <2>4. CASE c # b
    <3>1. PICK p \in Parts(h, b) : c \in I!Owned(h, p) BY <1>2, <2>4 DEF Parts
    <3>2. p # I!None BY <1>2, <3>1
    <3> QED BY <2>1, <2>2, <3>1, <3>2
  <2> QED BY <2>3, <2>4
<1>4. rk \in [I!Bufs -> Nat] BY <1>1 DEF Ranked
<1>5. I!Bufs \subseteq T
  <2> HIDE DEF T
  <2> QED BY <1>3, <1>4, MeasureInduct
<1> QED BY <1>2, <1>5

LEMMA LiveCloses ==
  ASSUME NEW h \in I!Heaps, NEW strs \in [Immutables -> I!Bufs \cup {I!None}]
  PROVE  /\ I!Live(h, strs) \subseteq I!Bufs
         /\ \A s \in Immutables : strs[s] # I!None => strs[s] \in I!Live(h, strs)
         /\ \A b \in I!Live(h, strs) : Parts(h, b) \subseteq I!Live(h, strs) \cup {I!None}
<1>1. PICK rk : Ranked(h, rk) BY HeapIsRanked
<1>2. /\ I!Owned(h, I!None) = {}
      /\ \A b \in I!Bufs \cup {I!None} : I!Owned(h, b) \subseteq I!Bufs
      BY <1>1, OwnedIs, Zenon
<1>3. \A s \in Immutables : I!Owned(h, strs[s]) \subseteq I!Live(h, strs) BY DEF I!Live
<1>4. \A b \in I!Live(h, strs) : \E s \in Immutables : b \in I!Owned(h, strs[s]) BY DEF I!Live
<1>5. \A s \in Immutables : \A b \in I!Owned(h, strs[s]) : strs[s] \in I!Bufs BY <1>2
<1>6. I!Live(h, strs) \subseteq I!Bufs BY <1>2, <1>4
<1>7. \A s \in Immutables : strs[s] # I!None => strs[s] \in I!Live(h, strs) BY <1>3, OwnedCloses
<1>8. \A b \in I!Live(h, strs) : Parts(h, b) \subseteq I!Live(h, strs) \cup {I!None}
  <2> TAKE b \in I!Live(h, strs)
  <2>1. PICK s \in Immutables : b \in I!Owned(h, strs[s]) BY <1>4
  <2>2. strs[s] \in I!Bufs BY <1>5, <2>1
  <2>3. Parts(h, b) \subseteq I!Owned(h, strs[s]) \cup {I!None} BY <2>1, <2>2, OwnedCloses
  <2> QED BY <1>3, <2>3
<1> QED BY <1>6, <1>7, <1>8

\* In a set that has the parts of its members, flattening changes no text.
LEMMA TextAgrees ==
  ASSUME NEW h \in I!Heaps, NEW g \in I!Heaps, NEW K \in SUBSET I!Bufs,
         \A b \in K : h[b].is_lazy_ => Parts(h, b) \subseteq K,
         \A b \in K : g[b] = h[b] \/ (~g[b].is_lazy_ /\ g[b].cstr_ = I!Text(h, b))
  PROVE  \A b \in K : I!Text(g, b) = I!Text(h, b)
<1>1. PICK rk : Ranked(h, rk) BY HeapIsRanked
<1>2. PICK rg : Ranked(g, rg) BY HeapIsRanked
<1> DEFINE T == {b \in I!Bufs : b \in K => I!Text(g, b) = I!Text(h, b)}
<1>3. rk \in [I!Bufs -> Nat] BY <1>1 DEF Ranked
<1>4. \A b \in I!Bufs : (\A c \in I!Bufs : rk[c] < rk[b] => c \in T) => b \in T
  <2> SUFFICES ASSUME NEW b \in I!Bufs, \A c \in I!Bufs : rk[c] < rk[b] => c \in T, b \in K
               PROVE  I!Text(g, b) = I!Text(h, b)
      OBVIOUS
  <2>1. CASE ~g[b].is_lazy_
    <3>1. I!Text(g, b) = g[b].cstr_ BY <1>2, <2>1, TextOfPlain, Zenon
    <3>2. CASE g[b] = h[b]
      <4>1. ~h[b].is_lazy_ BY <2>1, <3>2
      <4>2. I!Text(h, b) = h[b].cstr_ BY <1>1, <4>1, TextOfPlain, Zenon
      <4> QED BY <3>1, <3>2, <4>2
    <3>3. CASE g[b].cstr_ = I!Text(h, b) BY <3>1, <3>3
    <3> QED BY <3>2, <3>3
  <2>2. CASE g[b].is_lazy_
    <3>1. g[b] = h[b] /\ h[b].is_lazy_ BY <2>2
    <3>2. \A c \in Parts(h, b) : c \in K /\ c # I!None /\ rk[c] < rk[b] /\ I!Text(g, c) = I!Text(h, c)
          BY <1>1, <3>1, BufsAreNumbers DEF Ranked
    <3>3. I!Text(g, b) = I!Text(g, h[b].left_) \o I!Text(g, h[b].right_)
          BY <1>2, <2>2, <3>1, TextOfLazy
    <3>4. I!Text(h, b) = I!Text(h, h[b].left_) \o I!Text(h, h[b].right_)
          BY <1>1, <3>1, TextOfLazy, Zenon
    <3> QED BY <3>2, <3>3, <3>4 DEF Parts
  <2> QED BY <2>1, <2>2
<1>5. I!Bufs \subseteq T
  <2> HIDE DEF T
  <2> QED BY <1>3, <1>4, MeasureInduct
<1> QED BY <1>5

-----------------------------------------------------------------------------
(* What c_str() does to the buffers.                                       *)

PlainBuf(t) == [is_lazy_ |-> FALSE, cstr_ |-> t, left_ |-> I!None, right_ |-> I!None]
Marked(g, c, t) == [g EXCEPT ![c].is_lazy_ = FALSE, ![c].cstr_ = t]
Cut(g, c, t) == [Marked(g, c, t) EXCEPT ![c].left_ = I!None, ![c].right_ = I!None]

LEMMA MarkedIs ==
  ASSUME NEW g \in I!Heaps, NEW c \in I!Bufs, NEW t \in I!Texts
  PROVE  /\ Marked(g, c, t)[c] = [is_lazy_ |-> FALSE, cstr_ |-> t,
                                  left_ |-> g[c].left_, right_ |-> g[c].right_]
         /\ \A d \in I!Bufs \ {c} : Marked(g, c, t)[d] = g[d]
         /\ \A d \in I!Bufs : Parts(Marked(g, c, t), d) = Parts(g, d)
         /\ Marked(g, c, t) \in I!Heaps
         /\ \A rk : Ranked(g, rk) => Ranked(Marked(g, c, t), rk)
<1> DEFINE e == Marked(g, c, t)
<1>1. g \in [I!Bufs -> I!Lazy \cup I!Plain] BY DEF I!Heaps
<1>2. \E l, r : g[c] = [is_lazy_ |-> g[c].is_lazy_, cstr_ |-> g[c].cstr_, left_ |-> l, right_ |-> r]
      BY <1>1 DEF I!Lazy, I!Plain
<1>3. e[c] = [is_lazy_ |-> FALSE, cstr_ |-> t, left_ |-> g[c].left_, right_ |-> g[c].right_]
      BY <1>1, <1>2 DEF Marked
<1>4. \A d \in I!Bufs \ {c} : e[d] = g[d] BY <1>1 DEF Marked
<1>5. e = [d \in I!Bufs |-> e[d]] BY <1>1 DEF Marked
<1> HIDE DEF e
<1>6. e[c] \in I!Plain BY <1>3, HeapFields DEF I!Plain
<1>7. \A d \in I!Bufs : e[d] \in I!Lazy \cup I!Plain BY <1>1, <1>4, <1>6
<1>8. e \in [I!Bufs -> I!Lazy \cup I!Plain] BY <1>5, <1>7
<1>9. \A d \in I!Bufs : Parts(e, d) = Parts(g, d) BY <1>3, <1>4 DEF Parts
<1>10. \A rk : Ranked(g, rk) => Ranked(e, rk) BY <1>9, Zenon DEF Ranked
<1>11. e \in I!Heaps BY <1>8, <1>10, HeapIsRanked, RankedIsHeap
<1> QED BY <1>3, <1>4, <1>9, <1>10, <1>11 DEF e

LEMMA CutIs ==
  ASSUME NEW g \in I!Heaps, NEW c \in I!Bufs, NEW t \in I!Texts
  PROVE  /\ Cut(g, c, t)[c] = PlainBuf(t)
         /\ \A d \in I!Bufs \ {c} : Cut(g, c, t)[d] = g[d]
         /\ Cut(g, c, t) \in I!Heaps
<1> DEFINE e == Cut(g, c, t) m == Marked(g, c, t)
<1>1. /\ m[c] = [is_lazy_ |-> FALSE, cstr_ |-> t, left_ |-> g[c].left_, right_ |-> g[c].right_]
      /\ m \in I!Heaps /\ \A d \in I!Bufs \ {c} : m[d] = g[d]
      BY MarkedIs
<1>2. e = [m EXCEPT ![c].left_ = I!None, ![c].right_ = I!None] BY DEF Cut
<1> HIDE DEF e, m
<1>3. m \in [I!Bufs -> I!Lazy \cup I!Plain] BY <1>1 DEF I!Heaps
<1>4. e[c] = PlainBuf(t)
  <2>1. \E l, r : m[c] = [is_lazy_ |-> m[c].is_lazy_, cstr_ |-> m[c].cstr_, left_ |-> l, right_ |-> r]
        BY <1>1
  <2>2. e[c] = [is_lazy_ |-> m[c].is_lazy_, cstr_ |-> m[c].cstr_, left_ |-> I!None, right_ |-> I!None]
        BY <1>2, <1>3, <2>1
  <2>3. m[c].is_lazy_ = FALSE /\ m[c].cstr_ = t BY <1>1
  <2> QED BY <2>2, <2>3, Zenon DEF PlainBuf
<1>5. \A d \in I!Bufs \ {c} : e[d] = m[d] BY <1>2, <1>3
<1>6. e = [d \in I!Bufs |-> e[d]] BY <1>2, <1>3
<1>7. e[c] \in I!Plain BY <1>4 DEF PlainBuf, I!Plain
<1>8. \A d \in I!Bufs : e[d] \in I!Lazy \cup I!Plain BY <1>3, <1>5, <1>7
<1>9. e \in [I!Bufs -> I!Lazy \cup I!Plain] BY <1>6, <1>8
<1>10. PICK rk : Ranked(m, rk) BY <1>1, HeapIsRanked
<1>11. Parts(e, c) = {I!None} BY <1>4 DEF Parts, PlainBuf
<1>12. \A d \in I!Bufs \ {c} : Parts(e, d) = Parts(m, d) BY <1>5 DEF Parts
<1>13. Ranked(e, rk) BY <1>10, <1>11, <1>12 DEF Ranked
<1>14. e \in I!Heaps BY <1>9, <1>13, RankedIsHeap
<1> QED BY <1>1, <1>4, <1>5, <1>14 DEF e

Results(m) == {r \in [h : I!Heaps, n : 0..MaxTrees, ok : BOOLEAN] : r.n <= m}
Flattenings(m) == [I!Heaps -> [I!Bufs -> Results(m)]]

\* flatten for c when its recursive calls give what F does.
Lhs(F, m, g, c) == F[m - 1][Marked(g, c, I!Garbage(I!Text(g, c)))][g[c].left_]
Rhs(F, g, c, lhs) ==
  F[lhs.n][Marked(lhs.h, c, lhs.h[g[c].left_].cstr_ \o I!Garbage(I!Text(g, g[c].right_)))][g[c].right_]
Both(g, c, rhs) ==
  [h |-> Cut(rhs.h, c, rhs.h[g[c].left_].cstr_ \o rhs.h[g[c].right_].cstr_), n |-> rhs.n, ok |-> TRUE]

Flatten(F, m, g, c) ==
  IF ~g[c].is_lazy_ THEN [h |-> g, n |-> m, ok |-> TRUE]
  ELSE IF m = 0 THEN [h |-> g, n |-> 0, ok |-> FALSE]
  ELSE IF ~Lhs(F, m, g, c).ok THEN Lhs(F, m, g, c)
  ELSE IF ~Rhs(F, g, c, Lhs(F, m, g, c)).ok THEN Rhs(F, g, c, Lhs(F, m, g, c))
  ELSE Both(g, c, Rhs(F, g, c, Lhs(F, m, g, c)))

Typed(F) == \A m \in 0..MaxTrees : F[m] \in Flattenings(m)

LEMMA TextTypes ==
  ASSUME NEW g \in I!Heaps, NEW c \in I!Bufs
  PROVE  I!Text(g, c) \in I!Texts /\ I!Garbage(I!Text(g, c)) \in I!Texts
<1>1. PICK rk : Ranked(g, rk) BY HeapIsRanked
<1>2. I!Text(g, c) \in I!Texts BY <1>1, TreeTextIs, Zenon
<1> DEFINE t == I!Text(g, c)
<1> HIDE DEF t
<1>3. ASSUME t \in I!Texts PROVE I!Garbage(t) \in I!Texts BY <1>3 DEF I!Garbage, I!Texts
<1> QED BY <1>2, <1>3 DEF t

LEMMA LhsType ==
  ASSUME NEW F, Typed(F), NEW m \in 0..MaxTrees, m # 0, NEW g \in I!Heaps, NEW c \in I!Bufs,
         g[c].is_lazy_
  PROVE  /\ m - 1 \in 0..MaxTrees /\ Marked(g, c, I!Garbage(I!Text(g, c))) \in I!Heaps
         /\ g[c].left_ \in I!Bufs /\ g[c].right_ \in I!Bufs
         /\ Lhs(F, m, g, c) \in Results(m - 1)
<1>1. m - 1 \in 0..MaxTrees BY ImmutablesAssumption
<1>2. Marked(g, c, I!Garbage(I!Text(g, c))) \in I!Heaps BY TextTypes, MarkedIs
<1>3. g[c].left_ \in I!Bufs /\ g[c].right_ \in I!Bufs BY HeapFields
<1>4. F[m - 1] \in Flattenings(m - 1) BY <1>1 DEF Typed
<1>5. Lhs(F, m, g, c) \in Results(m - 1) BY <1>2, <1>3, <1>4 DEF Flattenings, Lhs
<1> QED BY <1>1, <1>2, <1>3, <1>5

LEMMA RhsType ==
  ASSUME NEW F, Typed(F), NEW m \in 0..MaxTrees, m # 0, NEW g \in I!Heaps, NEW c \in I!Bufs,
         g[c].is_lazy_, NEW lhs \in Results(m - 1)
  PROVE  /\ lhs.n \in 0..MaxTrees /\ lhs.n < m
         /\ lhs.h[g[c].left_].cstr_ \o I!Garbage(I!Text(g, g[c].right_)) \in I!Texts
         /\ Rhs(F, g, c, lhs) \in Results(lhs.n)
<1>1. lhs.h \in I!Heaps /\ lhs.n \in 0..MaxTrees /\ lhs.n < m BY ImmutablesAssumption DEF Results
<1>2. g[c].left_ \in I!Bufs /\ g[c].right_ \in I!Bufs BY HeapFields
<1>3. lhs.h[g[c].left_].cstr_ \in I!Texts BY <1>1, <1>2, HeapFields
<1>4. I!Garbage(I!Text(g, g[c].right_)) \in I!Texts BY <1>2, TextTypes
<1>5. lhs.h[g[c].left_].cstr_ \o I!Garbage(I!Text(g, g[c].right_)) \in I!Texts
      BY <1>3, <1>4 DEF I!Texts
<1>6. Marked(lhs.h, c, lhs.h[g[c].left_].cstr_ \o I!Garbage(I!Text(g, g[c].right_))) \in I!Heaps
      BY <1>1, <1>5, MarkedIs
<1>7. F[lhs.n] \in Flattenings(lhs.n) BY <1>1 DEF Typed
<1>8. Rhs(F, g, c, lhs) \in Results(lhs.n) BY <1>2, <1>6, <1>7 DEF Flattenings, Rhs
<1> QED BY <1>1, <1>5, <1>8

LEMMA BothType ==
  ASSUME NEW m \in 0..MaxTrees, NEW g \in I!Heaps, NEW c \in I!Bufs, g[c].is_lazy_,
         NEW rhs \in Results(m)
  PROVE  /\ rhs.h[g[c].left_].cstr_ \o rhs.h[g[c].right_].cstr_ \in I!Texts
         /\ Both(g, c, rhs) \in Results(m)
<1>1. rhs.h \in I!Heaps /\ rhs.n \in 0..MaxTrees /\ rhs.n <= m BY DEF Results
<1>2. g[c].left_ \in I!Bufs /\ g[c].right_ \in I!Bufs BY HeapFields
<1>3. rhs.h[g[c].left_].cstr_ \in I!Texts /\ rhs.h[g[c].right_].cstr_ \in I!Texts
      BY <1>1, <1>2, HeapFields
<1>4. rhs.h[g[c].left_].cstr_ \o rhs.h[g[c].right_].cstr_ \in I!Texts BY <1>3 DEF I!Texts
<1>5. Cut(rhs.h, c, rhs.h[g[c].left_].cstr_ \o rhs.h[g[c].right_].cstr_) \in I!Heaps
      BY <1>1, <1>4, CutIs
<1>6. Both(g, c, rhs) \in Results(m) BY <1>1, <1>5 DEF Results, Both
<1> QED BY <1>4, <1>6

LEMMA ResultsGrow ==
  ASSUME NEW k \in Int, NEW m \in Int, k <= m, NEW r \in Results(k)
  PROVE  r \in Results(m)
BY DEF Results

LEMMA FlattenType ==
  ASSUME NEW F, Typed(F), NEW m \in 0..MaxTrees, NEW g \in I!Heaps, NEW c \in I!Bufs
  PROVE  Flatten(F, m, g, c) \in Results(m)
<1>0. m \in Int /\ 0 \in 0..MaxTrees /\ 0 <= m BY ImmutablesAssumption
<1>1. CASE ~g[c].is_lazy_ BY <1>0, <1>1 DEF Flatten, Results
<1>2. CASE g[c].is_lazy_ /\ m = 0 BY <1>0, <1>2 DEF Flatten, Results
<1>3. CASE g[c].is_lazy_ /\ m # 0
  <2> DEFINE lhs == Lhs(F, m, g, c) rhs == Rhs(F, g, c, lhs)
  <2>1. lhs \in Results(m - 1) BY <1>3, LhsType
  <2>2. rhs \in Results(lhs.n) /\ lhs.n \in 0..MaxTrees /\ lhs.n < m
    <3> HIDE DEF lhs
    <3> QED BY <1>3, <2>1, RhsType
  <2>3. Flatten(F, m, g, c) = IF ~lhs.ok THEN lhs ELSE IF ~rhs.ok THEN rhs ELSE Both(g, c, rhs)
        BY <1>3 DEF Flatten
  <2> HIDE DEF lhs, rhs
  <2>4. lhs \in Results(m) /\ rhs \in Results(m)
    <3>1. lhs.n \in Int /\ lhs.n <= m /\ m - 1 \in Int /\ m - 1 <= m BY <2>2
    <3> QED BY <1>0, <2>1, <2>2, <3>1, ResultsGrow
  <2>5. Both(g, c, rhs) \in Results(m) BY <1>3, <2>4, BothType
  <2> QED BY <2>3, <2>4, <2>5
<1> QED BY <1>1, <1>2, <1>3

LEMMA FlattenLocal ==
  ASSUME NEW F, Typed(F), NEW G, NEW m \in 0..MaxTrees, NEW g \in I!Heaps, NEW c \in I!Bufs,
         \A k \in 0..MaxTrees : k < m => F[k] = G[k]
  PROVE  Flatten(F, m, g, c) = Flatten(G, m, g, c)
<1>1. CASE ~g[c].is_lazy_ \/ m = 0 BY <1>1 DEF Flatten
<1>2. CASE g[c].is_lazy_ /\ m # 0
  <2> DEFINE lhs == Lhs(F, m, g, c)
  <2>1. lhs \in Results(m - 1) /\ m - 1 \in 0..MaxTrees BY <1>2, LhsType
  <2>2. F[m - 1] = G[m - 1] BY <2>1
  <2>3. Lhs(G, m, g, c) = lhs BY <2>2 DEF Lhs
  <2> HIDE DEF lhs
  <2>4. lhs.n \in 0..MaxTrees /\ lhs.n < m BY <1>2, <2>1, RhsType
  <2>5. F[lhs.n] = G[lhs.n] BY <2>4
  <2>6. Rhs(G, g, c, lhs) = Rhs(F, g, c, lhs) BY <2>5 DEF Rhs
  <2> QED BY <1>2, <2>3, <2>6 DEF Flatten, lhs
<1> QED BY <1>1, <1>2

LEMMA UnlazyIs ==
  \E F : /\ Typed(F)
         /\ \A m \in 0..MaxTrees, g \in I!Heaps, c \in I!Bufs :
              F[m][g][c] = Flatten(F, m, g, c) /\ I!unlazy(g, c, m) = F[m][g][c]
<1> DEFINE D == 0..MaxTrees
           Row(F, m) == [g \in I!Heaps |-> [c \in I!Bufs |-> Flatten(F, m, g, c)]]
           Is(f) == f = [m \in D |-> Row(f, m)]
           V == [m \in D |-> Flattenings(m)]
           W == Within(D, V)
           H == [F \in W |-> [m \in D |-> Row(F, m)]]
           mu == [m \in D |-> m]
           d == CHOOSE f : Is(f)
<1>1. \A m \in D, g \in I!Heaps, c \in I!Bufs : I!unlazy(g, c, m) = d[m][g][c]
      BY DEF I!unlazy, Flatten, Lhs, Rhs, Both, Marked, Cut
<1> HIDE DEF d
<1>2. \A F \in W : Typed(F) BY DEF Within, Typed
<1>3. \A F \in W, m \in D : H[F][m] = Row(F, m) OBVIOUS
<1>4. mu \in [D -> Nat] /\ \A m \in D : mu[m] = m OBVIOUS
<1> HIDE DEF W, H, mu
<1>5. \A F \in W, m \in D : H[F][m] \in V[m]
  <2> TAKE F \in W, m \in D
  <2>1. \A g \in I!Heaps, c \in I!Bufs : Flatten(F, m, g, c) \in Results(m) BY <1>2, FlattenType
  <2>2. Row(F, m) \in Flattenings(m) BY <2>1 DEF Flattenings
  <2>3. H[F][m] = Row(F, m) BY <1>3
  <2> HIDE DEF Row
  <2> QED BY <2>2, <2>3
<1>6. ASSUME NEW F, Typed(F), NEW G, NEW m \in D, \A k \in D : k < m => F[k] = G[k]
      PROVE  Row(F, m) = Row(G, m)
  <2>1. \A g \in I!Heaps, c \in I!Bufs : Flatten(F, m, g, c) = Flatten(G, m, g, c)
        BY <1>6, FlattenLocal
  <2> QED BY <2>1
<1>7. \A F, G \in W : \A m \in D :
        (\A k \in D : mu[k] < mu[m] => F[k] = G[k]) => H[F][m] = H[G][m]
  <2> SUFFICES ASSUME NEW F \in W, NEW G \in W, NEW m \in D,
                      \A k \in D : mu[k] < mu[m] => F[k] = G[k]
               PROVE  H[F][m] = H[G][m]
      BY Zenon
  <2>1. \A k \in D : k < m => F[k] = G[k] BY <1>4
  <2>2. Row(F, m) = Row(G, m)
    <3> HIDE DEF Row
    <3> QED BY <1>2, <1>6, <2>1
  <2>3. H[F][m] = Row(F, m) /\ H[G][m] = Row(G, m) BY Zenon, <1>3
  <2> HIDE DEF Row
  <2> QED BY <2>2, <2>3
<1>8. W # {}
  <2> DEFINE r(g) == [h |-> g, n |-> 0, ok |-> FALSE]
             F == [m \in D |-> [g \in I!Heaps |-> [c \in I!Bufs |-> r(g)]]]
  <2>1. \A m \in D, g \in I!Heaps : r(g) \in Results(m) BY ImmutablesAssumption DEF Results
  <2> HIDE DEF r
  <2>2. \A m \in D : [g \in I!Heaps |-> [c \in I!Bufs |-> r(g)]] \in Flattenings(m)
        BY <2>1 DEF Flattenings
  <2>3. F \in W
    <3> DEFINE f == [g \in I!Heaps |-> [c \in I!Bufs |-> r(g)]]
    <3>1. \A m \in D : f \in V[m] BY <2>2
    <3> HIDE DEF f, V
    <3>2. F = [m \in D |-> f] BY DEF f
    <3> HIDE DEF F
    <3> QED BY <3>1, <3>2 DEF W, Within
  <2> QED BY <2>3
<1>9. PICK F \in W : \A m \in D : F[m] = H[F][m]
  <2> HIDE DEF V, D
  <2> QED BY <1>4, <1>5, <1>7, <1>8, MeasureRecursion DEF W
<1>10. \A m \in D : F[m] = Row(F, m) BY Zenon, <1>3, <1>9
<1>11. Is(F)
  <2>1. F = [m \in D |-> F[m]] BY DEF W, Within
  <2> HIDE DEF Row, D
  <2> QED BY Zenon, <1>10, <2>1
<1>12. Is(d)
  <2> HIDE DEF Is
  <2> QED BY Zenon, <1>11 DEF d
<1>13. \A m \in D : d[m] = Row(d, m)
  <2> HIDE DEF Row, D
  <2> QED BY Zenon, <1>12
<1>14. \A m \in D : d[m] = F[m]
  <2> DEFINE T == {m \in D : d[m] = F[m]}
  <2>1. \A m \in D : (\A k \in D : mu[k] < mu[m] => k \in T) => m \in T
    <3> SUFFICES ASSUME NEW m \in D, \A k \in D : mu[k] < mu[m] => k \in T
                 PROVE  d[m] = F[m]
        OBVIOUS
    <3>1. \A k \in D : k < m => F[k] = d[k] BY <1>4
    <3> HIDE DEF Row, T, D
    <3>2. Row(F, m) = Row(d, m) BY Zenon, <1>2, <1>6, <3>1
    <3> QED BY Zenon, <1>10, <1>13, <3>2
  <2>2. D \subseteq T
    <3> HIDE DEF T, D
    <3> QED BY <1>4, <2>1, MeasureInduct
  <2> QED BY <2>2
<1>15. \A m \in D, g \in I!Heaps, c \in I!Bufs : F[m][g][c] = Flatten(F, m, g, c)
  <2> TAKE m \in D, g \in I!Heaps, c \in I!Bufs
  <2>1. F[m] = Row(F, m) BY <1>10
  <2> QED BY <2>1
<1>16. \A m \in D, g \in I!Heaps, c \in I!Bufs : I!unlazy(g, c, m) = F[m][g][c] BY <1>1, <1>14
<1>17. Typed(F) BY <1>2
<1> QED BY <1>15, <1>16, <1>17

(* A flattening that no allocation fails leaves a buffer as it is, or
   makes it say in one piece what its parts said. *)
Cuts(g, e, d) == g[d].is_lazy_ /\ e[d] = PlainBuf(I!Text(g, d))

Flattens(u, g, c, rk) ==
  u.ok =>
    /\ \A d \in I!Bufs : u.h[d] = g[d] \/ (rk[d] <= rk[c] /\ Cuts(g, u.h, d))
    /\ ~u.h[c].is_lazy_ /\ u.h[c].cstr_ = I!Text(g, c)

LEMMA PlainBufIs ==
  \A t : /\ ~PlainBuf(t).is_lazy_ /\ PlainBuf(t).cstr_ = t
         /\ PlainBuf(t).left_ = I!None /\ PlainBuf(t).right_ = I!None
BY DEF PlainBuf

\* Above the ranks of what changed, nothing changed.
LEMMA TextBelow ==
  ASSUME NEW g \in I!Heaps, NEW e \in I!Heaps, NEW rk, Ranked(g, rk), NEW n \in Nat,
         \A d \in I!Bufs : rk[d] < n => e[d] = g[d] \/ Cuts(g, e, d)
  PROVE  \A d \in I!Bufs : rk[d] < n => I!Text(e, d) = I!Text(g, d)
<1> DEFINE K == {d \in I!Bufs : rk[d] < n}
<1>1. rk \in [I!Bufs -> Nat] BY DEF Ranked
<1>2. \A d \in K : g[d].is_lazy_ => Parts(g, d) \subseteq K
  <2> SUFFICES ASSUME NEW d \in K, g[d].is_lazy_, NEW c \in Parts(g, d) PROVE c \in K
      OBVIOUS
  <2>1. c \in I!Bufs /\ c # I!None BY HeapFields, BufsAreNumbers DEF Parts
  <2>2. rk[c] < rk[d] BY <2>1 DEF Ranked
  <2> QED BY <1>1, <2>1, <2>2
<1>3. \A d \in K : e[d] = g[d] \/ (~e[d].is_lazy_ /\ e[d].cstr_ = I!Text(g, d))
  <2> TAKE d \in K
  <2>1. CASE e[d] = g[d] BY <2>1
  <2>2. CASE Cuts(g, e, d) BY <2>2, PlainBufIs DEF Cuts
  <2> QED BY <2>1, <2>2
<1>4. K \subseteq I!Bufs OBVIOUS
<1>5. \A d \in K : I!Text(e, d) = I!Text(g, d)
  <2> HIDE DEF K
  <2> QED BY <1>2, <1>3, <1>4, TextAgrees
<1> QED BY <1>5

LEMMA CutsRanked ==
  ASSUME NEW g, NEW e, NEW rk, Ranked(g, rk),
         \A d \in I!Bufs : Parts(e, d) = Parts(g, d) \/ Cuts(g, e, d)
  PROVE  Ranked(e, rk)
<1>1. \A d \in I!Bufs : Parts(e, d) = Parts(g, d) \/ Parts(e, d) = {I!None}
      BY PlainBufIs DEF Cuts, Parts
<1> QED BY <1>1 DEF Ranked

LEMMA FlattenFlattens ==
  ASSUME NEW F, Typed(F), NEW m \in 0..MaxTrees,
         \A k \in 0..MaxTrees : k < m =>
           \A g \in I!Heaps, c \in I!Bufs : \A rk : Ranked(g, rk) => Flattens(F[k][g][c], g, c, rk),
         NEW g \in I!Heaps, NEW c \in I!Bufs, NEW rk, Ranked(g, rk)
  PROVE  Flattens(Flatten(F, m, g, c), g, c, rk)
<1>0. rk \in [I!Bufs -> Nat] BY DEF Ranked
<1>1. CASE ~g[c].is_lazy_
  <2>1. Flatten(F, m, g, c) = [h |-> g, n |-> m, ok |-> TRUE] BY <1>1 DEF Flatten
  <2>2. I!Text(g, c) = g[c].cstr_ BY <1>1, TextOfPlain
  <2> QED BY <1>1, <2>1, <2>2 DEF Flattens
<1>2. CASE g[c].is_lazy_ /\ m = 0
  <2>1. Flatten(F, m, g, c) = [h |-> g, n |-> 0, ok |-> FALSE] BY <1>2 DEF Flatten
  <2> QED BY <2>1 DEF Flattens
<1>3. CASE g[c].is_lazy_ /\ m # 0
  <2> DEFINE l == g[c].left_ r == g[c].right_
             t1 == I!Garbage(I!Text(g, c)) g1 == Marked(g, c, t1)
             lhs == Lhs(F, m, g, c)
             t2 == lhs.h[l].cstr_ \o I!Garbage(I!Text(g, r)) g2 == Marked(lhs.h, c, t2)
             rhs == Rhs(F, g, c, lhs)
             t3 == rhs.h[l].cstr_ \o rhs.h[r].cstr_
  <2>1. /\ m - 1 \in 0..MaxTrees /\ m - 1 < m /\ l \in I!Bufs /\ r \in I!Bufs
        /\ lhs \in Results(m - 1) /\ lhs = F[m - 1][g1][l]
    <3>1. m - 1 < m OBVIOUS
    <3>2. lhs = F[m - 1][g1][l] BY DEF Lhs
    <3>3. m - 1 \in 0..MaxTrees /\ l \in I!Bufs /\ r \in I!Bufs /\ lhs \in Results(m - 1)
          BY <1>3, LhsType
    <3> QED BY <3>1, <3>2, <3>3
  <2>2. t1 \in I!Texts BY TextTypes
  <2> HIDE DEF lhs
  <2>3. /\ lhs.n \in 0..MaxTrees /\ lhs.n < m /\ t2 \in I!Texts
        /\ rhs \in Results(lhs.n) /\ rhs = F[lhs.n][g2][r]
    <3>1. rhs = F[lhs.n][g2][r] BY DEF Rhs
    <3>2. lhs.n \in 0..MaxTrees /\ lhs.n < m /\ t2 \in I!Texts /\ rhs \in Results(lhs.n)
          BY <1>3, <2>1, RhsType
    <3> QED BY <3>1, <3>2
  <2> HIDE DEF rhs
  <2>4. lhs.h \in I!Heaps /\ rhs.h \in I!Heaps BY <2>1, <2>3 DEF Results
  <2>5. t3 \in I!Texts
    <3>1. rhs.h[l].cstr_ \in I!Texts /\ rhs.h[r].cstr_ \in I!Texts BY <2>1, <2>4, HeapFields
    <3> QED BY <3>1 DEF I!Texts
  <2> SUFFICES ASSUME lhs.ok, rhs.ok PROVE Flattens(Both(g, c, rhs), g, c, rk)
      BY <1>3 DEF Flatten, Flattens, lhs, rhs
  <2>6. rk[l] < rk[c] /\ rk[r] < rk[c] /\ l # c /\ r # c
    <3>1. l # I!None /\ r # I!None BY <2>1, BufsAreNumbers
    <3>2. rk[l] < rk[c] /\ rk[r] < rk[c] BY <2>1, <3>1 DEF Ranked, Parts
    <3> QED BY <1>0, <2>1, <3>2
  <2> HIDE DEF t1, t2, t3
  <2>7. /\ g1[c] = [is_lazy_ |-> FALSE, cstr_ |-> t1, left_ |-> l, right_ |-> r]
        /\ \A d \in I!Bufs \ {c} : g1[d] = g[d]
        /\ \A d \in I!Bufs : Parts(g1, d) = Parts(g, d)
        /\ g1 \in I!Heaps /\ Ranked(g1, rk)
        BY <2>2, MarkedIs
  <2> HIDE DEF g1
  <2>8. Flattens(lhs, g1, l, rk) BY <2>1, <2>7
  <2>9. \A d \in I!Bufs : rk[d] < rk[c] => I!Text(g1, d) = I!Text(g, d)
    <3>1. \A d \in I!Bufs : rk[d] < rk[c] => g1[d] = g[d] BY <1>0, <2>7
    <3>2. rk[c] \in Nat BY <1>0
    <3> QED BY <2>7, <3>1, <3>2, TextBelow
  <2>10. /\ \A d \in I!Bufs : lhs.h[d] = g1[d] \/ (rk[d] <= rk[l] /\ Cuts(g1, lhs.h, d))
         /\ ~lhs.h[l].is_lazy_ /\ lhs.h[l].cstr_ = I!Text(g1, l)
         BY <2>8 DEF Flattens
  <2>11. \A d \in I!Bufs \ {c} : lhs.h[d] = g[d] \/ (rk[d] < rk[c] /\ Cuts(g, lhs.h, d))
    <3> TAKE d \in I!Bufs \ {c}
    <3>1. CASE lhs.h[d] = g1[d] BY <2>7, <3>1
    <3>2. CASE rk[d] <= rk[l] /\ Cuts(g1, lhs.h, d)
      <4>1. rk[d] < rk[c] BY <1>0, <2>1, <2>6, <3>2
      <4>2. I!Text(g1, d) = I!Text(g, d) /\ g1[d] = g[d] BY <2>7, <2>9, <4>1
      <4> QED BY <3>2, <4>1, <4>2 DEF Cuts
    <3> QED BY <2>10, <3>1, <3>2
  <2>12. lhs.h[c] = g1[c] BY <2>7, <2>10 DEF Cuts
  <2>13. Ranked(lhs.h, rk)
    <3>1. \A d \in I!Bufs : Parts(lhs.h, d) = Parts(g1, d) \/ Cuts(g1, lhs.h, d)
          BY <2>10 DEF Parts
    <3> QED BY <2>7, <3>1, CutsRanked
  <2>14. /\ ~g2[c].is_lazy_ /\ \A d \in I!Bufs \ {c} : g2[d] = lhs.h[d]
         /\ g2 \in I!Heaps /\ Ranked(g2, rk)
    <3>1. /\ g2[c] = [is_lazy_ |-> FALSE, cstr_ |-> t2, left_ |-> lhs.h[c].left_,
                      right_ |-> lhs.h[c].right_]
          /\ \A d \in I!Bufs \ {c} : g2[d] = lhs.h[d]
          /\ g2 \in I!Heaps /\ Ranked(g2, rk)
          BY <2>3, <2>4, <2>13, MarkedIs
    <3> HIDE DEF g2
    <3> QED BY <3>1
  <2> HIDE DEF g2
  <2>15. Flattens(rhs, g2, r, rk) BY <2>1, <2>3, <2>14
  <2>16. \A d \in I!Bufs : rk[d] < rk[c] => I!Text(g2, d) = I!Text(g, d)
    <3>1. \A d \in I!Bufs : rk[d] < rk[c] => g2[d] = g[d] \/ Cuts(g, g2, d)
      <4> SUFFICES ASSUME NEW d \in I!Bufs, rk[d] < rk[c] PROVE g2[d] = g[d] \/ Cuts(g, g2, d)
          OBVIOUS
      <4>1. d # c BY <1>0
      <4>2. g2[d] = lhs.h[d] BY <2>14, <4>1
      <4>3. lhs.h[d] = g[d] \/ Cuts(g, lhs.h, d) BY <2>11, <4>1
      <4> QED BY <4>2, <4>3 DEF Cuts
    <3>2. rk[c] \in Nat BY <1>0
    <3> QED BY <2>14, <3>1, <3>2, TextBelow
  <2>17. /\ \A d \in I!Bufs : rhs.h[d] = g2[d] \/ (rk[d] <= rk[r] /\ Cuts(g2, rhs.h, d))
         /\ ~rhs.h[r].is_lazy_ /\ rhs.h[r].cstr_ = I!Text(g2, r)
         BY <2>15 DEF Flattens
  <2>18. \A d \in I!Bufs \ {c} : rhs.h[d] = g[d] \/ (rk[d] <= rk[c] /\ Cuts(g, rhs.h, d))
    <3> TAKE d \in I!Bufs \ {c}
    <3>0. rk[d] \in Nat /\ rk[c] \in Nat /\ rk[r] \in Nat BY <1>0, <2>1
    <3>1. g2[d] = lhs.h[d] BY <2>14
    <3>2. CASE rhs.h[d] = g2[d]
      <4>1. lhs.h[d] = g[d] \/ (rk[d] < rk[c] /\ Cuts(g, lhs.h, d)) BY <2>11
      <4> QED BY <3>0, <3>1, <3>2, <4>1 DEF Cuts
    <3>3. CASE rk[d] <= rk[r] /\ Cuts(g2, rhs.h, d)
      <4>1. rk[d] < rk[c] BY <2>6, <3>0, <3>3
      <4>2. I!Text(g2, d) = I!Text(g, d) BY <2>16, <4>1
      <4>3. lhs.h[d].is_lazy_ /\ rhs.h[d] = PlainBuf(I!Text(g, d)) BY <3>1, <3>3, <4>2 DEF Cuts
      <4>4. lhs.h[d] = g[d] BY <2>11, <4>3 DEF Cuts, PlainBuf
      <4>5. Cuts(g, rhs.h, d) BY <4>3, <4>4 DEF Cuts
      <4> QED BY <3>0, <4>1, <4>5
    <3> QED BY <2>17, <3>2, <3>3
  <2>19. rhs.h[l].cstr_ = I!Text(g, l)
    <3>1. g2[l] = lhs.h[l] BY <2>1, <2>6, <2>14
    <3>2. ~g2[l].is_lazy_ /\ g2[l].cstr_ = I!Text(g, l) BY <2>1, <2>6, <2>9, <2>10, <3>1
    <3>3. rhs.h[l] = g2[l] BY <2>1, <2>17, <3>2 DEF Cuts
    <3> QED BY <3>2, <3>3
  <2>20. rhs.h[r].cstr_ = I!Text(g, r) BY <2>1, <2>6, <2>16, <2>17
  <2>21. t3 = I!Text(g, c)
    <3>1. I!Text(g, c) = I!Text(g, l) \o I!Text(g, r) BY <1>3, TextOfLazy
    <3> QED BY <2>19, <2>20, <3>1 DEF t3
  <2> DEFINE h3 == Cut(rhs.h, c, t3)
  <2>22. h3[c] = PlainBuf(t3) /\ \A d \in I!Bufs \ {c} : h3[d] = rhs.h[d]
         BY <2>4, <2>5, CutIs
  <2>23. Both(g, c, rhs) = [h |-> h3, n |-> rhs.n, ok |-> TRUE] BY DEF Both, t3
  <2> HIDE DEF h3
  <2>24. ~h3[c].is_lazy_ /\ h3[c].cstr_ = I!Text(g, c) BY <2>21, <2>22 DEF PlainBuf
  <2>25. \A d \in I!Bufs : h3[d] = g[d] \/ (rk[d] <= rk[c] /\ Cuts(g, h3, d))
    <3> TAKE d \in I!Bufs
    <3>1. CASE d = c
      <4>1. Cuts(g, h3, c) BY <1>3, <2>21, <2>22 DEF Cuts
      <4>2. rk[c] <= rk[c] BY <1>0
      <4> QED BY <3>1, <4>1, <4>2
    <3>2. CASE d # c
      <4>1. h3[d] = rhs.h[d] /\ (rhs.h[d] = g[d] \/ (rk[d] <= rk[c] /\ Cuts(g, rhs.h, d)))
            BY <2>18, <2>22, <3>2
      <4> QED BY <4>1 DEF Cuts
    <3> QED BY <3>1, <3>2
  <2> QED BY <2>23, <2>24, <2>25 DEF Flattens
<1> QED BY <1>1, <1>2, <1>3

LEMMA UnlazyFlattens ==
  ASSUME NEW h \in I!Heaps, NEW b \in I!Bufs, NEW n \in 0..MaxTrees
  PROVE  /\ I!unlazy(h, b, n).h \in I!Heaps /\ I!unlazy(h, b, n).ok \in BOOLEAN
         /\ I!unlazy(h, b, n).ok =>
              \A d \in I!Bufs : I!unlazy(h, b, n).h[d] = h[d] \/ Cuts(h, I!unlazy(h, b, n).h, d)
<1>1. PICK F : /\ Typed(F)
               /\ \A m \in 0..MaxTrees, g \in I!Heaps, c \in I!Bufs :
                    F[m][g][c] = Flatten(F, m, g, c) /\ I!unlazy(g, c, m) = F[m][g][c]
      BY UnlazyIs
<1> DEFINE D == 0..MaxTrees
           mu == [m \in D |-> m]
           T == {m \in D : \A g \in I!Heaps, c \in I!Bufs : \A rk \in [I!Bufs -> Nat] :
                             Ranked(g, rk) => Flattens(F[m][g][c], g, c, rk)}
<1>2. \A m \in D : (\A k \in D : mu[k] < mu[m] => k \in T) => m \in T
  <2> SUFFICES ASSUME NEW m \in D, \A k \in D : mu[k] < mu[m] => k \in T,
                      NEW g \in I!Heaps, NEW c \in I!Bufs, NEW rk \in [I!Bufs -> Nat], Ranked(g, rk)
               PROVE  Flattens(F[m][g][c], g, c, rk)
      OBVIOUS
  <2>1. \A k \in D : k < m =>
          \A e \in I!Heaps, d \in I!Bufs : \A rn : Ranked(e, rn) => Flattens(F[k][e][d], e, d, rn)
    <3> SUFFICES ASSUME NEW k \in D, k < m, NEW e \in I!Heaps, NEW d \in I!Bufs, NEW rn, Ranked(e, rn)
                 PROVE  Flattens(F[k][e][d], e, d, rn)
        OBVIOUS
    <3>1. k \in T OBVIOUS
    <3>2. rn \in [I!Bufs -> Nat] BY DEF Ranked
    <3> QED BY <3>1, <3>2
  <2>2. Flattens(Flatten(F, m, g, c), g, c, rk)
    <3> HIDE DEF T
    <3> QED BY <1>1, <2>1, FlattenFlattens
  <2> QED BY <1>1, <2>2
<1>3. D \subseteq T
  <2>1. mu \in [D -> Nat] OBVIOUS
  <2> HIDE DEF T, D, mu
  <2> QED BY <1>2, <2>1, MeasureInduct
<1>4. PICK rk : Ranked(h, rk) BY HeapIsRanked
<1>5. Flattens(F[n][h][b], h, b, rk) BY <1>3, <1>4 DEF Ranked
<1>6. F[n][h][b] \in Results(n) /\ I!unlazy(h, b, n) = F[n][h][b]
      BY <1>1 DEF Typed, Flattenings
<1> QED BY <1>5, <1>6 DEF Flattens, Results

-----------------------------------------------------------------------------
(* The iterator: a stack of steps, the top one last.                       *)

LEMMA TopRest ==
  ASSUME NEW S, NEW st \in Seq(S), st # <<>>
  PROVE  /\ I!Top(st) \in S /\ I!Rest(st) \in Seq(S)
         /\ Len(I!Rest(st)) = Len(st) - 1 /\ Len(st) \in Nat \ {0}
<1>1. Len(st) \in Nat \ {0} BY EmptySeq
<1>2. Len(st) - 1 \in 0..Len(st) BY <1>1
<1>3. I!Rest(st) \in Seq(S) /\ Len(I!Rest(st)) = Len(st) - 1 BY <1>2, Prefix DEF I!Rest
<1>4. I!Top(st) \in S BY <1>1, ElementOfSeq DEF I!Top
<1> QED BY <1>1, <1>3, <1>4

LEMMA AppendTopRest ==
  ASSUME NEW S, NEW st \in Seq(S), NEW t \in S
  PROVE  /\ Append(st, t) \in Seq(S) /\ Append(st, t) # <<>>
         /\ I!Top(Append(st, t)) = t /\ I!Rest(Append(st, t)) = st
<1> DEFINE a == Append(st, t)
<1>1. /\ a \in Seq(S) /\ Len(a) = Len(st) + 1 /\ Len(st) \in Nat
      /\ \A i \in 1..Len(st) : a[i] = st[i]
      /\ a[Len(st) + 1] = t /\ a # <<>>
      BY AppendProperties
<1> HIDE DEF a
<1>2. I!Top(a) = t BY <1>1 DEF I!Top
<1>3. Len(a) - 1 = Len(st) /\ Len(st) \in 0..Len(a) BY <1>1
<1>4. /\ SubSeq(a, 1, Len(st)) \in Seq(S) /\ Len(SubSeq(a, 1, Len(st))) = Len(st)
      /\ \A i \in 1..Len(st) : SubSeq(a, 1, Len(st))[i] = a[i]
      BY <1>1, <1>3, Prefix
<1>5. SubSeq(a, 1, Len(st)) = st BY <1>1, <1>4, SeqEqual
<1>6. I!Rest(a) = st BY <1>3, <1>5 DEF I!Rest
<1> QED BY <1>1, <1>2, <1>6 DEF a

\* A function of a stack that goes from its top to its bottom.
Foldable(S, V, w, z, op) == w \in [S -> V] /\ z \in V /\ \A x, y \in V : op[x][y] \in V

LEMMA StackFold ==
  ASSUME NEW S, NEW V, NEW w, NEW z, NEW op, Foldable(S, V, w, z, op)
  PROVE  \E R \in [Seq(S) -> V] :
           R[<<>>] = z /\ \A st \in Seq(S) : st # <<>> => R[st] = op[w[I!Top(st)]][R[I!Rest(st)]]
<1> DEFINE D == Seq(S)
           Body(F, st) == IF st = <<>> THEN z ELSE op[w[I!Top(st)]][F[I!Rest(st)]]
           U == [st \in D |-> V]
           W == Within(D, U)
           H == [F \in W |-> [st \in D |-> Body(F, st)]]
           mu == [st \in D |-> Len(st)]
<1>0. w \in [S -> V] /\ z \in V /\ \A x, y \in V : op[x][y] \in V BY DEF Foldable
<1>1. mu \in [D -> Nat] /\ \A st \in D : mu[st] = Len(st) BY LenProperties
<1>2. \A F \in W, st \in D : F[st] \in V BY DEF Within
<1>3. \A F \in W, st \in D : H[F][st] = Body(F, st) OBVIOUS
<1>4. \A st \in D : U[st] = V OBVIOUS
<1>5. W # {}
  <2>1. [st \in D |-> z] \in W BY <1>0 DEF Within
  <2> QED BY <2>1
<1>6. \A F \in W : F \in [D -> V]
  <2> TAKE F \in W
  <2>1. F = [st \in D |-> F[st]] BY DEF Within
  <2>2. \A st \in D : F[st] \in V BY <1>2
  <2> HIDE DEF W, D
  <2> QED BY <2>1, <2>2
<1>b. W = Within(D, U) OBVIOUS
<1> HIDE DEF W, H, U, mu
<1>7. \A F \in W, st \in D : H[F][st] \in U[st]
  <2> TAKE F \in W, st \in D
  <2>0. H[F][st] = Body(F, st) /\ U[st] = V BY Zenon, <1>3, <1>4
  <2>1. CASE st = <<>>
    <3>1. Body(F, st) = z BY <2>1
    <3> QED BY <1>0, <2>0, <3>1
  <2>2. CASE st # <<>>
    <3>1. I!Top(st) \in S /\ I!Rest(st) \in D BY <2>2, TopRest
    <3>2. w[I!Top(st)] \in V /\ F[I!Rest(st)] \in V BY <1>0, <1>2, <3>1
    <3>3. op[w[I!Top(st)]][F[I!Rest(st)]] \in V BY <1>0, <3>2
    <3> QED BY <2>0, <2>2, <3>3
  <2> QED BY <2>1, <2>2
<1>8. \A F, G \in W : \A st \in D :
        (\A s \in D : mu[s] < mu[st] => F[s] = G[s]) => H[F][st] = H[G][st]
  <2> SUFFICES ASSUME NEW F \in W, NEW G \in W, NEW st \in D,
                      \A s \in D : mu[s] < mu[st] => F[s] = G[s]
               PROVE  H[F][st] = H[G][st]
      BY Zenon
  <2>0. H[F][st] = Body(F, st) /\ H[G][st] = Body(G, st) BY <1>3
  <2>1. CASE st = <<>> BY <2>0, <2>1
  <2>2. CASE st # <<>>
    <3>1. I!Rest(st) \in D /\ Len(I!Rest(st)) < Len(st)
      <4>1. Len(st) \in Nat /\ Len(I!Rest(st)) = Len(st) - 1 /\ I!Rest(st) \in D BY <2>2, TopRest
      <4> QED BY <4>1
    <3>2. F[I!Rest(st)] = G[I!Rest(st)] BY <1>1, <3>1
    <3> QED BY <2>0, <3>2
  <2> QED BY <2>1, <2>2
<1>9. PICK F \in W : \A st \in D : F[st] = H[F][st]
  <2>1. mu \in [D -> Nat] BY <1>1
  <2> HIDE DEF D
  <2> USE DEF W
  <2> QED BY <1>5, <1>7, <1>8, <2>1, MeasureRecursion
<1>10. \A st \in D : F[st] = Body(F, st) BY <1>3, <1>9
<1>11. F[<<>>] = z BY <1>10, EmptySeq
<1>12. \A st \in D : st # <<>> => F[st] = op[w[I!Top(st)]][F[I!Rest(st)]] BY <1>10
<1>13. F \in [D -> V] BY <1>6
<1> HIDE DEF Body
<1> QED BY <1>11, <1>12, <1>13

-----------------------------------------------------------------------------
(* What is left of the walk: a step that the iterator has not finished.    *)

StepLeft(t) == [t EXCEPT !.left = TRUE]
StepRight(t) == [t EXCEPT !.right = TRUE]
StepOn(t) == [t EXCEPT !.ix = @ + 1]

LEMMA StepFields ==
  ASSUME NEW t \in I!Steps
  PROVE  /\ t.buf \in I!Bufs /\ t.ix \in Int /\ t.left \in BOOLEAN /\ t.right \in BOOLEAN
         /\ StepLeft(t) \in I!Steps /\ StepLeft(t).buf = t.buf /\ StepLeft(t).ix = t.ix
         /\ StepLeft(t).left /\ StepLeft(t).right = t.right
         /\ StepRight(t) \in I!Steps /\ StepRight(t).buf = t.buf /\ StepRight(t).ix = t.ix
         /\ StepRight(t).right /\ StepRight(t).left = t.left
         /\ StepOn(t) \in I!Steps /\ StepOn(t).buf = t.buf /\ StepOn(t).ix = t.ix + 1
<1>1. t.buf \in I!Bufs /\ t.ix \in Int /\ t.left \in BOOLEAN /\ t.right \in BOOLEAN BY DEF I!Steps
<1>2. StepLeft(t) \in I!Steps /\ StepLeft(t).buf = t.buf /\ StepLeft(t).ix = t.ix
      /\ StepLeft(t).left /\ StepLeft(t).right = t.right
      BY DEF I!Steps, StepLeft
<1>3. StepRight(t) \in I!Steps /\ StepRight(t).buf = t.buf /\ StepRight(t).ix = t.ix
      /\ StepRight(t).right /\ StepRight(t).left = t.left
      BY DEF I!Steps, StepRight
<1>4. StepOn(t) \in I!Steps /\ StepOn(t).buf = t.buf /\ StepOn(t).ix = t.ix + 1
      BY DEF I!Steps, StepOn
<1> QED BY <1>1, <1>2, <1>3, <1>4

LEMMA NewStep ==
  ASSUME NEW b \in I!Bufs
  PROVE  /\ I!dfs_step(b) \in I!Steps /\ I!dfs_step(b).buf = b /\ I!dfs_step(b).ix = -1
         /\ ~I!dfs_step(b).left /\ ~I!dfs_step(b).right
BY DEF I!dfs_step, I!Steps

\* The stack with which advance continues, unless it stops.
Lazily(g, s) == g[I!Top(s).buf].is_lazy_
Stops(g, s) == ~Lazily(g, s) /\ ~I!nonlazy(g[I!Top(s).buf], I!Top(s).ix + 1)
Onward(g, s) ==
  LET t == I!Top(s) b == g[t.buf] IN
  IF Lazily(g, s) /\ ~t.left THEN I!Push(s, StepLeft(t), b.left_)
  ELSE IF Lazily(g, s) /\ ~t.right THEN I!Push(s, StepRight(t), b.right_)
  ELSE I!Rest(s)
Halt(s) == Append(I!Rest(s), StepOn(I!Top(s)))

Pushed(S, s, t, b) ==
  /\ I!Push(s, t, b) \in Seq(S) /\ I!Push(s, t, b) # <<>>
  /\ I!Top(I!Push(s, t, b)) = I!dfs_step(b)
  /\ I!Rest(I!Push(s, t, b)) = Append(I!Rest(s), t)
  /\ Append(I!Rest(s), t) \in Seq(S) /\ Append(I!Rest(s), t) # <<>>
  /\ I!Top(Append(I!Rest(s), t)) = t /\ I!Rest(Append(I!Rest(s), t)) = I!Rest(s)

LEMMA PushIs ==
  ASSUME NEW S, NEW s \in Seq(S), s # <<>>, NEW t \in S, NEW b, I!dfs_step(b) \in S
  PROVE  Pushed(S, s, t, b)
<1>1. I!Rest(s) \in Seq(S) BY TopRest
<1>2. /\ Append(I!Rest(s), t) \in Seq(S) /\ Append(I!Rest(s), t) # <<>>
      /\ I!Top(Append(I!Rest(s), t)) = t /\ I!Rest(Append(I!Rest(s), t)) = I!Rest(s)
      BY <1>1, AppendTopRest
<1> DEFINE a == Append(I!Rest(s), t)
<1>3. a \in Seq(S) BY <1>2
<1> HIDE DEF a
<1>4. /\ Append(a, I!dfs_step(b)) \in Seq(S) /\ Append(a, I!dfs_step(b)) # <<>>
      /\ I!Top(Append(a, I!dfs_step(b))) = I!dfs_step(b) /\ I!Rest(Append(a, I!dfs_step(b))) = a
      BY <1>3, AppendTopRest
<1> QED BY <1>2, <1>4 DEF a, I!Push, Pushed

\* The steps that are left, in numbers.
Size(g, rk, t) ==
  IF g[t.buf].is_lazy_
  THEN 1 + (IF t.left THEN 0 ELSE 2 + rk[g[t.buf].left_]) + (IF t.right THEN 0 ELSE 2 + rk[g[t.buf].right_])
  ELSE 1

LEMMA SizeType ==
  ASSUME NEW g \in I!Heaps, NEW rk, Ranked(g, rk), NEW t \in I!Steps
  PROVE  Size(g, rk, t) \in Nat /\ Size(g, rk, t) >= 1
<1>1. t.buf \in I!Bufs BY StepFields
<1>2. rk \in [I!Bufs -> Nat] BY DEF Ranked
<1>3. CASE g[t.buf].is_lazy_
  <2>1. rk[g[t.buf].left_] \in Nat /\ rk[g[t.buf].right_] \in Nat BY <1>1, <1>2, <1>3, HeapFields
  <2> QED BY <1>3, <2>1 DEF Size
<1>4. CASE ~g[t.buf].is_lazy_ BY <1>4 DEF Size
<1> QED BY <1>3, <1>4

LEMMA SizeOfNew ==
  ASSUME NEW g \in I!Heaps, NEW rk, Ranked(g, rk), Weighted(g, rk), NEW b \in I!Bufs
  PROVE  Size(g, rk, I!dfs_step(b)) <= 1 + rk[b]
<1>1. rk \in [I!Bufs -> Nat] BY DEF Ranked
<1>2. CASE g[b].is_lazy_
  <2>1. rk[g[b].left_] \in Nat /\ rk[g[b].right_] \in Nat /\ rk[b] \in Nat BY <1>1, <1>2, HeapFields
  <2>2. rk[g[b].left_] + rk[g[b].right_] + 5 <= rk[b] BY <1>2 DEF Weighted
  <2>3. Size(g, rk, I!dfs_step(b)) = 1 + (2 + rk[g[b].left_]) + (2 + rk[g[b].right_])
        BY <1>2, NewStep DEF Size
  <2> QED BY <2>1, <2>2, <2>3
<1>3. CASE ~g[b].is_lazy_
  <2>1. Size(g, rk, I!dfs_step(b)) = 1 BY <1>3, NewStep DEF Size
  <2> QED BY <1>1, <2>1
<1> QED BY <1>2, <1>3

Sizes(g, rk, M) ==
  /\ M \in [Seq(I!Steps) -> Nat]
  /\ \A s \in Seq(I!Steps) :
       M[s] = IF s = <<>> THEN 0 ELSE Size(g, rk, I!Top(s)) + M[I!Rest(s)]

LEMMA StackSum ==
  ASSUME NEW S, NEW w \in [S -> Nat]
  PROVE  \E M \in [Seq(S) -> Nat] : \A s \in Seq(S) :
           M[s] = IF s = <<>> THEN 0 ELSE w[I!Top(s)] + M[I!Rest(s)]
<1> DEFINE op == [m \in Nat |-> [n \in Nat |-> m + n]]
<1>1. \A m, n \in Nat : op[m][n] \in Nat /\ op[m][n] = m + n OBVIOUS
<1>2. PICK V, z : V = Nat /\ z = 0 OBVIOUS
<1> HIDE DEF op
<1>3. Foldable(S, V, w, z, op) BY <1>1, <1>2 DEF Foldable
<1>4. PICK M \in [Seq(S) -> V] :
        M[<<>>] = z /\ \A s \in Seq(S) : s # <<>> => M[s] = op[w[I!Top(s)]][M[I!Rest(s)]]
      BY <1>3, StackFold
<1>5. M \in [Seq(S) -> Nat] BY <1>2, <1>4
<1>6. ASSUME NEW s \in Seq(S), s # <<>> PROVE M[s] = w[I!Top(s)] + M[I!Rest(s)]
  <2>1. I!Top(s) \in S /\ I!Rest(s) \in Seq(S) BY <1>6, TopRest
  <2>2. M[I!Rest(s)] \in Nat /\ w[I!Top(s)] \in Nat BY <1>5, <2>1
  <2>3. M[s] = op[w[I!Top(s)]][M[I!Rest(s)]] BY <1>4, <1>6
  <2> QED BY <1>1, <2>2, <2>3
<1>7. M[<<>>] = 0 BY <1>2, <1>4, EmptySeq
<1> QED BY <1>5, <1>6, <1>7

LEMMA HasSizes ==
  ASSUME NEW g \in I!Heaps, NEW rk, Ranked(g, rk)
  PROVE  \E M : Sizes(g, rk, M)
<1> DEFINE w == [t \in I!Steps |-> Size(g, rk, t)]
<1>1. \A t \in I!Steps : w[t] = Size(g, rk, t) /\ w[t] \in Nat BY SizeType
<1>2. w \in [I!Steps -> Nat]
  <2>1. w = [t \in I!Steps |-> w[t]] OBVIOUS
  <2> HIDE DEF w
  <2> QED BY <1>1, <2>1
<1> HIDE DEF w
<1>5. PICK M \in [Seq(I!Steps) -> Nat] : \A s \in Seq(I!Steps) :
              M[s] = IF s = <<>> THEN 0 ELSE w[I!Top(s)] + M[I!Rest(s)]
      BY <1>2, StackSum
<1>6. ASSUME NEW s \in Seq(I!Steps), s # <<>> PROVE M[s] = Size(g, rk, I!Top(s)) + M[I!Rest(s)]
  <2>1. I!Top(s) \in I!Steps BY <1>6, TopRest
  <2> QED BY <1>1, <1>5, <1>6, <2>1
<1>7. M[<<>>] = 0 BY <1>5, EmptySeq
<1> QED BY <1>5, <1>6, <1>7 DEF Sizes

LEMMA PushSteps ==
  ASSUME NEW s \in Seq(I!Steps), s # <<>>, NEW t \in I!Steps, NEW b \in I!Bufs
  PROVE  Pushed(I!Steps, s, t, b)
<1>1. I!dfs_step(b) \in I!Steps BY NewStep
<1> QED BY <1>1, PushIs

LEMMA PushSizes ==
  ASSUME NEW g \in I!Heaps, NEW rk, Ranked(g, rk), Weighted(g, rk), NEW M, Sizes(g, rk, M),
         NEW s \in Seq(I!Steps), s # <<>>, NEW u \in I!Steps, NEW b \in I!Bufs
  PROVE  /\ I!Push(s, u, b) \in Seq(I!Steps)
         /\ M[I!Push(s, u, b)] <= 1 + rk[b] + Size(g, rk, u) + M[I!Rest(s)]
<1>1. I!dfs_step(b) \in I!Steps BY NewStep
<1>2. PICK p, a : p = I!Push(s, u, b) /\ a = Append(I!Rest(s), u) OBVIOUS
<1>3. /\ p \in Seq(I!Steps) /\ p # <<>> /\ I!Top(p) = I!dfs_step(b) /\ I!Rest(p) = a
      /\ a \in Seq(I!Steps) /\ a # <<>> /\ I!Top(a) = u /\ I!Rest(a) = I!Rest(s)
      BY <1>2, PushSteps DEF Pushed
<1>4. M[p] = Size(g, rk, I!dfs_step(b)) + M[a] BY <1>3 DEF Sizes
<1>5. M[a] = Size(g, rk, u) + M[I!Rest(s)] BY <1>3 DEF Sizes
<1>6. Size(g, rk, I!dfs_step(b)) <= 1 + rk[b] BY SizeOfNew
<1>7. rk[b] \in Nat BY DEF Ranked
<1>8. Size(g, rk, I!dfs_step(b)) \in Nat /\ Size(g, rk, u) \in Nat BY <1>1, SizeType
<1>9. M[I!Rest(s)] \in Nat BY TopRest DEF Sizes
<1>10. M[p] <= 1 + rk[b] + Size(g, rk, u) + M[I!Rest(s)]
       BY <1>4, <1>5, <1>6, <1>7, <1>8, <1>9
<1> QED BY <1>2, <1>3, <1>10

LEMMA OnwardGoesDown ==
  ASSUME NEW g \in I!Heaps, NEW rk, Ranked(g, rk), Weighted(g, rk), NEW M, Sizes(g, rk, M),
         NEW s \in Seq(I!Steps), s # <<>>
  PROVE  Onward(g, s) \in Seq(I!Steps) /\ M[Onward(g, s)] < M[s]
<1> DEFINE t == I!Top(s) l == g[t.buf].left_ r == g[t.buf].right_
<1>1. t \in I!Steps /\ I!Rest(s) \in Seq(I!Steps) BY TopRest
<1>2. M[s] = Size(g, rk, t) + M[I!Rest(s)] BY DEF Sizes
<1>3. M[I!Rest(s)] \in Nat BY <1>1 DEF Sizes
<1>4. t.buf \in I!Bufs /\ t.left \in BOOLEAN /\ t.right \in BOOLEAN BY <1>1, StepFields
<1>5. rk \in [I!Bufs -> Nat] BY DEF Ranked
<1>6. \A u \in I!Steps, b \in I!Bufs :
         /\ I!Push(s, u, b) \in Seq(I!Steps)
         /\ M[I!Push(s, u, b)] <= 1 + rk[b] + Size(g, rk, u) + M[I!Rest(s)]
      BY PushSizes
<1>7. Lazily(g, s) <=> g[t.buf].is_lazy_ BY DEF Lazily
<1>8. CASE g[t.buf].is_lazy_ /\ ~t.left
  <2>1. Onward(g, s) = I!Push(s, StepLeft(t), l) BY <1>7, <1>8 DEF Onward
  <2>2. l \in I!Bufs /\ r \in I!Bufs BY <1>4, <1>8, HeapFields
  <2>3. StepLeft(t) \in I!Steps /\ StepLeft(t).buf = t.buf /\ StepLeft(t).left
        /\ StepLeft(t).right = t.right
        BY <1>1, StepFields
  <2> DEFINE rest == IF t.right THEN 0 ELSE 2 + rk[r]
  <2>4. Size(g, rk, t) = 1 + (2 + rk[l]) + rest BY <1>8 DEF Size
  <2>5. Size(g, rk, StepLeft(t)) = 1 + 0 + rest BY <1>8, <2>3 DEF Size
  <2>6. rk[l] \in Nat /\ rest \in Nat BY <1>5, <2>2
  <2>7. M[I!Push(s, StepLeft(t), l)] <= 1 + rk[l] + Size(g, rk, StepLeft(t)) + M[I!Rest(s)]
        /\ I!Push(s, StepLeft(t), l) \in Seq(I!Steps)
        BY <1>6, <2>2, <2>3
  <2>8. I!Push(s, StepLeft(t), l) \in Seq(I!Steps) BY <2>7
  <2>9. M[I!Push(s, StepLeft(t), l)] \in Nat BY <2>8 DEF Sizes
  <2> HIDE DEF rest, l, r
  <2>10. M[I!Push(s, StepLeft(t), l)] < M[s]
        BY <1>2, <1>3, <2>4, <2>5, <2>6, <2>7, <2>9
  <2> QED BY <2>1, <2>8, <2>10
<1>9. CASE g[t.buf].is_lazy_ /\ t.left /\ ~t.right
  <2>1. Onward(g, s) = I!Push(s, StepRight(t), r) BY <1>7, <1>9 DEF Onward
  <2>2. r \in I!Bufs BY <1>4, <1>9, HeapFields
  <2>3. StepRight(t) \in I!Steps /\ StepRight(t).buf = t.buf /\ StepRight(t).right
        /\ StepRight(t).left = t.left
        BY <1>1, StepFields
  <2>4. Size(g, rk, t) = 1 + 0 + (2 + rk[r]) BY <1>9 DEF Size
  <2>5. Size(g, rk, StepRight(t)) = 1 + 0 + 0 BY <1>9, <2>3 DEF Size
  <2>6. rk[r] \in Nat BY <1>5, <2>2
  <2>7. M[I!Push(s, StepRight(t), r)] <= 1 + rk[r] + Size(g, rk, StepRight(t)) + M[I!Rest(s)]
        /\ I!Push(s, StepRight(t), r) \in Seq(I!Steps)
        BY <1>6, <2>2, <2>3
  <2>8. I!Push(s, StepRight(t), r) \in Seq(I!Steps) BY <2>7
  <2>9. M[I!Push(s, StepRight(t), r)] \in Nat BY <2>8 DEF Sizes
  <2> HIDE DEF r
  <2>10. M[I!Push(s, StepRight(t), r)] < M[s]
        BY <1>2, <1>3, <2>4, <2>5, <2>6, <2>7, <2>9
  <2> QED BY <2>1, <2>8, <2>10
<1>10. CASE ~g[t.buf].is_lazy_ \/ (t.left /\ t.right)
  <2>1. Onward(g, s) = I!Rest(s) BY <1>7, <1>10 DEF Onward
  <2>2. Size(g, rk, t) \in Nat /\ Size(g, rk, t) >= 1 BY <1>1, SizeType
  <2>3. M[I!Rest(s)] < M[s] BY <1>2, <1>3, <2>2
  <2> QED BY <1>1, <2>1, <2>3
<1> QED BY <1>4, <1>8, <1>9, <1>10
-----------------------------------------------------------------------------
(* advance stops at the next character, or at the end.                     *)

Advances(f, s) ==
  IF s = <<>> THEN s ELSE IF Stops(bufs, s) THEN Halt(s) ELSE f[Onward(bufs, s)]

LEMMA HaltType ==
  ASSUME NEW s \in Seq(I!Steps), s # <<>>
  PROVE  Halt(s) \in Seq(I!Steps)
<1>1. I!Top(s) \in I!Steps /\ I!Rest(s) \in Seq(I!Steps) BY TopRest
<1>2. StepOn(I!Top(s)) \in I!Steps BY <1>1, StepFields
<1> QED BY <1>1, <1>2, AppendTopRest DEF Halt

LEMMA AdvanceIs ==
  ASSUME bufs \in I!Heaps
  PROVE  \A s \in Seq(I!Steps) :
           I!advance(s) = IF s = <<>> THEN s ELSE IF Stops(bufs, s) THEN Halt(s)
                          ELSE I!advance(Onward(bufs, s))
<1>1. PICK rk : Ranked(bufs, rk) /\ Weighted(bufs, rk) BY HeapIsWeighted
<1>2. PICK M : Sizes(bufs, rk, M) BY <1>1, HasSizes
<1> DEFINE D == Seq(I!Steps)
           Body(F, s) ==
             LET t == I!Top(s) b == bufs[t.buf] IN
             IF s = <<>> THEN s
             ELSE IF b.is_lazy_
             THEN IF ~t.left THEN F[I!Push(s, [t EXCEPT !.left = TRUE], b.left_)]
                  ELSE IF ~t.right THEN F[I!Push(s, [t EXCEPT !.right = TRUE], b.right_)]
                  ELSE F[I!Rest(s)]
             ELSE IF I!nonlazy(b, t.ix + 1) THEN F[I!Rest(s)]
                  ELSE Append(I!Rest(s), [t EXCEPT !.ix = @ + 1])
           Is(f) == f = [s \in D |-> Body(f, s)]
           V == [s \in D |-> D]
           W == Within(D, V)
           H == [F \in W |-> [s \in D |-> Advances(F, s)]]
           d == CHOOSE f : Is(f)
<1>3. \A s : I!advance(s) = d[s] BY DEF I!advance
<1>4. \A F, s : Body(F, s) = Advances(F, s)
      BY Zenon DEF Advances, Stops, Onward, Lazily, Halt, StepLeft, StepRight, StepOn
<1>5. M \in [D -> Nat] BY <1>2 DEF Sizes
<1>6. \A s \in D : s # <<>> => /\ Halt(s) \in D /\ Onward(bufs, s) \in D
                               /\ M[Onward(bufs, s)] < M[s]
      BY <1>1, <1>2, HaltType, OnwardGoesDown
<1>7. W # {}
  <2>1. [s \in D |-> s] \in W BY DEF Within
  <2> QED BY <2>1
<1>8. \A F \in W, s \in D : F[s] \in D BY DEF Within
<1>9. \A F \in W, s \in D : H[F][s] = Advances(F, s) OBVIOUS
<1>a. \A s \in D : V[s] = D OBVIOUS
<1> HIDE DEF H, V, Body, d
<1>10. \A F \in W : \A s \in D : H[F][s] \in V[s]
  <2> SUFFICES ASSUME NEW F \in W, NEW s \in D PROVE Advances(F, s) \in D
      BY <1>9, <1>a
  <2>1. CASE s = <<>> BY <2>1 DEF Advances
  <2>2. CASE s # <<>> /\ Stops(bufs, s) BY <1>6, <2>2 DEF Advances
  <2>3. CASE s # <<>> /\ ~Stops(bufs, s) BY <1>6, <1>8, <2>3 DEF Advances
  <2> QED BY <2>1, <2>2, <2>3
<1>11. \A F, G \in W : \A s \in D :
         (\A u \in D : M[u] < M[s] => F[u] = G[u]) => H[F][s] = H[G][s]
  <2> SUFFICES ASSUME NEW F \in W, NEW G \in W, NEW s \in D,
                      \A u \in D : M[u] < M[s] => F[u] = G[u]
               PROVE  H[F][s] = H[G][s]
      BY Zenon
  <2>0. H[F][s] = Advances(F, s) /\ H[G][s] = Advances(G, s) BY Zenon, <1>9
  <2>1. CASE s = <<>> BY <2>0, <2>1 DEF Advances
  <2>2. CASE s # <<>> /\ Stops(bufs, s) BY <2>0, <2>2 DEF Advances
  <2>3. CASE s # <<>> /\ ~Stops(bufs, s)
    <3>1. F[Onward(bufs, s)] = G[Onward(bufs, s)] BY <1>6, <2>3
    <3> QED BY <2>0, <2>3, <3>1 DEF Advances
  <2> QED BY <2>1, <2>2, <2>3
<1>12. PICK F \in W : \A s \in D : F[s] = H[F][s]
  <2> HIDE DEF D
  <2> QED BY <1>5, <1>7, <1>10, <1>11, MeasureRecursion
<1>13. Is(F)
  <2>1. F = [s \in D |-> F[s]] BY DEF Within
  <2>2. \A s \in D : F[s] = Body(F, s) BY Zenon, <1>4, <1>9, <1>12
  <2> HIDE DEF W, D
  <2> QED BY Zenon, <2>1, <2>2
<1>14. Is(d)
  <2> HIDE DEF Is
  <2> QED BY Zenon, <1>13 DEF d
<1>15. \A s \in D : d[s] = Advances(d, s)
  <2>1. \A s \in D : d[s] = Body(d, s) BY Zenon, <1>14
  <2> QED BY Zenon, <1>4, <2>1
<1> QED BY Zenon, <1>3, <1>15 DEF Advances
-----------------------------------------------------------------------------
(* What the iterator has ahead of it.                                      *)

\* K: the buffers that are alive, with the parts of those that are lazy.
Closed(g, K) == K \subseteq I!Bufs /\ \A b \in K : g[b].is_lazy_ => Parts(g, b) \subseteq K

Walkable(g, K) ==
  {t \in I!Steps : t.buf \in K /\ (~g[t.buf].is_lazy_ => t.ix \in -1..(Len(g[t.buf].cstr_) - 1))}

LeftText(g, t) == IF t.left THEN <<>> ELSE I!Text(g, g[t.buf].left_)
RightText(g, t) == IF t.right THEN <<>> ELSE I!Text(g, g[t.buf].right_)
StepText(g, t) ==
  IF g[t.buf].is_lazy_ THEN LeftText(g, t) \o RightText(g, t)
  ELSE SubSeq(g[t.buf].cstr_, t.ix + 2, Len(g[t.buf].cstr_))

LEMMA TextAlgebra ==
  /\ <<>> \in I!Texts
  /\ \A s \in I!Texts : <<>> \o s = s /\ s \o <<>> = s /\ Len(s) \in Nat
  /\ \A s, t \in I!Texts : s \o t \in I!Texts /\ Len(s \o t) = Len(s) + Len(t)
  /\ \A s, t, u \in I!Texts : (s \o t) \o u = s \o (t \o u)
BY EmptySeq, ConcatEmptySeq, ConcatProperties, ConcatAssociative, LenProperties DEF I!Texts

LEMMA TextsHere ==
  ASSUME NEW g \in I!Heaps
  PROVE  \A b \in I!Bufs : I!Text(g, b) \in I!Texts
BY HeapIsRanked, TreeTextIs, Zenon

LEMMA SuffixIs ==
  ASSUME NEW text \in I!Texts, NEW m \in 1..(Len(text) + 1)
  PROVE  /\ SubSeq(text, m, Len(text)) \in I!Texts
         /\ m = Len(text) + 1 => SubSeq(text, m, Len(text)) = <<>>
         /\ m = 1 => SubSeq(text, m, Len(text)) = text
         /\ m <= Len(text) =>
              /\ <<text[m]>> \in I!Texts
              /\ SubSeq(text, m, Len(text)) = <<text[m]>> \o SubSeq(text, m + 1, Len(text))
<1> DEFINE S == Chars \cup {"?"}
<1>1. text \in Seq(S) /\ Len(text) \in Nat BY LenProperties DEF I!Texts
<1>2. m \in Int /\ Len(text) \in Int /\ 1 <= m /\ m <= Len(text) + 1 BY <1>1
<1>3. \A i \in m..Len(text) : text[i] \in S BY <1>1, <1>2, ElementOfSeq
<1>4. SubSeq(text, m, Len(text)) \in Seq(S) BY <1>2, <1>3, SubSeqProperties
<1>5. ASSUME m = Len(text) + 1 PROVE SubSeq(text, m, Len(text)) = <<>>
      BY <1>2, <1>5, SubSeqEmpty
<1>6. ASSUME m = 1 PROVE SubSeq(text, m, Len(text)) = text
      BY <1>1, <1>6, SubSeqFull
<1>7. ASSUME m <= Len(text)
      PROVE  <<text[m]>> \in Seq(S)
             /\ SubSeq(text, m, Len(text)) = <<text[m]>> \o SubSeq(text, m + 1, Len(text))
  <2>1. text[m] \in S BY <1>2, <1>3, <1>7
  <2>2. m \in 1..Len(text) + 1 /\ m \in m - 1..Len(text) /\ Len(text) \in m..Len(text)
        BY <1>1, <1>2, <1>7
  <2>3. SubSeq(text, m, m) \o SubSeq(text, m + 1, Len(text)) = SubSeq(text, m, Len(text))
        BY <1>1, <2>2, ConcatAdjacentSubSeq
  <2>4. SubSeq(text, m, m) = <<text[m]>>
    <3>1. \A i \in m..m : text[i] \in S BY <1>2, <2>1
    <3>2. /\ SubSeq(text, m, m) \in Seq(S) /\ Len(SubSeq(text, m, m)) = m - m + 1
          /\ \A i \in 1..m - m + 1 : SubSeq(text, m, m)[i] = text[m + i - 1]
          BY <1>2, <3>1, SubSeqProperties
    <3>3. Len(SubSeq(text, m, m)) = 1 /\ SubSeq(text, m, m)[1] = text[m] BY <1>2, <3>2
    <3>4. <<text[m]>> \in Seq(S) /\ Len(<<text[m]>>) = 1 /\ <<text[m]>>[1] = text[m] BY <2>1
    <3>5. \A i \in 1..1 : SubSeq(text, m, m)[i] = <<text[m]>>[i] BY <3>3, <3>4
    <3> QED BY <3>2, <3>3, <3>4, <3>5, SeqEqual
  <2> QED BY <2>1, <2>3, <2>4
<1> QED BY <1>4, <1>5, <1>6, <1>7 DEF I!Texts

LEMMA StepTextType ==
  ASSUME NEW g \in I!Heaps, NEW K, NEW t \in Walkable(g, K)
  PROVE  StepText(g, t) \in I!Texts
<1>1. t \in I!Steps /\ t.buf \in I!Bufs /\ t.left \in BOOLEAN /\ t.right \in BOOLEAN
      BY StepFields DEF Walkable
<1>2. CASE g[t.buf].is_lazy_
  <2>1. g[t.buf].left_ \in I!Bufs /\ g[t.buf].right_ \in I!Bufs BY <1>1, <1>2, HeapFields
  <2>2. LeftText(g, t) \in I!Texts /\ RightText(g, t) \in I!Texts
        BY <2>1, TextsHere, TextAlgebra DEF LeftText, RightText
  <2> QED BY <1>2, <2>2, TextAlgebra DEF StepText
<1>3. CASE ~g[t.buf].is_lazy_
  <2>1. g[t.buf].cstr_ \in I!Texts BY <1>1, HeapFields
  <2>2. t.ix \in -1..(Len(g[t.buf].cstr_) - 1) BY <1>3 DEF Walkable
  <2>3. Len(g[t.buf].cstr_) \in Nat BY <2>1, TextAlgebra
  <2>4. t.ix + 2 \in 1..(Len(g[t.buf].cstr_) + 1) BY <2>2, <2>3
  <2>5. SubSeq(g[t.buf].cstr_, t.ix + 2, Len(g[t.buf].cstr_)) \in I!Texts
        BY <2>1, <2>4, SuffixIs
  <2> QED BY <1>3, <2>5 DEF StepText
<1> QED BY <1>1, <1>2, <1>3

Ahead(g, K, R) ==
  /\ R \in [Seq(Walkable(g, K)) -> I!Texts] /\ R[<<>>] = <<>>
  /\ \A s \in Seq(Walkable(g, K)) : s # <<>> => R[s] = StepText(g, I!Top(s)) \o R[I!Rest(s)]

LEMMA HasAhead ==
  ASSUME NEW g \in I!Heaps, NEW K
  PROVE  \E R : Ahead(g, K, R)
<1> DEFINE w == [t \in Walkable(g, K) |-> StepText(g, t)]
           op == [s \in I!Texts |-> [t \in I!Texts |-> s \o t]]
<1>1. \A t \in Walkable(g, K) : w[t] = StepText(g, t) /\ w[t] \in I!Texts BY StepTextType
<1>2. w \in [Walkable(g, K) -> I!Texts]
  <2>1. w = [t \in Walkable(g, K) |-> w[t]] OBVIOUS
  <2> HIDE DEF w
  <2> QED BY <1>1, <2>1
<1>3. \A s, t \in I!Texts : op[s][t] = s \o t OBVIOUS
<1> HIDE DEF w, op
<1>4. \A s, t \in I!Texts : op[s][t] \in I!Texts BY <1>3, TextAlgebra
<1>5. Foldable(Walkable(g, K), I!Texts, w, <<>>, op) BY <1>2, <1>4, TextAlgebra DEF Foldable
<1>6. PICK R \in [Seq(Walkable(g, K)) -> I!Texts] :
        R[<<>>] = <<>>
        /\ \A s \in Seq(Walkable(g, K)) : s # <<>> => R[s] = op[w[I!Top(s)]][R[I!Rest(s)]]
      BY <1>5, StackFold
<1>7. ASSUME NEW s \in Seq(Walkable(g, K)), s # <<>>
      PROVE  R[s] = StepText(g, I!Top(s)) \o R[I!Rest(s)]
  <2>1. I!Top(s) \in Walkable(g, K) /\ I!Rest(s) \in Seq(Walkable(g, K)) BY <1>7, TopRest
  <2>2. R[I!Rest(s)] \in I!Texts /\ w[I!Top(s)] \in I!Texts BY <1>1, <1>6, <2>1
  <2>3. R[s] = op[w[I!Top(s)]][R[I!Rest(s)]] BY <1>6, <1>7
  <2>4. op[w[I!Top(s)]][R[I!Rest(s)]] = w[I!Top(s)] \o R[I!Rest(s)] BY Zenon, <1>3, <2>2
  <2>5. w[I!Top(s)] = StepText(g, I!Top(s)) BY <1>1, <2>1
  <2> QED BY <2>3, <2>4, <2>5
<1> QED BY <1>6, <1>7 DEF Ahead

LEMMA NewStepText ==
  ASSUME NEW g \in I!Heaps, NEW K \in SUBSET I!Bufs, NEW b \in K
  PROVE  I!dfs_step(b) \in Walkable(g, K) /\ StepText(g, I!dfs_step(b)) = I!Text(g, b)
<1> DEFINE t == I!dfs_step(b)
<1>1. t \in I!Steps /\ t.buf = b /\ t.ix = -1 /\ ~t.left /\ ~t.right BY NewStep
<1> HIDE DEF t
<1>2. PICK rk : Ranked(g, rk) BY HeapIsRanked
<1>3. g[b].cstr_ \in I!Texts /\ Len(g[b].cstr_) \in Nat BY HeapFields, TextAlgebra
<1>4. t \in Walkable(g, K) BY <1>1, <1>3 DEF Walkable
<1>5. CASE g[b].is_lazy_
  <2>1. StepText(g, t) = I!Text(g, g[b].left_) \o I!Text(g, g[b].right_)
        BY <1>1, <1>5 DEF StepText, LeftText, RightText
  <2>2. I!Text(g, b) = I!Text(g, g[b].left_) \o I!Text(g, g[b].right_) BY <1>2, <1>5, TextOfLazy
  <2> QED BY <1>4, <2>1, <2>2 DEF t
<1>6. CASE ~g[b].is_lazy_
  <2>1. t.ix + 2 = 1 BY <1>1
  <2>2. StepText(g, t) = SubSeq(g[b].cstr_, 1, Len(g[b].cstr_)) BY <1>1, <1>6, <2>1 DEF StepText
  <2>3. 1 \in 1..(Len(g[b].cstr_) + 1) BY <1>3
  <2>4. SubSeq(g[b].cstr_, 1, Len(g[b].cstr_)) = g[b].cstr_ BY <1>3, <2>3, SuffixIs
  <2>5. I!Text(g, b) = g[b].cstr_ BY <1>2, <1>6, TextOfPlain
  <2> QED BY <1>4, <2>2, <2>4, <2>5 DEF t
<1> QED BY <1>5, <1>6

LEMMA PushWalks ==
  ASSUME NEW g \in I!Heaps, NEW K, Closed(g, K), NEW s \in Seq(Walkable(g, K)), s # <<>>,
         NEW t \in Walkable(g, K), NEW b \in K
  PROVE  Pushed(Walkable(g, K), s, t, b)
<1>1. I!dfs_step(b) \in Walkable(g, K) BY NewStepText DEF Closed
<1> QED BY <1>1, PushIs

LEMMA PushReads ==
  ASSUME NEW g \in I!Heaps, NEW K, Closed(g, K), NEW R, Ahead(g, K, R),
         NEW s \in Seq(Walkable(g, K)), s # <<>>,
         NEW u \in Walkable(g, K), NEW b \in K
  PROVE  /\ I!Push(s, u, b) \in Seq(Walkable(g, K))
         /\ R[I!Push(s, u, b)] = I!Text(g, b) \o (StepText(g, u) \o R[I!Rest(s)])
<1>1. StepText(g, I!dfs_step(b)) = I!Text(g, b) BY NewStepText DEF Closed
<1>2. PICK p, a : p = I!Push(s, u, b) /\ a = Append(I!Rest(s), u) OBVIOUS
<1>3. /\ p \in Seq(Walkable(g, K)) /\ p # <<>> /\ I!Top(p) = I!dfs_step(b) /\ I!Rest(p) = a
      /\ a \in Seq(Walkable(g, K)) /\ a # <<>> /\ I!Top(a) = u /\ I!Rest(a) = I!Rest(s)
  <2>1. Pushed(Walkable(g, K), s, u, b) BY PushWalks
  <2> QED BY <1>2, <2>1 DEF Pushed
<1>4. R[p] = StepText(g, I!dfs_step(b)) \o R[a] BY <1>3 DEF Ahead
<1>5. R[a] = StepText(g, u) \o R[I!Rest(s)] BY <1>3 DEF Ahead
<1> QED BY <1>1, <1>2, <1>3, <1>4, <1>5

LEMMA OnwardKeeps ==
  ASSUME NEW g \in I!Heaps, NEW K, Closed(g, K), NEW R, Ahead(g, K, R),
         NEW s \in Seq(Walkable(g, K)), s # <<>>, ~Stops(g, s)
  PROVE  Onward(g, s) \in Seq(Walkable(g, K)) /\ R[Onward(g, s)] = R[s]
<1> DEFINE t == I!Top(s) l == g[t.buf].left_ r == g[t.buf].right_ rest == R[I!Rest(s)]
<1>1. t \in Walkable(g, K) /\ I!Rest(s) \in Seq(Walkable(g, K)) BY TopRest
<1>2. t \in I!Steps /\ t.buf \in I!Bufs /\ t.left \in BOOLEAN /\ t.right \in BOOLEAN
      BY <1>1, StepFields DEF Walkable
<1>3. R[s] = StepText(g, t) \o rest BY DEF Ahead
<1>4. rest \in I!Texts BY <1>1 DEF Ahead
<1>5. Lazily(g, s) <=> g[t.buf].is_lazy_ BY DEF Lazily
<1>6. g[t.buf].is_lazy_ => l \in K /\ r \in K /\ I!Text(g, l) \in I!Texts /\ I!Text(g, r) \in I!Texts
  <2>1. t.buf \in K BY <1>1 DEF Walkable
  <2>2. g[t.buf].is_lazy_ => l \in K /\ r \in K BY <2>1 DEF Closed, Parts
  <2> QED BY <1>2, <2>2, HeapFields, TextsHere
<1> HIDE DEF rest
<1>7. CASE g[t.buf].is_lazy_ /\ ~t.left
  <2> DEFINE u == StepLeft(t)
  <2>1. Onward(g, s) = I!Push(s, u, l) BY <1>5, <1>7 DEF Onward
  <2>2. u \in I!Steps /\ u.buf = t.buf /\ u.left /\ u.right = t.right BY <1>2, StepFields
  <2> HIDE DEF u, t
  <2>a. t.buf \in K BY <1>1 DEF Walkable
  <2>3. u \in Walkable(g, K) BY <2>a, <1>7, <2>2 DEF Walkable
  <2>4. RightText(g, u) = RightText(g, t) BY <2>2 DEF RightText
  <2>5. RightText(g, t) \in I!Texts BY <1>2, <1>6, <1>7, TextAlgebra DEF RightText, t
  <2>6. StepText(g, u) = <<>> \o RightText(g, t) BY <1>7, <2>2, <2>4 DEF StepText, LeftText
  <2>7. StepText(g, t) = I!Text(g, l) \o RightText(g, t) BY <1>7 DEF StepText, LeftText, l
  <2>8. /\ I!Push(s, u, l) \in Seq(Walkable(g, K))
        /\ R[I!Push(s, u, l)] = I!Text(g, l) \o (StepText(g, u) \o rest)
    <3>1. l \in K BY <1>6, <1>7
    <3> HIDE DEF l
    <3> QED BY <2>3, <3>1, PushReads DEF rest
  <2> HIDE DEF l
  <2>9. StepText(g, u) = RightText(g, t) BY <2>5, <2>6, TextAlgebra
  <2>10. (I!Text(g, l) \o RightText(g, t)) \o rest = I!Text(g, l) \o (RightText(g, t) \o rest)
         BY <1>4, <1>6, <1>7, <2>5, TextAlgebra
  <2> QED BY <1>3, <2>1, <2>7, <2>8, <2>9, <2>10
<1>8. CASE g[t.buf].is_lazy_ /\ t.left /\ ~t.right
  <2> DEFINE u == StepRight(t)
  <2>1. Onward(g, s) = I!Push(s, u, r) BY <1>5, <1>8 DEF Onward
  <2>2. u \in I!Steps /\ u.buf = t.buf /\ u.right /\ u.left = t.left BY <1>2, StepFields
  <2> HIDE DEF u, t
  <2>a. t.buf \in K BY <1>1 DEF Walkable
  <2>3. u \in Walkable(g, K) BY <2>a, <1>8, <2>2 DEF Walkable
  <2>4. StepText(g, u) = <<>> \o <<>> BY <1>8, <2>2 DEF StepText, LeftText, RightText
  <2>5. StepText(g, t) = <<>> \o I!Text(g, r) BY <1>8 DEF StepText, LeftText, RightText, r
  <2>6. /\ I!Push(s, u, r) \in Seq(Walkable(g, K))
        /\ R[I!Push(s, u, r)] = I!Text(g, r) \o (StepText(g, u) \o rest)
    <3>1. r \in K BY <1>6, <1>8
    <3> HIDE DEF r
    <3> QED BY <2>3, <3>1, PushReads DEF rest
  <2> HIDE DEF r
  <2>7. StepText(g, u) \o rest = rest BY <1>4, <2>4, TextAlgebra
  <2>8. StepText(g, t) = I!Text(g, r) BY <1>6, <1>8, <2>5, TextAlgebra
  <2> QED BY <1>3, <2>1, <2>6, <2>7, <2>8
<1>9. CASE ~g[t.buf].is_lazy_ \/ (t.left /\ t.right)
  <2>1. Onward(g, s) = I!Rest(s) BY <1>5, <1>9 DEF Onward
  <2>2. StepText(g, t) = <<>>
    <3>1. CASE g[t.buf].is_lazy_
      <4>1. StepText(g, t) = <<>> \o <<>> BY <1>9, <3>1 DEF StepText, LeftText, RightText
      <4> QED BY <4>1, TextAlgebra
    <3>2. CASE ~g[t.buf].is_lazy_
      <4>1. I!nonlazy(g[t.buf], t.ix + 1) BY <3>2 DEF Stops, Lazily
      <4>2. g[t.buf].cstr_ \in I!Texts /\ Len(g[t.buf].cstr_) \in Nat
            BY <1>2, HeapFields, TextAlgebra
      <4>3. t.ix \in -1..(Len(g[t.buf].cstr_) - 1) BY <1>1, <3>2 DEF Walkable
      <4>4. t.ix + 1 = Len(g[t.buf].cstr_) BY <4>1 DEF I!nonlazy
      <4>5. t.ix + 2 = Len(g[t.buf].cstr_) + 1 BY <4>2, <4>3, <4>4
      <4>6. t.ix + 2 \in 1..(Len(g[t.buf].cstr_) + 1) BY <4>2, <4>5
      <4>7. SubSeq(g[t.buf].cstr_, t.ix + 2, Len(g[t.buf].cstr_)) = <<>>
            BY <4>2, <4>5, <4>6, SuffixIs
      <4> QED BY <3>2, <4>7 DEF StepText
    <3> QED BY <3>1, <3>2
  <2>3. R[s] = rest BY <1>3, <1>4, <2>2, TextAlgebra
  <2> QED BY <1>1, <2>1, <2>3 DEF rest
<1> QED BY <1>2, <1>7, <1>8, <1>9

LEMMA HaltReads ==
  ASSUME NEW g \in I!Heaps, NEW K, Closed(g, K), NEW R, Ahead(g, K, R),
         NEW s \in Seq(Walkable(g, K)), s # <<>>, Stops(g, s)
  PROVE  /\ Halt(s) \in Seq(Walkable(g, K)) /\ Halt(s) # <<>>
         /\ ~g[I!Top(Halt(s)).buf].is_lazy_
         /\ <<g[I!Top(Halt(s)).buf].cstr_[I!Top(Halt(s)).ix + 1]>> \in I!Texts
         /\ R[s] = <<g[I!Top(Halt(s)).buf].cstr_[I!Top(Halt(s)).ix + 1]>> \o R[Halt(s)]
<1> DEFINE t == I!Top(s) u == StepOn(t) text == g[t.buf].cstr_ rest == R[I!Rest(s)]
<1>1. t \in Walkable(g, K) /\ I!Rest(s) \in Seq(Walkable(g, K)) BY TopRest
<1>2. t \in I!Steps /\ t.buf \in I!Bufs BY <1>1, StepFields DEF Walkable
<1>3. ~g[t.buf].is_lazy_ /\ t.ix + 1 # Len(text) BY DEF Stops, Lazily, I!nonlazy
<1>4. text \in I!Texts /\ Len(text) \in Nat BY <1>2, HeapFields, TextAlgebra
<1>5. t.ix \in -1..(Len(text) - 1) BY <1>1, <1>3 DEF Walkable
<1>6. u \in I!Steps /\ u.buf = t.buf /\ u.ix = t.ix + 1 BY <1>2, StepFields
<1>7. u.ix \in -1..(Len(text) - 1) BY <1>3, <1>4, <1>5, <1>6
<1>a. R[s] = StepText(g, t) \o rest /\ rest \in I!Texts BY <1>1 DEF Ahead
<1>b. Halt(s) = Append(I!Rest(s), u) BY DEF Halt
<1> HIDE DEF u, rest
<1>c. t.buf \in K BY <1>1 DEF Walkable
<1>8. u \in Walkable(g, K) BY <1>c, <1>6, <1>7 DEF Walkable
<1>9. Halt(s) \in Seq(Walkable(g, K)) /\ Halt(s) # <<>> /\ I!Top(Halt(s)) = u /\ I!Rest(Halt(s)) = I!Rest(s)
      BY <1>1, <1>8, <1>b, AppendTopRest
<1>10. R[Halt(s)] = StepText(g, u) \o rest BY <1>9 DEF Ahead, rest
<1> DEFINE m == t.ix + 2
<1>11. m \in 1..(Len(text) + 1) /\ m <= Len(text) BY <1>3, <1>4, <1>5
<1>12. u.ix + 1 = m /\ u.ix + 2 = m + 1 BY <1>5, <1>6
<1>13. StepText(g, t) = SubSeq(text, m, Len(text)) BY <1>3 DEF StepText
<1>14. StepText(g, u) = SubSeq(text, m + 1, Len(text)) BY <1>3, <1>6, <1>12 DEF StepText
<1> HIDE DEF t, m
<1>15. <<text[m]>> \in I!Texts /\ SubSeq(text, m, Len(text)) = <<text[m]>> \o SubSeq(text, m + 1, Len(text))
       BY <1>4, <1>11, SuffixIs
<1>16. StepText(g, u) \in I!Texts BY <1>8, StepTextType
<1> HIDE DEF text
<1>17. (<<text[m]>> \o StepText(g, u)) \o rest = <<text[m]>> \o (StepText(g, u) \o rest)
       BY <1>15, <1>16, <1>a, TextAlgebra
<1>18. R[s] = <<text[m]>> \o R[Halt(s)] BY <1>10, <1>13, <1>14, <1>15, <1>17, <1>a
<1>19. g[I!Top(Halt(s)).buf].cstr_[I!Top(Halt(s)).ix + 1] = text[m] BY <1>6, <1>9, <1>12 DEF text
<1>20. ~g[I!Top(Halt(s)).buf].is_lazy_ BY <1>3, <1>6, <1>9
<1> QED BY <1>9, <1>15, <1>18, <1>19, <1>20

\* The character that an iterator shows.
Shown(g, a) == g[I!Top(a).buf].cstr_[I!Top(a).ix + 1]

Walks(g, K, R, s, a) ==
  \/ a = <<>> /\ R[s] = <<>>
  \/ /\ a \in Seq(Walkable(g, K)) /\ a # <<>> /\ ~g[I!Top(a).buf].is_lazy_
     /\ <<Shown(g, a)>> \in I!Texts /\ R[s] = <<Shown(g, a)>> \o R[a]

LEMMA AdvanceWalks ==
  ASSUME bufs \in I!Heaps, NEW K, Closed(bufs, K), NEW R, Ahead(bufs, K, R), NEW s \in Seq(Walkable(bufs, K))
  PROVE  Walks(bufs, K, R, s, I!advance(s))
<1>1. PICK rk : Ranked(bufs, rk) /\ Weighted(bufs, rk) BY HeapIsWeighted
<1>2. PICK M : Sizes(bufs, rk, M) BY <1>1, HasSizes
<1>3. M \in [Seq(I!Steps) -> Nat] BY <1>2 DEF Sizes
<1> DEFINE T == {u \in Seq(I!Steps) : u \in Seq(Walkable(bufs, K)) => Walks(bufs, K, R, u, I!advance(u))}
<1>4. \A u \in Seq(I!Steps) : (\A v \in Seq(I!Steps) : M[v] < M[u] => v \in T) => u \in T
  <2> SUFFICES ASSUME NEW u \in Seq(I!Steps), \A v \in Seq(I!Steps) : M[v] < M[u] => v \in T,
                      u \in Seq(Walkable(bufs, K))
               PROVE  Walks(bufs, K, R, u, I!advance(u))
      OBVIOUS
  <2>1. I!advance(u) = IF u = <<>> THEN u ELSE IF Stops(bufs, u) THEN Halt(u)
                       ELSE I!advance(Onward(bufs, u))
        BY AdvanceIs
  <2>2. CASE u = <<>>
    <3>1. I!advance(u) = <<>> BY <2>1, <2>2
    <3>2. R[u] = <<>> BY <2>2 DEF Ahead
    <3> QED BY <3>1, <3>2 DEF Walks
  <2>3. CASE u # <<>> /\ Stops(bufs, u)
    <3>1. I!advance(u) = Halt(u) BY <2>1, <2>3
    <3> QED BY <2>3, <3>1, HaltReads DEF Walks, Shown
  <2>4. CASE u # <<>> /\ ~Stops(bufs, u)
    <3>1. I!advance(u) = I!advance(Onward(bufs, u)) BY <2>1, <2>4
    <3>2. Onward(bufs, u) \in Seq(I!Steps) /\ M[Onward(bufs, u)] < M[u]
          BY <1>1, <1>2, <2>4, OnwardGoesDown
    <3>3. Onward(bufs, u) \in Seq(Walkable(bufs, K)) /\ R[Onward(bufs, u)] = R[u]
          BY <2>4, OnwardKeeps
    <3>4. Walks(bufs, K, R, Onward(bufs, u), I!advance(Onward(bufs, u))) BY <3>2, <3>3
    <3> QED BY <3>1, <3>3, <3>4 DEF Walks
  <2> QED BY <2>2, <2>3, <2>4
<1>5. Seq(I!Steps) \subseteq T
  <2> HIDE DEF T
  <2> QED BY <1>3, <1>4, MeasureInduct
<1>6. s \in Seq(I!Steps)
  <2>1. Walkable(bufs, K) \subseteq I!Steps BY DEF Walkable
  <2> QED BY <2>1, SeqMonotonic
<1> QED BY <1>5, <1>6
-----------------------------------------------------------------------------
(* Two heaps that agree on the buffers of a walk.                          *)

LEMMA AheadAgrees ==
  ASSUME NEW g, NEW K, NEW R, Ahead(g, K, R), NEW e, NEW J, NEW Q, Ahead(e, J, Q),
         NEW A, A \subseteq Walkable(g, K), A \subseteq Walkable(e, J),
         \A t \in A : StepText(g, t) = StepText(e, t)
  PROVE  \A s \in Seq(A) : R[s] = Q[s]
<1> DEFINE D == Seq(A)
           mu == [s \in D |-> Len(s)]
           T == {s \in D : R[s] = Q[s]}
<1>1. mu \in [D -> Nat] /\ \A s \in D : mu[s] = Len(s) BY LenProperties
<1>2. D \subseteq Seq(Walkable(g, K)) /\ D \subseteq Seq(Walkable(e, J)) BY SeqMonotonic
<1> HIDE DEF mu
<1>3. \A s \in D : (\A u \in D : mu[u] < mu[s] => u \in T) => s \in T
  <2> SUFFICES ASSUME NEW s \in D, \A u \in D : mu[u] < mu[s] => u \in T PROVE R[s] = Q[s]
      OBVIOUS
  <2>1. CASE s = <<>> BY <2>1 DEF Ahead
  <2>2. CASE s # <<>>
    <3>1. I!Top(s) \in A /\ I!Rest(s) \in D /\ Len(I!Rest(s)) = Len(s) - 1 /\ Len(s) \in Nat
          BY <2>2, TopRest
    <3>2. Len(I!Rest(s)) < Len(s) BY <3>1
    <3>3. mu[I!Rest(s)] < mu[s] BY <1>1, <3>1, <3>2
    <3>4. R[I!Rest(s)] = Q[I!Rest(s)] BY <3>1, <3>3
    <3>5. R[s] = StepText(g, I!Top(s)) \o R[I!Rest(s)] BY <1>2, <2>2 DEF Ahead
    <3>6. Q[s] = StepText(e, I!Top(s)) \o Q[I!Rest(s)] BY <1>2, <2>2 DEF Ahead
    <3> QED BY <3>1, <3>4, <3>5, <3>6
  <2> QED BY <2>1, <2>2
<1>4. D \subseteq T
  <2>1. mu \in [D -> Nat] BY <1>1
  <2> HIDE DEF T, D
  <2> QED BY <1>3, <2>1, MeasureInduct
<1> QED BY <1>4

LEMMA OwnedAgrees ==
  ASSUME NEW h \in I!Heaps, NEW g \in I!Heaps, NEW K \in SUBSET I!Bufs,
         \A b \in K : g[b] = h[b] /\ Parts(h, b) \subseteq K \cup {I!None}
  PROVE  \A b \in K \cup {I!None} : I!Owned(g, b) = I!Owned(h, b)
<1>1. PICK rk : Ranked(h, rk) BY HeapIsRanked
<1>2. PICK rg : Ranked(g, rg) BY HeapIsRanked
<1>3. /\ I!Owned(h, I!None) = {}
      /\ \A b \in I!Bufs :
           I!Owned(h, b) = {b} \cup I!Owned(h, h[b].left_) \cup I!Owned(h, h[b].right_)
      BY <1>1, OwnedIs, Zenon
<1>4. /\ I!Owned(g, I!None) = {}
      /\ \A b \in I!Bufs :
           I!Owned(g, b) = {b} \cup I!Owned(g, g[b].left_) \cup I!Owned(g, g[b].right_)
      BY <1>2, OwnedIs, Zenon
<1> DEFINE T == {b \in I!Bufs : b \in K => I!Owned(g, b) = I!Owned(h, b)}
<1>5. \A b \in I!Bufs : (\A c \in I!Bufs : rk[c] < rk[b] => c \in T) => b \in T
  <2> SUFFICES ASSUME NEW b \in I!Bufs, \A c \in I!Bufs : rk[c] < rk[b] => c \in T, b \in K
               PROVE  I!Owned(g, b) = I!Owned(h, b)
      OBVIOUS
  <2>1. \A c \in Parts(h, b) : I!Owned(g, c) = I!Owned(h, c)
    <3> TAKE c \in Parts(h, b)
    <3>1. CASE c = I!None BY <1>3, <1>4, <3>1
    <3>2. CASE c # I!None
      <4>1. c \in K /\ c \in I!Bufs BY <3>2
      <4>2. rk[c] < rk[b] BY <1>1, <3>2 DEF Ranked
      <4> QED BY <4>1, <4>2
    <3> QED BY <3>1, <3>2
  <2>2. /\ I!Owned(g, h[b].left_) = I!Owned(h, h[b].left_)
        /\ I!Owned(g, h[b].right_) = I!Owned(h, h[b].right_)
        BY <2>1 DEF Parts
  <2>3. I!Owned(h, b) = {b} \cup I!Owned(h, h[b].left_) \cup I!Owned(h, h[b].right_) BY <1>3
  <2>4. I!Owned(g, b) = {b} \cup I!Owned(g, h[b].left_) \cup I!Owned(g, h[b].right_) BY <1>4
  <2> QED BY <2>2, <2>3, <2>4
<1>6. rk \in [I!Bufs -> Nat] BY <1>1 DEF Ranked
<1>7. I!Bufs \subseteq T
  <2> HIDE DEF T
  <2> QED BY <1>5, <1>6, MeasureInduct
<1> QED BY <1>3, <1>4, <1>7

LEMMA FreeIs == I!Free = PlainBuf(<<>>) /\ I!Free \in I!Plain
BY TextAlgebra DEF I!Free, PlainBuf, I!Plain

LEMMA SweptIs ==
  ASSUME NEW h \in I!Heaps, NEW strs \in [Immutables -> I!Bufs \cup {I!None}]
  PROVE  /\ I!Swept(h, strs) \in I!Heaps
         /\ I!Live(I!Swept(h, strs), strs) = I!Live(h, strs)
         /\ \A b \in I!Live(h, strs) :
              I!Swept(h, strs)[b] = h[b] /\ I!Text(I!Swept(h, strs), b) = I!Text(h, b)
         /\ \A b \in I!Bufs \ I!Live(h, strs) : I!Swept(h, strs)[b] = I!Free
<1> DEFINE K == I!Live(h, strs) g == I!Swept(h, strs)
<1>1. /\ K \subseteq I!Bufs /\ \A s \in Immutables : strs[s] # I!None => strs[s] \in K
      /\ \A b \in K : Parts(h, b) \subseteq K \cup {I!None}
      BY LiveCloses
<1>2. /\ \A b \in K : g[b] = h[b]
      /\ \A b \in I!Bufs \ K : g[b] = I!Free
      /\ g = [b \in I!Bufs |-> g[b]]
      BY <1>1 DEF I!Swept
<1>3. \A s \in Immutables : strs[s] \in K \cup {I!None} BY <1>1
<1>a. K = UNION {I!Owned(h, strs[s]) : s \in Immutables} BY DEF I!Live
<1>b. I!Live(g, strs) = UNION {I!Owned(g, strs[s]) : s \in Immutables} BY DEF I!Live
<1> HIDE DEF K, g
<1>4. h \in [I!Bufs -> I!Lazy \cup I!Plain] BY DEF I!Heaps
<1>5. g \in [I!Bufs -> I!Lazy \cup I!Plain]
  <2>1. \A b \in I!Bufs : g[b] \in I!Lazy \cup I!Plain BY <1>2, <1>4, FreeIs
  <2> QED BY <1>2, <2>1
<1>6. PICK rk : Ranked(h, rk) BY HeapIsRanked
<1>7. \A b \in I!Bufs : Parts(g, b) = Parts(h, b) \/ Parts(g, b) = {I!None}
      BY <1>2, FreeIs, PlainBufIs DEF Parts
<1>8. Ranked(g, rk) BY <1>6, <1>7 DEF Ranked
<1>9. g \in I!Heaps BY <1>5, <1>8, RankedIsHeap
<1>10. \A b \in K \cup {I!None} : I!Owned(g, b) = I!Owned(h, b)
       BY <1>1, <1>2, <1>9, OwnedAgrees
<1>11. I!Live(g, strs) = K BY <1>3, <1>10, <1>a, <1>b
<1>12. \A b \in K : I!Text(g, b) = I!Text(h, b)
  <2>1. \A b \in K : h[b].is_lazy_ => Parts(h, b) \subseteq K
    <3> SUFFICES ASSUME NEW b \in K, h[b].is_lazy_, NEW c \in Parts(h, b) PROVE c \in K
        OBVIOUS
    <3>1. c # I!None BY <1>1, HeapFields, BufsAreNumbers DEF Parts
    <3> QED BY <1>1, <3>1
  <2>2. \A b \in K : g[b] = h[b] \/ (~g[b].is_lazy_ /\ g[b].cstr_ = I!Text(h, b)) BY <1>2
  <2> QED BY <1>1, <1>9, <2>1, <2>2, TextAgrees
<1> QED BY <1>2, <1>9, <1>11, <1>12 DEF K, g

LEMMA LiveIsClosed ==
  ASSUME NEW h \in I!Heaps, NEW strs \in [Immutables -> I!Bufs \cup {I!None}]
  PROVE  Closed(h, I!Live(h, strs))
<1>1. /\ I!Live(h, strs) \subseteq I!Bufs
      /\ \A b \in I!Live(h, strs) : Parts(h, b) \subseteq I!Live(h, strs) \cup {I!None}
      BY LiveCloses
<1>2. ASSUME NEW b \in I!Live(h, strs), h[b].is_lazy_, NEW c \in Parts(h, b)
      PROVE  c \in I!Live(h, strs)
  <2>1. c # I!None BY <1>1, <1>2, HeapFields, BufsAreNumbers DEF Parts
  <2> QED BY <1>1, <2>1
<1> QED BY <1>1, <1>2 DEF Closed
-----------------------------------------------------------------------------
(* What c_str() leaves when an allocation fails: in some buffers that it   *)
(* marked as flat, characters that were never written.                     *)

Blurs(x, t) ==
  /\ x \in I!Texts /\ t \in I!Texts /\ Len(x) = Len(t)
  /\ \A k \in 1..Len(t) : x[k] = t[k] \/ x[k] = "?"

LEMMA BlurAlgebra ==
  /\ \A t \in I!Texts : Blurs(t, t) /\ Blurs(I!Garbage(t), t)
  /\ \A x, y, z : Blurs(x, y) /\ Blurs(y, z) => Blurs(x, z)
  /\ \A x, t, y, u : Blurs(x, t) /\ Blurs(y, u) => Blurs(x \o y, t \o u)
<1>1. ASSUME NEW t \in I!Texts PROVE Blurs(t, t) /\ Blurs(I!Garbage(t), t)
  <2>1. t \in Seq(Chars \cup {"?"}) /\ Len(t) \in Nat /\ DOMAIN t = 1..Len(t)
        BY LenProperties DEF I!Texts
  <2>2. I!Garbage(t) = [k \in 1..Len(t) |-> "?"] BY <2>1 DEF I!Garbage
  <2>3. I!Garbage(t) \in I!Texts /\ Len(I!Garbage(t)) = Len(t)
        BY <2>1, <2>2 DEF I!Texts
  <2>4. \A k \in 1..Len(t) : I!Garbage(t)[k] = "?" BY <2>2
  <2> QED BY <2>3, <2>4 DEF Blurs
<1>2. ASSUME NEW x, NEW y, NEW z, Blurs(x, y), Blurs(y, z) PROVE Blurs(x, z)
  <2>1. x \in I!Texts /\ z \in I!Texts /\ Len(x) = Len(y) /\ Len(y) = Len(z) BY <1>2 DEF Blurs
  <2>2. \A k \in 1..Len(z) : (x[k] = y[k] \/ x[k] = "?") /\ (y[k] = z[k] \/ y[k] = "?")
        BY <1>2, <2>1 DEF Blurs
  <2>3. \A k \in 1..Len(z) : x[k] = z[k] \/ x[k] = "?" BY <2>2
  <2>4. Len(x) = Len(z) BY <2>1
  <2> QED BY <2>1, <2>3, <2>4 DEF Blurs
<1>3. ASSUME NEW x, NEW t, NEW y, NEW u, Blurs(x, t), Blurs(y, u) PROVE Blurs(x \o y, t \o u)
  <2>1. /\ x \in I!Texts /\ t \in I!Texts /\ y \in I!Texts /\ u \in I!Texts
        /\ Len(x) = Len(t) /\ Len(y) = Len(u) /\ Len(t) \in Nat /\ Len(u) \in Nat
        BY <1>3, TextAlgebra DEF Blurs
  <2>2. /\ x \o y \in I!Texts /\ t \o u \in I!Texts /\ Len(x \o y) = Len(t) + Len(u)
        /\ Len(t \o u) = Len(t) + Len(u)
    <3>1. x \o y \in I!Texts /\ Len(x \o y) = Len(x) + Len(y) BY Zenon, <2>1, TextAlgebra
    <3>2. t \o u \in I!Texts /\ Len(t \o u) = Len(t) + Len(u) BY Zenon, <2>1, TextAlgebra
    <3> QED BY Zenon, <2>1, <3>1, <3>2
  <2>3. ASSUME NEW k \in 1..Len(t) + Len(u)
        PROVE  (x \o y)[k] = (t \o u)[k] \/ (x \o y)[k] = "?"
    <3>1. /\ x \in Seq(Chars \cup {"?"}) /\ y \in Seq(Chars \cup {"?"})
          /\ t \in Seq(Chars \cup {"?"}) /\ u \in Seq(Chars \cup {"?"})
          BY <2>1 DEF I!Texts
    <3>2. (x \o y)[k] = IF k <= Len(t) THEN x[k] ELSE y[k - Len(t)] BY <2>1, <3>1, ConcatProperties
    <3>3. (t \o u)[k] = IF k <= Len(t) THEN t[k] ELSE u[k - Len(t)] BY <3>1, ConcatProperties
    <3>4. k <= Len(t) => k \in 1..Len(t) BY <2>1
    <3>5. ~(k <= Len(t)) => k - Len(t) \in 1..Len(u) BY <2>1
    <3>6. \A j \in 1..Len(t) : x[j] = t[j] \/ x[j] = "?" BY <1>3 DEF Blurs
    <3>7. \A j \in 1..Len(u) : y[j] = u[j] \/ y[j] = "?" BY <1>3 DEF Blurs
    <3> QED BY <3>2, <3>3, <3>4, <3>5, <3>6, <3>7
  <2> QED BY <2>2, <2>3 DEF Blurs
<1> QED BY <1>1, <1>2, <1>3

\* A node became flat: its characters are what it said, or were not written.
Blots(g, e, d) == g[d].is_lazy_ /\ ~e[d].is_lazy_ /\ Blurs(e[d].cstr_, I!Text(g, d))

Smudges(g, e) == \A d \in I!Bufs : e[d] = g[d] \/ Blots(g, e, d)

LEMMA TextBlurs ==
  ASSUME NEW g \in I!Heaps, NEW e \in I!Heaps, Smudges(g, e)
  PROVE  \A d \in I!Bufs : Blurs(I!Text(e, d), I!Text(g, d))
<1>1. PICK rk : Ranked(g, rk) BY HeapIsRanked
<1>2. PICK re : Ranked(e, re) BY HeapIsRanked
<1> DEFINE T == {d \in I!Bufs : Blurs(I!Text(e, d), I!Text(g, d))}
<1>3. rk \in [I!Bufs -> Nat] BY <1>1 DEF Ranked
<1>4. \A d \in I!Bufs : (\A c \in I!Bufs : rk[c] < rk[d] => c \in T) => d \in T
  <2> SUFFICES ASSUME NEW d \in I!Bufs, \A c \in I!Bufs : rk[c] < rk[d] => c \in T
               PROVE  Blurs(I!Text(e, d), I!Text(g, d))
      OBVIOUS
  <2>1. CASE Blots(g, e, d)
    <3>1. I!Text(e, d) = e[d].cstr_ BY <1>2, <2>1, TextOfPlain, Zenon DEF Blots
    <3> QED BY <2>1, <3>1 DEF Blots
  <2>2. CASE e[d] = g[d] /\ ~g[d].is_lazy_
    <3>1. I!Text(e, d) = e[d].cstr_ BY <1>2, <2>2, TextOfPlain
    <3>2. I!Text(g, d) = g[d].cstr_ BY <1>1, <2>2, TextOfPlain
    <3>3. g[d].cstr_ \in I!Texts BY HeapFields
    <3> QED BY <2>2, <3>1, <3>2, <3>3, BlurAlgebra
  <2>3. CASE e[d] = g[d] /\ g[d].is_lazy_
    <3> DEFINE l == g[d].left_ r == g[d].right_
    <3>1. l \in I!Bufs /\ r \in I!Bufs BY <2>3, HeapFields
    <3>2. l # I!None /\ r # I!None BY <3>1, BufsAreNumbers
    <3>3. rk[l] < rk[d] /\ rk[r] < rk[d] BY <1>1, <3>1, <3>2 DEF Ranked, Parts
    <3>4. Blurs(I!Text(e, l), I!Text(g, l)) /\ Blurs(I!Text(e, r), I!Text(g, r)) BY <3>1, <3>3
    <3>5. I!Text(g, d) = I!Text(g, l) \o I!Text(g, r) BY <1>1, <2>3, TextOfLazy, Zenon
    <3>6. I!Text(e, d) = I!Text(e, e[d].left_) \o I!Text(e, e[d].right_)
          BY <1>2, <2>3, TextOfLazy
    <3>7. e[d].left_ = l /\ e[d].right_ = r BY <2>3
    <3> HIDE DEF l, r
    <3> QED BY <3>4, <3>5, <3>6, <3>7, BlurAlgebra
  <2> QED BY <2>1, <2>2, <2>3 DEF Smudges
<1>5. I!Bufs \subseteq T
  <2> HIDE DEF T
  <2> QED BY <1>3, <1>4, MeasureInduct
<1> QED BY <1>5

LEMMA SmudgesCompose ==
  ASSUME NEW g \in I!Heaps, NEW e \in I!Heaps, NEW f \in I!Heaps, Smudges(g, e), Smudges(e, f)
  PROVE  Smudges(g, f)
<1> SUFFICES ASSUME NEW d \in I!Bufs PROVE f[d] = g[d] \/ Blots(g, f, d)
    BY DEF Smudges
<1>1. (e[d] = g[d] \/ Blots(g, e, d)) /\ (f[d] = e[d] \/ Blots(e, f, d)) BY DEF Smudges
<1>2. CASE f[d] = e[d] BY <1>1, <1>2 DEF Blots
<1>3. CASE Blots(e, f, d)
  <2>1. e[d] = g[d] BY <1>1, <1>3 DEF Blots
  <2>2. Blurs(I!Text(e, d), I!Text(g, d)) BY TextBlurs
  <2>3. Blurs(f[d].cstr_, I!Text(e, d)) BY <1>3 DEF Blots
  <2>4. Blurs(f[d].cstr_, I!Text(g, d)) BY <2>2, <2>3, BlurAlgebra
  <2> QED BY <1>3, <2>1, <2>4 DEF Blots
<1> QED BY <1>1, <1>2, <1>3

\* The node that is flattened may be written again, as long as nothing wrong is written.
LEMMA SmudgesWrite ==
  ASSUME NEW g \in I!Heaps, NEW e \in I!Heaps, NEW f \in I!Heaps, NEW c \in I!Bufs, NEW t,
         Smudges(g, e), g[c].is_lazy_, Blurs(t, I!Text(g, c)),
         \A d \in I!Bufs \ {c} : f[d] = e[d], ~f[c].is_lazy_, f[c].cstr_ = t
  PROVE  Smudges(g, f)
<1> SUFFICES ASSUME NEW d \in I!Bufs PROVE f[d] = g[d] \/ Blots(g, f, d)
    BY DEF Smudges
<1>1. CASE d = c BY <1>1 DEF Blots
<1>2. CASE d # c BY <1>2 DEF Smudges, Blots
<1> QED BY <1>1, <1>2

LEMMA PlainBlurs ==
  ASSUME NEW g \in I!Heaps, NEW e \in I!Heaps, Smudges(g, e), NEW d \in I!Bufs, ~e[d].is_lazy_
  PROVE  Blurs(e[d].cstr_, I!Text(g, d))
<1>1. PICK re : Ranked(e, re) BY HeapIsRanked
<1>2. I!Text(e, d) = e[d].cstr_ BY <1>1, TextOfPlain, Zenon
<1>3. Blurs(I!Text(e, d), I!Text(g, d)) BY TextBlurs
<1> QED BY <1>2, <1>3

\* Whether or not it fails, a flattening writes no wrong character.
Blurred(u, g, c) == Smudges(g, u.h) /\ (u.ok => ~u.h[c].is_lazy_)

LEMMA FlattenBlurs ==
  ASSUME NEW F, Typed(F), NEW m \in 0..MaxTrees,
         \A k \in 0..MaxTrees : k < m =>
           \A g \in I!Heaps, c \in I!Bufs : Blurred(F[k][g][c], g, c),
         NEW g \in I!Heaps, NEW c \in I!Bufs
  PROVE  Blurred(Flatten(F, m, g, c), g, c)
<1>1. CASE ~g[c].is_lazy_
  <2>1. Flatten(F, m, g, c) = [h |-> g, n |-> m, ok |-> TRUE] BY <1>1 DEF Flatten
  <2> QED BY <1>1, <2>1 DEF Blurred, Smudges
<1>2. CASE g[c].is_lazy_ /\ m = 0
  <2>1. Flatten(F, m, g, c) = [h |-> g, n |-> 0, ok |-> FALSE] BY <1>2 DEF Flatten
  <2> QED BY <2>1 DEF Blurred, Smudges
<1>3. CASE g[c].is_lazy_ /\ m # 0
  <2> DEFINE l == g[c].left_ r == g[c].right_
             t1 == I!Garbage(I!Text(g, c)) g1 == Marked(g, c, t1)
             lhs == Lhs(F, m, g, c)
             t2 == lhs.h[l].cstr_ \o I!Garbage(I!Text(g, r)) g2 == Marked(lhs.h, c, t2)
             rhs == Rhs(F, g, c, lhs)
             t3 == rhs.h[l].cstr_ \o rhs.h[r].cstr_ h3 == Cut(rhs.h, c, t3)
  <2>1. /\ m - 1 \in 0..MaxTrees /\ m - 1 < m /\ l \in I!Bufs /\ r \in I!Bufs
        /\ lhs \in Results(m - 1) /\ lhs = F[m - 1][g1][l]
    <3>1. m - 1 < m OBVIOUS
    <3>2. lhs = F[m - 1][g1][l] BY DEF Lhs
    <3>3. m - 1 \in 0..MaxTrees /\ l \in I!Bufs /\ r \in I!Bufs /\ lhs \in Results(m - 1)
          BY <1>3, LhsType
    <3> QED BY <3>1, <3>2, <3>3
  <2> HIDE DEF lhs
  <2>2. /\ lhs.n \in 0..MaxTrees /\ lhs.n < m /\ t2 \in I!Texts
        /\ rhs \in Results(lhs.n) /\ rhs = F[lhs.n][g2][r]
    <3>1. rhs = F[lhs.n][g2][r] BY DEF Rhs
    <3>2. lhs.n \in 0..MaxTrees /\ lhs.n < m /\ t2 \in I!Texts /\ rhs \in Results(lhs.n)
          BY <1>3, <2>1, RhsType
    <3> QED BY <3>1, <3>2
  <2> HIDE DEF rhs
  <2>3. lhs.h \in I!Heaps /\ rhs.h \in I!Heaps BY <2>1, <2>2 DEF Results
  <2>4. t1 \in I!Texts /\ I!Text(g, c) \in I!Texts /\ I!Text(g, r) \in I!Texts BY <2>1, TextTypes
  <2>5. I!Text(g, c) = I!Text(g, l) \o I!Text(g, r)
    <3>1. PICK rk : Ranked(g, rk) BY HeapIsRanked
    <3> QED BY <1>3, <3>1, TextOfLazy, Zenon
  <2>6. Flatten(F, m, g, c) = IF ~lhs.ok THEN lhs ELSE IF ~rhs.ok THEN rhs
                              ELSE [h |-> h3, n |-> rhs.n, ok |-> TRUE]
        BY <1>3 DEF Flatten, Both, lhs, rhs
  <2>7. Blurs(t1, I!Text(g, c)) BY <2>4, BlurAlgebra
  <2> HIDE DEF t1
  <2>8. g1 \in I!Heaps /\ ~g1[c].is_lazy_ /\ g1[c].cstr_ = t1 /\ \A d \in I!Bufs \ {c} : g1[d] = g[d]
    <3>1. /\ g1[c] = [is_lazy_ |-> FALSE, cstr_ |-> t1, left_ |-> l, right_ |-> r]
          /\ \A d \in I!Bufs \ {c} : g1[d] = g[d]
          /\ g1 \in I!Heaps
          BY <2>4, MarkedIs
    <3> HIDE DEF g1
    <3> QED BY <3>1
  <2> HIDE DEF g1
  <2>9. Smudges(g, g) BY DEF Smudges
  <2>10. Smudges(g, g1) BY <1>3, <2>7, <2>8, <2>9, SmudgesWrite
  <2>11. Blurred(lhs, g1, l) BY <2>1, <2>8
  <2>12. Smudges(g, lhs.h) BY <2>3, <2>8, <2>10, <2>11, SmudgesCompose DEF Blurred
  <2> SUFFICES ASSUME lhs.ok PROVE Blurred(Flatten(F, m, g, c), g, c)
      BY <2>6, <2>12 DEF Blurred
  <2>13. ~lhs.h[l].is_lazy_ BY <2>11 DEF Blurred
  <2>14. Blurs(t2, I!Text(g, c))
    <3>1. Blurs(lhs.h[l].cstr_, I!Text(g, l)) BY <2>1, <2>3, <2>12, <2>13, PlainBlurs
    <3>2. Blurs(I!Garbage(I!Text(g, r)), I!Text(g, r)) BY <2>4, BlurAlgebra
    <3> QED BY <2>5, <3>1, <3>2, BlurAlgebra
  <2>15. g2 \in I!Heaps /\ ~g2[c].is_lazy_ /\ g2[c].cstr_ = t2
         /\ \A d \in I!Bufs \ {c} : g2[d] = lhs.h[d]
    <3> HIDE DEF t2
    <3>1. /\ g2[c] = [is_lazy_ |-> FALSE, cstr_ |-> t2, left_ |-> lhs.h[c].left_,
                      right_ |-> lhs.h[c].right_]
          /\ \A d \in I!Bufs \ {c} : g2[d] = lhs.h[d]
          /\ g2 \in I!Heaps
          BY <2>2, <2>3, MarkedIs
    <3> HIDE DEF g2
    <3> QED BY <3>1
  <2> HIDE DEF t2, g2
  <2>16. Smudges(g, g2) BY <1>3, <2>3, <2>12, <2>14, <2>15, SmudgesWrite
  <2>17. Blurred(rhs, g2, r) BY <2>1, <2>2, <2>15
  <2>18. Smudges(g, rhs.h) BY <2>3, <2>15, <2>16, <2>17, SmudgesCompose DEF Blurred
  <2> SUFFICES ASSUME rhs.ok PROVE Blurred(Flatten(F, m, g, c), g, c)
      BY <2>6, <2>18 DEF Blurred
  <2>19. ~rhs.h[r].is_lazy_ BY <2>17 DEF Blurred
  <2>20. ~rhs.h[l].is_lazy_
    <3>1. ~g2[l].is_lazy_ BY <2>1, <2>13, <2>15
    <3>2. rhs.h[l] = g2[l] \/ ~rhs.h[l].is_lazy_ BY <2>1, <2>17 DEF Blurred, Smudges, Blots
    <3> QED BY <3>1, <3>2
  <2>21. Blurs(t3, I!Text(g, c))
    <3>1. Blurs(rhs.h[l].cstr_, I!Text(g, l)) BY <2>1, <2>3, <2>18, <2>20, PlainBlurs
    <3>2. Blurs(rhs.h[r].cstr_, I!Text(g, r)) BY <2>1, <2>3, <2>18, <2>19, PlainBlurs
    <3> QED BY <2>5, <3>1, <3>2, BlurAlgebra
  <2>22. t3 \in I!Texts BY <2>21 DEF Blurs
  <2> HIDE DEF t3
  <2>23. h3 \in I!Heaps /\ ~h3[c].is_lazy_ /\ h3[c].cstr_ = t3
         /\ \A d \in I!Bufs \ {c} : h3[d] = rhs.h[d]
         BY <2>3, <2>22, CutIs, PlainBufIs
  <2> HIDE DEF h3
  <2>24. Smudges(g, h3) BY <1>3, <2>3, <2>18, <2>21, <2>23, SmudgesWrite
  <2> QED BY <2>6, <2>23, <2>24 DEF Blurred
<1> QED BY <1>1, <1>2, <1>3

LEMMA UnlazyBlurs ==
  ASSUME NEW h \in I!Heaps, NEW b \in I!Bufs, NEW n \in 0..MaxTrees
  PROVE  Smudges(h, I!unlazy(h, b, n).h)
<1>1. PICK F : /\ Typed(F)
               /\ \A m \in 0..MaxTrees, g \in I!Heaps, c \in I!Bufs :
                    F[m][g][c] = Flatten(F, m, g, c) /\ I!unlazy(g, c, m) = F[m][g][c]
      BY UnlazyIs
<1> DEFINE D == 0..MaxTrees
           mu == [m \in D |-> m]
           T == {m \in D : \A g \in I!Heaps, c \in I!Bufs : Blurred(F[m][g][c], g, c)}
<1>2. \A m \in D : (\A k \in D : mu[k] < mu[m] => k \in T) => m \in T
  <2> SUFFICES ASSUME NEW m \in D, \A k \in D : mu[k] < mu[m] => k \in T,
                      NEW g \in I!Heaps, NEW c \in I!Bufs
               PROVE  Blurred(F[m][g][c], g, c)
      OBVIOUS
  <2>1. \A k \in D : k < m => \A e \in I!Heaps, d \in I!Bufs : Blurred(F[k][e][d], e, d)
        OBVIOUS
  <2>2. Blurred(Flatten(F, m, g, c), g, c)
    <3> HIDE DEF T
    <3> QED BY <1>1, <2>1, FlattenBlurs
  <2> QED BY <1>1, <2>2
<1>3. D \subseteq T
  <2>1. mu \in [D -> Nat] OBVIOUS
  <2> HIDE DEF T, D, mu
  <2> QED BY <1>2, <2>1, MeasureInduct
<1>4. Blurred(F[n][h][b], h, b) BY <1>3
<1> QED BY <1>1, <1>4 DEF Blurred

-----------------------------------------------------------------------------
(* The invariant of the immutable strings.                                 *)

Alive == I!Live(bufs, shared_imstring_buf_)

TreesFit ==
  /\ shared_imstring_buf_ \in [Immutables -> I!Bufs \cup {I!None}] /\ bufs \in I!Heaps
  /\ said \in [Immutables -> I!Texts] /\ unlazyFailed \in BOOLEAN
  /\ \A b \in I!Bufs \ Alive : bufs[b] = I!Free

TreesSay ==
  \A s \in Immutables : shared_imstring_buf_[s] # I!None =>
    I!Text(bufs, shared_imstring_buf_[s]) = said[s]

\* After a failure too, no character of a string is wrong.
TreesBlur ==
  \A s \in Immutables : shared_imstring_buf_[s] # I!None =>
    Blurs(I!Text(bufs, shared_imstring_buf_[s]), said[s])

\* What was passed, the character that is shown and what is ahead are the text.
OnTheWay(R) ==
  \E passed \in I!Texts :
    /\ Len(passed) = walked.at - 1
    /\ walked.text = passed \o (<<Shown(bufs, dfs_stack_)>> \o R[dfs_stack_])

WalkInv ==
  /\ dfs_stack_ \in Seq(Walkable(bufs, Alive)) /\ walked \in [text : I!Texts, at : Nat]
  /\ dfs_stack_ = <<>> => walked = I!NotWalking \/ walked.at = Len(walked.text) + 1
  /\ dfs_stack_ # <<>> =>
       /\ ~bufs[I!Top(dfs_stack_).buf].is_lazy_ /\ <<Shown(bufs, dfs_stack_)>> \in I!Texts
       /\ \E R : Ahead(bufs, Alive, R) /\ OnTheWay(R)

TreeInv == TreesFit /\ TreesBlur /\ (unlazyFailed \/ (TreesSay /\ WalkInv))

LEMMA AliveIsClosed ==
  ASSUME TreesFit
  PROVE  /\ Closed(bufs, Alive) /\ Alive \in SUBSET I!Bufs
         /\ \A s \in Immutables : shared_imstring_buf_[s] # I!None => shared_imstring_buf_[s] \in Alive
<1>1. bufs \in I!Heaps /\ shared_imstring_buf_ \in [Immutables -> I!Bufs \cup {I!None}] BY DEF TreesFit
<1>2. Closed(bufs, Alive) BY <1>1, LiveIsClosed DEF Alive
<1>3. \A s \in Immutables : shared_imstring_buf_[s] # I!None => shared_imstring_buf_[s] \in Alive
      BY <1>1, LiveCloses DEF Alive
<1> QED BY <1>2, <1>3 DEF Closed

LEMMA TreeInvImplies == TreeInv => ReadsItsText
<1> SUFFICES ASSUME TreeInv PROVE ReadsItsText
    OBVIOUS
<1>2. I!SaysItsText
  <2> SUFFICES ASSUME NEW s \in Immutables, shared_imstring_buf_[s] # I!None
               PROVE  LET text == I!Text(bufs, shared_imstring_buf_[s]) IN
                      /\ DOMAIN text = DOMAIN said[s]
                      /\ \A k \in DOMAIN text :
                           text[k] = said[s][k] \/ (unlazyFailed /\ text[k] = "?")
      BY Zenon DEF I!SaysItsText, I!Exists
  <2> DEFINE text == I!Text(bufs, shared_imstring_buf_[s])
  <2>1. Blurs(text, said[s]) BY DEF TreeInv, TreesBlur
  <2>2. unlazyFailed \/ text = said[s] BY DEF TreeInv, TreesSay
  <2> HIDE DEF text
  <2>3. DOMAIN text = 1..Len(said[s]) /\ DOMAIN said[s] = 1..Len(said[s])
    <3>1. /\ text \in Seq(Chars \cup {"?"}) /\ said[s] \in Seq(Chars \cup {"?"})
          /\ Len(text) = Len(said[s])
          BY <2>1 DEF Blurs, I!Texts
    <3> QED BY <3>1, LenProperties
  <2>4. \A k \in 1..Len(said[s]) : text[k] = said[s][k] \/ (unlazyFailed /\ text[k] = "?")
        BY Zenon, <2>1, <2>2 DEF Blurs
  <2> QED BY Zenon, <2>3, <2>4 DEF text
<1> SUFFICES ASSUME ~unlazyFailed PROVE ReadsItsText
    BY Zenon, <1>2 DEF ReadsItsText, I!WalksTheText
<1>1. TreesFit /\ TreesSay /\ WalkInv BY DEF TreeInv
<1>3. ASSUME dfs_stack_ # <<>>
      PROVE  /\ walked.at \in DOMAIN walked.text
             /\ Shown(bufs, dfs_stack_) = walked.text[walked.at]
  <2>1. PICK R : Ahead(bufs, Alive, R) /\ OnTheWay(R) BY <1>1, <1>3 DEF WalkInv
  <2>2. PICK passed \in I!Texts :
          /\ Len(passed) = walked.at - 1
          /\ walked.text = passed \o (<<Shown(bufs, dfs_stack_)>> \o R[dfs_stack_])
        BY <2>1 DEF OnTheWay
  <2>3. walked.text \in I!Texts /\ walked.at \in Nat /\ <<Shown(bufs, dfs_stack_)>> \in I!Texts
        BY <1>1, <1>3 DEF WalkInv
  <2>4. R[dfs_stack_] \in I!Texts BY <1>1, <2>1 DEF Ahead, WalkInv
  <2> DEFINE c == <<Shown(bufs, dfs_stack_)>> rest == R[dfs_stack_] all == c \o rest
  <2>5. Len(c) = 1 /\ c[1] = Shown(bufs, dfs_stack_) OBVIOUS
  <2>6. c \in I!Texts /\ rest \in I!Texts /\ walked.text = passed \o all BY <2>2, <2>3, <2>4
  <2> HIDE DEF c, rest
  <2>7. all \in I!Texts /\ Len(all) = Len(c) + Len(rest) /\ Len(rest) \in Nat BY <2>6, TextAlgebra
  <2>8. all[1] = c[1]
    <3>1. c \in Seq(Chars \cup {"?"}) /\ rest \in Seq(Chars \cup {"?"}) BY <2>6 DEF I!Texts
    <3>2. 1 \in 1..Len(c) + Len(rest) /\ 1 <= Len(c) BY <2>5, <2>7
    <3> QED BY <3>1, <3>2, ConcatProperties
  <2> HIDE DEF all
  <2>9. passed \in Seq(Chars \cup {"?"}) /\ all \in Seq(Chars \cup {"?"}) BY <2>7 DEF I!Texts
  <2>10. Len(passed) \in Nat /\ Len(all) >= 1 /\ Len(all) \in Nat BY <2>5, <2>7, TextAlgebra
  <2>11. walked.at = Len(passed) + 1 BY <2>2, <2>3, <2>10
  <2>12. walked.at \in 1..Len(passed) + Len(all) /\ ~(walked.at <= Len(passed))
         /\ walked.at - Len(passed) = 1
         BY <2>10, <2>11
  <2>13. Len(walked.text) = Len(passed) + Len(all) /\ walked.text[walked.at] = all[1]
         BY <2>6, <2>9, <2>12, ConcatProperties
  <2>14. DOMAIN walked.text = 1..Len(walked.text) BY <2>3, LenProperties DEF I!Texts
  <2> QED BY <2>5, <2>8, <2>12, <2>13, <2>14
<1>4. I!WalksTheText
  <2>1. dfs_stack_ = <<>> /\ walked # I!NotWalking => walked.at = Len(walked.text) + 1
        BY <1>1 DEF WalkInv
  <2> QED BY Zenon, <1>3, <2>1 DEF I!WalksTheText, Shown
<1> QED BY <1>2, <1>4 DEF ReadsItsText

LEMMA TreeInit == I!Init => TreeInv
<1> SUFFICES ASSUME I!Init PROVE TreeInv
    OBVIOUS
<1>1. /\ shared_imstring_buf_ = [s \in Immutables |-> I!None] /\ bufs = [b \in I!Bufs |-> I!Free]
      /\ dfs_stack_ = <<>> /\ walked = I!NotWalking /\ said = [s \in Immutables |-> <<>>]
      /\ unlazyFailed = FALSE
      BY DEF I!Init
<1>2. bufs \in I!Heaps
  <2>1. bufs \in [I!Bufs -> I!Lazy \cup I!Plain] BY <1>1, FreeIs
  <2>2. \A b \in I!Bufs : Parts(bufs, b) = {I!None} BY <1>1, FreeIs, PlainBufIs DEF Parts
  <2>3. Ranked(bufs, [b \in I!Bufs |-> 0]) BY <2>2 DEF Ranked
  <2> QED BY <2>1, <2>3, RankedIsHeap
<1>3. TreesFit BY <1>1, <1>2, TextAlgebra DEF TreesFit
<1>4. TreesSay BY <1>1 DEF TreesSay
<1>5. WalkInv
  <2>1. dfs_stack_ \in Seq(Walkable(bufs, Alive)) BY <1>1, EmptySeq
  <2>2. walked \in [text : I!Texts, at : Nat] BY <1>1, TextAlgebra DEF I!NotWalking
  <2> QED BY <1>1, <2>1, <2>2 DEF WalkInv
<1>6. TreesBlur BY <1>1 DEF TreesBlur
<1> QED BY <1>3, <1>4, <1>5, <1>6 DEF TreeInv

LEMMA TreeKeeps == ASSUME TreeInv, UNCHANGED treeVars PROVE TreeInv'
BY Zenon DEF treeVars, TreeInv, TreesFit, TreesSay, TreesBlur, WalkInv, OnTheWay, Alive, I!Bufs
-----------------------------------------------------------------------------
(* A step that changes the buffers or the strings.                         *)

LEMMA BecomesFit ==
  ASSUME NEW h \in I!Heaps, NEW strs \in [Immutables -> I!Bufs \cup {I!None}], I!Becomes(h, strs),
         said' \in [Immutables -> I!Texts], unlazyFailed' \in BOOLEAN
  PROVE  /\ TreesFit' /\ shared_imstring_buf_' = strs /\ Alive' = I!Live(h, strs)
         /\ \A b \in I!Live(h, strs) : bufs'[b] = h[b] /\ I!Text(bufs', b) = I!Text(h, b)
<1>1. shared_imstring_buf_' = strs /\ bufs' = I!Swept(h, strs) BY DEF I!Becomes
<1>2. /\ bufs' \in I!Heaps /\ I!Live(bufs', strs) = I!Live(h, strs)
      /\ \A b \in I!Live(h, strs) : bufs'[b] = h[b] /\ I!Text(bufs', b) = I!Text(h, b)
      /\ \A b \in I!Bufs \ I!Live(h, strs) : bufs'[b] = I!Free
      BY <1>1, SweptIs
<1>3. Alive' = I!Live(h, strs) BY <1>1, <1>2 DEF Alive
<1>4. TreesFit' BY <1>1, <1>2, <1>3 DEF TreesFit
<1> QED BY <1>1, <1>2, <1>3, <1>4

LEMMA TextsKept ==
  ASSUME TreesFit, NEW h \in I!Heaps, \A b \in Alive : h[b] = bufs[b] \/ Cuts(bufs, h, b)
  PROVE  \A b \in Alive : I!Text(h, b) = I!Text(bufs, b)
<1>1. bufs \in I!Heaps BY DEF TreesFit
<1>2. Alive \in SUBSET I!Bufs /\ \A b \in Alive : bufs[b].is_lazy_ => Parts(bufs, b) \subseteq Alive
      BY AliveIsClosed DEF Closed
<1>3. \A b \in Alive : h[b] = bufs[b] \/ (~h[b].is_lazy_ /\ h[b].cstr_ = I!Text(bufs, b))
  <2> TAKE b \in Alive
  <2>1. CASE h[b] = bufs[b] BY <2>1
  <2>2. CASE Cuts(bufs, h, b) BY <2>2, PlainBufIs DEF Cuts
  <2> QED BY <2>1, <2>2
<1> HIDE DEF Alive
<1> QED BY <1>1, <1>2, <1>3, TextAgrees

LEMMA StepTextKept ==
  ASSUME NEW g \in I!Heaps, NEW K, Closed(g, K), NEW e \in I!Heaps, NEW t \in Walkable(g, K),
         e[t.buf] = g[t.buf], g[t.buf].is_lazy_ => \A c \in Parts(g, t.buf) : I!Text(e, c) = I!Text(g, c)
  PROVE  StepText(e, t) = StepText(g, t)
<1>1. CASE g[t.buf].is_lazy_
  <2>1. /\ I!Text(e, g[t.buf].left_) = I!Text(g, g[t.buf].left_)
        /\ I!Text(e, g[t.buf].right_) = I!Text(g, g[t.buf].right_)
        BY <1>1 DEF Parts
  <2>2. LeftText(e, t) = LeftText(g, t) /\ RightText(e, t) = RightText(g, t)
        BY <2>1 DEF LeftText, RightText
  <2> QED BY <1>1, <2>2 DEF StepText
<1>2. CASE ~g[t.buf].is_lazy_ BY <1>2 DEF StepText
<1> QED BY <1>1, <1>2

LEMMA BecomesWalks ==
  ASSUME TreesFit, WalkInv, TreesFit', NEW h \in I!Heaps,
         NEW strs \in [Immutables -> I!Bufs \cup {I!None}], I!Becomes(h, strs),
         Alive' = I!Live(h, strs),
         \A b \in Alive' : bufs'[b] = h[b] /\ I!Text(bufs', b) = I!Text(h, b),
         \A b \in Alive : h[b] = bufs[b] \/ Cuts(bufs, h, b)
  PROVE  WalkInv'
<1> DEFINE Spoilt(b) == b \notin I!Live(h, strs) \/ h[b].is_lazy_ # bufs[b].is_lazy_
           spoilt == \E k \in DOMAIN dfs_stack_ : Spoilt(dfs_stack_[k].buf)
<1>1. /\ dfs_stack_' = IF spoilt THEN <<>> ELSE dfs_stack_
      /\ walked' = IF spoilt THEN I!NotWalking ELSE walked
      BY DEF I!Becomes
<1>2. CASE spoilt
  <2>1. dfs_stack_' = <<>> /\ walked' = I!NotWalking BY <1>1, <1>2
  <2>2. dfs_stack_' \in Seq(Walkable(bufs', Alive')) BY <2>1, EmptySeq
  <2>3. walked' \in [text : I!Texts, at : Nat] BY <2>1, TextAlgebra DEF I!NotWalking
  <2> QED BY <2>1, <2>2, <2>3 DEF WalkInv
<1>3. CASE ~spoilt
  <2>1. dfs_stack_' = dfs_stack_ /\ walked' = walked BY <1>1, <1>3
  <2>2. bufs \in I!Heaps /\ bufs' \in I!Heaps BY DEF TreesFit
  <2>3. Closed(bufs, Alive) /\ Alive \in SUBSET I!Bufs BY AliveIsClosed
  <2>4. Closed(h, Alive') BY LiveIsClosed
  <2>5. dfs_stack_ \in Seq(Walkable(bufs, Alive)) BY DEF WalkInv
  <2> DEFINE A == {t \in Walkable(bufs, Alive) :
                     t.buf \in Alive' /\ (h[t.buf].is_lazy_ = bufs[t.buf].is_lazy_)}
  <2>6. dfs_stack_ \in Seq(A)
    <3>1. \A k \in DOMAIN dfs_stack_ : ~Spoilt(dfs_stack_[k].buf) BY <1>3
    <3>2. \A k \in 1..Len(dfs_stack_) : dfs_stack_[k] \in A
      <4> TAKE k \in 1..Len(dfs_stack_)
      <4>1. k \in DOMAIN dfs_stack_ /\ dfs_stack_[k] \in Walkable(bufs, Alive)
            BY <2>5, ElementOfSeq, LenProperties
      <4>2. ~Spoilt(dfs_stack_[k].buf) BY <3>1, <4>1
      <4> QED BY <4>1, <4>2
    <3> HIDE DEF A, Spoilt
    <3> QED BY <2>5, <3>2, SeqDef, LenProperties
  <2> HIDE DEF spoilt, Spoilt
  <2>7. \A b \in Alive : I!Text(h, b) = I!Text(bufs, b) BY TextsKept
  <2>8. ASSUME NEW t \in A
        PROVE  /\ t \in Walkable(bufs, Alive) /\ t.buf \in Alive /\ t.buf \in Alive'
               /\ bufs'[t.buf] = bufs[t.buf]
               /\ StepText(bufs', t) = StepText(bufs, t) /\ t \in Walkable(bufs', Alive')
    <3>1. t \in Walkable(bufs, Alive) /\ t.buf \in Alive' /\ t.buf \in Alive
          /\ (h[t.buf].is_lazy_ = bufs[t.buf].is_lazy_)
          BY DEF Walkable
    <3> HIDE DEF A
    <3>2. h[t.buf] = bufs[t.buf]
      <4>1. t.buf \in I!Bufs BY <2>3, <3>1
      <4>2. h[t.buf].is_lazy_ \in BOOLEAN /\ bufs[t.buf].is_lazy_ \in BOOLEAN BY <2>2, <4>1, HeapFields
      <4>3. ~Cuts(bufs, h, t.buf)
        <5> SUFFICES ASSUME Cuts(bufs, h, t.buf) PROVE FALSE
            OBVIOUS
        <5>1. bufs[t.buf].is_lazy_ /\ ~h[t.buf].is_lazy_ BY PlainBufIs DEF Cuts
        <5> QED BY <3>1, <4>2, <5>1
      <4> QED BY <3>1, <4>3
    <3>3. bufs'[t.buf] = bufs[t.buf] BY <3>1, <3>2
    <3>4. bufs[t.buf].is_lazy_ => \A c \in Parts(bufs, t.buf) : I!Text(bufs', c) = I!Text(bufs, c)
      <4> SUFFICES ASSUME bufs[t.buf].is_lazy_, NEW c \in Parts(bufs, t.buf)
                   PROVE  I!Text(bufs', c) = I!Text(bufs, c)
          OBVIOUS
      <4>1. c \in Alive BY <2>3, <3>1 DEF Closed
      <4>2. h[t.buf].is_lazy_ /\ c \in Parts(h, t.buf) BY <3>2 DEF Parts
      <4>3. c \in Alive' BY <2>4, <3>1, <4>2 DEF Closed
      <4> QED BY <2>7, <4>1, <4>3
    <3>5. StepText(bufs', t) = StepText(bufs, t) BY <2>2, <2>3, <3>1, <3>3, <3>4, StepTextKept
    <3>6. t \in Walkable(bufs', Alive') BY <3>1, <3>3 DEF Walkable
    <3> QED BY <3>1, <3>3, <3>5, <3>6
  <2>9. A \subseteq Walkable(bufs, Alive) /\ A \subseteq Walkable(bufs', Alive') BY <2>8
  <2> HIDE DEF A
  <2>10. dfs_stack_' \in Seq(Walkable(bufs', Alive'))
    <3>1. dfs_stack_ \in Seq(Walkable(bufs', Alive')) BY <2>6, <2>9, SeqMonotonic
    <3> QED BY <2>1, <3>1
  <2>11. walked' \in [text : I!Texts, at : Nat]
         /\ (dfs_stack_' = <<>> => walked' = I!NotWalking \/ walked'.at = Len(walked'.text) + 1)
         BY <2>1 DEF WalkInv
  <2>12. ASSUME dfs_stack_ # <<>>
         PROVE  /\ ~bufs'[I!Top(dfs_stack_).buf].is_lazy_ /\ <<Shown(bufs', dfs_stack_)>> \in I!Texts
                /\ \E R : Ahead(bufs', Alive', R) /\ OnTheWay(R)'
    <3>1. I!Top(dfs_stack_) \in A BY <2>6, <2>12, TopRest
    <3>2. bufs'[I!Top(dfs_stack_).buf] = bufs[I!Top(dfs_stack_).buf] BY <2>8, <3>1
    <3>3. Shown(bufs', dfs_stack_) = Shown(bufs, dfs_stack_) BY <3>2 DEF Shown
    <3>4. PICK R : Ahead(bufs, Alive, R) /\ OnTheWay(R) BY <2>12 DEF WalkInv
    <3>5. PICK Q : Ahead(bufs', Alive', Q) BY <2>2, HasAhead
    <3>6. \A t \in A : StepText(bufs, t) = StepText(bufs', t) BY <2>8
    <3>7. R[dfs_stack_] = Q[dfs_stack_] BY <2>6, <2>9, <3>4, <3>5, <3>6, AheadAgrees
    <3>8. OnTheWay(Q)' BY <2>1, <3>3, <3>4, <3>7 DEF OnTheWay
    <3>9. ~bufs'[I!Top(dfs_stack_).buf].is_lazy_ /\ <<Shown(bufs', dfs_stack_)>> \in I!Texts
          BY <2>12, <3>2, <3>3 DEF WalkInv
    <3> QED BY <3>5, <3>8, <3>9
  <2> QED BY <2>1, <2>10, <2>11, <2>12 DEF WalkInv
<1> QED BY <1>2, <1>3
-----------------------------------------------------------------------------
(* A new string over a new buffer.                                         *)

LEMMA MakeFits ==
  ASSUME TreesFit, NEW b \in I!Bufs \ Alive, NEW buf \in I!Lazy \cup I!Plain,
         buf.left_ \in Alive \cup {I!None}, buf.right_ \in Alive \cup {I!None}
  PROVE  /\ [bufs EXCEPT ![b] = buf] \in I!Heaps /\ [bufs EXCEPT ![b] = buf][b] = buf
         /\ \A d \in Alive : [bufs EXCEPT ![b] = buf][d] = bufs[d]
<1> DEFINE h == [bufs EXCEPT ![b] = buf]
<1>1. bufs \in [I!Bufs -> I!Lazy \cup I!Plain] /\ bufs \in I!Heaps BY DEF TreesFit, I!Heaps
<1>2. Alive \in SUBSET I!Bufs BY AliveIsClosed
<1>3. h \in [I!Bufs -> I!Lazy \cup I!Plain] /\ h[b] = buf /\ \A d \in I!Bufs \ {b} : h[d] = bufs[d]
      BY <1>1
<1> HIDE DEF h
<1>4. PICK rk : Ranked(bufs, rk) BY <1>1, HeapIsRanked
<1>5. rk \in [I!Bufs -> Nat] BY <1>4 DEF Ranked
<1>6. \A d \in Alive : Parts(bufs, d) \subseteq Alive \cup {I!None}
      BY <1>1, LiveCloses DEF Alive, TreesFit
<1>7. \A d \in I!Bufs \ {b} : b \notin Parts(bufs, d)
  <2> SUFFICES ASSUME NEW d \in I!Bufs \ {b}, b \in Parts(bufs, d) PROVE FALSE
      OBVIOUS
  <2>1. b # I!None BY BufsAreNumbers
  <2>2. d \notin Alive BY <1>6, <2>1
  <2>3. bufs[d] = I!Free BY <2>2 DEF TreesFit
  <2>4. Parts(bufs, d) = {I!None} BY <2>3, FreeIs, PlainBufIs DEF Parts
  <2> QED BY <2>1, <2>4
<1> DEFINE l == buf.left_ r == buf.right_
           lr == IF l = I!None THEN 0 ELSE rk[l]
           rr == IF r = I!None THEN 0 ELSE rk[r]
           rk2 == [rk EXCEPT ![b] = lr + rr + 1]
<1>8. lr \in Nat /\ rr \in Nat BY <1>2, <1>5
<1>9. rk2 \in [I!Bufs -> Nat] BY <1>5, <1>8
<1>10. rk2[b] = lr + rr + 1 /\ \A c \in I!Bufs : c # b => rk2[c] = rk[c] BY <1>5
<1>11. \A c \in {l, r} \ {I!None} : rk[c] <= lr + rr /\ rk[c] \in Nat /\ c # b /\ c \in I!Bufs
       BY <1>2, <1>5, <1>8
<1> HIDE DEF rk2
<1>12. Ranked(h, rk2)
  <2> SUFFICES ASSUME NEW d \in I!Bufs, NEW c \in Parts(h, d) \ {I!None} PROVE rk2[c] < rk2[d]
      BY <1>9 DEF Ranked
  <2>1. CASE d = b
    <3>1. c \in {l, r} \ {I!None} BY <1>3, <2>1 DEF Parts
    <3> HIDE DEF lr, rr, l, r
    <3> QED BY <1>8, <1>10, <1>11, <2>1, <3>1
  <2>2. CASE d # b
    <3>1. c \in Parts(bufs, d) BY <1>3, <2>2 DEF Parts
    <3>2. c # b BY <1>7, <2>2, <3>1
    <3>3. rk[c] < rk[d] BY <1>4, <3>1 DEF Ranked
    <3>4. c \in I!Bufs BY <1>1, <3>1, HeapFields DEF Parts
    <3> QED BY <1>10, <2>2, <3>2, <3>3, <3>4
  <2> QED BY <2>1, <2>2
<1>13. h \in I!Heaps BY <1>3, <1>12, RankedIsHeap
<1>14. \A d \in Alive : h[d] = bufs[d] BY <1>2, <1>3
<1> QED BY <1>3, <1>13, <1>14 DEF h

LEMMA PieceIsText == \A t \in Pieces : t \in I!Texts
<1>1. Seq(Chars) \subseteq Seq(Chars \cup {"?"}) BY SeqMonotonic
<1> QED BY <1>1, ImmutablesAssumption DEF I!Texts

LEMMA MakeTree ==
  ASSUME TreeInv, NEW s \in Immutables, NEW text \in I!Texts, NEW buf \in I!Lazy \cup I!Plain,
         buf.left_ \in Alive \cup {I!None}, buf.right_ \in Alive \cup {I!None},
         NEW says, says = IF buf.is_lazy_ THEN I!Text(bufs, buf.left_) \o I!Text(bufs, buf.right_)
                          ELSE buf.cstr_,
         Blurs(says, text), unlazyFailed \/ says = text,
         I!Make(s, text, buf)
  PROVE  TreeInv'
<1> DEFINE b == CHOOSE c \in I!Unused : \A d \in I!Unused : c <= d
           h == [bufs EXCEPT ![b] = buf]
           strs == [shared_imstring_buf_ EXCEPT ![s] = b]
<1>1. /\ I!Unused # {} /\ I!Becomes(h, strs) /\ said' = [said EXCEPT ![s] = text]
      /\ unlazyFailed' = unlazyFailed
      BY DEF I!Make
<1>2. b \in I!Unused
  <2>1. I!Unused \subseteq Nat BY BufsAreNumbers DEF I!Unused
  <2>2. \E c \in I!Unused : \A d \in I!Unused : c <= d BY <1>1, <2>1, Smallest
  <2> QED BY Zenon, <2>2
<1>3. b \in I!Bufs \ Alive BY <1>2 DEF I!Unused, Alive
<1> HIDE DEF b
<1>4. TreesFit /\ shared_imstring_buf_ \in [Immutables -> I!Bufs \cup {I!None}] /\ bufs \in I!Heaps
      /\ said \in [Immutables -> I!Texts] /\ unlazyFailed \in BOOLEAN
      BY DEF TreeInv, TreesFit
<1>5. h \in I!Heaps /\ h[b] = buf /\ \A d \in Alive : h[d] = bufs[d] BY <1>3, <1>4, MakeFits
<1> HIDE DEF h
<1>6. /\ strs \in [Immutables -> I!Bufs \cup {I!None}] /\ strs[s] = b
      /\ \A x \in Immutables : x # s => strs[x] = shared_imstring_buf_[x]
      BY <1>3, <1>4
<1> HIDE DEF strs
<1>7. said' \in [Immutables -> I!Texts] /\ unlazyFailed' \in BOOLEAN BY <1>1, <1>4
<1>8. /\ TreesFit' /\ shared_imstring_buf_' = strs /\ Alive' = I!Live(h, strs)
      /\ \A d \in I!Live(h, strs) : bufs'[d] = h[d] /\ I!Text(bufs', d) = I!Text(h, d)
      BY <1>1, <1>5, <1>6, <1>7, BecomesFit
<1>10. \A d \in Alive : h[d] = bufs[d] \/ Cuts(bufs, h, d) BY <1>5
<1>11. \A d \in Alive : I!Text(h, d) = I!Text(bufs, d) BY <1>4, <1>5, <1>10, TextsKept
<1>12. I!Text(h, b) = says
  <2>1. PICK rk : Ranked(h, rk) BY <1>5, HeapIsRanked
  <2>2. CASE buf.is_lazy_
    <3>1. I!Text(h, b) = I!Text(h, buf.left_) \o I!Text(h, buf.right_)
          BY <1>3, <1>5, <2>1, <2>2, TextOfLazy
    <3>2. buf.left_ \in I!Bufs /\ buf.right_ \in I!Bufs BY <1>3, <1>5, <2>2, HeapFields
    <3>3. buf.left_ \in Alive /\ buf.right_ \in Alive BY <3>2, BufsAreNumbers
    <3>4. says = I!Text(bufs, buf.left_) \o I!Text(bufs, buf.right_) BY <2>2
    <3> QED BY <1>11, <3>1, <3>3, <3>4
  <2>3. CASE ~buf.is_lazy_
    <3>1. I!Text(h, b) = buf.cstr_ BY <1>3, <1>5, <2>1, <2>3, TextOfPlain
    <3> QED BY <2>3, <3>1
  <2> QED BY <2>2, <2>3
<1>13. \A x \in Immutables : strs[x] # I!None => strs[x] \in I!Live(h, strs)
       BY <1>5, <1>6, LiveCloses
<1>16. TreesBlur'
  <2> SUFFICES ASSUME NEW x \in Immutables, strs[x] # I!None
               PROVE  Blurs(I!Text(bufs', strs[x]), said'[x])
      BY <1>8 DEF TreesBlur
  <2>1. I!Text(bufs', strs[x]) = I!Text(h, strs[x]) BY <1>8, <1>13
  <2>2. CASE x = s BY <1>1, <1>4, <1>6, <1>12, <2>1, <2>2
  <2>3. CASE x # s
    <3>1. strs[x] = shared_imstring_buf_[x] /\ shared_imstring_buf_[x] \in Alive
          BY <1>4, <1>6, <2>3, AliveIsClosed
    <3>2. Blurs(I!Text(bufs, shared_imstring_buf_[x]), said[x])
          BY <2>3, <3>1 DEF TreeInv, TreesBlur
    <3>3. said'[x] = said[x] BY <1>1, <1>4, <2>3
    <3> QED BY <1>11, <2>1, <3>1, <3>2, <3>3
  <2> QED BY <2>2, <2>3
<1> SUFFICES ASSUME ~unlazyFailed PROVE TreeInv'
    BY <1>1, <1>8, <1>16 DEF TreeInv
<1>9. TreesSay /\ WalkInv BY DEF TreeInv
<1>14. TreesSay'
  <2> SUFFICES ASSUME NEW x \in Immutables, strs[x] # I!None
               PROVE  I!Text(bufs', strs[x]) = said'[x]
      BY <1>8 DEF TreesSay
  <2>1. I!Text(bufs', strs[x]) = I!Text(h, strs[x]) BY <1>8, <1>13
  <2>2. CASE x = s BY <1>1, <1>4, <1>6, <1>12, <2>1, <2>2
  <2>3. CASE x # s
    <3>1. strs[x] = shared_imstring_buf_[x] /\ shared_imstring_buf_[x] \in Alive
          BY <1>4, <1>6, <2>3, AliveIsClosed
    <3>2. I!Text(bufs, shared_imstring_buf_[x]) = said[x] BY <1>9, <3>1 DEF TreesSay
    <3>3. said'[x] = said[x] BY <1>1, <1>4, <2>3
    <3> QED BY <1>11, <2>1, <3>1, <3>2, <3>3
  <2> QED BY <2>2, <2>3
<1>15. WalkInv' BY <1>1, <1>4, <1>5, <1>6, <1>8, <1>9, <1>10, BecomesWalks
<1> QED BY <1>8, <1>14, <1>15, <1>16 DEF TreeInv

LEMMA ConstructTree ==
  ASSUME TreeInv, NEW s \in Immutables, NEW text \in Pieces, I!construct(s, text)
  PROVE  TreeInv'
<1> DEFINE buf == [I!Free EXCEPT !.cstr_ = text]
<1>1. buf = PlainBuf(text)
  <2>1. PICK f : f = I!Free
        OBVIOUS
  <2>2. \E l, r : f = [is_lazy_ |-> f.is_lazy_, cstr_ |-> l, left_ |-> f.left_, right_ |-> r]
        BY <2>1 DEF I!Free
  <2>3. [f EXCEPT !.cstr_ = text]
          = [is_lazy_ |-> f.is_lazy_, cstr_ |-> text, left_ |-> f.left_, right_ |-> f.right_]
        BY <2>2
  <2>4. f.is_lazy_ = FALSE /\ f.left_ = I!None /\ f.right_ = I!None
        BY <2>1 DEF I!Free
  <2> QED BY <2>1, <2>3, <2>4, Zenon DEF PlainBuf
<1>2. text \in I!Texts BY PieceIsText
<1>3. buf \in I!Plain BY <1>1, <1>2 DEF PlainBuf, I!Plain
<1>4. I!Make(s, text, buf) BY DEF I!construct
<1> HIDE DEF buf
<1>5. ~buf.is_lazy_ /\ buf.cstr_ = text /\ buf.left_ = I!None /\ buf.right_ = I!None
      BY <1>1, PlainBufIs
<1>6. Blurs(text, text) BY <1>2, BlurAlgebra
<1> QED BY <1>2, <1>3, <1>4, <1>5, <1>6, MakeTree

LEMMA ConcatTree ==
  ASSUME TreeInv, NEW s \in Immutables, NEW s1 \in Immutables, NEW s2 \in Immutables,
         I!concat(s, s1, s2)
  PROVE  TreeInv'
<1> DEFINE buf == [is_lazy_ |-> TRUE, cstr_ |-> <<>>,
                   left_ |-> shared_imstring_buf_[s1], right_ |-> shared_imstring_buf_[s2]]
<1>1. /\ shared_imstring_buf_[s1] # I!None /\ shared_imstring_buf_[s2] # I!None
      /\ I!Make(s, said[s1] \o said[s2], buf)
      BY DEF I!concat, I!Exists
<1>2. TreesFit /\ TreesBlur /\ (unlazyFailed \/ TreesSay) BY DEF TreeInv
<1>3. shared_imstring_buf_[s1] \in Alive /\ shared_imstring_buf_[s2] \in Alive BY <1>1, <1>2, AliveIsClosed
<1>4. shared_imstring_buf_[s1] \in I!Bufs /\ shared_imstring_buf_[s2] \in I!Bufs
      BY <1>2, <1>3, AliveIsClosed
<1>5. buf \in I!Lazy BY <1>4 DEF I!Lazy
<1>6. \/ unlazyFailed
      \/ /\ said[s1] = I!Text(bufs, shared_imstring_buf_[s1])
         /\ said[s2] = I!Text(bufs, shared_imstring_buf_[s2])
      BY <1>1, <1>2 DEF TreesSay
<1>7. said[s1] \o said[s2] \in I!Texts
  <2>1. said[s1] \in I!Texts /\ said[s2] \in I!Texts BY <1>2 DEF TreesFit
  <2> QED BY <2>1, TextAlgebra
<1>8. buf.is_lazy_ /\ buf.left_ = shared_imstring_buf_[s1] /\ buf.right_ = shared_imstring_buf_[s2]
      OBVIOUS
<1> HIDE DEF buf
<1> DEFINE says == I!Text(bufs, buf.left_) \o I!Text(bufs, buf.right_)
<1>9. Blurs(says, said[s1] \o said[s2]) BY <1>1, <1>2, <1>8, BlurAlgebra DEF TreesBlur
<1>10. unlazyFailed \/ says = said[s1] \o said[s2] BY Zenon, <1>6, <1>8
<1>11. says = IF buf.is_lazy_ THEN I!Text(bufs, buf.left_) \o I!Text(bufs, buf.right_)
              ELSE buf.cstr_
       BY <1>8
<1> HIDE DEF says
<1> QED BY <1>1, <1>3, <1>5, <1>7, <1>8, <1>9, <1>10, <1>11, MakeTree
-----------------------------------------------------------------------------
(* The other operations.                                                   *)

LEMMA ChangeTree ==
  ASSUME TreeInv, NEW s \in Immutables, NEW text \in I!Texts, NEW p \in Alive \cup {I!None},
         p # I!None => Blurs(I!Text(bufs, p), text) /\ (unlazyFailed \/ I!Text(bufs, p) = text),
         I!Becomes(bufs, [shared_imstring_buf_ EXCEPT ![s] = p]),
         said' = [said EXCEPT ![s] = text], unlazyFailed' = unlazyFailed
  PROVE  TreeInv'
<1> DEFINE strs == [shared_imstring_buf_ EXCEPT ![s] = p]
<1>1. TreesFit /\ shared_imstring_buf_ \in [Immutables -> I!Bufs \cup {I!None}] /\ bufs \in I!Heaps
      /\ said \in [Immutables -> I!Texts] /\ unlazyFailed \in BOOLEAN
      BY DEF TreeInv, TreesFit
<1>2. p \in I!Bufs \cup {I!None} BY <1>1, AliveIsClosed
<1>3. /\ strs \in [Immutables -> I!Bufs \cup {I!None}] /\ strs[s] = p
      /\ \A x \in Immutables : x # s => strs[x] = shared_imstring_buf_[x]
      BY <1>1, <1>2
<1>4. I!Becomes(bufs, strs) OBVIOUS
<1> HIDE DEF strs
<1>5. said' \in [Immutables -> I!Texts] /\ unlazyFailed' \in BOOLEAN BY <1>1
<1>6. /\ TreesFit' /\ shared_imstring_buf_' = strs /\ Alive' = I!Live(bufs, strs)
      /\ \A d \in I!Live(bufs, strs) : bufs'[d] = bufs[d] /\ I!Text(bufs', d) = I!Text(bufs, d)
      BY <1>1, <1>3, <1>4, <1>5, BecomesFit
<1>11. TreesBlur'
  <2> SUFFICES ASSUME NEW x \in Immutables, strs[x] # I!None
               PROVE  Blurs(I!Text(bufs', strs[x]), said'[x])
      BY <1>6 DEF TreesBlur
  <2>1. strs[x] \in I!Live(bufs, strs) BY <1>1, <1>3, LiveCloses
  <2>2. I!Text(bufs', strs[x]) = I!Text(bufs, strs[x]) BY <1>6, <2>1
  <2>3. CASE x = s BY <1>1, <1>3, <2>2, <2>3
  <2>4. CASE x # s BY <1>1, <1>3, <2>2, <2>4 DEF TreeInv, TreesBlur
  <2> QED BY <2>3, <2>4
<1> SUFFICES ASSUME ~unlazyFailed PROVE TreeInv'
    BY <1>6, <1>11 DEF TreeInv
<1>7. TreesSay /\ WalkInv BY DEF TreeInv
<1>8. TreesSay'
  <2> SUFFICES ASSUME NEW x \in Immutables, strs[x] # I!None
               PROVE  I!Text(bufs', strs[x]) = said'[x]
      BY <1>6 DEF TreesSay
  <2>1. strs[x] \in I!Live(bufs, strs) BY <1>1, <1>3, LiveCloses
  <2>2. I!Text(bufs', strs[x]) = I!Text(bufs, strs[x]) BY <1>6, <2>1
  <2>3. CASE x = s BY <1>1, <1>3, <2>2, <2>3
  <2>4. CASE x # s BY <1>1, <1>3, <1>7, <2>2, <2>4 DEF TreesSay
  <2> QED BY <2>3, <2>4
<1>9. \A d \in Alive : bufs[d] = bufs[d] \/ Cuts(bufs, bufs, d) OBVIOUS
<1>10. WalkInv' BY <1>1, <1>3, <1>4, <1>6, <1>7, <1>9, BecomesWalks
<1> QED BY <1>6, <1>8, <1>10, <1>11 DEF TreeInv

LEMMA CopyTree ==
  ASSUME TreeInv, NEW s \in Immutables, NEW src \in Immutables, I!copy(s, src)
  PROVE  TreeInv'
<1> DEFINE p == shared_imstring_buf_[src]
<1>1. /\ p # I!None /\ I!Becomes(bufs, [shared_imstring_buf_ EXCEPT ![s] = p])
      /\ said' = [said EXCEPT ![s] = said[src]] /\ unlazyFailed' = unlazyFailed
      BY DEF I!copy, I!Exists
<1>2. TreesFit /\ said \in [Immutables -> I!Texts] BY DEF TreeInv, TreesFit
<1>3. p \in Alive BY <1>1, <1>2, AliveIsClosed
<1>4. Blurs(I!Text(bufs, p), said[src]) /\ (unlazyFailed \/ I!Text(bufs, p) = said[src])
      BY <1>1 DEF TreeInv, TreesSay, TreesBlur
<1> HIDE DEF p
<1>5. said[src] \in I!Texts BY <1>2
<1> QED BY <1>1, <1>3, <1>4, <1>5, ChangeTree

LEMMA DestroyTree ==
  ASSUME TreeInv, NEW s \in Immutables, I!destroy(s)
  PROVE  TreeInv'
<1>1. /\ I!Becomes(bufs, [shared_imstring_buf_ EXCEPT ![s] = I!None])
      /\ said' = [said EXCEPT ![s] = <<>>] /\ unlazyFailed' = unlazyFailed
      BY DEF I!destroy
<1> QED BY <1>1, TextAlgebra, ChangeTree

LEMMA CStrTree ==
  ASSUME TreeInv, NEW s \in Immutables, I!c_str(s)
  PROVE  TreeInv'
<1> DEFINE b == shared_imstring_buf_[s]
<1>1. PICK n \in 0..MaxTrees : /\ I!Becomes(I!unlazy(bufs, b, n).h, shared_imstring_buf_)
                               /\ unlazyFailed' = (unlazyFailed \/ ~I!unlazy(bufs, b, n).ok)
      BY DEF I!c_str
<1>2. b # I!None /\ said' = said BY DEF I!c_str, I!Exists
<1>3. TreesFit /\ shared_imstring_buf_ \in [Immutables -> I!Bufs \cup {I!None}] /\ bufs \in I!Heaps
      /\ said \in [Immutables -> I!Texts] /\ unlazyFailed \in BOOLEAN
      BY DEF TreeInv, TreesFit
<1>4. b \in I!Bufs BY <1>2, <1>3
<1> HIDE DEF b
<1>5. PICK h, ok : /\ h \in I!Heaps /\ ok \in BOOLEAN
                   /\ ok => \A d \in I!Bufs : h[d] = bufs[d] \/ Cuts(bufs, h, d)
                   /\ Smudges(bufs, h)
                   /\ I!Becomes(h, shared_imstring_buf_) /\ unlazyFailed' = (unlazyFailed \/ ~ok)
      BY <1>1, <1>3, <1>4, UnlazyFlattens, UnlazyBlurs
<1>6. said' \in [Immutables -> I!Texts] /\ unlazyFailed' \in BOOLEAN
  <2>1. unlazyFailed' \in BOOLEAN BY Zenon, <1>5
  <2> QED BY <1>2, <1>3, <2>1
<1>7. /\ TreesFit' /\ shared_imstring_buf_' = shared_imstring_buf_
      /\ Alive' = I!Live(h, shared_imstring_buf_)
      /\ \A d \in I!Live(h, shared_imstring_buf_) :
           bufs'[d] = h[d] /\ I!Text(bufs', d) = I!Text(h, d)
      BY <1>3, <1>5, <1>6, BecomesFit
<1>13. TreesBlur'
  <2> SUFFICES ASSUME NEW x \in Immutables, shared_imstring_buf_[x] # I!None
               PROVE  Blurs(I!Text(bufs', shared_imstring_buf_[x]), said[x])
      BY <1>2, <1>7 DEF TreesBlur
  <2> DEFINE p == shared_imstring_buf_[x]
  <2>1. p \in I!Live(h, shared_imstring_buf_) /\ p \in I!Bufs BY <1>3, <1>5, LiveCloses
  <2>2. I!Text(bufs', p) = I!Text(h, p) BY <1>7, <2>1
  <2>3. Blurs(I!Text(h, p), I!Text(bufs, p)) BY <1>3, <1>5, <2>1, TextBlurs
  <2>4. Blurs(I!Text(bufs, p), said[x]) BY DEF TreeInv, TreesBlur
  <2> HIDE DEF p
  <2>5. Blurs(I!Text(bufs', p), said[x]) BY <2>2, <2>3, <2>4, BlurAlgebra
  <2> QED BY <2>5 DEF p
<1> SUFFICES ASSUME ~unlazyFailed, ok PROVE TreeInv'
    BY Zenon, <1>5, <1>7, <1>13 DEF TreeInv
<1>8. TreesSay /\ WalkInv BY DEF TreeInv
<1>9. \A d \in Alive : h[d] = bufs[d] \/ Cuts(bufs, h, d) BY <1>3, <1>5, AliveIsClosed
<1>10. \A d \in Alive : I!Text(h, d) = I!Text(bufs, d) BY <1>3, <1>5, <1>9, TextsKept
<1>11. TreesSay'
  <2> SUFFICES ASSUME NEW x \in Immutables, shared_imstring_buf_[x] # I!None
               PROVE  I!Text(bufs', shared_imstring_buf_[x]) = said[x]
      BY <1>2, <1>7 DEF TreesSay
  <2>1. shared_imstring_buf_[x] \in I!Live(h, shared_imstring_buf_) BY <1>3, <1>5, LiveCloses
  <2>2. shared_imstring_buf_[x] \in Alive BY <1>3, AliveIsClosed
  <2>3. I!Text(bufs', shared_imstring_buf_[x]) = I!Text(bufs, shared_imstring_buf_[x])
        BY <1>7, <1>10, <2>1, <2>2
  <2> QED BY <1>8, <2>3 DEF TreesSay
<1>12. WalkInv' BY <1>3, <1>5, <1>7, <1>8, <1>9, BecomesWalks
<1> QED BY <1>7, <1>11, <1>12, <1>13 DEF TreeInv

\* advance from a stack that has the rest of the text ahead stops at its next character.
LEMMA WalkOn ==
  ASSUME TreesFit, NEW R, Ahead(bufs, Alive, R), NEW st \in Seq(Walkable(bufs, Alive)),
         NEW passed \in I!Texts, walked' \in [text : I!Texts, at : Nat],
         Len(passed) = walked'.at - 1, walked'.text = passed \o R[st],
         dfs_stack_' = I!advance(st), bufs' = bufs, shared_imstring_buf_' = shared_imstring_buf_
  PROVE  WalkInv'
<1>1. bufs \in I!Heaps /\ Closed(bufs, Alive) BY AliveIsClosed DEF TreesFit
<1>2. Alive' = Alive BY Zenon DEF Alive, I!Bufs
<1> HIDE DEF Alive
<1>3. Walks(bufs, Alive, R, st, dfs_stack_') BY <1>1, AdvanceWalks
<1>4. CASE dfs_stack_' = <<>> /\ R[st] = <<>>
  <2>1. dfs_stack_' \in Seq(Walkable(bufs', Alive')) BY <1>4, EmptySeq
  <2>2. walked'.text = passed /\ Len(passed) \in Nat BY <1>4, TextAlgebra
  <2>3. walked'.at = Len(walked'.text) + 1 BY <2>2
  <2> QED BY <1>4, <2>1, <2>3 DEF WalkInv
<1>5. CASE /\ dfs_stack_' \in Seq(Walkable(bufs, Alive)) /\ dfs_stack_' # <<>>
           /\ ~bufs[I!Top(dfs_stack_').buf].is_lazy_ /\ <<Shown(bufs, dfs_stack_')>> \in I!Texts
           /\ R[st] = <<Shown(bufs, dfs_stack_')>> \o R[dfs_stack_']
  <2>1. /\ walked'.text = passed \o (<<Shown(bufs', dfs_stack_')>> \o R[dfs_stack_'])
        /\ <<Shown(bufs', dfs_stack_')>> \in I!Texts
        BY <1>5
  <2>2. OnTheWay(R)' BY <2>1 DEF OnTheWay
  <2>3. Ahead(bufs', Alive', R) BY <1>2
  <2> QED BY <1>2, <1>5, <2>1, <2>2, <2>3 DEF WalkInv
<1> QED BY <1>3, <1>4, <1>5 DEF Walks

LEMMA BeginTree ==
  ASSUME TreeInv, NEW s \in Immutables, I!begin(s)
  PROVE  TreeInv'
<1>1. /\ shared_imstring_buf_[s] # I!None
      /\ dfs_stack_' = I!advance(<<I!dfs_step(shared_imstring_buf_[s])>>)
      /\ walked' = [text |-> said[s], at |-> 1]
      /\ shared_imstring_buf_' = shared_imstring_buf_ /\ bufs' = bufs /\ said' = said
      /\ unlazyFailed' = unlazyFailed
      BY DEF I!begin, I!Exists
<1>2. Alive' = Alive BY Zenon, <1>1 DEF Alive, I!Bufs
<1>3. TreesFit /\ TreesFit' BY <1>1, <1>2 DEF TreeInv, TreesFit, I!Bufs
<1>17. TreesBlur' BY Zenon, <1>1 DEF TreeInv, TreesBlur, I!Bufs
<1> SUFFICES ASSUME ~unlazyFailed PROVE TreeInv'
    BY <1>1, <1>3, <1>17 DEF TreeInv
<1>4. TreesFit /\ TreesSay BY DEF TreeInv
<1>5. bufs \in I!Heaps /\ said[s] \in I!Texts BY <1>4 DEF TreesFit
<1> DEFINE b == shared_imstring_buf_[s] t == I!dfs_step(b) st == <<t>>
<1>6. b \in Alive /\ Alive \in SUBSET I!Bufs BY <1>1, <1>4, AliveIsClosed
<1>7. I!Text(bufs, b) = said[s] BY <1>1, <1>4 DEF TreesSay
<1>8. t \in Walkable(bufs, Alive) /\ StepText(bufs, t) = said[s] BY <1>5, <1>6, <1>7, NewStepText
<1>9. PICK R : Ahead(bufs, Alive, R) BY <1>5, HasAhead
<1>10. dfs_stack_' = I!advance(st) BY <1>1
<1> HIDE DEF Alive, t
<1>11. st \in Seq(Walkable(bufs, Alive)) /\ st # <<>> /\ I!Top(st) = t /\ I!Rest(st) = <<>>
  <2>1. <<>> \in Seq(Walkable(bufs, Alive)) BY EmptySeq
  <2>2. st = Append(<<>>, t) OBVIOUS
  <2> HIDE DEF st
  <2> QED BY <1>8, <2>1, <2>2, AppendTopRest
<1> HIDE DEF st
<1>12. R[st] = said[s] \o <<>> BY <1>8, <1>9, <1>11 DEF Ahead
<1>13. R[st] = said[s] /\ <<>> \o said[s] = said[s] /\ <<>> \in I!Texts BY <1>5, <1>12, TextAlgebra
<1>14. /\ walked' \in [text : I!Texts, at : Nat] /\ walked'.text = <<>> \o R[st]
       /\ Len(<<>>) = walked'.at - 1
       BY <1>1, <1>5, <1>13
<1>15. WalkInv' BY <1>1, <1>4, <1>9, <1>10, <1>11, <1>13, <1>14, WalkOn
<1>16. TreesSay' BY <1>1, <1>4 DEF TreesSay, I!Bufs
<1> QED BY <1>15, <1>3, <1>16, <1>17 DEF TreeInv

LEMMA IncrementTree ==
  ASSUME TreeInv, I!increment
  PROVE  TreeInv'
<1>1. /\ dfs_stack_ # <<>> /\ dfs_stack_' = I!advance(dfs_stack_)
      /\ walked' = [walked EXCEPT !.at = @ + 1]
      /\ shared_imstring_buf_' = shared_imstring_buf_ /\ bufs' = bufs /\ said' = said
      /\ unlazyFailed' = unlazyFailed
      BY DEF I!increment
<1>2. Alive' = Alive BY Zenon, <1>1 DEF Alive, I!Bufs
<1>3. TreesFit /\ TreesFit' BY <1>1, <1>2 DEF TreeInv, TreesFit, I!Bufs
<1>17. TreesBlur' BY Zenon, <1>1 DEF TreeInv, TreesBlur, I!Bufs
<1> SUFFICES ASSUME ~unlazyFailed PROVE TreeInv'
    BY <1>1, <1>3, <1>17 DEF TreeInv
<1>4. TreesSay /\ WalkInv BY DEF TreeInv
<1>5. TreesSay' BY <1>1, <1>4 DEF TreesSay, I!Bufs
<1>6. PICK R : Ahead(bufs, Alive, R) /\ OnTheWay(R) BY <1>1, <1>4 DEF WalkInv
<1>7. PICK passed \in I!Texts :
        /\ Len(passed) = walked.at - 1
        /\ walked.text = passed \o (<<Shown(bufs, dfs_stack_)>> \o R[dfs_stack_])
      BY <1>6 DEF OnTheWay
<1>8. /\ dfs_stack_ \in Seq(Walkable(bufs, Alive)) /\ <<Shown(bufs, dfs_stack_)>> \in I!Texts
      /\ walked \in [text : I!Texts, at : Nat]
      BY <1>1, <1>4 DEF WalkInv
<1>9. R[dfs_stack_] \in I!Texts BY <1>6, <1>8 DEF Ahead
<1> DEFINE c == <<Shown(bufs, dfs_stack_)>> on == passed \o c
<1>10. Len(c) = 1 /\ c \in I!Texts BY <1>8
<1>11. walked'.text = walked.text /\ walked'.at = walked.at + 1
       /\ walked' \in [text : I!Texts, at : Nat] /\ walked.at \in Nat
       BY <1>1, <1>8
<1>12. walked.text = passed \o (c \o R[dfs_stack_]) BY <1>7
<1> HIDE DEF c
<1>13. /\ on \in I!Texts /\ Len(on) = Len(passed) + 1 /\ Len(passed) \in Nat
       /\ on \o R[dfs_stack_] = walked.text
  <2>1. (passed \o c) \o R[dfs_stack_] = passed \o (c \o R[dfs_stack_])
        BY <1>9, <1>10, TextAlgebra, Zenon
  <2>2. passed \o c \in I!Texts /\ Len(passed \o c) = Len(passed) + Len(c) /\ Len(passed) \in Nat
        BY <1>10, TextAlgebra
  <2> QED BY <1>10, <1>12, <2>1, <2>2
<1> HIDE DEF on
<1>14. Len(on) = walked'.at - 1 /\ walked'.text = on \o R[dfs_stack_] BY <1>7, <1>11, <1>13
<1>15. WalkInv' BY <1>1, <1>3, <1>6, <1>8, <1>11, <1>13, <1>14, WalkOn
<1> QED BY <1>3, <1>5, <1>15, <1>17 DEF TreeInv

LEMMA TreeStep ==
  ASSUME TreeInv, I!Next
  PROVE  TreeInv'
<1>1. CASE \E s \in Immutables, text \in Pieces : I!construct(s, text) BY <1>1, ConstructTree
<1>2. CASE \E s, s1, s2 \in Immutables : I!concat(s, s1, s2) BY <1>2, ConcatTree
<1>3. CASE \E s, src \in Immutables : I!copy(s, src) BY <1>3, CopyTree
<1>4. CASE \E s \in Immutables : I!destroy(s) \/ I!c_str(s) \/ I!begin(s)
      BY <1>4, DestroyTree, CStrTree, BeginTree
<1>5. CASE I!increment BY <1>5, IncrementTree
<1> QED BY <1>1, <1>2, <1>3, <1>4, <1>5 DEF I!Next

-----------------------------------------------------------------------------
(* The components together: each step is a step of one of them.            *)

OwnershipInv == PtrInv /\ LazyInv /\ SharedInv /\ TreeInv /\ StreamInv /\ EnumeratorInv

LEMMA OwnershipInvInit == OwnershipInit => OwnershipInv
<1> SUFFICES ASSUME OwnershipInit PROVE OwnershipInv OBVIOUS
<1>1. PtrInv /\ LazyInv /\ SharedInv /\ TreeInv
      BY PtrInit, LazyInit, SharedInit, TreeInit DEF OwnershipInit
<1>2. StreamInv
  <2>1. CASE component = "prefetch_stream" BY <2>1, StreamInit DEF OwnershipInit
  <2>2. CASE component # "prefetch_stream" BY <2>2, NoStreamInit DEF OwnershipInit
  <2> QED BY <2>1, <2>2
<1>3. EnumeratorInv
  <2>1. CASE component = "enumerable" BY <2>1, EnumeratorInit DEF OwnershipInit
  <2>2. CASE component # "enumerable"
    <3>1. vector = <<>> /\ enumerator_ = [e \in Enumerables |-> 0] /\ nodes = <<>>
          /\ lazyMisused = FALSE
          BY <2>2 DEF OwnershipInit
    <3>2. <<>> \in Seq(Values) BY EmptySeq
    <3> QED BY <3>1, <3>2, NoEnumeratorInit
  <2> QED BY <2>1, <2>2
<1> QED BY <1>1, <1>2, <1>3 DEF OwnershipInv

LEMMA PtrKeeps == ASSUME PtrInv, UNCHANGED ptrVars PROVE PtrInv'
BY DEF ptrVars, PtrInv, PtrTypes, OneInstance, InstanceLives, OnlyMisused, OneOwner, Owner

LEMMA LazyKeeps == ASSUME LazyInv, UNCHANGED lazyVars PROVE LazyInv'
BY DEF lazyVars, LazyInv, LazyTypes, ModifierNames, Counted, AllSay, L!Bufs

LEMMA SharedKeeps == ASSUME SharedInv, UNCHANGED vars PROVE SharedInv'
BY DEF vars, mem, history, SharedInv, UndefinedForAReason

LEMMA StreamsKeep == ASSUME StreamInv, UNCHANGED streamVars PROVE StreamInv'
BY StreamKeeps DEF streamVars

LEMMA OwnershipInvNext ==
  ASSUME OwnershipInv,
         [OwnershipNext]_<<component, vars, ptrVars, lazyVars, treeVars, streamVars, enumeratorVars>>
  PROVE  OwnershipInv'
<1> USE DEF OwnershipInv
<1>1. CASE Next /\ UNCHANGED <<ptrVars, lazyVars, treeVars, streamVars, enumeratorVars>>
  <2>1. SharedInv' BY <1>1, SharedStep
  <2> QED BY <1>1, <2>1, PtrKeeps, LazyKeeps, TreeKeeps, StreamsKeep, EnumeratorKeeps
<1>2. CASE O!Next /\ UNCHANGED <<vars, lazyVars, treeVars, streamVars, enumeratorVars>>
  <2>1. PtrInv' BY <1>2, PtrStep
  <2> QED BY <1>2, <2>1, SharedKeeps, LazyKeeps, TreeKeeps, StreamsKeep, EnumeratorKeeps
<1>3. CASE L!Next /\ UNCHANGED <<vars, ptrVars, treeVars, streamVars, enumeratorVars>>
  <2>1. LazyInv' BY <1>3, LazyStep
  <2> QED BY <1>3, <2>1, SharedKeeps, PtrKeeps, TreeKeeps, StreamsKeep, EnumeratorKeeps
<1>4. CASE I!Next /\ UNCHANGED <<vars, ptrVars, lazyVars, streamVars, enumeratorVars>>
  <2>1. TreeInv' BY <1>4, TreeStep
  <2> QED BY <1>4, <2>1, SharedKeeps, PtrKeeps, LazyKeeps, StreamsKeep, EnumeratorKeeps
<1>5. CASE P!Next /\ UNCHANGED <<vars, ptrVars, lazyVars, treeVars, enumeratorVars>>
  <2>1. StreamInv' BY <1>5, StreamNext
  <2> QED BY <1>5, <2>1, SharedKeeps, PtrKeeps, LazyKeeps, TreeKeeps, EnumeratorKeeps
<1>6. CASE E!Next /\ UNCHANGED <<vars, ptrVars, lazyVars, treeVars, streamVars>>
  <2>1. EnumeratorInv' BY <1>6, EnumeratorNext
  <2> QED BY <1>6, <2>1, SharedKeeps, PtrKeeps, LazyKeeps, TreeKeeps, StreamsKeep
<1>7. CASE UNCHANGED <<component, vars, ptrVars, lazyVars, treeVars, streamVars, enumeratorVars>>
  <2>1. UNCHANGED vars /\ UNCHANGED ptrVars /\ UNCHANGED lazyVars /\ UNCHANGED treeVars
        /\ UNCHANGED streamVars /\ UNCHANGED enumeratorVars
        BY <1>7
  <2> QED BY <2>1, SharedKeeps, PtrKeeps, LazyKeeps, TreeKeeps, StreamsKeep, EnumeratorKeeps
<1> QED BY <1>1, <1>2, <1>3, <1>4, <1>5, <1>6, <1>7 DEF OwnershipNext

(* unique_ptr.h, scoped_ptr.h and singleton.h: however pointers are made,
   moved, released and reset, an object has at most one owner and lives
   exactly as long, unless a client gave one raw pointer to two of them;
   lazy_string.h: a buffer counts the strings that share it. *)
THEOREM ObjectsAreOwnedOnce == OwnershipSpec => []OwnedOnce
<1>1. OwnershipInv => OwnedOnce
  BY PtrInvImpliesOwnedOnce, LazyInvImplies DEF OwnershipInv, OwnedOnce
<1> QED
  BY <1>1, OwnershipInvInit, OwnershipInvNext, PTL DEF OwnershipSpec

(* lazy_string.h: whatever strings share a buffer, a write or an append to
   one of them is never read through another. *)
THEOREM LazyTextIsPrivate == OwnershipSpec => []TextIsPrivate
<1>1. OwnershipInv => TextIsPrivate
  BY LazyInvImplies DEF OwnershipInv, TextIsPrivate
<1> QED
  BY <1>1, OwnershipInvInit, OwnershipInvNext, PTL DEF OwnershipSpec

(* shared_ptr.h: the counts of a control block are the numbers of its
   handles, and it is freed with the last of them, except for what the
   compiler's weak_ptr copy and operator= do to it. *)
THEOREM SharedPtrCountsHandles == OwnershipSpec => []CountsHandles
<1>1. OwnershipInv => CountsHandles
  BY SharedInvImpliesCounts DEF OwnershipInv
<1> QED
  BY <1>1, OwnershipInvInit, OwnershipInvNext, PTL DEF OwnershipSpec

(* shared_ptr.h: an object lives exactly as long as a shared_ptr to it,
   except for one that was locked after its death. *)
THEOREM SharedObjectsLive == OwnershipSpec => []OwnedObjectsLive
<1>1. OwnershipInv => OwnedObjectsLive
  BY SharedInvImpliesLive DEF OwnershipInv
<1> QED
  BY <1>1, OwnershipInvInit, OwnershipInvNext, PTL DEF OwnershipSpec

(* shared_ptr.h, weak_ptr.h: only a copied weak_ptr leads to a freed block
   and only a locked dead one to a second delete. *)
THEOREM SharedPtrUndefinedForAReason == OwnershipSpec => []UndefinedForAReason
<1>1. OwnershipInv => UndefinedForAReason
  BY DEF OwnershipInv, SharedInv
<1> QED
  BY <1>1, OwnershipInvInit, OwnershipInvNext, PTL DEF OwnershipSpec

(* imstring.h: whatever strings were concatenated, copied, flattened and
   destroyed in whatever order, a string says the text it was made with,
   and an iterator passes its characters in order, each once, until an
   allocation of c_str() fails; after that a string still has its length,
   and each of its characters is right or was never written. *)
THEOREM ImmutableStringsRead == OwnershipSpec => []ReadsItsText
<1>1. OwnershipInv => ReadsItsText
  BY TreeInvImplies DEF OwnershipInv
<1> QED
  BY <1>1, OwnershipInvInit, OwnershipInvNext, PTL DEF OwnershipSpec

(* prefetch_stream.h: however a stream was copied, moved and swapped, and
   before whatever items the disk failed, it yields the items of its file
   in order, not more of them than the file has when it ends inside the
   last one and nothing was copied, and reads no slot of its array that
   was not filled; but for streams that were moved from, and lines of a
   file with empty ones. *)
THEOREM StreamsReadInOrder == OwnershipSpec => []ReadsInOrder
<1>1. OwnershipInv => ReadsInOrder
  BY StreamsRead DEF OwnershipInv
<1> QED
  BY <1>1, OwnershipInvInit, OwnershipInvNext, PTL DEF OwnershipSpec

(* linqcpp_lazy/src/linq.h and linqcpp/src/linq.h: whatever stages a
   pipeline has, wherever its last run stopped, and whatever was written
   to the vector in between, to_vector, count and any give what the eager
   library gives for what the vector contains now, until the vector has
   moved or the enumerator is deleted. *)
THEOREM LazyPipelinesAreEager == OwnershipSpec => []LazyIsEager
<1>1. OwnershipInv => LazyIsEager
  BY PipelinesAreEager DEF OwnershipInv
<1> QED
  BY <1>1, OwnershipInvInit, OwnershipInvNext, PTL DEF OwnershipSpec
=============================================================================
