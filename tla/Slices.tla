------------------------------- MODULE Slices -------------------------------
(***************************************************************************)
(* Slices and their memory (src/utils/slice.cc).  Up to SLICE_INLINED_SIZE *)
(* bytes are in the slice itself; more are in a block with a reference     *)
(* count, which copies share and each of which may see another part of.    *)
(* This is what lets SliceBuffer and FrameStream treat a slice as its      *)
(* bytes: the receive buffer, the merged input that a callback reads while *)
(* the buffer is cleared, and the tasks that carry a message share blocks. *)
(*                                                                         *)
(* A slot is a Slice of the program, empty while no object is in it.  The  *)
(* methods are atomic: threads share blocks but never a Slice, and touch a *)
(* block's count only with one atomic addition or subtraction.             *)
(***************************************************************************)
EXTENDS Naturals, Sequences, FiniteSets

CONSTANTS Slots, Blocks, SLICE_INLINED_SIZE,
          Contents, \* what slices are created with: sequences of bytes
          MaxSize   \* bound on the size of a slice

VARIABLES slice,    \* refs_ and data_ of each slot
          refs,     \* the count of each block; 0 is a block that is free
          memory    \* the bytes of each block

sliceVars == <<slice, refs, memory>>

nullptr == "nullptr"

ASSUME SlicesAssumption ==
  /\ IsFiniteSet(Slots) /\ nullptr \notin Blocks
  /\ SLICE_INLINED_SIZE \in Nat /\ Contents \subseteq Seq(Nat)

\* data_ is the inlined bytes, or the first byte and the length seen of a block.
Inlined(bytes) == [refs_ |-> nullptr, bytes |-> bytes, first |-> 1, length |-> Len(bytes)]
Refcounted(b, first, length) ==
  [refs_ |-> b, bytes |-> <<>>, first |-> first, length |-> length]
Empty == Inlined(<<>>)

SlicesInit ==
  /\ slice = [x \in Slots |-> Empty]
  /\ refs = [b \in Blocks |-> 0] /\ memory = [b \in Blocks |-> <<>>]

\* From begin() to end().
data(s) ==
  IF s.refs_ = nullptr THEN s.bytes
  ELSE SubSeq(memory[s.refs_], s.first, s.first + s.length - 1)

AddRef(counts, b) == IF b = nullptr THEN counts ELSE [counts EXCEPT ![b] = @ + 1]
DecRef(counts, b) == IF b = nullptr THEN counts ELSE [counts EXCEPT ![b] = @ - 1]

\* What free leaves in the blocks without references.
Freed(counts, bytes) == [b \in Blocks |-> IF counts[b] = 0 THEN <<>> ELSE bytes[b]]

Put(x, s, counts, bytes) ==
  /\ slice' = [slice EXCEPT ![x] = s]
  /\ refs' = counts
  /\ memory' = Freed(counts, bytes)

\* A slice of the given bytes comes to x, whose former content goes:
\* Slice(ptr, len), or MakeSliceByLength and the copying into its buffer.
Make(x, bytes) ==
  IF Len(bytes) <= SLICE_INLINED_SIZE
    THEN Put(x, Inlined(bytes), DecRef(refs, slice[x].refs_), memory)
    ELSE \E b \in {b \in Blocks : refs[b] = 0} :
           Put(x, Refcounted(b, 1, Len(bytes)),
               [DecRef(refs, slice[x].refs_) EXCEPT ![b] = 1],
               [memory EXCEPT ![b] = bytes])

Create(x) ==
  /\ slice[x] = Empty
  /\ \E bytes \in Contents : Make(x, bytes)

\* Slice(const Slice&) and operator=(const Slice&), which leaves a slice that
\* is assigned to itself alone.  AddRef comes first, but nothing hangs on it: if
\* both refer to one block, each of them has a reference.
Copy(x, y) ==
  /\ x # y
  /\ Put(x, slice[y], DecRef(AddRef(refs, slice[y].refs_), slice[x].refs_), memory)

\* Slice(Slice&&) and operator=(Slice&&).
Move(x, y) ==
  /\ x # y
  /\ slice' = [slice EXCEPT ![x] = slice[y], ![y] = Empty]
  /\ refs' = DecRef(refs, slice[x].refs_)
  /\ memory' = Freed(refs', memory)

\* operator+=: operator+ takes copies, and returns the second if the first is
\* empty, or else the first if the second is.
Concatenate(x, y) ==
  LET a == data(slice[x]) b == data(slice[y])
  IN /\ Len(a) + Len(b) <= MaxSize
     /\ IF a = <<>>
          THEN Put(x, slice[y], DecRef(AddRef(refs, slice[y].refs_), slice[x].refs_), memory)
        ELSE IF b = <<>> THEN UNCHANGED sliceVars
          ELSE Make(x, a \o b)

\* Mutant: the length shrinks at the wrong end.
RemoveHeadShortens(x, n) ==
  LET s == slice[x]
  IN Put(x, IF s.refs_ = nullptr THEN Inlined(SubSeq(s.bytes, n + 1, s.length))
            ELSE [s EXCEPT !.length = @ - n],
         refs, memory)

\* remove_size beyond the size is cut to it.
RemoveHead(x, n) ==
  LET s == slice[x]
  IN Put(x, IF s.refs_ = nullptr THEN Inlined(SubSeq(s.bytes, n + 1, s.length))
            ELSE [s EXCEPT !.length = @ - n, !.first = @ + n],
         refs, memory)

RemoveTail(x, n) ==
  LET s == slice[x]
  IN Put(x, IF s.refs_ = nullptr THEN Inlined(SubSeq(s.bytes, 1, s.length - n))
            ELSE [s EXCEPT !.length = @ - n],
         refs, memory)

\* clear() and ~Slice
clear(x) == Put(x, Empty, DecRef(refs, slice[x].refs_), memory)

SlicesNext ==
  \E x, y \in Slots :
    \/ Create(x) \/ Copy(x, y) \/ Move(x, y) \/ Concatenate(x, y) \/ clear(x)
    \/ \E n \in 1 .. slice[x].length : RemoveHead(x, n) \/ RemoveTail(x, n)
-----------------------------------------------------------------------------
Values == INSTANCE SliceValues WITH value <- [x \in Slots |-> data(slice[x])]

(***************************************************************************)
(* A block's count is the number of slices that refer to it, which all see *)
(* a part inside of it: no slice reads freed memory, and no block stays    *)
(* behind without a slice (SliceRefCount::AddRef, DecRef).                 *)
(***************************************************************************)
BlocksCounted ==
  /\ \A b \in Blocks : refs[b] = Cardinality({x \in Slots : slice[x].refs_ = b})
  /\ \A x \in Slots : slice[x].refs_ # nullptr =>
       slice[x].first + slice[x].length - 1 <= Len(memory[slice[x].refs_])

\* RemoveHead and RemoveTail are the abstract operations of that name.
CutsAtItsEnd ==
  [][\A x \in Slots : \A n \in 1 .. slice[x].length :
       /\ RemoveHead(x, n) => Values!RemoveHead(x)
       /\ RemoveTail(x, n) => Values!RemoveTail(x)]_sliceVars

(***************************************************************************)
(* Slices that share blocks behave like separate sequences of bytes: what  *)
(* is cut from one, at the end asked for, or assigned to or moved from it, *)
(* does not show in another; and the blocks are counted right (Slice's     *)
(* constructors, assignments, RemoveHead, RemoveTail, operator+ and        *)
(* destructor).                                                            *)
(***************************************************************************)
ImplementsSliceValues == Values!Spec /\ []BlocksCounted /\ CutsAtItsEnd
=============================================================================
