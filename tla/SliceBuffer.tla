---------------------------- MODULE SliceBuffer ----------------------------
(***************************************************************************)
(* The buffer of received and of unsent bytes, a queue of slices with a    *)
(* count of its bytes (src/src/utils/slice_buffer.cc, slice.cc).  A buffer *)
(* is a record with the fields ds and length, a slice the sequence of its  *)
(* bytes, which Slices shows is all that sharing of memory lets one see.   *)
(* Only the operations that the connection uses are modelled.              *)
(***************************************************************************)
EXTENDS Naturals, SequencesExt

EmptyBuffer == [ds |-> <<>>, length |-> 0]

SliceCount(b) == Len(b.ds)
GetBufferLength(b) == b.length

AddSlice(b, s) ==
  IF s = <<>> THEN b ELSE [ds |-> Append(b.ds, s), length |-> b.length + Len(s)]

Merge(b) ==
  IF SliceCount(b) = 0 THEN <<>> ELSE IF SliceCount(b) = 1 THEN b.ds[1] ELSE FlattenSeq(b.ds)

\* Slice::RemoveHead
RemoveHead(s, n) == IF n > Len(s) THEN <<>> ELSE SubSeq(s, n + 1, Len(s))

\* Mutant: the bytes of a slice that goes as a whole are not subtracted.
RECURSIVE MoveHeaderMiscounts(_, _)
MoveHeaderMiscounts(b, len) ==
  IF GetBufferLength(b) < len \/ len = 0 THEN b
  ELSE IF Len(Head(b.ds)) > len
    THEN [ds |-> <<RemoveHead(Head(b.ds), len)>> \o Tail(b.ds), length |-> b.length - len]
  ELSE IF Len(Head(b.ds)) = len
    THEN [ds |-> Tail(b.ds), length |-> b.length]
  ELSE MoveHeaderMiscounts([ds |-> Tail(b.ds), length |-> b.length - Len(Head(b.ds))],
                           len - Len(Head(b.ds)))

\* The buffer is left alone when it is shorter than len, and MoveHeader returns
\* false.
RECURSIVE MoveHeader(_, _)
MoveHeader(b, len) ==
  IF GetBufferLength(b) < len \/ len = 0 THEN b
  ELSE IF Len(Head(b.ds)) > len
    THEN [ds |-> <<RemoveHead(Head(b.ds), len)>> \o Tail(b.ds), length |-> b.length - len]
  ELSE IF Len(Head(b.ds)) = len
    THEN [ds |-> Tail(b.ds), length |-> b.length - len]
  ELSE MoveHeader([ds |-> Tail(b.ds), length |-> b.length - Len(Head(b.ds))],
                  len - Len(Head(b.ds)))

=============================================================================
