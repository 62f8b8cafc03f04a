---------------------------- MODULE SliceValues ----------------------------
(***************************************************************************)
(* What the users of Slice rely on: a slice behaves like the sequence of   *)
(* its bytes.  Whatever is done to one slice leaves every other as it was, *)
(* but for the one that is moved from, which is empty afterwards.          *)
(***************************************************************************)
EXTENDS Naturals, Sequences

CONSTANTS Slots

VARIABLE value   \* the bytes of each slice

Init == value = [x \in Slots |-> <<>>]

\* A new slice; a slice that has bytes gets others only from the operations
\* below.
Create(x) ==
  /\ value[x] = <<>>
  /\ value'[x] \in Seq(Nat)
  /\ value' = [value EXCEPT ![x] = value'[x]]

Copy(x, y) == value' = [value EXCEPT ![x] = value[y]]

Move(x, y) == x # y /\ value' = [value EXCEPT ![x] = value[y], ![y] = <<>>]

Concatenate(x, y) == value' = [value EXCEPT ![x] = value[x] \o value[y]]

RemoveHead(x) ==
  \E n \in 1 .. Len(value[x]) : value' = [value EXCEPT ![x] = SubSeq(@, n + 1, Len(@))]

RemoveTail(x) ==
  \E n \in 1 .. Len(value[x]) : value' = [value EXCEPT ![x] = SubSeq(@, 1, Len(@) - n)]

clear(x) == value' = [value EXCEPT ![x] = <<>>]

Next ==
  \E x, y \in Slots :
    \/ Create(x) \/ Copy(x, y) \/ Move(x, y) \/ Concatenate(x, y)
    \/ RemoveHead(x) \/ RemoveTail(x) \/ clear(x)

Spec == Init /\ [][Next]_value
=============================================================================
