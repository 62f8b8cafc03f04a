---------------------------- MODULE LibraryProofs ----------------------------
(***************************************************************************)
(* Proofs about what a process has once: the table of connections          *)
(* (ConnectionTable), for any number of them and any width of the          *)
(* generation, and the runtime (Library), for any number of threads,       *)
(* clients and settings.  Of the latter: g_initializations is the number   *)
(* of users whenever g_init_mtx is free, and the runtime is there exactly  *)
(* while there are some.                                                   *)
(***************************************************************************)
EXTENDS Library, ConnectionTable, TLAPS

-----------------------------------------------------------------------------
(* The table of connections. *)

\* What a vector is when an element has been overwritten or appended.
LEMMA Overwritten ==
  ASSUME NEW S, NEW s \in Seq(S), NEW i \in 1 .. Len(s), NEW e \in S
  PROVE  /\ [s EXCEPT ![i] = e] \in Seq(S) /\ Len([s EXCEPT ![i] = e]) = Len(s)
         /\ \A j \in 1 .. Len(s) : [s EXCEPT ![i] = e][j] = IF j = i THEN e ELSE s[j]
  OBVIOUS

LEMMA Appended ==
  ASSUME NEW S, NEW s \in Seq(S), NEW e \in S
  PROVE  /\ Append(s, e) \in Seq(S) /\ Len(Append(s, e)) = Len(s) + 1
         /\ \A i \in 1 .. Len(s) : Append(s, e)[i] = s[i]
         /\ Append(s, e)[Len(s) + 1] = e
  OBVIOUS

Entry == [generation : 1 .. Modulus - 1, active : BOOLEAN, conn : Conns \cup {NoConn}, uses : Nat]

TableTypeOK ==
  /\ entries \in Seq(Entry)
  /\ free_slots \in Seq(Nat)
  /\ id \in [Conns -> Ids]
  /\ alive \subseteq Conns
  /\ events \subseteq [id : Ids, uses : Nat]
  /\ registered \in Nat

\* The free list holds the slots that are not in use, each once.
FreeInv ==
  /\ \A i \in 1 .. Len(free_slots) :
       free_slots[i] \in SlotNumbers /\ ~entries[free_slots[i] + 1].active
  /\ \A s \in SlotNumbers : ~entries[s + 1].active =>
       \E i \in 1 .. Len(free_slots) : free_slots[i] = s
  /\ \A i, j \in 1 .. Len(free_slots) : free_slots[i] = free_slots[j] => i = j

\* A connection that has an id is in the slot of that id, alone.
IdInv ==
  \A c \in Conns : valid(id[c]) => Current(id[c]) /\ entries[id[c].slot + 1].conn = c

\* The generation after so many registrations of a slot: it counts from 1 to
\* Modulus - 1, round and round.
GenerationOf(uses, g) == \E rounds \in Nat : uses = rounds * (Modulus - 1) + g

GenerationInv == \A s \in SlotNumbers : GenerationOf(entries[s + 1].uses, entries[s + 1].generation)

\* An event was raised for a registration that its slot has had.
EventInv ==
  \A e \in events :
    /\ e.id.slot \in SlotNumbers
    /\ e.uses <= entries[e.id.slot + 1].uses
    /\ GenerationOf(e.uses, e.id.generation)

TableInv == TableTypeOK /\ FreeInv /\ IdInv /\ GenerationInv /\ EventInv

\* NextGeneration skips 0.
LEMMA NextGenerationIs ==
  ASSUME NEW g \in 0 .. Modulus - 1
  PROVE  NextGeneration(g) = IF g = Modulus - 1 THEN 1 ELSE g + 1
<1>1. CASE g = Modulus - 1
  <2>1. (g + 1) % Modulus = 0
    BY <1>1, TableAssumption
  <2> QED
    BY <1>1, <2>1, Zenon DEF NextGeneration
<1>2. CASE g # Modulus - 1
  <2>1. (g + 1) % Modulus = g + 1
    BY <1>2, TableAssumption
  <2> QED
    BY <1>2, <2>1, TableAssumption DEF NextGeneration
<1> QED
  BY <1>1, <1>2, Zenon

\* One more registration and the next generation stay in step.
LEMMA NextGenerationCounts ==
  ASSUME NEW uses \in Nat, NEW g \in 0 .. Modulus - 1, GenerationOf(uses, g)
  PROVE  /\ NextGeneration(g) \in 1 .. Modulus - 1
         /\ GenerationOf(uses + 1, NextGeneration(g))
<1> USE TableAssumption
<1>1. PICK rounds \in Nat : uses = rounds * (Modulus - 1) + g
  BY Zenon DEF GenerationOf
<1>2. CASE g = Modulus - 1
  <2>1. (rounds + 1) * (Modulus - 1) = rounds * (Modulus - 1) + (Modulus - 1)
    OBVIOUS
  <2>2. uses + 1 = (rounds + 1) * (Modulus - 1) + 1 /\ rounds + 1 \in Nat
    BY <1>1, <1>2, <2>1
  <2>3. NextGeneration(g) = 1
    BY <1>2, NextGenerationIs, Zenon
  <2>4. \E n \in Nat : uses + 1 = n * (Modulus - 1) + 1
    BY <2>2, ZenonT(40)
  <2>5. GenerationOf(uses + 1, 1)
    BY <2>4, Zenon DEF GenerationOf
  <2> QED
    BY <2>3, <2>5
<1>3. CASE g # Modulus - 1
  <2>1. NextGeneration(g) = g + 1
    BY <1>3, NextGenerationIs, Zenon
  <2>2. uses + 1 = rounds * (Modulus - 1) + (g + 1)
    BY <1>1
  <2>3. GenerationOf(uses + 1, g + 1)
    BY <2>2, Zenon DEF GenerationOf
  <2> QED
    BY <1>3, <2>1, <2>3
<1> QED
  BY <1>2, <1>3, Zenon

\* A slot that was never registered counts as one with generation 0.
LEMMA NoGenerationYet == GenerationOf(0, 0)
<1>1. 0 = 0 * (Modulus - 1) + 0
  BY TableAssumption
<1> QED
  BY <1>1, Zenon DEF GenerationOf

\* Two registrations of a slot that got the same generation are whole rounds
\* apart.
LEMMA SameGeneration ==
  ASSUME NEW u \in Nat, NEW v \in Nat, NEW g \in 1 .. Modulus - 1, v <= u,
         GenerationOf(u, g), GenerationOf(v, g)
  PROVE  u = v \/ u - v >= Modulus - 1
<1> USE TableAssumption
<1>1. PICK a \in Nat : u = a * (Modulus - 1) + g
  BY Zenon DEF GenerationOf
<1>2. PICK b \in Nat : v = b * (Modulus - 1) + g
  BY ZenonT(40) DEF GenerationOf
<1>3. u - v = (a - b) * (Modulus - 1)
  BY <1>1, <1>2
<1>4. CASE a = b
  BY <1>1, <1>2, <1>4, Zenon
<1>5. CASE a > b
  <2>1. PICK d \in Nat : a - b = d + 1
    BY <1>5
  <2>2. (d + 1) * (Modulus - 1) = d * (Modulus - 1) + (Modulus - 1)
    BY <2>1
  <2>3. d * (Modulus - 1) >= 0
    BY <2>1
  <2> QED
    BY <1>3, <2>1, <2>2, <2>3
<1>6. CASE a < b
  <2>1. PICK d \in Nat : b - a = d + 1
    BY <1>6
  <2>2. (b - a) * (Modulus - 1) = d * (Modulus - 1) + (Modulus - 1)
    BY <2>1
  <2>3. d * (Modulus - 1) >= 0
    BY <2>1
  <2>4. v - u = (b - a) * (Modulus - 1)
    BY <1>1, <1>2
  <2> QED
    BY <2>2, <2>3, <2>4
<1> QED
  BY <1>4, <1>5, <1>6

-----------------------------------------------------------------------------
\* An empty table with no events satisfies the invariant.
LEMMA TableInitInv == TableInit => TableInv
  BY TableAssumption
     DEF TableInit, TableInv, TableTypeOK, FreeInv, IdInv, GenerationInv, EventInv, SlotNumbers, Ids, NoId, valid

\* What Register does to the table, whether it takes a slot from the free list or
\* appends one: the slot was not in use, and it is the only one that changes.
RegisterAt(c, slot, entry) ==
  /\ slot \in 0 .. Len(entries)
  /\ entry \in Entry /\ entry.active /\ entry.conn = c
  /\ GenerationOf(entry.uses, entry.generation)
  /\ slot \in SlotNumbers => ~entries[slot + 1].active /\ entry.uses = entries[slot + 1].uses + 1
  /\ entries' \in Seq(Entry)
  /\ Len(entries') = IF slot \in SlotNumbers THEN Len(entries) ELSE Len(entries) + 1
  /\ entries'[slot + 1] = entry
  /\ \A s \in SlotNumbers : s # slot => entries'[s + 1] = entries[s + 1]
  /\ free_slots' \in Seq(Nat)
  /\ Len(free_slots') <= Len(free_slots)
  /\ \A i \in 1 .. Len(free_slots') : free_slots'[i] = free_slots[i] /\ free_slots[i] # slot
  /\ \A i \in 1 .. Len(free_slots) : free_slots[i] # slot => i \in 1 .. Len(free_slots')
  /\ id' = [id EXCEPT ![c] = [slot |-> slot, generation |-> entry.generation]]
  /\ registered' = registered + 1
  /\ UNCHANGED <<alive, events>>

LEMMA RegisterEffect ==
  ASSUME TableInv, NEW c \in Conns, Register(c)
  PROVE  \E slot \in Nat, entry \in Entry : RegisterAt(c, slot, entry)
<1> USE TableAssumption DEF TableInv, TableTypeOK
<1>1. CASE free_slots = <<>>
  <2> DEFINE entry == [generation |-> NextGeneration(0), active |-> TRUE, conn |-> c, uses |-> 0 + 1]
  <2>1. entry \in Entry /\ GenerationOf(entry.uses, entry.generation)
    BY NoGenerationYet, NextGenerationCounts DEF Entry
  <2>2. /\ entries' = Append(entries, entry) /\ free_slots' = free_slots
        /\ id' = [id EXCEPT ![c] = [slot |-> Len(entries), generation |-> entry.generation]]
        /\ registered' = registered + 1
        /\ UNCHANGED <<alive, events>>
    BY <1>1, ZenonT(40) DEF Register
  <2>3. entry.active /\ entry.conn = c
    BY Zenon
  <2> HIDE DEF entry
  <2>4. RegisterAt(c, Len(entries), entry)
    BY <1>1, <2>1, <2>2, <2>3, Appended DEF RegisterAt, SlotNumbers
  <2> QED
    BY <2>1, <2>4
<1>2. CASE free_slots # <<>>
  <2> DEFINE n == Len(free_slots)
             slot == free_slots[n]
             old == entries[slot + 1]
             entry == [generation |-> NextGeneration(old.generation), active |-> TRUE, conn |-> c,
                       uses |-> old.uses + 1]
  <2>1. n \in Nat /\ n > 0 /\ slot \in SlotNumbers /\ ~old.active
    BY <1>2 DEF FreeInv
  <2>2. slot + 1 \in 1 .. Len(entries) /\ old \in Entry
    BY <2>1 DEF SlotNumbers
  <2>3. GenerationOf(old.uses, old.generation)
    BY <2>1, Zenon DEF GenerationInv
  <2>4. entry \in Entry /\ GenerationOf(entry.uses, entry.generation)
    <3> HIDE DEF old
    <3>1. old.uses \in Nat /\ old.generation \in 0 .. Modulus - 1
      BY <2>2 DEF Entry
    <3>2. /\ NextGeneration(old.generation) \in 1 .. Modulus - 1
          /\ GenerationOf(old.uses + 1, NextGeneration(old.generation))
      BY <2>3, <3>1, NextGenerationCounts, Zenon
    <3> QED
      BY <3>1, <3>2 DEF Entry
  <2>5. /\ entries' = [entries EXCEPT ![slot + 1] = entry]
        /\ free_slots' = SubSeq(free_slots, 1, n - 1)
        /\ id' = [id EXCEPT ![c] = [slot |-> slot, generation |-> entry.generation]]
        /\ registered' = registered + 1
        /\ UNCHANGED <<alive, events>>
    BY <1>2, ZenonT(40) DEF Register
  <2>6. entry.active /\ entry.conn = c /\ entry.uses = old.uses + 1
    BY ZenonT(40)
  <2>7. /\ free_slots' \in Seq(Nat) /\ Len(free_slots') = n - 1
        /\ \A i \in 1 .. n - 1 : free_slots'[i] = free_slots[i]
    <3>1. \A i \in 1 .. n - 1 : free_slots[i] \in Nat
      BY <2>1
    <3>2. 1 \in Int /\ n - 1 \in Int /\ n - 1 >= 0
      BY <2>1
    <3> HIDE DEF n
    <3>3. /\ SubSeq(free_slots, 1, n - 1) \in Seq(Nat)
          /\ Len(SubSeq(free_slots, 1, n - 1)) = n - 1
          /\ \A i \in 1 .. n - 1 : SubSeq(free_slots, 1, n - 1)[i] = free_slots[i]
      BY <3>1, <3>2
    <3> QED
      BY <2>5, <3>3, Zenon
  <2>8. \A i \in 1 .. n : free_slots[i] = slot <=> i = n
    BY <2>1 DEF FreeInv
  <2> HIDE DEF entry, slot, old
  <2>9. /\ entries' \in Seq(Entry) /\ Len(entries') = Len(entries)
        /\ \A j \in 1 .. Len(entries) : entries'[j] = IF j = slot + 1 THEN entry ELSE entries[j]
    BY <2>2, <2>4, <2>5, Overwritten
  <2>10. ASSUME NEW s \in SlotNumbers, s # slot PROVE entries'[s + 1] = entries[s + 1]
    <3>1. s + 1 \in 1 .. Len(entries) /\ s + 1 # slot + 1
      BY <2>1, <2>10 DEF SlotNumbers
    <3> QED
      BY <2>9, <3>1, Zenon
  <2>11. entries'[slot + 1] = entry /\ old = entries[slot + 1]
    BY <2>2, <2>9, Zenon DEF old
  <2>12. /\ \A i \in 1 .. Len(free_slots') : free_slots'[i] = free_slots[i] /\ free_slots[i] # slot
         /\ \A i \in 1 .. Len(free_slots) : free_slots[i] # slot => i \in 1 .. Len(free_slots')
    <3>1. n = Len(free_slots)
      BY Zenon
    <3> HIDE DEF n
    <3>2. Len(free_slots') = n - 1
      BY <2>7, Zenon
    <3>3. \A i \in 1 .. n - 1 : free_slots'[i] = free_slots[i] /\ free_slots[i] # slot
      BY <2>1, <2>7, <2>8
    <3>4. \A i \in 1 .. n : free_slots[i] # slot => i \in 1 .. n - 1
      BY <2>1, <2>8
    <3> QED
      BY <3>1, <3>2, <3>3, <3>4, Zenon
  <2>13. RegisterAt(c, slot, entry)
    <3> HIDE DEF n
    <3>1. slot \in 0 .. Len(entries) /\ Len(free_slots') <= Len(free_slots)
      BY <2>1, <2>2, <2>7 DEF SlotNumbers, n
    <3> QED
      BY <2>1, <2>4, <2>5, <2>6, <2>7, <2>9, <2>10, <2>11, <2>12, <3>1, Zenon DEF RegisterAt
  <2> QED
    BY <2>1, <2>4, <2>13 DEF SlotNumbers
<1> QED
  BY <1>1, <1>2, Zenon

\* Register keeps the invariant: the slot it takes was no connection's, so that no
\* id or event changes its meaning.
LEMMA RegisterStep ==
  ASSUME TableInv, NEW c \in Conns, Register(c)
  PROVE  TableInv'
<1> USE TableAssumption
<1>1. PICK slot \in Nat, entry \in Entry : RegisterAt(c, slot, entry)
  BY RegisterEffect, Zenon
<1>2. SlotNumbers \subseteq SlotNumbers' /\ slot \in SlotNumbers' /\ SlotNumbers' \subseteq SlotNumbers \cup {slot}
  BY <1>1, SMTT(30) DEF RegisterAt, SlotNumbers, TableInv, TableTypeOK
<1>3. \A s \in SlotNumbers : entries[s + 1] \in Entry
  BY DEF SlotNumbers, TableInv, TableTypeOK
<1>4. entries'[slot + 1] = entry /\ \A s \in SlotNumbers : s # slot => entries'[s + 1] = entries[s + 1]
  BY <1>1, Zenon DEF RegisterAt
<1>5. TableTypeOK'
  <2>1. [slot |-> slot, generation |-> entry.generation] \in Ids
    BY <1>1 DEF Entry, Ids
  <2> QED
    BY <1>1, <2>1 DEF RegisterAt, TableInv, TableTypeOK, Ids
<1>6. FreeInv'
  <2>1. ASSUME NEW i \in 1 .. Len(free_slots')
        PROVE  /\ i \in 1 .. Len(free_slots) /\ free_slots'[i] = free_slots[i]
               /\ free_slots[i] # slot /\ free_slots[i] \in SlotNumbers /\ ~entries[free_slots[i] + 1].active
    BY <1>1, SMTT(30) DEF RegisterAt, TableInv, TableTypeOK, FreeInv
  <2>2. ASSUME NEW s \in SlotNumbers', ~entries'[s + 1].active
        PROVE  \E i \in 1 .. Len(free_slots') : free_slots'[i] = s
    <3>1. s # slot /\ s \in SlotNumbers
      BY <1>1, <1>2, <1>4, <2>2, ZenonT(40) DEF RegisterAt
    <3>2. PICK i \in 1 .. Len(free_slots) : free_slots[i] = s
      BY <1>4, <2>2, <3>1, Zenon DEF TableInv, FreeInv
    <3>3. i \in 1 .. Len(free_slots') /\ free_slots'[i] = s
      BY <1>1, <3>1, <3>2, Zenon DEF RegisterAt
    <3> QED
      BY <3>3, Zenon
  <2>3. ASSUME NEW i \in 1 .. Len(free_slots'), NEW j \in 1 .. Len(free_slots'),
               free_slots'[i] = free_slots'[j]
        PROVE  i = j
    BY <2>1, <2>3 DEF TableInv, FreeInv
  <2>4. \A i \in 1 .. Len(free_slots') :
          free_slots'[i] \in SlotNumbers' /\ ~entries'[free_slots'[i] + 1].active
    BY <1>2, <1>4, <2>1, ZenonT(40)
  <2> QED
    BY <2>2, <2>3, <2>4, Zenon DEF FreeInv
<1>7. IdInv'
  <2> SUFFICES ASSUME NEW d \in Conns, valid(id'[d])
               PROVE  Current(id[d])' /\ entries'[id'[d].slot + 1].conn = d
    BY Zenon DEF IdInv, valid
  <2>1. CASE d = c
    <3>1. id'[d] = [slot |-> slot, generation |-> entry.generation]
      BY <1>1, <2>1, Zenon DEF RegisterAt, TableInv, TableTypeOK
    <3>2. slot < Len(entries')
      BY <1>5, <1>2 DEF SlotNumbers, TableTypeOK
    <3> QED
      BY <1>1, <1>4, <2>1, <3>1, <3>2 DEF RegisterAt, Current, valid
  <2>2. CASE d # c
    <3>1. id'[d] = id[d] /\ id[d] \in Ids
      BY <1>1, <2>2, Zenon DEF RegisterAt, TableInv, TableTypeOK
    <3>2. Current(id[d]) /\ entries[id[d].slot + 1].conn = d
      BY <3>1, Zenon DEF TableInv, IdInv, valid
    <3>3. id[d].slot \in SlotNumbers /\ id[d].slot # slot
      BY <1>1, <3>1, <3>2, SMTT(30) DEF Current, SlotNumbers, Ids, RegisterAt, TableInv, TableTypeOK
    <3>4. entries'[id[d].slot + 1] = entries[id[d].slot + 1] /\ id[d].slot < Len(entries')
      BY <1>1, <1>4, <3>3, SMTT(30) DEF RegisterAt, SlotNumbers, TableInv, TableTypeOK
    <3> QED
      BY <3>1, <3>2, <3>4, Zenon DEF Current, valid
  <2> QED
    BY <2>1, <2>2, Zenon
<1>8. GenerationInv'
  <2> SUFFICES ASSUME NEW s \in SlotNumbers'
               PROVE  GenerationOf(entries'[s + 1].uses, entries'[s + 1].generation)
    BY ZenonT(40) DEF GenerationInv, GenerationOf
  <2>1. CASE s = slot
    <3>1. entries'[s + 1] = entry /\ GenerationOf(entry.uses, entry.generation)
      BY <1>1, <1>4, <2>1, Zenon DEF RegisterAt
    <3> QED
      BY <3>1, Zenon
  <2>2. CASE s # slot
    <3>1. s \in SlotNumbers /\ entries'[s + 1] = entries[s + 1]
      BY <1>2, <1>4, <2>2, ZenonT(40)
    <3> QED
      BY <3>1, Zenon DEF TableInv, GenerationInv
  <2> QED
    BY <2>1, <2>2, Zenon
<1>9. EventInv'
  <2> SUFFICES ASSUME NEW e \in events
               PROVE  /\ e.id.slot \in SlotNumbers' /\ e.uses <= entries'[e.id.slot + 1].uses
                      /\ GenerationOf(e.uses, e.id.generation)
    BY <1>1, ZenonT(40) DEF RegisterAt, EventInv, GenerationOf
  <2>1. /\ e.id.slot \in SlotNumbers /\ e.uses <= entries[e.id.slot + 1].uses /\ e.uses \in Nat
        /\ GenerationOf(e.uses, e.id.generation)
    BY Zenon DEF TableInv, EventInv, TableTypeOK
  <2>2. entries[e.id.slot + 1].uses \in Nat
    BY <1>3, <2>1, Zenon DEF Entry
  <2>3. entries'[e.id.slot + 1].uses \in {entries[e.id.slot + 1].uses, entries[e.id.slot + 1].uses + 1}
    BY <1>1, <1>4, <2>1, ZenonT(40) DEF RegisterAt
  <2>4. e.id.slot \in SlotNumbers'
    BY <1>2, <2>1, ZenonT(40)
  <2>5. e.uses <= entries'[e.id.slot + 1].uses
    BY <2>1, <2>2, <2>3
  <2> QED
    BY <2>1, <2>4, <2>5, Zenon
<1> QED
  BY <1>5, <1>6, <1>7, <1>8, <1>9, Zenon DEF TableInv

\* Unregister and the reset of id_, which FinishClose and the destructor share,
\* keep the invariant: the slot goes on the free list with its generation.
LEMMA UnregisterStep ==
  ASSUME TableInv, NEW c \in Conns, valid(id[c]), Unregister(id[c]),
         id' = [id EXCEPT ![c] = NoId], UNCHANGED <<alive, events, registered>>
  PROVE  TableInv'
<1> USE TableAssumption
<1> DEFINE slot == id[c].slot
<1>1. id[c] \in Ids /\ Current(id[c]) /\ entries[slot + 1].conn = c
  BY Zenon DEF TableInv, TableTypeOK, IdInv
<1>2. slot \in SlotNumbers /\ slot \in Nat /\ slot + 1 \in 1 .. Len(entries) /\ entries[slot + 1].active
  BY <1>1 DEF Current, SlotNumbers, Ids, TableInv, TableTypeOK
<1>3. /\ entries' = [entries EXCEPT ![slot + 1].active = FALSE, ![slot + 1].conn = NoConn]
      /\ free_slots' = Append(free_slots, slot)
  BY <1>1, Zenon DEF Unregister
<1> HIDE DEF slot
<1>4. /\ entries' \in Seq(Entry) /\ Len(entries') = Len(entries)
      /\ entries'[slot + 1].active = FALSE
      /\ \A j \in 1 .. Len(entries) : j # slot + 1 => entries'[j] = entries[j]
      /\ \A j \in 1 .. Len(entries) : /\ entries'[j].uses = entries[j].uses
                                      /\ entries'[j].generation = entries[j].generation
  <2> DEFINE old == entries[slot + 1]
             new == [old EXCEPT !.active = FALSE, !.conn = NoConn]
  <2>1. old \in Entry
    BY <1>2 DEF TableInv, TableTypeOK
  <2>2. new \in Entry /\ new.active = FALSE /\ new.uses = old.uses /\ new.generation = old.generation
    BY <2>1, ZenonT(40) DEF Entry
  <2>3. entries' = [entries EXCEPT ![slot + 1] = new]
    BY <1>2, <1>3, ZenonT(40) DEF TableInv, TableTypeOK
  <2> HIDE DEF new
  <2>4. /\ entries' \in Seq(Entry) /\ Len(entries') = Len(entries)
        /\ \A j \in 1 .. Len(entries) : entries'[j] = IF j = slot + 1 THEN new ELSE entries[j]
    BY <1>2, <2>2, <2>3, Overwritten DEF TableInv, TableTypeOK
  <2> QED
    BY <1>2, <2>2, <2>4, Zenon
<1>5. SlotNumbers' = SlotNumbers
  BY <1>4, Zenon DEF SlotNumbers
<1>6. /\ \A s \in SlotNumbers : s # slot => entries'[s + 1] = entries[s + 1]
      /\ \A s \in SlotNumbers : /\ entries'[s + 1].uses = entries[s + 1].uses
                          /\ entries'[s + 1].generation = entries[s + 1].generation
  BY <1>2, <1>4 DEF SlotNumbers, TableInv, TableTypeOK
<1>7. /\ free_slots' \in Seq(Nat) /\ Len(free_slots') = Len(free_slots) + 1
      /\ free_slots'[Len(free_slots) + 1] = slot
      /\ \A i \in 1 .. Len(free_slots) : free_slots'[i] = free_slots[i]
  BY <1>2, <1>3, Appended DEF TableInv, TableTypeOK
<1>8. TableTypeOK'
  BY <1>4, <1>7 DEF TableInv, TableTypeOK, Ids, NoId
<1>9. FreeInv'
  <2>1. ASSUME NEW i \in 1 .. Len(free_slots)
        PROVE  /\ free_slots'[i] = free_slots[i] /\ free_slots[i] # slot
               /\ free_slots[i] \in SlotNumbers /\ ~entries[free_slots[i] + 1].active
    BY <1>2, <1>7, Zenon DEF TableInv, FreeInv
  <2>2. ASSUME NEW s \in SlotNumbers, ~entries'[s + 1].active
        PROVE  \E i \in 1 .. Len(free_slots') : free_slots'[i] = s
    <3>1. CASE s = slot
      <4>1. Len(free_slots) + 1 \in 1 .. Len(free_slots')
        BY <1>7 DEF TableInv, TableTypeOK
      <4> QED
        BY <1>7, <3>1, <4>1, Zenon
    <3>2. CASE s # slot
      <4>1. PICK i \in 1 .. Len(free_slots) : free_slots[i] = s
        BY <1>6, <2>2, <3>2, Zenon DEF TableInv, FreeInv
      <4>2. i \in 1 .. Len(free_slots') /\ free_slots'[i] = s
        BY <1>7, <4>1 DEF TableInv, TableTypeOK
      <4> QED
        BY <4>2, Zenon
    <3> QED
      BY <3>1, <3>2, Zenon
  <2>3. ASSUME NEW i \in 1 .. Len(free_slots'), NEW j \in 1 .. Len(free_slots'),
               free_slots'[i] = free_slots'[j]
        PROVE  i = j
    <3>1. \A k \in 1 .. Len(free_slots') : k \in 1 .. Len(free_slots) \/ k = Len(free_slots) + 1
      BY <1>7 DEF TableInv, TableTypeOK
    <3> QED
      BY <1>7, <2>1, <2>3, <3>1, SMTT(30) DEF TableInv, FreeInv
  <2>4. ASSUME NEW i \in 1 .. Len(free_slots')
        PROVE  free_slots'[i] \in SlotNumbers /\ ~entries'[free_slots'[i] + 1].active
    <3>1. i \in 1 .. Len(free_slots) \/ i = Len(free_slots) + 1
      BY <1>7 DEF TableInv, TableTypeOK
    <3> QED
      BY <1>2, <1>4, <1>6, <1>7, <2>1, <3>1, ZenonT(40)
  <2> QED
    BY <1>5, <2>2, <2>3, <2>4, Zenon DEF FreeInv
<1>10. IdInv'
  <2> SUFFICES ASSUME NEW d \in Conns, valid(id'[d])
               PROVE  Current(id[d])' /\ entries'[id'[d].slot + 1].conn = d
    BY Zenon DEF IdInv, valid
  <2>1. d # c /\ id'[d] = id[d] /\ id[d] \in Ids
    BY Zenon DEF TableInv, TableTypeOK, NoId, valid
  <2>2. Current(id[d]) /\ entries[id[d].slot + 1].conn = d
    BY <2>1, Zenon DEF TableInv, IdInv, valid
  <2>3. id[d].slot \in SlotNumbers /\ id[d].slot # slot
    BY <1>1, <2>1, <2>2 DEF Current, SlotNumbers, Ids, TableInv, TableTypeOK, slot
  <2> QED
    BY <1>4, <1>6, <2>1, <2>2, <2>3, ZenonT(40) DEF Current, valid
<1>11. GenerationInv'
  BY <1>5, <1>6 DEF TableInv, GenerationInv, GenerationOf
<1>12. EventInv'
  BY <1>5, <1>6, Zenon DEF TableInv, EventInv, GenerationOf
<1> QED
  BY <1>8, <1>9, <1>10, <1>11, <1>12, Zenon DEF TableInv

\* Every step keeps the invariant.
LEMMA TableStep == TableInv /\ [TableNext]_tableVars => TableInv'
<1> SUFFICES ASSUME TableInv, [TableNext]_tableVars PROVE TableInv'
  BY Zenon
<1> USE TableAssumption
<1>1. ASSUME NEW c \in Conns, Register(c) PROVE TableInv'
  BY <1>1, RegisterStep, Zenon
<1>2. ASSUME NEW c \in Conns, Close(c) PROVE TableInv'
  BY <1>2, UnregisterStep, ZenonT(40) DEF Close
<1>3. ASSUME NEW c \in Conns, Expire(c) PROVE TableInv'
  BY <1>3, SMTT(30) DEF Expire, TableInv, TableTypeOK, FreeInv, IdInv, GenerationInv, EventInv, GenerationOf, SlotNumbers,
              Current, valid
<1>4. ASSUME NEW c \in Conns, Destroy(c) PROVE TableInv'
  BY <1>4, UnregisterStep, ZenonT(40) DEF Destroy
<1>5. ASSUME NEW s \in DOMAIN entries, Raise(s) PROVE TableInv'
  <2> DEFINE event == [id |-> [slot |-> s - 1, generation |-> entries[s].generation],
                       uses |-> entries[s].uses]
  <2>1. s \in 1 .. Len(entries) /\ s - 1 \in SlotNumbers /\ entries[s] \in Entry /\ (s - 1) + 1 = s
    BY DEF TableInv, TableTypeOK, SlotNumbers
  <2>2. event \in [id : Ids, uses : Nat]
    BY <2>1 DEF Entry, Ids, SlotNumbers
  <2>3. GenerationOf(entries[s].uses, entries[s].generation)
    BY <2>1, Zenon DEF TableInv, GenerationInv
  <2>4. event.id.slot \in SlotNumbers /\ event.uses <= entries[event.id.slot + 1].uses
    BY <2>1 DEF Entry
  <2>5. GenerationOf(event.uses, event.id.generation)
    BY <2>3, Zenon
  <2>6. events' = events \cup {event} /\ UNCHANGED <<entries, free_slots, id, alive, registered>>
    BY <1>5, Zenon DEF Raise
  <2> HIDE DEF event
  <2>7. TableTypeOK' /\ FreeInv' /\ IdInv' /\ GenerationInv'
    BY <2>2, <2>6, ZenonT(40) DEF TableInv, TableTypeOK, FreeInv, IdInv, GenerationInv, GenerationOf, SlotNumbers, Current, valid
  <2>8. EventInv'
    BY <2>4, <2>5, <2>6, ZenonT(40) DEF TableInv, EventInv, GenerationOf, SlotNumbers
  <2> QED
    BY <2>7, <2>8, Zenon DEF TableInv
<1>6. ASSUME NEW e \in events, Route(e) PROVE TableInv'
  BY <1>6, ZenonT(40) DEF Route, TableInv, TableTypeOK, FreeInv, IdInv, GenerationInv, EventInv, GenerationOf, SlotNumbers,
              Current, valid
<1>7. CASE Clear
  <2>1. entries' \in Seq(Entry) /\ free_slots' \in Seq(Nat) /\ Len(entries') = 0 /\ Len(free_slots') = 0
    BY <1>7 DEF Clear
  <2>2. events' = {} /\ UNCHANGED <<id, alive, registered>> /\ \A c \in Conns : ~valid(id[c])
    BY <1>7, Zenon DEF Clear
  <2> QED
    BY <2>1, <2>2, SMTT(30) DEF TableInv, TableTypeOK, FreeInv, IdInv, GenerationInv, EventInv, SlotNumbers, valid
<1>8. CASE UNCHANGED tableVars
  BY <1>8, SMTT(30) DEF tableVars, TableInv, TableTypeOK, FreeInv, IdInv, GenerationInv, EventInv, GenerationOf, SlotNumbers,
              Current, valid
<1> QED
  BY <1>1, <1>2, <1>3, <1>4, <1>5, <1>6, <1>7, <1>8, Zenon DEF TableNext

LEMMA TableInvariance == TableSpec => []TableInv
  BY TableInitInv, TableStep, PTL DEF TableSpec

-----------------------------------------------------------------------------
\* Register and Unregister share the slots out without losing one or giving one to
\* two registrations, and Acquire finds every live id, for any number of
\* connections and registrations and any width of the generation.
THEOREM SlotsAreAccounted == TableSpec => []SlotsAccounted
<1>1. TableInv => SlotsAccounted
  <2> SUFFICES ASSUME TableInv PROVE SlotsAccounted
    BY Zenon
  <2> USE TableAssumption
  <2>1. DOMAIN free_slots = 1 .. Len(free_slots)
    BY DEF TableInv, TableTypeOK
  <2>2. ASSUME NEW c \in alive, valid(id[c]) PROVE Acquire(id[c]) = c
    BY <2>2, Zenon DEF TableInv, TableTypeOK, IdInv, Acquire
  <2>3. ASSUME NEW s \in SlotNumbers, entries[s + 1].active, entries[s + 1].conn \in alive
        PROVE  Acquire([slot |-> s, generation |-> entries[s + 1].generation]) = entries[s + 1].conn
    <3>1. entries[s + 1] \in Entry /\ s < Len(entries)
      BY DEF TableInv, TableTypeOK, SlotNumbers
    <3>2. entries[s + 1].generation # 0
      BY <3>1 DEF Entry
    <3> QED
      BY <2>3, <3>1, <3>2, Zenon DEF Acquire, Current, valid
  <2>4. {s \in SlotNumbers : ~entries[s + 1].active} = {free_slots[i] : i \in DOMAIN free_slots}
    BY <2>1 DEF TableInv, FreeInv
  <2>5. \A i, j \in DOMAIN free_slots : free_slots[i] = free_slots[j] => i = j
    BY <2>1, Zenon DEF TableInv, FreeInv
  <2> QED
    BY <2>2, <2>3, <2>4, <2>5, Zenon DEF SlotsAccounted, LiveIdAcquires
<1> QED
  BY <1>1, TableInvariance, PTL

\* An event that Acquire routes was raised for the present registration of its
\* slot, or Modulus - 1 registrations of the slot or more lie in between: with
\* a uint32_t generation, 2^32 - 1 of them.
THEOREM NoEventIsStale == TableSpec => []NoStaleDelivery
<1>1. TableInv => NoStaleDelivery
  <2> SUFFICES ASSUME TableInv, NEW e \in events, Acquire(e.id) # NoConn
               PROVE  \/ entries[e.id.slot + 1].uses = e.uses
                      \/ entries[e.id.slot + 1].uses - e.uses >= Modulus - 1
    BY Zenon DEF NoStaleDelivery
  <2> DEFINE entry == entries[e.id.slot + 1]
  <2>1. Current(e.id)
    BY Zenon DEF Acquire
  <2>2. e.id.slot \in SlotNumbers /\ e.uses \in Nat /\ e.uses <= entry.uses /\ GenerationOf(e.uses, e.id.generation)
    BY Zenon DEF TableInv, TableTypeOK, EventInv
  <2>3. entry \in Entry
    BY <2>2 DEF TableInv, TableTypeOK, SlotNumbers
  <2>4. entry.generation = e.id.generation
    BY <2>1, Zenon DEF Current
  <2>5. GenerationOf(entry.uses, entry.generation)
    BY <2>2, Zenon DEF TableInv, GenerationInv
  <2> HIDE DEF entry
  <2>6. entry.uses \in Nat /\ entry.generation \in 1 .. Modulus - 1
    BY <2>3, Zenon DEF Entry
  <2>7. entry.uses = e.uses \/ entry.uses - e.uses >= Modulus - 1
    BY <2>2, <2>4, <2>5, <2>6, SameGeneration, Zenon
  <2> QED
    BY <2>7, Zenon DEF entry
<1> QED
  BY <1>1, TableInvariance, PTL

-----------------------------------------------------------------------------
(* The runtime: the invariant. *)

\* Places in LibraryInit and LibraryShutdown with g_init_mtx held.
Starting == {"poller", "resolve", "configured", "pool", "thread"}
Stopping == {"join", "stop", "clear"}

\* Places in a call that is about a client.
WithClient == Starting \cup Stopping \cup {"init", "close", "shutdown"}

Settings == {Asked[i] : i \in DOMAIN Asked}

\* The clients that count as users.
Users == {c \in Clients : state[c] \in {"live", "closing"}}

TypeInv ==
  /\ mtx \in Threads \cup {Nobody}
  /\ inits \in Nat
  /\ running \in BOOLEAN /\ polling \in BOOLEAN
  /\ settings \in 0 .. Len(Asked)
  /\ state \in [Clients -> {"none", "creating", "live", "closing", "stopping", "gone"}]
  /\ pc \in [Threads -> {"idle", "count", "mode"} \cup WithClient]
  /\ arg \in [Threads -> Clients \cup Settings \cup {Nobody}]

\* The number of workers that is stored, or about to be.
ConfigInv ==
  /\ configured \in Nat /\ (configured > 0 => configured \in Sizes)
  /\ \A t \in Threads : pc[t] \in {"count", "mode"} => arg[t] \in Settings

\* Every call about a client has one of its own, in the state that fits.
CallInv ==
  /\ \A t \in Threads :
       /\ pc[t] \in WithClient => arg[t] \in Clients
       /\ pc[t] \in Starting \cup {"init"} => state[arg[t]] = "creating"
       /\ pc[t] \in {"close", "shutdown"} => state[arg[t]] = "closing"
       /\ pc[t] \in Stopping => state[arg[t]] = "stopping"
  /\ \A t, u \in Threads :
       pc[t] \in WithClient /\ pc[u] \in WithClient /\ arg[t] = arg[u] => t = u

\* g_init_mtx is held in the long sections and only there.
LockInv ==
  \A t \in Threads : pc[t] \in Starting \cup Stopping <=> mtx = t

\* The count of users.
CountInv ==
  /\ mtx = Nobody => inits = Cardinality(Users)
  /\ mtx # Nobody => Users = {}
  /\ mtx # Nobody /\ pc[mtx] \in Starting => inits = 1
  /\ mtx # Nobody /\ pc[mtx] \in Stopping => inits = 0

Down == ~running /\ poller = {} /\ ~polling /\ crew = {}
Up == running /\ poller = {"poller"} /\ polling /\ crew # {} /\ size \in Sizes

\* The runtime, between the long sections and at each place of one.
RuntimeInv ==
  /\ mtx = Nobody => IF Users = {} THEN Down ELSE Up
  /\ mtx # Nobody =>
       /\ ~running /\ (pc[mtx] # "join" => ~polling)
       /\ pc[mtx] = "poller" => poller = {}
       /\ pc[mtx] # "poller" => poller = {"poller"}
       /\ pc[mtx] \in (Starting \ {"thread"}) \cup {"clear"} => crew = {}
       /\ pc[mtx] \in {"pool", "thread"} => size \in Sizes
       /\ pc[mtx] = "thread" => crew # {}

IndInv == TypeInv /\ ConfigInv /\ CallInv /\ LockInv /\ CountInv /\ RuntimeInv

-----------------------------------------------------------------------------
(* Lemmas about numbers of workers and about users. *)

LEMMA SettingsTyped ==
  \A i \in DOMAIN Asked :
    Asked[i] \in [mode : {"default", "auto", "fixed"}, configured : Nat]
<1> DEFINE Values == [mode : {"default", "auto", "fixed"}, configured : Nat]
<1>1. Asked \in Seq(Values)
  BY LibraryAssumption, Zenon
<1> HIDE DEF Values
<1>2. \A i \in DOMAIN Asked : Asked[i] \in Values
  BY <1>1
<1> QED  BY <1>2, Zenon DEF Values

\* Every setting stands for a number of workers.
LEMMA SizesAreNumbers == Sizes \subseteq Nat
<1>1. DefaultWorkerThreads \in Nat
  <2>1. hardware_concurrency \div 2 \in Nat
    BY LibraryAssumption
  <2>2. Smaller(Larger(2, hardware_concurrency \div 2), kDefaultMaxWorkerThreads) \in Nat
    BY <2>1, Zenon DEF Larger, Smaller, kDefaultMaxWorkerThreads
  <2> QED  BY <2>2, LibraryAssumption DEF DefaultWorkerThreads
<1>2. \A i \in DOMAIN Asked : Asked[i].configured \in Nat
  BY SettingsTyped, Zenon
<1> QED  BY <1>1, <1>2 DEF Sizes, kDefaultWorkerThreads

\* What a setter stores is such a number, or 0.
LEMMA SettingsFit ==
  \A a \in Settings : a.configured \in Nat /\ (a.configured > 0 => a.configured \in Sizes)
<1> SUFFICES ASSUME NEW i \in DOMAIN Asked
             PROVE  /\ Asked[i].configured \in Nat
                    /\ Asked[i].configured > 0 => Asked[i].configured \in Sizes
  BY Zenon DEF Settings
<1>1. Asked[i] \in [mode : {"default", "auto", "fixed"}, configured : Nat]
  BY SettingsTyped, Zenon
<1>2. Asked[i] \in {Automatic, Fixed(0), Fixed(Asked[i].configured)}
  BY LibraryAssumption, Zenon
<1>3. Asked[i].mode = "fixed" => Asked[i].configured \in Sizes
  BY Zenon DEF Sizes
<1>4. kDefaultWorkerThreads \in Sizes
  BY Zenon DEF Sizes
<1>5. CASE Asked[i] = Automatic
  BY <1>1, <1>5 DEF Automatic
<1>6. CASE Asked[i] = Fixed(0)
  BY <1>1, <1>4, <1>6 DEF Fixed
<1>7. CASE Asked[i] = Fixed(Asked[i].configured)
  <2>1. CASE Asked[i].configured = 0
    BY <2>1, <1>4, <1>1
  <2>2. CASE Asked[i].configured # 0
    <3>1. Asked[i] = [mode |-> "fixed", configured |-> Asked[i].configured]
      BY <2>2, <1>7, Zenon DEF Fixed
    <3>2. Asked[i].mode = "fixed"
      BY <3>1
    <3> QED  BY <3>2, <1>1, <1>3, Zenon
  <2> QED  BY <2>1, <2>2, Zenon
<1> QED  BY <1>2, <1>5, <1>6, <1>7, Zenon

\* What is used of the theory of finite sets; CountingHolds shows it.
Counting ==
  /\ \A S \in SUBSET Clients : IsFiniteSet(S)
  /\ Cardinality({}) = 0
  /\ \A S : IsFiniteSet(S) =>
       /\ Cardinality(S) \in Nat /\ (Cardinality(S) = 0 => S = {})
       /\ \A x : IF x \in S THEN Cardinality(S \ {x}) = Cardinality(S) - 1
                 ELSE Cardinality(S \cup {x}) = Cardinality(S) + 1

\* The users can be counted.
LEMMA UsersFinite == ASSUME Counting PROVE IsFiniteSet(Users)
  BY Zenon DEF Users, Counting

\* How the set of users changes with the state of one client.
LEMMA UsersChange ==
  ASSUME TypeInv, NEW c \in Clients, NEW s, state' = [state EXCEPT ![c] = s]
  PROVE  /\ s \in {"live", "closing"} => Users' = Users \cup {c}
         /\ s \notin {"live", "closing"} => Users' = Users \ {c}
  BY Zenon DEF TypeInv, Users

LEMMA UserGained ==
  ASSUME Counting, TypeInv, NEW c \in Clients, state[c] = "creating",
         state' = [state EXCEPT ![c] = "live"]
  PROVE  /\ Users' # {}
         /\ Cardinality(Users) \in Nat
         /\ Cardinality(Users') = Cardinality(Users) + 1
<1>1. Users' = Users \cup {c}
  BY UsersChange, ZenonT(40)
<1>2. c \notin Users
  BY Zenon DEF Users
<1> QED  BY <1>1, <1>2, UsersFinite, Zenon DEF Counting

LEMMA UserLost ==
  ASSUME Counting, TypeInv, NEW c \in Clients, state[c] = "closing",
         NEW s \in {"stopping", "gone"}, state' = [state EXCEPT ![c] = s]
  PROVE  /\ Users # {}
         /\ Cardinality(Users) \in Nat \ {0}
         /\ Cardinality(Users') = Cardinality(Users) - 1
         /\ Cardinality(Users) = 1 <=> Users' = {}
<1>1. Users' = Users \ {c}
  BY UsersChange, ZenonT(40)
<1>2. c \in Users
  BY Zenon DEF Users
<1>3. Cardinality(Users') = Cardinality(Users) - 1
  BY <1>1, <1>2, UsersFinite, Zenon DEF Counting
<1>4. Cardinality(Users) \in Nat /\ Cardinality(Users) # 0
  BY <1>2, UsersFinite, Zenon DEF Counting
<1>5. IsFiniteSet(Users')
  BY <1>1, Zenon DEF Users, Counting
<1>6. Cardinality(Users') = 0 <=> Users' = {}
  BY <1>5, Zenon DEF Counting
<1> QED  BY <1>2, <1>3, <1>4, <1>6

\* The state of a client that is no user, before and after, does not count.
LEMMA UsersKept ==
  ASSUME TypeInv, NEW c \in Clients, NEW s,
         state[c] \in {"live", "closing"} <=> s \in {"live", "closing"},
         state' = [state EXCEPT ![c] = s]
  PROVE  Users' = Users
<1>1. c \in Users <=> s \in {"live", "closing"}
  BY Zenon DEF Users
<1> QED  BY <1>1, UsersChange, ZenonT(40)

-----------------------------------------------------------------------------
(* The invariant holds at first. *)

LEMMA InvInit == Counting /\ Init => IndInv
<1> SUFFICES ASSUME Counting, Init PROVE IndInv
  BY Zenon
<1>1. Users = {}
  BY Zenon DEF Init, Users
<1>2. TypeInv
  <2>1. settings \in 0 .. Len(Asked)
    BY LibraryAssumption DEF Init
  <2>2. state \in [Clients -> {"none", "creating", "live", "closing", "stopping", "gone"}]
    BY Zenon DEF Init
  <2>3. /\ pc \in [Threads -> {"idle", "count", "mode"} \cup WithClient]
        /\ arg \in [Threads -> Clients \cup Settings \cup {Nobody}]
    BY Zenon DEF Init
  <2> QED  BY <2>1, <2>2, <2>3, ZenonT(40) DEF TypeInv, Init
<1>3. ConfigInv
  BY Zenon DEF ConfigInv, Init, kDefaultWorkerThreads, Sizes
<1>4. CallInv
  BY Zenon DEF CallInv, Init, Starting, Stopping, WithClient
<1>5. LockInv
  BY LibraryAssumption, Zenon DEF LockInv, Init, Starting, Stopping
<1>6. CountInv
  BY <1>1, Zenon DEF CountInv, Init, Counting
<1>7. RuntimeInv
  BY <1>1, Zenon DEF RuntimeInv, Down, Init
<1> QED  BY <1>2, <1>3, <1>4, <1>5, <1>6, <1>7, Zenon DEF IndInv

-----------------------------------------------------------------------------
(* How the parts of the invariant about calls survive a step of one thread. *)

\* A thread that stays outside of g_init_mtx, or inside.
LEMMA LockKept ==
  ASSUME TypeInv, LockInv, NEW t \in Threads, NEW l,
         pc' = [pc EXCEPT ![t] = l], mtx' = mtx,
         pc[t] \in Starting \cup Stopping <=> l \in Starting \cup Stopping
  PROVE  LockInv'
  BY Zenon DEF TypeInv, LockInv

\* The one that holds it leaves.
LEMMA LockLeft ==
  ASSUME TypeInv, LockInv, NEW t \in Threads, pc[t] \in Starting \cup Stopping,
         NEW l, l \notin Starting \cup Stopping, pc' = [pc EXCEPT ![t] = l], mtx' = Nobody
  PROVE  LockInv'
<1>1. mtx = t /\ Nobody \notin Threads
  BY LibraryAssumption, Zenon DEF LockInv
<1> QED  BY <1>1, Zenon DEF TypeInv, LockInv

\* One enters while nobody is inside.
LEMMA LockTaken ==
  ASSUME TypeInv, LockInv, NEW t \in Threads, mtx = Nobody,
         NEW l \in Starting \cup Stopping, pc' = [pc EXCEPT ![t] = l], mtx' = t
  PROVE  LockInv'
<1>1. Nobody \notin Threads
  BY LibraryAssumption, Zenon
<1> QED  BY <1>1, Zenon DEF TypeInv, LockInv

\* A call moves on to place l and its client, if any, to state s.
LEMMA CallMoves ==
  ASSUME TypeInv, CallInv, NEW t \in Threads, pc[t] \in WithClient,
         NEW l \in WithClient, NEW s,
         pc' = [pc EXCEPT ![t] = l], arg' = arg,
         state'[arg[t]] = s, \A c \in Clients : c # arg[t] => state'[c] = state[c],
         l \in Starting \cup {"init"} => s = "creating",
         l \in {"close", "shutdown"} => s = "closing",
         l \in Stopping => s = "stopping"
  PROVE  CallInv'
<1>1. arg[t] \in Clients
  BY Zenon DEF CallInv
<1>2. \A u \in Threads : pc'[u] \in WithClient =>
        pc[u] \in WithClient /\ arg'[u] \in Clients /\ (u # t => arg[u] # arg[t])
  BY Zenon DEF TypeInv, CallInv
<1>3. \A u \in Threads : u # t /\ pc'[u] \in WithClient =>
        pc'[u] = pc[u] /\ state'[arg[u]] = state[arg[u]]
  BY <1>1, <1>2, Zenon DEF TypeInv
<1>4. pc'[t] = l /\ state'[arg[t]] = s
  BY <1>1, Zenon DEF TypeInv
<1>5. \A u \in Threads :
        /\ pc'[u] \in Starting \cup {"init"} => state'[arg'[u]] = "creating"
        /\ pc'[u] \in {"close", "shutdown"} => state'[arg'[u]] = "closing"
        /\ pc'[u] \in Stopping => state'[arg'[u]] = "stopping"
  BY <1>3, <1>4 DEF CallInv, WithClient
<1>6. \A u, v \in Threads :
        pc'[u] \in WithClient /\ pc'[v] \in WithClient /\ arg'[u] = arg'[v] => u = v
  BY <1>2, Zenon DEF CallInv
<1> QED  BY <1>2, <1>5, <1>6, Zenon DEF CallInv

\* A call about a client ends, which leaves the client in state s.
LEMMA CallEnds ==
  ASSUME TypeInv, CallInv, NEW t \in Threads, pc[t] \in WithClient, NEW s,
         Returns(t), state' = [state EXCEPT ![arg[t]] = s]
  PROVE  CallInv'
<1>1. arg[t] \in Clients /\ pc'[t] = "idle"
  BY Zenon DEF CallInv, TypeInv, Returns
<1>2. \A u \in Threads : pc'[u] \in WithClient =>
        /\ u # t /\ pc'[u] = pc[u] /\ arg'[u] = arg[u]
        /\ arg[u] \in Clients /\ arg[u] # arg[t]
  BY <1>1 DEF TypeInv, CallInv, Returns, Starting, Stopping, WithClient
<1>3. \A u \in Threads : pc'[u] \in WithClient => state'[arg'[u]] = state[arg[u]]
  BY <1>1, <1>2, Zenon DEF TypeInv
<1>4. \A u \in Threads :
        /\ pc'[u] \in Starting \cup {"init"} => state'[arg'[u]] = "creating"
        /\ pc'[u] \in {"close", "shutdown"} => state'[arg'[u]] = "closing"
        /\ pc'[u] \in Stopping => state'[arg'[u]] = "stopping"
  BY <1>2, <1>3 DEF CallInv, WithClient
<1>5. \A u, v \in Threads :
        pc'[u] \in WithClient /\ pc'[v] \in WithClient /\ arg'[u] = arg'[v] => u = v
  BY <1>2, Zenon DEF CallInv
<1> QED  BY <1>2, <1>4, <1>5, Zenon DEF CallInv

\* A call about client c, in which no other call is interested, begins.
LEMMA CallBegins ==
  ASSUME TypeInv, CallInv, NEW t \in Threads, NEW c \in Clients, pc[t] = "idle",
         state[c] \in {"none", "live"},
         \/ pc' = [pc EXCEPT ![t] = "init"] /\ state' = [state EXCEPT ![c] = "creating"]
         \/ pc' = [pc EXCEPT ![t] = "close"] /\ state' = [state EXCEPT ![c] = "closing"],
         arg' = [arg EXCEPT ![t] = c]
  PROVE  CallInv'
<1>1. \A u \in Threads : u # t /\ pc[u] \in WithClient =>
        arg[u] \in Clients /\ arg[u] # c
  BY Zenon DEF CallInv, WithClient
<1>2. \A u \in Threads : u # t => pc'[u] = pc[u] /\ arg'[u] = arg[u]
  BY Zenon DEF TypeInv
<1>3. \A u \in Threads : u # t /\ pc[u] \in WithClient => state'[arg[u]] = state[arg[u]]
  BY <1>1, Zenon DEF TypeInv
<1>4. /\ arg'[t] = c
      /\ \/ pc'[t] = "init" /\ state'[c] = "creating"
         \/ pc'[t] = "close" /\ state'[c] = "closing"
  BY Zenon DEF TypeInv
<1>5. \A u \in Threads :
        /\ pc'[u] \in WithClient => arg'[u] \in Clients
        /\ pc'[u] \in Starting \cup {"init"} => state'[arg'[u]] = "creating"
        /\ pc'[u] \in {"close", "shutdown"} => state'[arg'[u]] = "closing"
        /\ pc'[u] \in Stopping => state'[arg'[u]] = "stopping"
  <2> SUFFICES ASSUME NEW u \in Threads
               PROVE  /\ pc'[u] \in WithClient => arg'[u] \in Clients
                      /\ pc'[u] \in Starting \cup {"init"} => state'[arg'[u]] = "creating"
                      /\ pc'[u] \in {"close", "shutdown"} => state'[arg'[u]] = "closing"
                      /\ pc'[u] \in Stopping => state'[arg'[u]] = "stopping"
    BY Zenon
  <2>1. CASE u = t
    BY <2>1, <1>4, Zenon DEF Starting, Stopping
  <2>2. CASE u # t
    BY <2>2, <1>1, <1>2, <1>3 DEF CallInv, WithClient
  <2> QED  BY <2>1, <2>2, Zenon
<1>6. \A u, v \in Threads :
        pc'[u] \in WithClient /\ pc'[v] \in WithClient /\ arg'[u] = arg'[v] => u = v
  BY <1>1, <1>2, <1>4 DEF CallInv
<1> QED  BY <1>5, <1>6, Zenon DEF CallInv

\* A step about a client leaves the calls of setters alone.
LEMMA SettersKept ==
  ASSUME TypeInv, ConfigInv, NEW t \in Threads, NEW l, l \notin {"count", "mode"},
         pc' = [pc EXCEPT ![t] = l], \A u \in Threads : u # t => arg'[u] = arg[u],
         configured' = configured
  PROVE  ConfigInv'
  BY Zenon DEF TypeInv, ConfigInv

\* Outside of g_init_mtx, with the same users, nothing changes for the runtime.
LEMMA OutsideKept ==
  ASSUME TypeInv, LockInv, CountInv, RuntimeInv, NEW t \in Threads, NEW l,
         pc[t] \notin Starting \cup Stopping, pc' = [pc EXCEPT ![t] = l],
         UNCHANGED <<mtx, inits, runtimeVars, size>>, Users' = Users
  PROVE  CountInv' /\ RuntimeInv'
<1>1. mtx # Nobody => mtx \in Threads /\ mtx # t /\ pc'[mtx] = pc[mtx]
  BY Zenon DEF TypeInv, LockInv
<1>2. CountInv'
  BY <1>1, Zenon DEF CountInv
<1>3. RuntimeInv'
  BY <1>1, Zenon DEF RuntimeInv, Up, Down, runtimeVars
<1> QED  BY <1>2, <1>3, Zenon

\* The holder of g_init_mtx goes on with a start, or with a stop.
LEMMA InsideMoves ==
  ASSUME IndInv, NEW t \in Threads, NEW l,
         \/ pc[t] \in Starting /\ l \in Starting
         \/ pc[t] \in Stopping /\ l \in Stopping,
         Goto(t, l), UNCHANGED <<mtx, inits, state, configured, settings>>,
         running' \in BOOLEAN, polling' \in BOOLEAN
  PROVE  /\ TypeInv' /\ ConfigInv' /\ CallInv' /\ LockInv' /\ CountInv'
         /\ mtx = t /\ t # Nobody /\ pc'[t] = l
<1> USE DEF IndInv
<1>1. pc' = [pc EXCEPT ![t] = l] /\ arg' = arg /\ pc'[t] = l
  BY Zenon DEF Goto, TypeInv
<1>2. l \in WithClient /\ pc[t] \in WithClient /\ l \notin {"count", "mode"}
  BY Zenon DEF WithClient, Starting, Stopping
<1>3. TypeInv'
  BY <1>1, <1>2, Zenon DEF TypeInv
<1>4. ConfigInv'
  BY <1>1, <1>2, SettersKept, ZenonT(40)
<1>5. mtx = t /\ t # Nobody
  BY LibraryAssumption, Zenon DEF LockInv
<1>6. LockInv'
  BY <1>1, LockKept, ZenonT(40)
<1>7. CallInv'
  <2>1. arg[t] \in Clients /\ state'[arg[t]] = state[arg[t]]
    BY <1>2, Zenon DEF CallInv
  <2>2. l \in Starting \cup {"init"} => state[arg[t]] = "creating"
    BY Zenon DEF CallInv, Starting, Stopping
  <2>3. l \in Stopping => state[arg[t]] = "stopping"
    BY Zenon DEF CallInv, Starting, Stopping
  <2>4. l \notin {"close", "shutdown"}
    BY Zenon DEF Starting, Stopping
  <2> QED  BY <1>1, <1>2, <2>1, <2>2, <2>3, <2>4, CallMoves, ZenonT(40)
<1>8. CountInv'
  <2>1. Users' = Users
    BY Zenon DEF Users
  <2>2. Starting \cap Stopping = {}
    BY Zenon DEF Starting, Stopping
  <2> QED  BY <1>1, <1>5, <2>1, <2>2, Zenon DEF CountInv
<1> QED  BY <1>1, <1>3, <1>4, <1>5, <1>6, <1>7, <1>8, Zenon

-----------------------------------------------------------------------------
(* The steps of the setters and of callbacks. *)

LEMMA SetStep ==
  ASSUME IndInv, NEW t \in Threads, Set(t)
  PROVE  IndInv'
<1> USE DEF IndInv
<1>1. pc[t] = "idle" /\ pc' = [pc EXCEPT ![t] = "count"]
  BY Zenon DEF Set, Free
<1>2. settings' \in 1 .. Len(Asked) /\ Asked[settings'] \in Settings
  BY LibraryAssumption DEF Set, TypeInv, Settings
<1>3. \A u \in Threads : arg'[u] = IF u = t THEN Asked[settings'] ELSE arg[u]
  BY Zenon DEF Set, TypeInv
<1>4. \A u \in Threads : pc'[u] = IF u = t THEN "count" ELSE pc[u]
  BY <1>1, Zenon DEF TypeInv
<1>5. TypeInv'
  <2>1. settings' \in 0 .. Len(Asked)
    BY <1>2, LibraryAssumption
  <2>2. arg' \in [Threads -> Clients \cup Settings \cup {Nobody}]
    BY <1>2, Zenon DEF Set, TypeInv
  <2>3. pc' \in [Threads -> {"idle", "count", "mode"} \cup WithClient]
    BY <1>1, Zenon DEF TypeInv
  <2> QED  BY <2>1, <2>2, <2>3, Zenon DEF Set, TypeInv, runtimeVars
<1>6. ConfigInv'
  BY <1>2, <1>3, <1>4, ZenonT(40) DEF Set, ConfigInv
<1>7. CallInv'
  <2>1. "count" \notin WithClient
    BY Zenon DEF WithClient, Starting, Stopping
  <2>2. \A u \in Threads : pc'[u] \in WithClient => pc'[u] = pc[u] /\ arg'[u] = arg[u]
    BY <2>1, <1>3, <1>4, Zenon
  <2> QED  BY <2>2 DEF Set, CallInv, WithClient
<1>8. pc[t] \notin Starting \cup Stopping /\ "count" \notin Starting \cup Stopping
  BY <1>1, Zenon DEF Starting, Stopping
<1>9. LockInv'
  BY <1>1, <1>8, LockKept, ZenonT(40) DEF Set
<1>10. CountInv' /\ RuntimeInv'
  <2>1. Users' = Users
    BY Zenon DEF Set, Users
  <2> QED  BY <1>1, <1>8, <2>1, OutsideKept, ZenonT(40) DEF Set
<1> QED  BY <1>5, <1>6, <1>7, <1>9, <1>10, Zenon

LEMMA SetStoresStep ==
  ASSUME IndInv, NEW t \in Threads, SetStores(t)
  PROVE  IndInv'
<1> USE DEF IndInv
<1> PICK l \in {"mode", "idle"} : pc' = [pc EXCEPT ![t] = l]
  BY Zenon DEF SetStores, Goto, Returns
<1>1. pc[t] \in {"count", "mode"} /\ arg[t] \in Settings
  BY Zenon DEF SetStores, ConfigInv
<1>2. \A u \in Threads : pc'[u] = IF u = t THEN l ELSE pc[u]
  BY Zenon DEF TypeInv
<1>3. /\ \A u \in Threads : u # t => arg'[u] = arg[u]
      /\ l = "mode" => arg'[t] = arg[t]
      /\ arg' \in [Threads -> Clients \cup Settings \cup {Nobody}]
  <2>1. CASE pc[t] = "count"
    BY <2>1, <1>2, Zenon DEF SetStores, Goto, TypeInv
  <2>2. CASE pc[t] = "mode"
    <3>1. arg' = [arg EXCEPT ![t] = Nobody] /\ pc' = [pc EXCEPT ![t] = "idle"]
      BY <2>2, Zenon DEF SetStores, Returns
    <3>2. pc'[t] = "idle" /\ l # "mode"
      BY <3>1, <1>2, Zenon DEF TypeInv
    <3> QED  BY <3>1, <3>2, Zenon DEF TypeInv
  <2> QED  BY <2>1, <2>2, <1>1, Zenon
<1>4. TypeInv'
  <2>1. pc' \in [Threads -> {"idle", "count", "mode"} \cup WithClient]
    BY Zenon DEF TypeInv
  <2> QED  BY <2>1, <1>3, Zenon DEF SetStores, TypeInv, runtimeVars
<1>5. ConfigInv'
  <2>1. configured' \in {configured, arg[t].configured}
    BY Zenon DEF SetStores
  <2>2. configured' \in Nat /\ (configured' > 0 => configured' \in Sizes)
    BY <2>1, <1>1, SettingsFit, Zenon DEF ConfigInv
  <2>3. \A u \in Threads : pc'[u] \in {"count", "mode"} => arg'[u] \in Settings
    BY <1>1, <1>2, <1>3, ZenonT(40) DEF ConfigInv
  <2> QED  BY <2>2, <2>3, Zenon DEF ConfigInv
<1>6. CallInv'
  <2>1. l \notin WithClient
    BY Zenon DEF WithClient, Starting, Stopping
  <2>2. \A u \in Threads : pc'[u] \in WithClient => pc'[u] = pc[u] /\ arg'[u] = arg[u]
    BY <2>1, <1>2, <1>3, Zenon
  <2> QED  BY <2>2 DEF SetStores, CallInv, WithClient
<1>7. pc[t] \notin Starting \cup Stopping /\ l \notin Starting \cup Stopping
  BY <1>1, Zenon DEF Starting, Stopping
<1>8. LockInv'
  BY <1>7, LockKept, ZenonT(40) DEF SetStores
<1>9. CountInv' /\ RuntimeInv'
  <2>1. Users' = Users
    BY Zenon DEF SetStores, Users
  <2> QED  BY <1>7, <2>1, OutsideKept, ZenonT(40) DEF SetStores
<1> QED  BY <1>4, <1>5, <1>6, <1>8, <1>9, Zenon

LEMMA NothingChanges ==
  ASSUME IndInv,
         UNCHANGED <<configVars, size, mtx, inits, runtimeVars, state, worker, pc, arg>>
  PROVE  IndInv'
<1> USE DEF IndInv
<1>1. TypeInv' /\ ConfigInv'
  BY Zenon DEF TypeInv, ConfigInv, configVars, runtimeVars
<1>2. CallInv' /\ LockInv'
  BY Zenon DEF CallInv, LockInv
<1>3. Users' = Users
  BY Zenon DEF Users
<1>4. CountInv'
  BY <1>3, Zenon DEF CountInv
<1>5. RuntimeInv'
  BY <1>3, Zenon DEF RuntimeInv, Up, Down, runtimeVars
<1> QED  BY <1>1, <1>2, <1>4, <1>5, Zenon

LEMMA CallbackStep ==
  ASSUME IndInv,
         \/ \E w \in Workers, c \in Clients : CallbackBegins(w, c)
         \/ \E w \in Workers : CallbackEnds(w)
  PROVE  IndInv'
<1>1. UNCHANGED <<configVars, size, mtx, inits, runtimeVars, state, worker, pc, arg>>
  BY Zenon DEF CallbackBegins, CallbackEnds
<1> QED  BY <1>1, NothingChanges, Zenon

-----------------------------------------------------------------------------
(* The steps of a client's calls outside of g_init_mtx. *)

\* CreateClient and ReleaseClient begin.
LEMMA CallBeginsStep ==
  ASSUME IndInv, NEW t \in Threads, NEW c \in Clients, Create(t, c) \/ Release(t, c)
  PROVE  IndInv'
<1> USE DEF IndInv
<1> PICK l \in {"init", "close"}, s \in {"creating", "closing"} :
      /\ pc[t] = "idle" /\ pc' = [pc EXCEPT ![t] = l]
      /\ state' = [state EXCEPT ![c] = s]
      /\ \/ l = "init" /\ s = "creating" /\ state[c] = "none"
         \/ l = "close" /\ s = "closing" /\ state[c] = "live"
  BY Zenon DEF Create, Release, Free
<1>1. /\ arg' = [arg EXCEPT ![t] = c]
      /\ UNCHANGED <<configVars, size, mtx, inits, runtimeVars>>
  BY Zenon DEF Create, Release
<1>2. TypeInv'
  <2>1. pc' \in [Threads -> {"idle", "count", "mode"} \cup WithClient]
    BY Zenon DEF TypeInv, WithClient
  <2>2. state' \in [Clients -> {"none", "creating", "live", "closing", "stopping", "gone"}]
    BY Zenon DEF TypeInv
  <2>3. arg' \in [Threads -> Clients \cup Settings \cup {Nobody}]
    BY <1>1, Zenon DEF TypeInv
  <2> QED  BY <1>1, <2>1, <2>2, <2>3, Zenon DEF TypeInv, configVars, runtimeVars
<1>3. ConfigInv'
  <2>1. \A u \in Threads : u # t => arg'[u] = arg[u]
    BY <1>1, Zenon DEF TypeInv
  <2> QED  BY <1>1, <2>1, SettersKept, ZenonT(40) DEF configVars
<1>4. CallInv'
  BY <1>1, CallBegins, ZenonT(40)
<1>5. pc[t] \notin Starting \cup Stopping /\ l \notin Starting \cup Stopping
  BY Zenon DEF Starting, Stopping
<1>6. LockInv'
  BY <1>1, <1>5, LockKept, ZenonT(40)
<1>7. CountInv' /\ RuntimeInv'
  <2>1. Users' = Users
    BY UsersKept, ZenonT(40)
  <2> QED  BY <1>1, <1>5, <2>1, OutsideKept, ZenonT(40)
<1> QED  BY <1>2, <1>3, <1>4, <1>6, <1>7, Zenon

LEMMA CloseStep ==
  ASSUME IndInv, NEW t \in Threads, CloseFromOwner(t)
  PROVE  IndInv'
<1> USE DEF IndInv
<1>1. /\ pc[t] = "close" /\ pc' = [pc EXCEPT ![t] = "shutdown"] /\ arg' = arg
      /\ UNCHANGED <<configVars, size, mtx, inits, runtimeVars, state>>
  BY Zenon DEF CloseFromOwner, Goto
<1>2. /\ pc[t] \in WithClient /\ "shutdown" \in WithClient
      /\ pc[t] \notin Starting \cup Stopping
      /\ "shutdown" \notin Starting \cup Stopping \cup {"init", "count", "mode"}
  BY <1>1, Zenon DEF Starting, Stopping, WithClient
<1>3. TypeInv'
  BY <1>1, <1>2, Zenon DEF TypeInv, configVars, runtimeVars
<1>4. ConfigInv'
  BY <1>1, <1>2, SettersKept, ZenonT(40) DEF configVars
<1>5. CallInv'
  <2>1. arg[t] \in Clients /\ state'[arg[t]] = "closing"
    BY <1>1, <1>2, Zenon DEF CallInv
  <2> QED  BY <1>1, <1>2, <2>1, CallMoves, ZenonT(40)
<1>6. LockInv'
  BY <1>1, <1>2, LockKept, ZenonT(40)
<1>7. CountInv' /\ RuntimeInv'
  <2>1. Users' = Users
    BY <1>1, Zenon DEF Users
  <2> QED  BY <1>1, <1>2, <2>1, OutsideKept, ZenonT(40)
<1> QED  BY <1>3, <1>4, <1>5, <1>6, <1>7

\* A call about a client ends with the client in state s: what follows at once.
LEMMA CallReturns ==
  ASSUME IndInv, NEW t \in Threads, pc[t] \in WithClient, Returns(t),
         NEW s \in {"live", "gone"}, Becomes(t, s),
         UNCHANGED configVars, mtx' \in Threads \cup {Nobody}, inits' \in Nat,
         running' \in BOOLEAN, polling' \in BOOLEAN
  PROVE  /\ TypeInv' /\ ConfigInv' /\ CallInv'
         /\ arg[t] \in Clients /\ state' = [state EXCEPT ![arg[t]] = s]
<1> USE DEF IndInv
<1>1. arg[t] \in Clients /\ state' = [state EXCEPT ![arg[t]] = s]
  BY Zenon DEF CallInv, Becomes
<1>2. pc' = [pc EXCEPT ![t] = "idle"] /\ arg' = [arg EXCEPT ![t] = Nobody]
  BY Zenon DEF Returns
<1>3. TypeInv'
  <2>1. state' \in [Clients -> {"none", "creating", "live", "closing", "stopping", "gone"}]
    BY <1>1, Zenon DEF TypeInv
  <2>2. pc' \in [Threads -> {"idle", "count", "mode"} \cup WithClient]
    BY <1>2, Zenon DEF TypeInv
  <2>3. arg' \in [Threads -> Clients \cup Settings \cup {Nobody}]
    BY <1>2, Zenon DEF TypeInv
  <2> QED  BY <2>1, <2>2, <2>3, Zenon DEF TypeInv, configVars
<1>4. ConfigInv'
  <2>1. \A u \in Threads : u # t => arg'[u] = arg[u]
    BY <1>2, Zenon DEF TypeInv
  <2> QED  BY <1>2, <2>1, SettersKept, ZenonT(40) DEF configVars
<1>5. CallInv'
  BY <1>1, CallEnds, ZenonT(40)
<1> QED  BY <1>1, <1>3, <1>4, <1>5, Zenon

\* What the lock's being free says before LibraryInit and LibraryShutdown.
LEMMA FreeLock ==
  ASSUME Counting, IndInv, mtx = Nobody
  PROVE  /\ inits = Cardinality(Users) /\ (inits = 0 <=> Users = {})
         /\ Users = {} => Down
         /\ Users # {} => Up
<1> USE DEF IndInv
<1>1. Cardinality(Users) = 0 <=> Users = {}
  BY UsersFinite, Zenon DEF Counting
<1> QED  BY <1>1, Zenon DEF CountInv, RuntimeInv

LEMMA LibraryInitStep ==
  ASSUME Counting, IndInv, NEW t \in Threads, LibraryInit(t)
  PROVE  IndInv'
<1> USE DEF IndInv
<1>1. /\ pc[t] = "init" /\ mtx = Nobody /\ inits' = inits + 1
      /\ UNCHANGED <<configVars, size, runtimeVars>>
  BY Zenon DEF LibraryInit
<1>2. inits \in Nat /\ inits' \in Nat /\ running' \in BOOLEAN /\ polling' \in BOOLEAN
  BY <1>1 DEF TypeInv, runtimeVars
<1>3. pc[t] \in WithClient /\ pc[t] \notin Starting \cup Stopping
  BY <1>1, Zenon DEF WithClient, Starting, Stopping
<1>4. t # Nobody
  BY LibraryAssumption, Zenon
<1>5. CASE inits' = 1 /\ ~running
  <2>1. mtx' = t /\ pc' = [pc EXCEPT ![t] = "poller"] /\ UNCHANGED <<arg, state>>
    BY <1>5, Zenon DEF LibraryInit, Goto
  <2>2. "poller" \in Starting /\ "poller" \in WithClient /\ "poller" \notin Stopping
    BY Zenon DEF WithClient, Starting, Stopping
  <2>3. TypeInv'
    BY <1>1, <1>2, <2>1, <2>2, Zenon DEF TypeInv, configVars
  <2>4. ConfigInv'
    BY <1>1, <2>1, SettersKept, ZenonT(40) DEF configVars
  <2>5. CallInv'
    <3>1. arg[t] \in Clients /\ state[arg[t]] = "creating"
      BY <1>1, <1>3, Zenon DEF CallInv
    <3> QED  BY <1>3, <2>1, <2>2, <3>1, CallMoves, ZenonT(40)
  <2>6. LockInv'
    BY <1>1, <2>1, <2>2, LockTaken, ZenonT(40)
  <2>7. Users' = Users /\ Users = {} /\ Down
    <3>1. inits = 0
      BY <1>1, <1>2, <1>5
    <3> QED  BY <3>1, <1>1, <2>1, FreeLock, Zenon DEF Users
  <2>8. pc'[mtx'] = "poller"
    BY <2>1, Zenon DEF TypeInv
  <2>9. CountInv'
    BY <1>4, <1>5, <2>1, <2>2, <2>7, <2>8, Zenon DEF CountInv
  <2>10. RuntimeInv'
    BY <1>1, <1>4, <2>1, <2>7, <2>8, Zenon DEF RuntimeInv, Down, runtimeVars
  <2> QED  BY <2>3, <2>4, <2>5, <2>6, <2>9, <2>10, Zenon
<1>6. CASE ~(inits' = 1 /\ ~running)
  <2>1. Becomes(t, "live") /\ Returns(t) /\ mtx' = mtx
    BY <1>6, Zenon DEF LibraryInit, Created
  <2>2. /\ TypeInv' /\ ConfigInv' /\ CallInv'
        /\ arg[t] \in Clients /\ state' = [state EXCEPT ![arg[t]] = "live"]
    BY <1>1, <1>2, <1>3, <2>1, CallReturns, Zenon
  <2>3. LockInv'
    <3>1. "idle" \notin Starting \cup Stopping
      BY Zenon DEF Starting, Stopping
    <3> QED  BY <1>3, <2>1, <3>1, LockKept, ZenonT(40) DEF Returns
  <2>4. Up
    <3>1. Users # {}
      <4> SUFFICES ASSUME Users = {} PROVE FALSE
        BY Zenon
      <4> QED  BY <1>1, <1>2, <1>6, FreeLock DEF Down
    <3> QED  BY <3>1, <1>1, FreeLock, Zenon
  <2>5. Users' # {} /\ Cardinality(Users') = Cardinality(Users) + 1
    <3>1. state[arg[t]] = "creating"
      BY <1>1, Zenon DEF CallInv
    <3> QED  BY <2>2, <3>1, UserGained, ZenonT(40)
  <2>6. CountInv'
    BY <1>1, <2>1, <2>5, FreeLock, Zenon DEF CountInv
  <2>7. RuntimeInv'
    BY <1>1, <2>1, <2>4, <2>5, Zenon DEF RuntimeInv, Up, runtimeVars
  <2> QED  BY <2>2, <2>3, <2>6, <2>7, Zenon
<1> QED  BY <1>5, <1>6, Zenon

LEMMA LibraryShutdownStep ==
  ASSUME Counting, IndInv, NEW t \in Threads, LibraryShutdown(t)
  PROVE  IndInv'
<1> USE DEF IndInv
<1>1. /\ pc[t] = "shutdown" /\ mtx = Nobody
      /\ inits' = IF inits = 0 THEN 0 ELSE inits - 1
      /\ UNCHANGED <<configVars, size, poller, polling, crew>>
  BY Zenon DEF LibraryShutdown
<1>2. /\ pc[t] \in WithClient /\ pc[t] \notin Starting \cup Stopping
      /\ arg[t] \in Clients /\ state[arg[t]] = "closing"
  BY <1>1, Zenon DEF CallInv, WithClient, Starting, Stopping
<1>3. t # Nobody
  BY LibraryAssumption
<1>4. arg[t] \in Users /\ Up
  <2>1. arg[t] \in Users
    BY <1>2, Zenon DEF Users
  <2> QED  BY <2>1, <1>1, FreeLock, Zenon
<1>5. inits = Cardinality(Users) /\ inits \in Nat \ {0} /\ inits' = inits - 1 /\ inits' \in Nat
  <2>1. inits = Cardinality(Users) /\ inits # 0
    BY <1>1, <1>4, FreeLock, Zenon
  <2> QED  BY <1>1, <2>1 DEF TypeInv
<1>6. CASE inits = 1
  <2>1. /\ mtx' = t /\ running' = FALSE /\ pc' = [pc EXCEPT ![t] = "join"] /\ arg' = arg
        /\ state' = [state EXCEPT ![arg[t]] = "stopping"]
    BY <1>4, <1>6, Zenon DEF LibraryShutdown, Goto, Becomes, Up
  <2>2. /\ "join" \in Stopping /\ "join" \in WithClient
        /\ "join" \notin Starting \cup {"init", "close", "shutdown", "count", "mode"}
    BY Zenon DEF WithClient, Starting, Stopping
  <2>3. TypeInv'
    <3>1. state' \in [Clients -> {"none", "creating", "live", "closing", "stopping", "gone"}]
      BY <2>1, ZenonT(40) DEF TypeInv
    <3>2. pc' \in [Threads -> {"idle", "count", "mode"} \cup WithClient]
      BY <2>1, <2>2, Zenon DEF TypeInv
    <3> QED  BY <1>1, <1>5, <2>1, <3>1, <3>2, ZenonT(40) DEF TypeInv, configVars
  <2>4. ConfigInv'
    BY <1>1, <2>1, <2>2, SettersKept, ZenonT(40) DEF configVars
  <2>5. CallInv'
    <3>1. /\ state'[arg[t]] = "stopping"
          /\ \A c \in Clients : c # arg[t] => state'[c] = state[c]
      BY <1>2, <2>1, Zenon DEF TypeInv
    <3> QED  BY <1>2, <2>1, <2>2, <3>1, CallMoves, ZenonT(40)
  <2>6. LockInv'
    BY <1>1, <2>1, <2>2, LockTaken, ZenonT(40)
  <2>7. Users' = {}
    BY <1>2, <1>5, <1>6, <2>1, UserLost, ZenonT(40)
  <2>8. pc'[mtx'] = "join"
    BY <2>1, Zenon DEF TypeInv
  <2>9. CountInv'
    BY <1>3, <1>5, <1>6, <2>1, <2>2, <2>7, <2>8 DEF CountInv
  <2>10. RuntimeInv'
    BY <1>1, <1>3, <1>4, <2>1, <2>2, <2>8, Zenon DEF RuntimeInv, Up
  <2> QED  BY <2>3, <2>4, <2>5, <2>6, <2>9, <2>10
<1>7. CASE inits # 1
  <2>1. Becomes(t, "gone") /\ Returns(t) /\ UNCHANGED <<mtx, running>>
    BY <1>7, Zenon DEF LibraryShutdown
  <2>2. /\ TypeInv' /\ ConfigInv' /\ CallInv'
        /\ state' = [state EXCEPT ![arg[t]] = "gone"]
    <3>1. mtx' \in Threads \cup {Nobody} /\ running' \in BOOLEAN /\ polling' \in BOOLEAN
      BY <1>1, <2>1, Zenon DEF TypeInv
    <3> QED  BY <1>1, <1>2, <1>5, <2>1, <3>1, CallReturns, Zenon
  <2>3. LockInv'
    <3>1. "idle" \notin Starting \cup Stopping
      BY DEF Starting, Stopping
    <3> QED  BY <1>2, <2>1, <3>1, LockKept, ZenonT(40) DEF Returns
  <2>4. Users' # {} /\ Cardinality(Users') = Cardinality(Users) - 1
    BY <1>2, <1>5, <1>7, <2>2, UserLost, ZenonT(40)
  <2>5. CountInv'
    BY <1>1, <1>5, <2>1, <2>4, Zenon DEF CountInv
  <2>6. RuntimeInv'
    BY <1>1, <1>4, <2>1, <2>4, Zenon DEF RuntimeInv, Up
  <2> QED  BY <2>2, <2>3, <2>5, <2>6, Zenon
<1> QED  BY <1>6, <1>7, Zenon

-----------------------------------------------------------------------------
(* The steps of a start and of a stop. *)

\* A start that fails, with all undone that was done, leaves nothing.
LEMMA StartFails ==
  ASSUME Counting, IndInv, NEW t \in Threads, pc[t] \in Starting, InitFails(t),
         UNCHANGED <<configVars, running, polling>>, poller' = {}, crew' = {}
  PROVE  IndInv'
<1> USE DEF IndInv
<1>1. mtx = t /\ mtx # Nobody
  BY LibraryAssumption, Zenon DEF LockInv
<1>2. Users = {} /\ inits = 1 /\ ~running /\ ~polling
  <2>1. pc[t] # "join"
    BY Zenon DEF Starting
  <2> QED  BY <1>1, <2>1, Zenon DEF CountInv, RuntimeInv
<1>3. mtx' = Nobody /\ inits' = 0 /\ Becomes(t, "gone") /\ Returns(t)
  BY <1>2 DEF InitFails, Unlock
<1>4. pc[t] \in WithClient
  BY Zenon DEF WithClient
<1>5. /\ TypeInv' /\ ConfigInv' /\ CallInv'
      /\ arg[t] \in Clients /\ state' = [state EXCEPT ![arg[t]] = "gone"]
  <2>1. running' \in BOOLEAN /\ polling' \in BOOLEAN
    BY Zenon DEF TypeInv
  <2> QED  BY <1>3, <1>4, <2>1, CallReturns, Zenon
<1>6. LockInv'
  <2>1. "idle" \notin Starting \cup Stopping
    BY Zenon DEF Starting, Stopping
  <2> QED  BY <1>3, <2>1, LockLeft, ZenonT(40) DEF Returns
<1>7. Users' = {}
  <2>1. TypeInv /\ "gone" \notin {"live", "closing"}
    BY Zenon
  <2>2. Users' = Users \ {arg[t]}
    BY ONLY <1>5, <2>1, UsersChange, ZenonT(40)
  <2> QED  BY <2>2, <1>2, Zenon
<1>8. CountInv'
  BY <1>3, <1>7, Zenon DEF CountInv, Counting
<1>9. RuntimeInv'
  BY <1>2, <1>3, <1>7, Zenon DEF RuntimeInv, Down
<1> QED  BY <1>5, <1>6, <1>8, <1>9, ZenonT(40)

LEMMA StartPollerStep ==
  ASSUME Counting, IndInv, NEW t \in Threads, StartPoller(t)
  PROVE  IndInv'
<1> USE DEF IndInv
<1>1. /\ pc[t] = "poller" /\ pc[t] \in Starting
      /\ UNCHANGED <<configVars, running, polling, crew>>
  BY Zenon DEF StartPoller, Starting
<1>2. mtx = t /\ mtx # Nobody
  BY <1>1, LibraryAssumption, Zenon DEF LockInv
<1>3. crew = {} /\ ~running /\ ~polling
  BY <1>1, <1>2, Zenon DEF RuntimeInv
<1>4. CASE PollerInit /\ Goto(t, "resolve") /\ UNCHANGED <<mtx, inits, state, worker>>
  <2>1. "resolve" \in Starting /\ running' \in BOOLEAN /\ polling' \in BOOLEAN
    BY <1>1, Zenon DEF Starting, TypeInv
  <2>2. /\ TypeInv' /\ ConfigInv' /\ CallInv' /\ LockInv' /\ CountInv'
        /\ pc'[t] = "resolve"
    BY <1>1, <1>4, <2>1, InsideMoves, Zenon DEF configVars
  <2>3. RuntimeInv'
    BY <1>1, <1>2, <1>3, <1>4, <2>2, Zenon DEF RuntimeInv, PollerInit
  <2> QED  BY <2>2, <2>3, Zenon
<1>5. CASE /\ InitFails(t)
           /\ poller' \in EpollInitFails \cup KqueueInitFails \cup IocpInitFails
  <2>1. poller' = {}
    BY <1>5, Zenon DEF EpollInitFails, KqueueInitFails, IocpInitFails
  <2> QED  BY <1>1, <1>3, <1>5, <2>1, StartFails, Zenon
<1> QED  BY <1>4, <1>5, Zenon DEF StartPoller

LEMMA ResolveStep ==
  ASSUME IndInv, NEW t \in Threads, ResolveWorkerThreads(t)
  PROVE  IndInv'
<1> USE DEF IndInv
<1> PICK l \in {"configured", "pool"} : Goto(t, l)
  BY Zenon DEF ResolveWorkerThreads
<1>1. /\ pc[t] \in {"resolve", "configured"}
      /\ UNCHANGED <<mtx, inits, runtimeVars, configVars, state>>
  BY Zenon DEF ResolveWorkerThreads
<1>2. pc[t] \in Starting /\ l \in Starting /\ running' \in BOOLEAN /\ polling' \in BOOLEAN
  BY <1>1, Zenon DEF Starting, TypeInv, runtimeVars
<1>3. /\ TypeInv' /\ ConfigInv' /\ CallInv' /\ LockInv' /\ CountInv'
      /\ mtx = t /\ t # Nobody /\ pc'[t] = l
  BY <1>1, <1>2, InsideMoves, Zenon DEF configVars
<1>4. l = "pool" => size' \in Sizes
  <2>1. {kDefaultWorkerThreads, DefaultWorkerThreads} \subseteq Sizes
    BY Zenon DEF Sizes
  <2>2. CASE pc[t] = "resolve"
    <3>1. Goto(t, IF mode = "auto" THEN "pool" ELSE "configured")
      BY <2>2, Zenon DEF ResolveWorkerThreads
    <3>2. pc'[t] = IF mode = "auto" THEN "pool" ELSE "configured"
      BY <3>1, Zenon DEF Goto, TypeInv
    <3> QED  BY <2>1, <2>2, <1>3, <3>2, ZenonT(40) DEF ResolveWorkerThreads
  <2>3. CASE pc[t] = "configured"
    <3>1. size' = IF configured > 0 THEN configured ELSE kDefaultWorkerThreads
      BY <2>3, Zenon DEF ResolveWorkerThreads
    <3> QED  BY <2>1, <3>1, Zenon DEF ConfigInv
  <2> QED  BY <1>1, <2>2, <2>3, Zenon
<1>5. RuntimeInv'
  BY <1>1, <1>3, <1>4, Zenon DEF RuntimeInv, Starting, runtimeVars
<1> QED  BY <1>3, <1>5, Zenon

LEMMA StartPoolStep ==
  ASSUME Counting, IndInv, NEW t \in Threads, StartPool(t)
  PROVE  IndInv'
<1> USE DEF IndInv
<1>1. pc[t] = "pool" /\ pc[t] \in Starting /\ UNCHANGED <<configVars, running, polling>>
  BY Zenon DEF StartPool, Starting
<1>2. mtx = t /\ mtx # Nobody
  BY <1>1, LibraryAssumption, Zenon DEF LockInv
<1>3. crew = {} /\ poller = {"poller"} /\ ~running /\ ~polling /\ size \in Sizes
  BY <1>1, <1>2, Zenon DEF RuntimeInv, Starting
<1>4. CASE /\ crew' = {starts'} \X (1 .. Larger(1, size))
           /\ Goto(t, "thread")
           /\ UNCHANGED <<mtx, inits, poller, size, state, worker>>
  <2>1. "thread" \in Starting /\ running' \in BOOLEAN /\ polling' \in BOOLEAN
    BY <1>1, Zenon DEF Starting, TypeInv
  <2>2. /\ TypeInv' /\ ConfigInv' /\ CallInv' /\ LockInv' /\ CountInv'
        /\ pc'[t] = "thread"
    BY <1>1, <1>4, <2>1, InsideMoves, Zenon DEF configVars
  <2>3. crew' # {}
    <3>1. Larger(1, size) \in Nat /\ Larger(1, size) >= 1
      BY <1>3, SizesAreNumbers DEF Larger
    <3>2. 1 \in 1 .. Larger(1, size)
      BY <3>1
    <3>3. <<starts', 1>> \in crew'
      BY <1>4, <3>2, Zenon
    <3> QED  BY <3>3, Zenon
  <2>4. RuntimeInv'
    BY <1>1, <1>2, <1>3, <1>4, <2>2, <2>3, Zenon DEF RuntimeInv, Starting
  <2> QED  BY <2>2, <2>4, Zenon
<1>5. CASE InitFails(t) /\ PollerShutdown /\ crew' = crew
  BY <1>1, <1>3, <1>5, StartFails, Zenon DEF PollerShutdown
<1> QED  BY <1>4, <1>5, Zenon DEF StartPool

LEMMA StartThreadStep ==
  ASSUME Counting, IndInv, NEW t \in Threads, StartThread(t)
  PROVE  IndInv'
<1> USE DEF IndInv
<1>1. pc[t] = "thread" /\ pc[t] \in Starting /\ UNCHANGED configVars
  BY Zenon DEF StartThread, Starting
<1>2. mtx = t /\ mtx # Nobody
  BY <1>1, LibraryAssumption, Zenon DEF LockInv
<1>3. /\ crew # {} /\ poller = {"poller"} /\ ~running /\ ~polling /\ size \in Sizes
      /\ Users = {} /\ inits = 1
  BY <1>1, <1>2, Zenon DEF RuntimeInv, CountInv
<1>4. CASE /\ running' = TRUE /\ polling' = TRUE
           /\ Unlock
           /\ Created(t)
           /\ UNCHANGED <<inits, poller, size, crew>>
  <2>1. Becomes(t, "live") /\ Returns(t) /\ mtx' = Nobody
    BY <1>4, Zenon DEF Created, Unlock
  <2>2. pc[t] \in WithClient
    BY <1>1, Zenon DEF WithClient
  <2>3. /\ TypeInv' /\ ConfigInv' /\ CallInv'
        /\ arg[t] \in Clients /\ state' = [state EXCEPT ![arg[t]] = "live"]
    BY <1>1, <1>3, <1>4, <2>1, <2>2, CallReturns, Zenon
  <2>4. LockInv'
    <3>1. "idle" \notin Starting \cup Stopping
      BY DEF Starting, Stopping
    <3> QED  BY <1>1, <2>1, <3>1, LockLeft, ZenonT(40) DEF Returns
  <2>5. Users' # {} /\ Cardinality(Users') = Cardinality(Users) + 1
    <3>1. state[arg[t]] = "creating"
      BY <1>1, Zenon DEF CallInv
    <3> QED  BY <2>3, <3>1, UserGained, ZenonT(40)
  <2>6. Cardinality(Users) = 0
    BY <1>3, Zenon DEF Counting
  <2>7. CountInv'
    BY <1>3, <1>4, <2>1, <2>5, <2>6, SMTT(30) DEF CountInv
  <2>8. RuntimeInv'
    BY <1>3, <1>4, <2>1, <2>5, Zenon DEF RuntimeInv, Up
  <2> QED  BY <2>3, <2>4, <2>7, <2>8
<1>5. CASE InitFails(t) /\ crew' = {} /\ PollerShutdown /\ UNCHANGED <<running, polling>>
  BY <1>1, <1>5, StartFails, Zenon DEF PollerShutdown
<1> QED  BY <1>4, <1>5, ZenonT(40) DEF StartThread

\* StopPolling and StopPool: one more part of the runtime is gone.
LEMMA StopStep ==
  ASSUME IndInv, NEW t \in Threads, StopPolling(t) \/ StopPool(t)
  PROVE  IndInv'
<1> USE DEF IndInv
<1> PICK l \in {"stop", "clear"} :
      /\ Goto(t, l)
      /\ \/ pc[t] = "join" /\ l = "stop" /\ polling' = FALSE /\ UNCHANGED crew
         \/ pc[t] = "stop" /\ l = "clear" /\ crew' = {} /\ UNCHANGED polling
  BY Zenon DEF StopPolling, StopPool
<1>1. UNCHANGED <<configVars, mtx, inits, running, poller, state>>
  BY Zenon DEF StopPolling, StopPool
<1>2. pc[t] \in Stopping /\ l \in Stopping /\ running' \in BOOLEAN /\ polling' \in BOOLEAN
  BY <1>1, ZenonT(40) DEF Stopping, TypeInv
<1>3. /\ TypeInv' /\ ConfigInv' /\ CallInv' /\ LockInv' /\ CountInv'
      /\ mtx = t /\ t # Nobody /\ pc'[t] = l
  BY <1>1, <1>2, InsideMoves, ZenonT(40) DEF configVars
<1>4. RuntimeInv'
  BY <1>1, <1>3, SMTT(30) DEF RuntimeInv, Starting
<1> QED  BY <1>3, <1>4, Zenon

LEMMA StopClearStep ==
  ASSUME Counting, IndInv, NEW t \in Threads, StopClear(t)
  PROVE  IndInv'
<1> USE DEF IndInv
<1>1. /\ pc[t] = "clear" /\ pc[t] \in Stopping /\ pc[t] \in WithClient
      /\ UNCHANGED <<configVars, inits, running, polling, crew>>
      /\ poller' = {} /\ mtx' = Nobody /\ Becomes(t, "gone") /\ Returns(t)
  BY Zenon DEF StopClear, Stopping, WithClient, PollerShutdown, Unlock
<1>2. mtx = t /\ mtx # Nobody
  BY <1>1, LibraryAssumption, Zenon DEF LockInv
<1>3. crew = {} /\ ~running /\ ~polling /\ Users = {} /\ inits = 0
  BY <1>1, <1>2, Zenon DEF RuntimeInv, CountInv
<1>4. /\ TypeInv' /\ ConfigInv' /\ CallInv'
      /\ arg[t] \in Clients /\ state' = [state EXCEPT ![arg[t]] = "gone"]
  BY <1>1, <1>3, CallReturns, Zenon DEF TypeInv
<1>5. LockInv'
  <2>1. "idle" \notin Starting \cup Stopping
    BY DEF Starting, Stopping
  <2> QED  BY <1>1, <2>1, LockLeft, ZenonT(40) DEF Returns
<1>6. Users' = {}
  <2>1. TypeInv /\ "gone" \notin {"live", "closing"}
    BY Zenon
  <2>2. Users' = Users \ {arg[t]}
    BY ONLY <1>4, <2>1, UsersChange, ZenonT(40)
  <2> QED  BY <2>2, <1>3, Zenon
<1>7. CountInv'
  BY <1>1, <1>3, <1>6, ZenonT(40) DEF CountInv, Counting
<1>8. RuntimeInv'
  BY <1>1, <1>3, <1>6, Zenon DEF RuntimeInv, Down
<1> QED  BY <1>4, <1>5, <1>7, <1>8, Zenon

-----------------------------------------------------------------------------
(* The theorems. *)

LEMMA InvStep == Counting /\ IndInv /\ [Next]_vars => IndInv'
<1> SUFFICES ASSUME Counting, IndInv, [Next]_vars PROVE IndInv'
  BY Zenon
<1>1. CASE \E t \in Threads, c \in Clients : Create(t, c) \/ Release(t, c)
  BY <1>1, CallBeginsStep, Zenon
<1>2. CASE \E t \in Threads : Set(t) \/ Step(t)
  BY <1>2, SetStep, SetStoresStep, LibraryInitStep, StartPollerStep, ResolveStep,
     StartPoolStep, StartThreadStep, CloseStep, LibraryShutdownStep, StopStep,
     StopClearStep, Zenon DEF Step
<1>3. CASE \/ \E w \in Workers, c \in Clients : CallbackBegins(w, c)
           \/ \E w \in Workers : CallbackEnds(w)
  BY <1>3, CallbackStep, Zenon
<1>4. CASE UNCHANGED vars
  <2>1. UNCHANGED <<configVars, size, mtx, inits, runtimeVars, state, worker, pc, arg>>
    BY <1>4, Zenon DEF vars
  <2> QED  BY <2>1, NothingChanges, Zenon
<1> QED  BY <1>1, <1>2, <1>3, <1>4, Zenon DEF Next

INSTANCE FiniteSetTheorems

LEMMA CountingHolds == Counting
<1>1. \A S \in SUBSET Clients : IsFiniteSet(S)
  <2>1. IsFiniteSet(1 .. MaxClients)
    BY FS_Interval, LibraryAssumption, SMTT(30)
  <2> QED  BY <2>1, FS_Subset, ZenonT(40) DEF Clients
<1> QED  BY <1>1, FS_EmptySet, FS_CardinalityType, FS_AddElement, FS_RemoveElement, ZenonT(40) DEF Counting

LEMMA Invariance == Spec => []IndInv
<1>1. Init => IndInv
  BY CountingHolds, InvInit, Zenon
<1>2. IndInv /\ [Next]_vars => IndInv'
  BY CountingHolds, InvStep, ZenonT(40)
<1> QED  BY <1>1, <1>2, PTL DEF Spec

\* While a client exists the whole runtime is there, with a number of workers that
\* some setting stands for, for any threads, clients and settings (LibraryInit,
\* LibraryShutdown, GlobalRuntime::Start, ResolveWorkerThreads).
THEOREM RuntimeIsThereForClients == Spec => []ClientsHaveRuntime
<1>1. IndInv => ClientsHaveRuntime
  <2> SUFFICES ASSUME IndInv, Users # {}
               PROVE  running /\ poller = {"poller"} /\ polling /\ crew # {} /\ size \in Sizes
    BY Zenon DEF ClientsHaveRuntime, Users
  <2>1. mtx = Nobody
    BY Zenon DEF IndInv, CountInv
  <2> QED  BY <2>1, Zenon DEF IndInv, RuntimeInv, Up
<1> QED  BY <1>1, Invariance, PTL

\* Without users nothing of the runtime is left, also after a start that failed half
\* way, for any threads, clients and settings (GlobalRuntime::Start, Stop).
THEOREM NothingIsLeftBehind == Spec => []NothingLeftWithoutUsers
<1>1. IndInv => NothingLeftWithoutUsers
  BY CountingHolds, FreeLock, Zenon DEF NothingLeftWithoutUsers, Down
<1> QED  BY <1>1, Invariance, PTL
=============================================================================
