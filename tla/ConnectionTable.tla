-------------------------- MODULE ConnectionTable --------------------------
(***************************************************************************)
(* The table that routes poll and timer events to connections by           *)
(* ConnectionId (src/src/net/connection_table.cc, connection_id.h).  Every *)
(* operation holds mtx_ and is one step.  Events carry an id, not a        *)
(* pointer, and may outlive the registration they were raised for; a slot  *)
(* is reused, so that only the generation tells its registrations apart.   *)
(*                                                                         *)
(* uses, in an entry and in an event, counts the registrations of a slot   *)
(* without wrapping.  It is not in the code; the properties compare it     *)
(* with what the generation makes of it.                                   *)
(***************************************************************************)
EXTENDS Integers, Sequences, FiniteSets

CONSTANTS
  Conns,
  NoConn,         \* an empty pointer
  Modulus,        \* 2^32 in the code: generation is a uint32_t
  MaxRegistered,  \* bound: registrations
  MaxEvents       \* bound: events on their way

ASSUME TableAssumption ==
  NoConn \notin Conns /\ Modulus \in Nat /\ Modulus > 2 /\ MaxRegistered \in Nat /\ MaxEvents \in Nat

VARIABLES
  entries,     \* slot s is entries[s + 1]
  free_slots,  \* a stack of slots
  id,          \* per connection: its id_
  alive,       \* connections whose weak_ptr can still be locked
  events,      \* ids in poll results and timers that were not routed yet
  registered   \* number of registrations

tableVars == <<entries, free_slots, id, alive, events, registered>>

NoId == [slot |-> 0, generation |-> 0]

valid(i) == i.generation # 0

TableInit ==
  /\ entries = <<>> /\ free_slots = <<>>
  /\ id = [c \in Conns |-> NoId]
  /\ alive = Conns
  /\ events = {}
  /\ registered = 0

-----------------------------------------------------------------------------
\* Mutant: the generation may become 0, which valid() takes for no id.
NextGenerationMayBeZero(g) == (g + 1) % Modulus

NextGeneration(g) == IF (g + 1) % Modulus = 0 THEN 1 ELSE (g + 1) % Modulus

\* Mutant: a reused slot keeps its generation.
RegisterReuses(c) ==
  LET reuse == free_slots # <<>>
      slot == IF reuse THEN free_slots[Len(free_slots)] ELSE Len(entries)
      old == IF reuse THEN entries[slot + 1] ELSE [generation |-> 1, uses |-> 0]
      entry == [generation |-> old.generation, active |-> TRUE, conn |-> c, uses |-> old.uses + 1]
  IN
  /\ c \in alive
  /\ registered < MaxRegistered
  /\ entries' = IF reuse THEN [entries EXCEPT ![slot + 1] = entry] ELSE Append(entries, entry)
  /\ free_slots' = IF reuse THEN SubSeq(free_slots, 1, Len(free_slots) - 1) ELSE free_slots
  /\ id' = [id EXCEPT ![c] = [slot |-> slot, generation |-> entry.generation]]
  /\ registered' = registered + 1
  /\ UNCHANGED <<alive, events>>

\* Register, and id_ = its result.  A connection may still hold an id, which is
\* then lost and stays registered.
Register(c) ==
  LET reuse == free_slots # <<>>
      slot == IF reuse THEN free_slots[Len(free_slots)] ELSE Len(entries)
      old == IF reuse THEN entries[slot + 1] ELSE [generation |-> 0, uses |-> 0]
      entry == [generation |-> NextGeneration(old.generation), active |-> TRUE, conn |-> c,
                uses |-> old.uses + 1]
  IN
  /\ c \in alive
  /\ registered < MaxRegistered
  /\ entries' = IF reuse THEN [entries EXCEPT ![slot + 1] = entry] ELSE Append(entries, entry)
  /\ free_slots' = IF reuse THEN SubSeq(free_slots, 1, Len(free_slots) - 1) ELSE free_slots
  /\ id' = [id EXCEPT ![c] = [slot |-> slot, generation |-> entry.generation]]
  /\ registered' = registered + 1
  /\ UNCHANGED <<alive, events>>

\* The guards that Acquire and Unregister share.
Current(i) ==
  /\ valid(i)
  /\ i.slot < Len(entries)
  /\ entries[i.slot + 1].active
  /\ entries[i.slot + 1].generation = i.generation

Acquire(i) ==
  IF Current(i) /\ entries[i.slot + 1].conn \in alive THEN entries[i.slot + 1].conn ELSE NoConn

\* Mutant: the slot is not put back.
UnregisterKeepsSlot(i) ==
  IF Current(i)
    THEN /\ entries' = [entries EXCEPT ![i.slot + 1].active = FALSE, ![i.slot + 1].conn = NoConn]
         /\ UNCHANGED free_slots
    ELSE UNCHANGED <<entries, free_slots>>

Unregister(i) ==
  IF Current(i)
    THEN /\ entries' = [entries EXCEPT ![i.slot + 1].active = FALSE, ![i.slot + 1].conn = NoConn]
         /\ free_slots' = Append(free_slots, i.slot)
    ELSE UNCHANGED <<entries, free_slots>>

\* FinishClose
Close(c) ==
  /\ c \in alive
  /\ valid(id[c])
  /\ Unregister(id[c])
  /\ id' = [id EXCEPT ![c] = NoId]
  /\ UNCHANGED <<alive, events, registered>>

\* ~ClientConnection; the weak_ptr has expired before it runs.
Expire(c) ==
  /\ c \in alive
  /\ alive' = alive \ {c}
  /\ UNCHANGED <<entries, free_slots, id, events, registered>>

Destroy(c) ==
  /\ c \notin alive
  /\ valid(id[c])
  /\ Unregister(id[c])
  /\ id' = [id EXCEPT ![c] = NoId]
  /\ UNCHANGED <<alive, events, registered>>

\* A poll event or a timer with the id of a registered socket.
Raise(s) ==
  /\ entries[s].active
  /\ Cardinality(events) < MaxEvents
  /\ events' = events \cup {[id |-> [slot |-> s - 1, generation |-> entries[s].generation],
                             uses |-> entries[s].uses]}
  /\ UNCHANGED <<entries, free_slots, id, alive, registered>>

\* PollLoop routes an event to Acquire(e.id).
Route(e) ==
  /\ events' = events \ {e}
  /\ UNCHANGED <<entries, free_slots, id, alive, registered>>

\* GlobalRuntime::Stop, after the timers were cleared and the poll thread was
\* joined, with no client left.
Clear ==
  /\ events = {} /\ alive = {}
  /\ \A c \in Conns : ~valid(id[c])
  /\ entries # <<>>
  /\ entries' = <<>> /\ free_slots' = <<>>
  /\ UNCHANGED <<id, alive, events, registered>>

TableNext ==
  \/ \E c \in Conns : Register(c) \/ Close(c) \/ Expire(c) \/ Destroy(c)
  \/ \E s \in DOMAIN entries : Raise(s)
  \/ \E e \in events : Route(e)
  \/ Clear

TableSpec == TableInit /\ [][TableNext]_tableVars

-----------------------------------------------------------------------------
(* Properties *)

SlotNumbers == 0 .. Len(entries) - 1
Ids == [slot : Nat, generation : 0 .. Modulus - 1]

\* A connection that has registered is found by its id until it unregisters,
\* whatever slots others take, and no id that Register hands out is refused as
\* invalid, at the point where generation wraps around either.
LiveIdAcquires ==
  /\ \A c \in alive : valid(id[c]) => Acquire(id[c]) = c
  /\ \A s \in SlotNumbers :
       entries[s + 1].active /\ entries[s + 1].conn \in alive =>
         Acquire([slot |-> s, generation |-> entries[s + 1].generation]) = entries[s + 1].conn

\* A slot is either in use or on the free list, there once: no slot is given to
\* two registrations, and none is lost.  The live ids are found (LiveIdAcquires).
SlotsAccounted ==
  /\ LiveIdAcquires
  /\ {s \in SlotNumbers : ~entries[s + 1].active} = {free_slots[i] : i \in DOMAIN free_slots}
  /\ \A i, j \in DOMAIN free_slots : free_slots[i] = free_slots[j] => i = j

\* An event raised for an earlier registration of a slot is dropped: it reaches
\* a later one only after the slot was registered Modulus - 1 times more.
NoStaleDelivery ==
  \A e \in events :
    Acquire(e.id) # NoConn =>
      \/ entries[e.id.slot + 1].uses = e.uses
      \/ entries[e.id.slot + 1].uses - e.uses >= Modulus - 1
=============================================================================
