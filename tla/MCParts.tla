------------------------------ MODULE MCParts -------------------------------
(***************************************************************************)
(* Five small components for TLC: ownership behind the C interface (CApi), *)
(* addresses (HostPort), the log sink (Log), slices (Slices) and the table *)
(* of connections (ConnectionTable).  They share no variable, so an        *)
(* invariant or a step property of one holds in every interleaving of them *)
(* if it holds when the others stand still; a behaviour here is one of the *)
(* five.                                                                   *)
(***************************************************************************)
EXTENDS CApi, HostPort, Log, Slices, ConnectionTable

CONSTANTS k1, k2, a1, a2, o1, h1, c1, c2, t1, x1, x2, b1, b2, b3, n1, n2

VARIABLE part

vars == <<part, apiVars, resolveVars, logVars, sliceVars, tableVars>>

TwoCodecs == {k1, k2}
TwoAddresses == {a1, a2}
OneOptions == {o1}
OneHandler == {h1}
TwoClients == {c1, c2}
OneLogger == {t1}
TwoLogCallbacks == {"f1", "f2"}
TwoLetters == {"a", "http"}
PortEdges == {0, 1, 65535, 65536}
TwoSlots == {x1, x2}
ThreeBlocks == {b1, b2, b3}
TwoConns == {n1, n2}
UpToThree == {<<1>>, <<1, 2>>, <<1, 2, 3>>}

Symmetry ==
  Permutations(TwoCodecs) \cup Permutations(ThreeBlocks)

Init ==
  /\ part \in {"api", "resolve", "log", "slices", "table"}
  /\ ApiInit /\ ResolveInit /\ LogInit /\ SlicesInit /\ TableInit

Next ==
  \/ part = "api" /\ ApiNext /\ UNCHANGED <<part, resolveVars, logVars, sliceVars, tableVars>>
  \/ part = "resolve" /\ ResolveNext /\ UNCHANGED <<part, apiVars, logVars, sliceVars, tableVars>>
  \/ part = "log" /\ LogNext /\ UNCHANGED <<part, apiVars, resolveVars, sliceVars, tableVars>>
  \/ part = "slices" /\ SlicesNext /\ UNCHANGED <<part, apiVars, resolveVars, logVars, tableVars>>
  \/ part = "table" /\ TableNext /\ UNCHANGED <<part, apiVars, resolveVars, logVars, sliceVars>>

Spec == Init /\ [][Next]_vars
=============================================================================
