-------------------------------- MODULE CApi --------------------------------
(***************************************************************************)
(* Who owns what behind the C interface (src/bridge/c.cc): codecs with     *)
(* their wrappers, options with their copy of the local address, handlers, *)
(* client handles, and the connections, which the worker may keep longer   *)
(* than the handle.  A codec moves from its wrapper to the options, and    *)
(* from there to the connection of the client that is created with them.   *)
(*                                                                         *)
(* Of a connection only that is modelled which touches these objects: the  *)
(* task of a Connect reads the local address, received data go through the *)
(* codec to the handler, and the last reference deletes the codec.         *)
(*                                                                         *)
(* The application uses only what it has not destroyed, and destroys a     *)
(* handler when connx_client_destroy has returned for every client made    *)
(* with it.  Calls come from any thread and from callbacks.  Calls with a  *)
(* null argument return at once.                                           *)
(***************************************************************************)
EXTENDS Naturals, FiniteSets

CONSTANTS Codecs, Addresses, Options, Handlers, Clients, NULL

\* What options and connections hold.
OptionsHold ==
  [codec : Codecs \cup {NULL}, local_address : Addresses \cup {NULL},
   local_address_copy : Addresses \cup {NULL}]
ConnectionHolds ==
  [codec : Codecs, local_address : Addresses \cup {NULL}, handler : Handlers,
   made_with : Options, work : {"idle", "connect", "connected", "callback", "closing"}]

\* NULL is no object, and no object is of two kinds.
ASSUME ApiAssumption ==
  /\ NULL \notin Codecs \cup Addresses \cup OptionsHold \cup ConnectionHolds
  /\ Codecs \cap Options = {} /\ Codecs \cap Clients = {} /\ Options \cap Clients = {}

VARIABLES codec,     \* "none", "live" or "deleted"
          wrapper,   \* of each codec: "none", "holds", "empty" or "freed"
          address,   \* copies of local addresses: "none", "live" or "freed"
          options,   \* NULL, or what the options hold
          handler,   \* "none", "live" or "freed"
          client,    \* the handles: "none", "live" or "freed"
          connection \* of each client: NULL, or what it refers to

apiVars == <<codec, wrapper, address, options, handler, client, connection>>

ApiInit ==
  /\ codec = [k \in Codecs |-> "none"] /\ wrapper = [k \in Codecs |-> "none"]
  /\ address = [a \in Addresses |-> "none"]
  /\ options = [o \in Options |-> NULL]
  /\ handler = [h \in Handlers |-> "none"]
  /\ client = [c \in Clients |-> "none"]
  /\ connection = [c \in Clients |-> NULL]

\* delete and free, which take a null pointer too.
Delete(k) == [x \in Codecs |-> IF x = k THEN "deleted" ELSE codec[x]]
Free(a)   == [x \in Addresses |-> IF x = a THEN "freed" ELSE address[x]]
-----------------------------------------------------------------------------
\* connx_codec_new_delimiter, _fixed_length, _length_field and _callback.
connx_codec_new(k) ==
  /\ codec[k] = "none"
  /\ codec' = [codec EXCEPT ![k] = "live"]
  /\ wrapper' = [wrapper EXCEPT ![k] = "holds"]
  /\ UNCHANGED <<address, options, handler, client, connection>>

connx_codec_destroy(k) ==
  /\ wrapper[k] \in {"holds", "empty"}
  /\ codec' = IF wrapper[k] = "holds" THEN Delete(k) ELSE codec
  /\ wrapper' = [wrapper EXCEPT ![k] = "freed"]
  /\ UNCHANGED <<address, options, handler, client, connection>>

connx_client_options_new(o) ==
  /\ options[o] = NULL
  /\ options' = [options EXCEPT ![o] = [codec |-> NULL, local_address |-> NULL,
                                        local_address_copy |-> NULL]]
  /\ UNCHANGED <<codec, wrapper, address, handler, client, connection>>

connx_client_options_destroy(o) ==
  /\ options[o] # NULL
  /\ address' = Free(options[o].local_address_copy)
  /\ codec' = Delete(options[o].codec)
  /\ options' = [options EXCEPT ![o] = NULL]
  /\ UNCHANGED <<wrapper, handler, client, connection>>

\* A wrapper that has given its codec away gives none.
connx_client_options_set_codec(o, k) ==
  /\ options[o] # NULL /\ wrapper[k] \in {"holds", "empty"}
  /\ codec' = Delete(options[o].codec)
  /\ options' = [options EXCEPT ![o].codec = IF wrapper[k] = "holds" THEN k ELSE NULL]
  /\ wrapper' = [wrapper EXCEPT ![k] = "empty"]
  /\ UNCHANGED <<address, handler, client, connection>>

\* The copy is a new string, or none when the address is taken back.
connx_client_options_set_local_address(o, a) ==
  /\ options[o] # NULL /\ (a # NULL => address[a] = "none")
  /\ address' = [x \in Addresses |->
                   IF x = a THEN "live" ELSE Free(options[o].local_address_copy)[x]]
  /\ options' = [options EXCEPT ![o] = [@ EXCEPT !.local_address_copy = a, !.local_address = a]]
  /\ UNCHANGED <<codec, wrapper, handler, client, connection>>

connx_client_handler_new(h) ==
  /\ handler[h] = "none"
  /\ handler' = [handler EXCEPT ![h] = "live"]
  /\ UNCHANGED <<codec, wrapper, address, options, client, connection>>

connx_client_handler_destroy(h) ==
  /\ handler[h] = "live"
  /\ \A c \in Clients :
       client[c] = "live" => connection[c].handler # h
  /\ handler' = [handler EXCEPT ![h] = "freed"]
  /\ UNCHANGED <<codec, wrapper, address, options, client, connection>>
-----------------------------------------------------------------------------
\* Mutant: the options keep the codec they gave to the client.
connx_client_newShares(h, o, c) ==
  /\ handler[h] = "live" /\ options[o] # NULL /\ client[c] = "none"
  /\ options[o].codec # NULL
  /\ client' = [client EXCEPT ![c] = "live"]
  /\ connection' = [connection EXCEPT ![c] =
       [codec |-> options[o].codec, local_address |-> options[o].local_address,
        handler |-> h, made_with |-> o, work |-> "idle"]]
  /\ UNCHANGED <<codec, wrapper, address, options, handler>>

\* CreateClient may fail, and then nothing changes hands.
connx_client_new(h, o, c) ==
  /\ handler[h] = "live" /\ options[o] # NULL /\ client[c] = "none"
  /\ options[o].codec # NULL
  /\ \/ /\ client' = [client EXCEPT ![c] = "live"]
        /\ connection' = [connection EXCEPT ![c] =
             [codec |-> options[o].codec, local_address |-> options[o].local_address,
              handler |-> h, made_with |-> o, work |-> "idle"]]
        /\ options' = [options EXCEPT ![o].codec = NULL]
     \/ UNCHANGED <<client, connection, options>>
  /\ UNCHANGED <<codec, wrapper, address, handler>>

Works(c, work) == connection' = [connection EXCEPT ![c].work = work]

\* Mutant: connx_client_destroy does not care for the tasks.
connx_client_destroyAtOnce(c) ==
  /\ client[c] = "live"
  /\ client' = [client EXCEPT ![c] = "freed"]
  /\ Works(c, IF connection[c].work \in {"idle", "connected"}
                THEN "closing" ELSE connection[c].work)
  /\ UNCHANGED <<codec, wrapper, address, options, handler>>

\* CloseFromOwner discards the tasks that have not begun and waits for the one
\* that runs, but in a callback of the connection itself.  Either way a worker
\* may still have a reference.
connx_client_destroy(c) ==
  /\ client[c] = "live"
  /\ client' = [client EXCEPT ![c] = "freed"]
  /\ Works(c, IF connection[c].work = "callback" THEN "callback" ELSE "closing")
  /\ UNCHANGED <<codec, wrapper, address, options, handler>>

\* connx_client_connect, connx_client_connect_ip_port: the posted task.
connx_client_connect(c) ==
  /\ client[c] = "live" /\ connection[c].work = "idle"
  /\ Works(c, "connect")
  /\ UNCHANGED <<codec, wrapper, address, options, handler, client>>

\* The task of a Connect opens a socket, bound to the local address if there
\* is one, and reports the outcome.
ConnectTask(c) ==
  /\ connection[c] # NULL /\ connection[c].work = "connect"
  /\ \/ Works(c, "callback")
     \/ Works(c, "connected")
  /\ UNCHANGED <<codec, wrapper, address, options, handler, client>>

\* Received data or a close, decoded by the codec and told to the handler.
Callback(c) ==
  /\ connection[c] # NULL /\ connection[c].work = "connected"
  /\ Works(c, "callback")
  /\ UNCHANGED <<codec, wrapper, address, options, handler, client>>

CallbackReturns(c) ==
  /\ connection[c] # NULL /\ connection[c].work = "callback"
  /\ \/ client[c] = "live" /\ \E work \in {"idle", "connected"} : Works(c, work)
     \/ client[c] = "freed" /\ Works(c, "closing")
  /\ UNCHANGED <<codec, wrapper, address, options, handler, client>>

\* ~ClientConnection, with the last reference.
LastReference(c) ==
  /\ connection[c] # NULL /\ connection[c].work = "closing"
  /\ codec' = Delete(connection[c].codec)
  /\ connection' = [connection EXCEPT ![c] = NULL]
  /\ UNCHANGED <<wrapper, address, options, handler, client>>

ApiNext ==
  \/ \E k \in Codecs : connx_codec_new(k) \/ connx_codec_destroy(k)
  \/ \E o \in Options :
       \/ connx_client_options_new(o) \/ connx_client_options_destroy(o)
       \/ \E k \in Codecs : connx_client_options_set_codec(o, k)
       \/ \E a \in Addresses \cup {NULL} : connx_client_options_set_local_address(o, a)
       \/ \E h \in Handlers, c \in Clients : connx_client_new(h, o, c)
  \/ \E h \in Handlers : connx_client_handler_new(h) \/ connx_client_handler_destroy(h)
  \/ \E c \in Clients :
       \/ connx_client_destroy(c) \/ connx_client_connect(c) \/ ConnectTask(c)
       \/ Callback(c) \/ CallbackReturns(c) \/ LastReference(c)
-----------------------------------------------------------------------------
Owners(k) ==
  {w \in {k} : wrapper[k] = "holds"}
  \cup {o \in Options : options[o] # NULL /\ options[o].codec = k}
  \cup {c \in Clients : connection[c] # NULL /\ connection[c].codec = k}

(***************************************************************************)
(* A codec that exists has exactly one owner, which will delete it, and a  *)
(* deleted one none: whatever order the application creates, sets, reuses  *)
(* and destroys in, and also when connx_client_new fails, no codec is lost *)
(* and none deleted twice (ownership in c.cc, ~ClientConnection).          *)
(***************************************************************************)
CodecOwnedOnce ==
  \A k \in Codecs : Cardinality(Owners(k)) = IF codec[k] = "live" THEN 1 ELSE 0

(***************************************************************************)
(* What a worker is about to use still exists: the handler and the codec   *)
(* of a connection with work to do or data to come, although they are the  *)
(* application's to destroy once connx_client_destroy has returned; and    *)
(* the local address, as long as the options the client was made with have *)
(* not been destroyed or given another address.  The connection keeps the  *)
(* options' pointer, not a copy (connx_client_new, PlatformOpenSocket).    *)
(***************************************************************************)
NothingFreedIsUsed ==
  \A c \in Clients : connection[c] # NULL /\ connection[c].work \in {"connect", "connected"} =>
    LET x == connection[c] IN
      /\ handler[x.handler] = "live" /\ codec[x.codec] = "live"
      /\ x.local_address # NULL /\ options[x.made_with] # NULL
         /\ options[x.made_with].local_address = x.local_address
           => address[x.local_address] = "live"
=============================================================================
