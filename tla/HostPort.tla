------------------------------ MODULE HostPort ------------------------------
(***************************************************************************)
(* From the address an application gives to the one getaddrinfo is asked   *)
(* for: the two Connect methods of src/bridge/client.cc, and               *)
(* connx_join_host_port, connx_split_host_port and                         *)
(* connx_blocking_resolve_address of src/net/resolve_address.cc, as one    *)
(* call of the application runs through them.                              *)
(*                                                                         *)
(* A name is a sequence of characters.  The letters stand for every        *)
(* character but colon and brackets, the only ones the code looks at; the  *)
(* digits that "%d" writes for a port are one element.                     *)
(***************************************************************************)
EXTENDS Integers, Sequences, SequencesExt, TLC

CONSTANTS Letters,     \* characters without a meaning to the code
          MaxHost,     \* length of the longest host tried
          MaxName,     \* length of the longest host:port text tried
          PortsTried   \* numbers given as a port

VARIABLES lookup,      \* the step of the call: "-", "resolve", "failed",
                       \* "list", "use"
          given,       \* what the application passed
          name,        \* the text that connx_blocking_resolve_address got
          asked,       \* the queries made to getaddrinfo, in order
          held         \* what the call has allocated and not yet freed

resolveVars == <<lookup, given, name, asked, held>>

Characters == Letters \cup {":", "[", "]"}
Hosts == BoundedSeq(Characters, MaxHost)
Names == BoundedSeq(Characters, MaxName)

Nothing == [ip |-> <<>>, port |-> 0, text |-> <<>>]

ResolveInit ==
  lookup = "-" /\ given = Nothing /\ name = <<>> /\ asked = <<>> /\ held = {}

\* Position of the first c in s after the first n characters; 0 is npos.
Find(s, c, n) ==
  LET at == {i \in n + 1 .. Len(s) : s[i] = c}
  IN IF at = {} THEN 0 ELSE Min(at)

Substr(s, from) == SubSeq(s, from, Len(s))

Format(port) == <<ToString(port)>>

\* Mutant: an address with colons is not put in brackets.
connx_join_host_portBare(host, port) == host \o <<":">> \o Format(port)

connx_join_host_port(host, port) ==
  IF host # <<>> /\ host[1] # "[" /\ Find(host, ":", 0) # 0
    THEN <<"[">> \o host \o <<"]", ":">> \o Format(port)
    ELSE host \o <<":">> \o Format(port)

Split(host, port) == [host |-> host, port |-> port]

\* A name that begins with a bracket.  An unmatched bracket and a character
\* other than a colon after the closing one leave both results empty; a host
\* without a colon is taken back, and the port stays.
SplitBracketed(s) ==
  LET rbracket == Find(s, "]", 1)
      host     == SubSeq(s, 2, rbracket - 1)
      port     == Substr(s, rbracket + 2)
  IN CASE rbracket = 0                               -> Split(<<>>, <<>>)
       [] rbracket # Len(s) /\ s[rbracket + 1] # ":" -> Split(<<>>, <<>>)
       [] Find(host, ":", 0) = 0                     -> Split(<<>>, port)
       [] OTHER                                      -> Split(host, port)

connx_split_host_port(s) ==
  LET colon == Find(s, ":", 0)
  IN IF s # <<>> /\ s[1] = "["
       THEN SplitBracketed(s)
       ELSE IF colon # 0 /\ Find(s, ":", colon) = 0
         THEN Split(SubSeq(s, 1, colon - 1), Substr(s, colon + 1))
         ELSE Split(s, <<>>)

\* connx_client_connect: the text is passed on as it is.
Connect(text) ==
  /\ lookup = "-"
  /\ lookup' = "resolve" /\ given' = [Nothing EXCEPT !.text = text]
  /\ name' = text
  /\ UNCHANGED <<asked, held>>

\* connx_client_connect_ip_port; the joined text is freed when the inner
\* Connect has returned. A port out of range, and a joined text for which there
\* is no memory, make it return false before anything is held.
ConnectIpPort(ip, port) ==
  /\ lookup = "-"
  /\ 0 < port /\ port <= 65535
  /\ lookup' = "resolve" /\ given' = [Nothing EXCEPT !.ip = ip, !.port = port]
  /\ name' = connx_join_host_port(ip, port)
  /\ held' = {"addr"}
  /\ UNCHANGED asked

\* The well-known services, which are asked for again by number when the first
\* query failed.
svc == {<<"http", "80">>, <<"https", "443">>}

Retry(s) == {<<s, Split(s.host, <<v[2]>>)>> : v \in {u \in svc : s.port = <<u[1]>>}}

\* Up to the answer of getaddrinfo.
Resolve ==
  LET s == connx_split_host_port(name)
  IN /\ lookup = "resolve"
     /\ \/ /\ s.host = <<>> \/ s.port = <<>>
           /\ lookup' = "failed"
           /\ UNCHANGED <<given, name, asked, held>>
        \/ /\ s.host # <<>> /\ s.port # <<>>
           /\ asked' \in {<<s>>} \cup Retry(s)
           /\ lookup' = "list" /\ held' = held \cup {"result"}
           /\ UNCHANGED <<given, name>>
        \/ /\ s.host # <<>> /\ s.port # <<>>
           /\ asked' \in IF Retry(s) = {} THEN {<<s>>} ELSE Retry(s)
           /\ lookup' = "failed"
           /\ UNCHANGED <<given, name, held>>

\* The answer is copied and freed; either allocation may fail.
CopyResult ==
  /\ lookup = "list"
  /\ \/ lookup' = "use" /\ held' = (held \cup {"addresses", "addrs"}) \ {"result"}
     \/ lookup' = "failed" /\ held' = held \ {"result"}
     \/ lookup' = "failed" /\ held' = (held \cup {"addresses"}) \ {"addresses", "result"}
  /\ UNCHANGED <<given, name, asked>>

\* What connx_resolved_addresses_destroy frees.
connx_resolved_addresses_destroy == {"addrs", "addresses"}

Returns ==
  lookup' = "-" /\ given' = Nothing /\ name' = <<>> /\ asked' = <<>>

\* Connect reports the failure.  No error path leaves addresses to free; the
\* adaptor frees the joined text.
ResolveFails == lookup = "failed" /\ held' = held \ {"addr"} /\ Returns

\* Connect takes the first address and frees them all.
UseAddress ==
  /\ lookup = "use"
  /\ held' = (held \ connx_resolved_addresses_destroy) \ {"addr"}
  /\ Returns

ResolveNext ==
  \/ \E text \in Names : Connect(text)
  \/ \E ip \in Hosts, port \in PortsTried : ConnectIpPort(ip, port)
  \/ Resolve \/ ResolveFails \/ CopyResult \/ UseAddress
-----------------------------------------------------------------------------
Plain(s) == s # <<>> /\ \A i \in DOMAIN s : s[i] \notin {"[", "]"}
HasColon(s) == \E i \in DOMAIN s : s[i] = ":"
Parts(s) == {SubSeq(s, i, j) : i, j \in DOMAIN s}

\* The host h as an application may write it when the port is given apart.
WritesHost(ip, h) ==
  /\ Plain(h)
  /\ \/ ip = h
     \/ HasColon(h) /\ ip = <<"[">> \o h \o <<"]">>

\* The texts for a host h and a port p: "h:p", and "[h]:p" if h has colons.
WritesBoth(text, h, p) ==
  /\ Plain(h) /\ Plain(p) /\ ~HasColon(p)
  /\ text = IF HasColon(h) THEN <<"[">> \o h \o <<"]", ":">> \o p
                           ELSE h \o <<":">> \o p

\* The queries an application means: one, or none if it wrote no address.
Meant ==
  {Split(h, Format(given.port)) : h \in {x \in Parts(given.ip) : WritesHost(given.ip, x)}}
  \cup {Split(h, p) : <<h, p>> \in
          {x \in Parts(given.text) \X Parts(given.text) : WritesBoth(given.text, x[1], x[2])}}

(***************************************************************************)
(* getaddrinfo is asked first for exactly the host and the port that the   *)
(* application wrote, whether it gave them apart, where an IPv6 address    *)
(* may come without brackets, or as one text; no address that is written   *)
(* well is refused before getaddrinfo; none is looked up without a host or *)
(* a port; and the call leaves nothing allocated, whichever of its steps   *)
(* failed (ClientAdaptor::Connect, connx_blocking_resolve_address and      *)
(* ClientConnection::Connect).                                             *)
(***************************************************************************)
ResolvesAsGiven ==
  /\ lookup \in {"failed", "list", "use"} /\ Meant # {} =>
       asked # <<>> /\ Meant = {asked[1]}
  /\ asked # <<>> => asked[1].host # <<>> /\ asked[1].port # <<>>
  /\ lookup = "-" => held = {}
=============================================================================
