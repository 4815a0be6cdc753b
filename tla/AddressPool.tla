---------------------------- MODULE AddressPool ----------------------------
(***************************************************************************)
(* What the DHCP server promises its clients, without messages, threads or *)
(* the search for a free address: a client that is bound keeps its address *)
(* until the server is started again and is never told another one, and    *)
(* nobody else is told that address.  Bindings are limited to Capacity;    *)
(* once all are used, other clients may be told an address that is not     *)
(* bound, which is all that can be said about it.  To a client that asks   *)
(* for several addresses at once nothing is promised; what the others were *)
(* promised stands.                                                        *)
(***************************************************************************)
EXTENDS Integers, FiniteSets

CONSTANTS
  Clients,   \* MAC addresses
  Hosts,     \* the addresses the server may give out
  Capacity,  \* how many bindings it remembers
  NoAddr     \* no address

VARIABLES
  binding,   \* the address each client is bound to
  told       \* the address each client was last told is its own, if that is a promise

vars == <<binding, told>>

Nothing == [m \in Clients |-> NoAddr]
Bound == {m \in Clients : binding[m] # NoAddr}
Taken(a) == \E m \in Clients : binding[m] = a

Init == binding = Nothing /\ told = Nothing

Bind(m, a) ==
  /\ m \notin Bound /\ ~Taken(a) /\ Cardinality(Bound) < Capacity
  /\ binding' = [binding EXCEPT ![m] = a]
  /\ UNCHANGED told

Tell(m) ==
  /\ m \in Bound
  /\ told' = [told EXCEPT ![m] = binding[m]]
  /\ UNCHANGED binding

TellUnbound(m, a) ==
  /\ m \notin Bound /\ ~Taken(a) /\ Cardinality(Bound) >= Capacity
  /\ told' = [told EXCEPT ![m] = a]
  /\ UNCHANGED binding

Unpromised(m) ==
  /\ told' = [told EXCEPT ![m] = NoAddr]
  /\ UNCHANGED binding

Restart == binding' = Nothing /\ told' = Nothing

Next ==
  \/ \E m \in Clients : Tell(m) \/ Unpromised(m) \/ \E a \in Hosts : Bind(m, a) \/ TellUnbound(m, a)
  \/ Restart

Spec == Init /\ [][Next]_vars
=============================================================================
