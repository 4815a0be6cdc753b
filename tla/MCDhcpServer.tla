---------------------------- MODULE MCDhcpServer ----------------------------
(***************************************************************************)
(* The DHCP server for TLC: messages of up to three options, with none,    *)
(* one or two addresses among them.                                        *)
(***************************************************************************)
EXTENDS DhcpServer

Plain(t) == [type |-> t, ip |-> NoAddr]
Ask(a) == [type |-> "REQUESTED_IP", ip |-> a]

MCOptionLists ==
  {<<Plain("DISCOVER")>>, <<Plain("OTHER")>>, <<Plain("REQUEST")>>,
   <<Plain("REQUEST"), Plain("OTHER")>>}
  \cup UNION {{<<Plain("DISCOVER"), Ask(a)>>, <<Plain("REQUEST"), Ask(a)>>,
               <<Ask(a), Plain("REQUEST")>>, <<Plain("OTHER"), Ask(a)>>} : a \in Requested}
  \cup {<<Ask(a), Ask(b), Plain("REQUEST")>> : a, b \in Requested}
=============================================================================
