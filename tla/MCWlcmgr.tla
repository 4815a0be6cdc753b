------------------------------ MODULE MCWlcmgr ------------------------------
(***************************************************************************)
(* The connection manager on a small instance.  Application threads are    *)
(* interchangeable.                                                        *)
(***************************************************************************)
EXTENDS Wlcmgr, TLC

UserSymmetry == Permutations(Users)
=============================================================================
