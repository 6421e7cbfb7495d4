-------------------------- MODULE MCRemoteDelivery --------------------------
(* RemoteDelivery on a small instance.                                     *)
EXTENDS RemoteDelivery, TLC

RequestSymmetry == Permutations(Requests)
=============================================================================
