------------------------------- MODULE MCServer -------------------------------
(* One slot, a client for it, a client that a signal may let in besides, and  *)
(* one more that must wait; room for two sessions, of three clients that may  *)
(* log in again; a subscriber in the file and one that is added.              *)
EXTENDS Server, TLC

CONSTANTS c1, c2, c3

Symmetry == Permutations({c1, c2, c3})

Sub(imsi, msisdn) == [imsi |-> imsi, msisdn |-> msisdn, text |-> "x"]
MCSubscribers  == {Sub("i1", "m1"), Sub("i2", "m2")}
MCInitialDisks == {[p \in {"data"} |-> File({Sub("i1", "m1")})]}
===============================================================================
