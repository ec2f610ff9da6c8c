-------------------------------- MODULE MCAuth --------------------------------
(* An administrator and an operator from the first run; the operator may be  *)
(* deleted and, after a restart, created again.  Two session slots, two      *)
(* failures to a lockout, a session shorter than a lockout.  The hash of     *)
(* sha256.c, of which Auth keeps only that it is a function, is run over     *)
(* every message beside accounts that rest, cut into pieces in every way.    *)
EXTENDS Auth, Sha256

MCSeeds == <<[name |-> "admin", pw |-> "first", role |-> "ADMIN"],
             [name |-> "op", pw |-> "other", role |-> "OPERATOR"]>>

Accounts == HashInit /\ Next /\ UNCHANGED hash
Messages == Init /\ (HashNext \/ (finished /\ UNCHANGED hash)) /\ UNCHANGED vars

MCInit == Init /\ HashInit
MCNext == Accounts \/ Messages
MCSpec == MCInit /\ [][MCNext]_<<vars, hash>>
===============================================================================
