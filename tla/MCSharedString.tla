--------------------------- MODULE MCSharedString ---------------------------
(* Two threads, two texts, and memory for the object a text gets anew while  *)
(* its old one is still being freed.  No symmetry: the run checks liveness,  *)
(* that of the string pool and, while the pool rests, that of the database   *)
(* with two adds that clash and one update of both kinds of field.           *)
EXTENDS SharedString

CONSTANTS t1, t2, o1, o2, s1, s2, s3, north, south

CONSTANTS Blocks, Imsis, Msisdns, Statuses, MaxId

CONSTANTS b1, b2, i1, i2, m1, m2, active, suspended

VARIABLES writer, readers, by_id, by_imsi, by_msisdn, used, record, next_id, refs,
          db_pc, req, cur, fld, res, db_todo, snaps, view, issued

database == <<writer, readers, by_id, by_imsi, by_msisdn, used, record, next_id, refs,
              db_pc, req, cur, fld, res, db_todo, snaps, view, issued>>

Add(i, m, name, region, plan, st) ==
  [imsi |-> i, msisdn |-> m, text |-> <<name, region, plan>>, status |-> st]

DB == INSTANCE SubscriberDB WITH
  pc <- db_pc, todo <- db_todo,
  AddRequests <- {Add(i1, m1, north, north, south, active), Add(i1, m2, north, south, south, active)},
  UpdateRequests <- {[text |-> <<south, None, north>>, status |-> None]},
  ListRequests <- {[by |-> "region", want |-> north]}

Strings  == DB!Init /\ Next /\ UNCHANGED database
Database == Init /\ DB!Next /\ UNCHANGED vars

MCInit == Init /\ DB!Init
MCNext == Strings \/ Database
MCSpec == MCInit /\ [][MCNext]_<<vars, database>> /\ Fairness /\ DB!Fairness

LockIsReturned == DB!LockIsReturned
=============================================================================
