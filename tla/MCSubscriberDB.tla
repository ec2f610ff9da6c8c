--------------------------- MODULE MCSubscriberDB ---------------------------
(* Two threads, two records' worth of memory, keys that clash by IMSI, by    *)
(* MSISDN, by both and by neither.  The sorts of the same file share no state *)
(* with the database, so every small array is sorted beside the empty one    *)
(* and then dropped, and deadlock still means that of the database.          *)
EXTENDS SubscriberDB, Sorting, TLC

CONSTANTS t1, t2, b1, b2, i1, i2, m1, m2, north, south, bad, active, suspended

MCThreads == {t1, t2}
MCBlocks == {b1, b2}

Req(i, m, name, region, plan, st) ==
  [imsi |-> i, msisdn |-> m, text |-> <<name, region, plan>>, status |-> st]
MCAddRequests ==
  {Req(i1, m1, north, north, south, active), Req(i1, m2, north, south, south, active),
   Req(i2, m2, south, south, south, suspended), Req(i2, m1, bad, north, north, active)}

Upd(name, region, plan, st) == [text |-> <<name, region, plan>>, status |-> st]
MCUpdateRequests == {Upd(south, None, north, None), Upd(None, bad, None, suspended)}

MCListRequests ==
  {[by |-> "all", want |-> None], [by |-> "region", want |-> north],
   [by |-> "plan", want |-> south], [by |-> "status", want |-> suspended]}

Calls == array = <<>> /\ Next /\ UNCHANGED array
Sorts == Init /\ (Grow \/ array' = <<>>) /\ UNCHANGED vars

MCInit == Init /\ SortInit
MCNext == Calls \/ Sorts
MCSpec == MCInit /\ [][MCNext]_<<vars, array>>

Symmetry == Permutations(MCThreads) \cup Permutations(MCBlocks)
=============================================================================
