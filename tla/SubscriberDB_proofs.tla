------------------------ MODULE SubscriberDB_proofs ------------------------
(* Theorems about SubscriberDB, for any number of threads, blocks, keys,     *)
(* strings and requests, and any bound MaxId; and, at the end, about the two *)
(* sorts of the lists it returns, for arrays of any length.                  *)
EXTENDS SubscriberDB, Sorting, FiniteSetTheorems, SequenceTheorems, WellFoundedInduction, TLAPS

-----------------------------------------------------------------------------
(* How many fields hold a string is a number.                                *)
LEMMA HoldsNat ==
  ASSUME NEW text, NEW x
  PROVE  Holds(text, x) \in Nat
<1>1. {f \in Fields : text[f] = x} \subseteq 1..3
  BY DEF Fields
<1>2. IsFiniteSet(1..3)
  <2> 1 \in Int /\ 3 \in Int
    OBVIOUS
  <2> QED
    BY FS_Interval
<1>3. IsFiniteSet({f \in Fields : text[f] = x})
  BY <1>1, <1>2, FS_Subset
<1> QED
  BY <1>3, FS_CardinalityType DEF Holds

LEMMA CountsAreInts ==
  ASSUME StateOK, NEW text
  PROVE  /\ Retained(text) \in [Texts -> Int]
         /\ Released(text) \in [Texts -> Int]
BY HoldsNat DEF Retained, Released, StateOK

-----------------------------------------------------------------------------
(* Type correctness.                                                         *)

USE DEF Goto, Status, index, locals

(* A thread may go to any point its arguments are right for.                 *)
LEMMA MoveKeepsArgs ==
  ASSUME TypeOK, NEW t \in Threads, NEW label \in Pcs \ {"wait_w", "wait_r"},
         pc' = [pc EXCEPT ![t] = label], UNCHANGED req,
         \A u \in Threads \ {t} : cur'[u] = cur[u],
         label \in AddPcs => req[t] \in AddArgs,
         label \in UpdatePcs => req[t] \in UpdateArgs,
         label = "delete" => req[t] \in DeleteArgs,
         label \in RecordPcs => cur'[t] \in Blocks
  PROVE  ArgsOK'
<1> SUFFICES ASSUME NEW u \in Threads
             PROVE  /\ pc'[u] = "wait_w" => req[u] \in AddArgs \cup DeleteArgs \cup UpdateArgs
                    /\ pc'[u] \in AddPcs => req[u] \in AddArgs
                    /\ pc'[u] \in UpdatePcs => req[u] \in UpdateArgs
                    /\ pc'[u] = "delete" => req[u] \in DeleteArgs
                    /\ pc'[u] = "wait_r" => req[u] \in ReadArgs
                    /\ pc'[u] \in RecordPcs => cur'[u] \in Blocks
  BY DEF ArgsOK
<1>1. CASE u = t
  BY <1>1 DEF TypeOK, StateOK
<1>2. CASE u # t
  BY <1>2 DEF TypeOK, StateOK, ArgsOK
<1> QED
  BY <1>1, <1>2

(* Writing a field of a record gives a record.                               *)
LEMMA RecordFields ==
  ASSUME NEW r \in Record
  PROVE  /\ \A i \in Nat, s \in Statuses \cup {None} :
              [r EXCEPT !.id = i, !.status = s] \in Record
         /\ \A s \in Statuses \cup {None} : [r EXCEPT !.status = s] \in Record
         /\ \A f \in Fields, x \in Texts \cup {None} : WithText(r, f, x) \in Record
BY DEF Record, Texting, WithText

LEMMA FreshRecord ==
  ASSUME NEW i \in Imsis \cup {None}, NEW m \in Msisdns \cup {None}
  PROVE  [Blank EXCEPT !.imsi = i, !.msisdn = m] \in Record
BY DEF Blank, NoTexts, Record, Texting


LEMMA ArgsOf ==
  ASSUME TypeOK, NEW t \in Threads
  PROVE  /\ pc[t] \in AddPcs => req[t] \in AddArgs
         /\ pc[t] \in UpdatePcs => req[t] \in UpdateArgs
         /\ pc[t] = "delete" => req[t] \in DeleteArgs
         /\ pc[t] \in RecordPcs => cur[t] \in Blocks
BY DEF TypeOK, ArgsOK

LEMMA TypeInit == Init => TypeOK
<1> SUFFICES ASSUME Init PROVE StateOK /\ ArgsOK
  BY DEF TypeOK
<1>1. Blank \in Record
  BY DEF Blank, NoTexts, Record, Texting
<1>2. StateOK
  BY <1>1 DEF Init, StateOK, Pcs, Results, Fields, Request
<1>3. ArgsOK
  BY DEF Init, ArgsOK, AddPcs, UpdatePcs, RemovePcs, RecordPcs
<1> QED
  BY <1>2, <1>3

(* A call sets the arguments along with the thread's point.                  *)
LEMMA TypeCallWith ==
  ASSUME TypeOK, NEW t \in Threads, NEW r, NEW label, Call(t, r, label),
         \/ label = "wait_w" /\ r \in AddArgs \cup DeleteArgs \cup UpdateArgs
         \/ label = "wait_r" /\ r \in ReadArgs
  PROVE  TypeOK'
<1>1. StateOK'
  BY DEF Call, TypeOK, StateOK, Pcs, Results, Request
<1>2. ASSUME NEW u \in Threads
      PROVE  /\ pc'[u] = "wait_w" => req'[u] \in AddArgs \cup DeleteArgs \cup UpdateArgs
             /\ pc'[u] \in AddPcs => req'[u] \in AddArgs
             /\ pc'[u] \in UpdatePcs => req'[u] \in UpdateArgs
             /\ pc'[u] = "delete" => req'[u] \in DeleteArgs
             /\ pc'[u] = "wait_r" => req'[u] \in ReadArgs
             /\ pc'[u] \in RecordPcs => cur'[u] \in Blocks
  <2>1. CASE u = t
    BY <2>1 DEF Call, TypeOK, StateOK, AddPcs, UpdatePcs, RemovePcs, RecordPcs
  <2>2. CASE u # t
    BY <2>2 DEF Call, TypeOK, StateOK, ArgsOK
  <2> QED
    BY <2>1, <2>2
<1>3. ArgsOK'
  BY <1>2 DEF ArgsOK
<1> QED
  BY <1>1, <1>3 DEF TypeOK

LEMMA TypeCall ==
  ASSUME TypeOK, NEW t \in Threads, CallAny(t)
  PROVE  TypeOK'
<1>1. CASE Reject(t)
  BY <1>1 DEF Reject, TypeOK, StateOK, ArgsOK, Results
<1>2. CASE CallAdd(t)
  <2>1. PICK r \in AddRequests :
          /\ ValidAdd(r)
          /\ Call(t, [op |-> "add", imsi |-> r.imsi, msisdn |-> r.msisdn,
                      text |-> [f \in Fields |-> r.text[f]], status |-> r.status], "wait_w")
    BY <1>2 DEF CallAdd
  <2>2. r.status \in Statuses
    BY RequestsAssumption
  <2>3. [op |-> "add", imsi |-> r.imsi, msisdn |-> r.msisdn,
         text |-> [f \in Fields |-> r.text[f]], status |-> r.status] \in AddArgs
    BY <2>1, <2>2 DEF ValidAdd, AddArgs
  <2> QED
    BY <2>1, <2>3, TypeCallWith
<1>3. CASE CallDelete(t)
  <2>1. PICK i \in 1..MaxId : Call(t, [op |-> "delete", id |-> i], "wait_w")
    BY <1>3 DEF CallDelete
  <2>2. [op |-> "delete", id |-> i] \in DeleteArgs
    BY ConstantsAssumption DEF DeleteArgs
  <2> QED
    BY <2>1, <2>2, TypeCallWith
<1>4. CASE CallUpdate(t)
  <2>1. PICK i \in 1..MaxId, r \in UpdateRequests :
          /\ ValidUpdate(r)
          /\ Call(t, [op |-> "update", id |-> i,
                      text |-> [f \in Fields |-> r.text[f]], status |-> r.status], "wait_w")
    BY <1>4 DEF CallUpdate
  <2>2. i \in Nat /\ r.status \in Statuses \cup {None}
    BY RequestsAssumption, ConstantsAssumption
  <2>3. [op |-> "update", id |-> i,
         text |-> [f \in Fields |-> r.text[f]], status |-> r.status] \in UpdateArgs
    BY <2>1, <2>2 DEF ValidUpdate, UpdateArgs, Texting
  <2> QED
    BY <2>1, <2>3, TypeCallWith
<1>5. CASE CallSearch(t)
  <2>1. ASSUME NEW i \in 1..MaxId PROVE [op |-> "by_id", key |-> i] \in ReadArgs
    <3>1. i \in Nat
      BY ConstantsAssumption
    <3> QED
      BY <3>1 DEF ReadArgs
  <2>2. ASSUME NEW i \in Imsis PROVE [op |-> "by_imsi", key |-> i] \in ReadArgs
    BY DEF ReadArgs
  <2>3. ASSUME NEW m \in Msisdns PROVE [op |-> "by_msisdn", key |-> m] \in ReadArgs
    BY DEF ReadArgs
  <2>4. PICK r \in ReadArgs : Call(t, r, "wait_r")
    BY <1>5, <2>1, <2>2, <2>3 DEF CallSearch
  <2> QED
    BY <2>4, TypeCallWith
<1>6. CASE CallList(t)
  <2>1. PICK r \in ListRequests :
          Call(t, [op |-> "list", by |-> r.by, want |-> r.want], "wait_r")
    BY <1>6 DEF CallList
  <2>2. [op |-> "list", by |-> r.by, want |-> r.want] \in ReadArgs
    BY DEF ReadArgs
  <2> QED
    BY <2>1, <2>2, TypeCallWith
<1> QED
  BY <1>1, <1>2, <1>3, <1>4, <1>5, <1>6 DEF CallAny

LEMMA TypeWriter ==
  ASSUME TypeOK, NEW t \in Threads, LockWrite(t) \/ WriterStep(t)
  PROVE  TypeOK'
<1> StateOK /\ ArgsOK
  BY DEF TypeOK
<1> USE ArgsOf DEF AddPcs, UpdatePcs, RemovePcs, RecordPcs, WritePcs, ReadPcs, Pcs
<1>1. CASE LockWrite(t)
  <2>1. req[t] \in AddArgs \cup DeleteArgs \cup UpdateArgs
    BY <1>1 DEF LockWrite, ArgsOK
  <2>2. /\ req[t].op \in {"add", "delete", "update"}
        /\ req[t].op = "add" => req[t] \in AddArgs
        /\ req[t].op = "delete" => req[t] \in DeleteArgs
        /\ req[t].op = "update" => req[t] \in UpdateArgs
    BY <2>1 DEF AddArgs, DeleteArgs, UpdateArgs
  <2>3. StateOK'
    BY <1>1, <2>2 DEF LockWrite, StateOK
  <2>4. ArgsOK'
    BY <1>1, <2>2, MoveKeepsArgs DEF LockWrite
  <2> QED
    BY <2>3, <2>4 DEF TypeOK
<1>2. CASE AddCheck(t)
  <2>1. StateOK'
    BY <1>2 DEF AddCheck, StateOK, Results
  <2>2. ArgsOK'
    BY <1>2, MoveKeepsArgs DEF AddCheck
  <2> QED
    BY <2>1, <2>2 DEF TypeOK
<1>3. CASE AddAlloc(t)
  <2>1. PICK b \in Blocks :
          /\ used' = used \cup {b}
          /\ record' = [record EXCEPT ![b] =
               [Blank EXCEPT !.imsi = req[t].imsi, !.msisdn = req[t].msisdn]]
          /\ cur' = [cur EXCEPT ![t] = b]
    BY <1>3 DEF AddAlloc
  <2>2. [Blank EXCEPT !.imsi = req[t].imsi, !.msisdn = req[t].msisdn] \in Record
    <3>1. req[t].imsi \in Imsis /\ req[t].msisdn \in Msisdns
      BY <1>3 DEF AddAlloc, AddArgs
    <3> QED
      BY <3>1, FreshRecord
  <2>3. record' \in [Blocks -> Record] /\ used' \subseteq Blocks
        /\ cur' \in [Threads -> Blocks \cup {None}]
    BY <2>1, <2>2 DEF StateOK
  <2>4. StateOK'
    BY <1>3, <2>3 DEF AddAlloc, StateOK
  <2>5. cur'[t] \in Blocks /\ \A u \in Threads \ {t} : cur'[u] = cur[u]
    BY <2>1 DEF StateOK
  <2>6. ArgsOK'
    BY <1>3, <2>5, MoveKeepsArgs DEF AddAlloc
  <2> QED
    BY <2>4, <2>6 DEF TypeOK
<1>4. CASE AddAllocFails(t)
  <2>1. StateOK'
    BY <1>4 DEF AddAllocFails, StateOK, Results
  <2>2. ArgsOK'
    BY <1>4, MoveKeepsArgs DEF AddAllocFails
  <2> QED
    BY <2>1, <2>2 DEF TypeOK
<1>5. CASE AddIntern(t)
  <2> DEFINE x == req[t].text[fld[t]]
  <2>1. fld[t] \in Fields /\ x \in Texts
    BY <1>5 DEF AddIntern, StateOK, AddArgs
  <2>2. refs' \in [Texts -> Int]
    BY <1>5, <2>1 DEF AddIntern, StateOK
  <2>3. record' \in [Blocks -> Record]
    <3>1. cur[t] \in Blocks
      BY <1>5 DEF AddIntern
    <3>2. WithText(record[cur[t]], fld[t], x) \in Record
      BY <2>1, <3>1, RecordFields DEF StateOK
    <3>3. \/ record' = record
          \/ record' = [record EXCEPT ![cur[t]] = WithText(record[cur[t]], fld[t], x)]
      BY <1>5 DEF AddIntern
    <3> QED
      BY <3>2, <3>3 DEF StateOK
  <2>4. fld' \in [Threads -> Fields]
    BY <1>5, <2>1 DEF AddIntern, StateOK, Fields, Plan
  <2>5. res' \in [Threads -> Results]
    BY <1>5 DEF AddIntern, StateOK, InternResults, Results
  <2>6. pc' \in [Threads -> Pcs]
    BY <1>5 DEF AddIntern, StateOK
  <2>7. StateOK'
    BY <1>5, <2>2, <2>3, <2>4, <2>5, <2>6 DEF AddIntern, StateOK
  <2>8. \/ UNCHANGED <<pc, req>>
        \/ /\ UNCHANGED req
           /\ \E label \in {"assign_id", "free"} : pc' = [pc EXCEPT ![t] = label]
    BY <1>5 DEF AddIntern
  <2>9. ArgsOK'
    BY <1>5, <2>8, MoveKeepsArgs DEF AddIntern, ArgsOK
  <2> QED
    BY <2>7, <2>9 DEF TypeOK
<1>6. CASE AddAssignId(t)
  <2>1. cur[t] \in Blocks /\ req[t].status \in Statuses /\ next_id \in Nat
    BY <1>6 DEF AddAssignId, AddArgs, StateOK
  <2>2. [record[cur[t]] EXCEPT !.id = next_id, !.status = req[t].status] \in Record
    BY <2>1, RecordFields DEF StateOK
  <2>3. record' \in [Blocks -> Record]
    BY <1>6, <2>2 DEF AddAssignId, StateOK
  <2>4. StateOK'
    BY <1>6, <2>3 DEF AddAssignId, StateOK
  <2>5. ArgsOK'
    BY <1>6, MoveKeepsArgs DEF AddAssignId
  <2> QED
    BY <2>4, <2>5 DEF TypeOK
<1>7. CASE AddPutId(t)
  <2>1. StateOK'
    BY <1>7 DEF AddPutId, StateOK, PutResults, Results
  <2>2. ArgsOK'
    BY <1>7, MoveKeepsArgs DEF AddPutId
  <2> QED
    BY <2>1, <2>2 DEF TypeOK
<1>8. CASE AddPutImsi(t)
  <2>1. StateOK'
    BY <1>8 DEF AddPutImsi, StateOK, PutResults, Results
  <2>2. ArgsOK'
    BY <1>8, MoveKeepsArgs DEF AddPutImsi
  <2> QED
    BY <2>1, <2>2 DEF TypeOK
<1>9. CASE AddPutMsisdn(t)
  <2>1. StateOK'
    BY <1>9 DEF AddPutMsisdn, StateOK, PutResults, Results
  <2>2. ArgsOK'
    BY <1>9, MoveKeepsArgs DEF AddPutMsisdn
  <2> QED
    BY <2>1, <2>2 DEF TypeOK
<1>10. CASE DeleteFind(t)
  <2>1. StateOK'
    BY <1>10 DEF DeleteFind, StateOK, WithId, Results
  <2>2. ArgsOK'
    BY <1>10, MoveKeepsArgs DEF DeleteFind, StateOK, WithId
  <2> QED
    BY <2>1, <2>2 DEF TypeOK
<1>11. CASE RemoveId(t)
  <2>1. StateOK'
    BY <1>11 DEF RemoveId, StateOK
  <2>2. ArgsOK'
    BY <1>11, MoveKeepsArgs DEF RemoveId
  <2> QED
    BY <2>1, <2>2 DEF TypeOK
<1>12. CASE RemoveImsi(t)
  <2>1. StateOK'
    BY <1>12 DEF RemoveImsi, StateOK
  <2>2. ArgsOK'
    BY <1>12, MoveKeepsArgs DEF RemoveImsi
  <2> QED
    BY <2>1, <2>2 DEF TypeOK
<1>13. CASE RemoveMsisdn(t)
  <2>1. StateOK'
    BY <1>13 DEF RemoveMsisdn, StateOK
  <2>2. ArgsOK'
    BY <1>13, MoveKeepsArgs DEF RemoveMsisdn
  <2> QED
    BY <2>1, <2>2 DEF TypeOK
<1>14. CASE FreeSubscriberLocked(t)
  <2>1. StateOK'
    BY <1>14, CountsAreInts DEF FreeSubscriberLocked, StateOK, Blank, NoTexts, Record, Texting
  <2>2. ArgsOK'
    BY <1>14, MoveKeepsArgs DEF FreeSubscriberLocked
  <2> QED
    BY <2>1, <2>2 DEF TypeOK
<1>15. CASE UpdateFind(t)
  <2>1. StateOK'
    BY <1>15 DEF UpdateFind, StateOK, WithId, Results
  <2>2. ArgsOK'
    BY <1>15, MoveKeepsArgs DEF UpdateFind, StateOK, WithId
  <2> QED
    BY <2>1, <2>2 DEF TypeOK
<1>16. CASE UpdateIntern(t)
  <2>1. StateOK'
    BY <1>16 DEF UpdateIntern, StateOK, NextField, InternResults, Fields, Plan
  <2>2. ArgsOK'
    BY <1>16, MoveKeepsArgs DEF UpdateIntern, NextField
  <2> QED
    BY <2>1, <2>2 DEF TypeOK
<1>17. CASE UpdateSkip(t)
  <2>1. StateOK'
    BY <1>17 DEF UpdateSkip, StateOK, NextField, Fields, Plan
  <2>2. ArgsOK'
    BY <1>17, MoveKeepsArgs DEF UpdateSkip, NextField
  <2> QED
    BY <2>1, <2>2 DEF TypeOK
<1>18. CASE UpdateSwap(t)
  <2>1. cur[t] \in Blocks /\ fld[t] \in Fields /\ req[t].text \in Texting
    BY <1>18 DEF UpdateSwap, UpdateArgs, StateOK
  <2>2. WithText(record[cur[t]], fld[t], req[t].text[fld[t]]) \in Record
    <3>1. record[cur[t]] \in Record /\ req[t].text[fld[t]] \in Texts \cup {None}
      BY <2>1 DEF StateOK, Texting
    <3> QED
      BY <2>1, <3>1, RecordFields
  <2>3. record' \in [Blocks -> Record]
    BY <1>18, <2>2 DEF UpdateSwap, StateOK
  <2>4. refs' \in [Texts -> Int]
    <3>1. PICK old : refs' = [refs EXCEPT ![old] = refs[old] - 1]
      BY <1>18 DEF UpdateSwap
    <3>2. refs \in [Texts -> Int]
      BY DEF StateOK
    <3>3. CASE old \in Texts
      BY <3>1, <3>2, <3>3
    <3>4. CASE old \notin Texts
      BY <3>1, <3>2, <3>4
    <3> QED
      BY <3>3, <3>4
  <2>5. pc' \in [Threads -> Pcs] /\ fld' \in [Threads -> Fields]
    BY <1>18 DEF UpdateSwap, NextField, StateOK, Fields, Plan
  <2>6. StateOK'
    BY <1>18, <2>3, <2>4, <2>5 DEF UpdateSwap, StateOK
  <2>7. ArgsOK'
    BY <1>18, MoveKeepsArgs DEF UpdateSwap, NextField
  <2> QED
    BY <2>6, <2>7 DEF TypeOK
<1>19. CASE UpdateStatus(t)
  <2>1. StateOK'
    BY <1>19, RecordFields DEF UpdateStatus, StateOK, UpdateArgs
  <2>2. ArgsOK'
    BY <1>19, MoveKeepsArgs DEF UpdateStatus
  <2> QED
    BY <2>1, <2>2 DEF TypeOK
<1>20. CASE UnlockWrite(t)
  <2>1. view' \subseteq Record
    BY <1>20 DEF UnlockWrite, Content, StateOK
  <2>2. issued' \in Nat
    BY <1>20 DEF UnlockWrite, StateOK
  <2>3. StateOK'
    BY <1>20, <2>1, <2>2 DEF UnlockWrite, StateOK, Request, Fields
  <2>4. ArgsOK'
    BY <1>20 DEF UnlockWrite, StateOK, ArgsOK
  <2> QED
    BY <2>3, <2>4 DEF TypeOK
<1> QED
  BY <1>1, <1>2, <1>3, <1>4, <1>5, <1>6, <1>7, <1>8, <1>9, <1>10, <1>11, <1>12, <1>13, <1>14, <1>15, <1>16, <1>17, <1>18, <1>19, <1>20 DEF WriterStep

LEMMA TypeReader ==
  ASSUME TypeOK, NEW t \in Threads,
         LockRead(t) \/ ReaderStep(t) \/ FreeResult(t) \/ SearchDone(t)
  PROVE  TypeOK'
<1> StateOK /\ ArgsOK
  BY DEF TypeOK
<1> USE DEF AddPcs, UpdatePcs, RemovePcs, RecordPcs, WritePcs, ReadPcs, Pcs
<1>0. ASSUME NEW b \in Blocks, Snapshot(t, b)
      PROVE  snaps' \in [Threads -> SUBSET Record] /\ refs' \in [Texts -> Int]
  BY <1>0, CountsAreInts DEF Snapshot, StateOK
<1>1. CASE LockRead(t)
  <2>1. req[t].op \in {"by_id", "by_imsi", "by_msisdn", "list"}
    BY <1>1 DEF LockRead, ArgsOK, ReadArgs
  <2>2. StateOK'
    BY <1>1, <2>1 DEF LockRead, StateOK
  <2>3. ArgsOK'
    BY <1>1, <2>1, MoveKeepsArgs DEF LockRead
  <2> QED
    BY <2>2, <2>3 DEF TypeOK
<1>2. CASE SearchOne(t)
  <2>1. snaps' \in [Threads -> SUBSET Record] /\ refs' \in [Texts -> Int]
    <3>1. \/ \E b \in by_id \cup by_imsi \cup by_msisdn : Snapshot(t, b)
          \/ UNCHANGED <<snaps, refs>>
      <4>1. CASE pc[t] = "by_id"
        BY <1>2, <4>1 DEF SearchOne, WithId
      <4>2. CASE pc[t] = "by_imsi"
        BY <1>2, <4>2 DEF SearchOne, WithImsi
      <4>3. CASE pc[t] = "by_msisdn"
        BY <1>2, <4>3 DEF SearchOne, WithMsisdn
      <4> QED
        BY <1>2, <4>1, <4>2, <4>3 DEF SearchOne
    <3> QED
      BY <3>1, <1>0 DEF StateOK
  <2>2. res' \in [Threads -> Results]
    BY <1>2 DEF SearchOne, StateOK, Results
  <2>3. StateOK'
    BY <1>2, <2>1, <2>2 DEF SearchOne, StateOK
  <2>4. ArgsOK'
    BY <1>2, MoveKeepsArgs DEF SearchOne
  <2> QED
    BY <2>3, <2>4 DEF TypeOK
<1>3. CASE ListStart(t)
  <2>1. StateOK'
    BY <1>3 DEF ListStart, StateOK
  <2>2. ArgsOK'
    BY <1>3, MoveKeepsArgs DEF ListStart
  <2> QED
    BY <2>1, <2>2 DEF TypeOK
<1>4. CASE ListVisit(t)
  <2>1. snaps' \in [Threads -> SUBSET Record] /\ refs' \in [Texts -> Int]
    BY <1>4, <1>0 DEF ListVisit, StateOK
  <2>2. StateOK'
    BY <1>4, <2>1 DEF ListVisit, StateOK
  <2>3. ArgsOK'
    BY <1>4 DEF ListVisit, ArgsOK
  <2> QED
    BY <2>2, <2>3 DEF TypeOK
<1>5. CASE ListAllocFails(t)
  <2>1. StateOK'
    BY <1>5 DEF ListAllocFails, StateOK, Results
  <2>2. ArgsOK'
    BY <1>5, MoveKeepsArgs DEF ListAllocFails
  <2> QED
    BY <2>1, <2>2 DEF TypeOK
<1>6. CASE ListEnd(t)
  <2>1. StateOK'
    BY <1>6 DEF ListEnd, StateOK
  <2>2. ArgsOK'
    BY <1>6, MoveKeepsArgs DEF ListEnd
  <2> QED
    BY <2>1, <2>2 DEF TypeOK
<1>7. CASE UnlockRead(t)
  <2>1. StateOK'
    BY <1>7 DEF UnlockRead, StateOK
  <2>2. ArgsOK'
    BY <1>7, MoveKeepsArgs DEF UnlockRead
  <2> QED
    BY <2>1, <2>2 DEF TypeOK
<1>8. CASE FreeResult(t)
  <2>1. StateOK'
    BY <1>8, CountsAreInts DEF FreeResult, StateOK
  <2>2. ArgsOK'
    BY <1>8 DEF FreeResult, ArgsOK
  <2> QED
    BY <2>1, <2>2 DEF TypeOK
<1>9. CASE SearchDone(t)
  <2>1. StateOK'
    BY <1>9 DEF SearchDone, StateOK, Request
  <2>2. ArgsOK'
    BY <1>9 DEF SearchDone, StateOK, ArgsOK
  <2> QED
    BY <2>1, <2>2 DEF TypeOK
<1> QED
  BY <1>1, <1>2, <1>3, <1>4, <1>5, <1>6, <1>7, <1>8, <1>9 DEF ReaderStep

LEMMA TypeNext == TypeOK /\ [Next]_vars => TypeOK'
<1> SUFFICES ASSUME TypeOK, [Next]_vars PROVE TypeOK'
  OBVIOUS
<1>1. CASE UNCHANGED vars
  BY <1>1 DEF vars, TypeOK, StateOK, ArgsOK
<1>2. CASE Next
  BY <1>2, TypeCall, TypeWriter, TypeReader DEF Next
<1> QED
  BY <1>1, <1>2

(* The type invariant holds however many threads call the API.               *)
THEOREM TypeCorrect == Spec => []TypeOK
<1> QED
  BY TypeInit, TypeNext, PTL DEF Spec

-----------------------------------------------------------------------------
(* The indexes.  IndexesAgree says nothing while a writer works, so the      *)
(* inductive invariant says, for each point a writer can be at, which tables *)
(* hold the record it works on (cur): all hold every other used block.       *)

(* The lock admits one writer or any readers, and pc says who holds it.      *)
LockInv ==
  /\ writer # None => readers = {}
  /\ \A t \in Threads : pc[t] \in WritePcs <=> writer = t
  /\ \A t \in Threads : pc[t] \in ReadPcs <=> t \in readers

Tables(ids, imsis, msisdns) == by_id = ids /\ by_imsi = imsis /\ by_msisdn = msisdns

(* Every block in use but the one t works on.                                *)
Rest(t) == used \ {cur[t]}

Phase(t) ==
  /\ pc[t] \in UpdatePcs \cup {"add", "alloc", "delete", "unlock_w"} => Tables(used, used, used)
  /\ pc[t] \in {"intern", "assign_id", "put_id", "free"} => Tables(Rest(t), Rest(t), Rest(t))
  /\ pc[t] = "put_imsi" => Tables(used, Rest(t), Rest(t))
  /\ pc[t] = "put_msisdn" => Tables(used, used, Rest(t))
  /\ pc[t] = "remove_id" => by_id \in {used, Rest(t)}
  /\ pc[t] \in {"remove_imsi", "remove_msisdn"} => by_id = Rest(t)
  /\ pc[t] \in {"remove_id", "remove_imsi"} => by_imsi \in {used, Rest(t)}
  /\ pc[t] = "remove_msisdn" => by_imsi = Rest(t)
  /\ pc[t] \in {"remove_id", "remove_imsi", "remove_msisdn"} => by_msisdn \in {used, Rest(t)}
  /\ pc[t] \in RecordPcs => cur[t] \in used

PhaseInv ==
  /\ writer = None => Tables(used, used, used)
  /\ \A t \in Threads : Phase(t)

(* Keys are unique over all blocks in use, ids stay below next_id, and only  *)
(* the block of an add that has no id yet has id 0.                          *)
KeysInv ==
  /\ \A b, c \in used : record[b].id = record[c].id => b = c
  /\ \A b, c \in used : record[b].imsi = record[c].imsi => b = c
  /\ \A b, c \in used : record[b].msisdn = record[c].msisdn => b = c
  /\ \A b \in used : record[b].id < next_id
  /\ \A b \in used : record[b].id = 0 =>
       \E t \in Threads : cur[t] = b /\ pc[t] \in {"intern", "assign_id", "free"}

(* Between the duplicate check and the allocation nobody takes the keys.     *)
FreshInv ==
  \A t \in Threads : pc[t] = "alloc" =>
    \A b \in used : record[b].imsi # req[t].imsi /\ record[b].msisdn # req[t].msisdn

IndexInv == TypeOK /\ LockInv /\ PhaseInv /\ KeysInv /\ FreshInv

LEMMA IndexInvInit == Init => IndexInv
<1> SUFFICES ASSUME Init PROVE IndexInv
  OBVIOUS
<1>1. TypeOK
  BY TypeInit
<1>2. LockInv
  BY ConstantsAssumption DEF Init, LockInv, WritePcs, ReadPcs, AddPcs, UpdatePcs, RemovePcs
<1>3. PhaseInv
  BY DEF Init, PhaseInv, Phase, Tables, RecordPcs, AddPcs, UpdatePcs, RemovePcs
<1>4. KeysInv /\ FreshInv
  BY DEF Init, KeysInv, FreshInv
<1> QED
  BY <1>1, <1>2, <1>3, <1>4 DEF IndexInv

(* A step of a thread that is outside the write lock before and after and    *)
(* changes no record, table or lock holder keeps the invariants of writers.  *)
LEMMA OutsideKeeps ==
  ASSUME IndexInv, NEW t \in Threads, pc[t] \notin WritePcs, pc'[t] \notin WritePcs,
         \A u \in Threads \ {t} : pc'[u] = pc[u] /\ req'[u] = req[u],
         UNCHANGED <<writer, index, used, record, next_id, cur>>
  PROVE  PhaseInv' /\ KeysInv' /\ FreshInv'
<1>1. PhaseInv'
  <2> SUFFICES ASSUME NEW u \in Threads PROVE Phase(u)'
    BY DEF IndexInv, PhaseInv, Tables
  <2>1. CASE u = t
    BY <2>1 DEF Phase, WritePcs, AddPcs, UpdatePcs, RemovePcs, RecordPcs
  <2>2. CASE u # t
    <3>1. pc'[u] = pc[u] /\ Phase(u)
      BY <2>2 DEF IndexInv, PhaseInv
    <3> QED
      BY <3>1 DEF Phase, Tables, Rest
  <2> QED
    BY <2>1, <2>2
<1>2. KeysInv'
  BY DEF IndexInv, KeysInv, WritePcs, AddPcs, UpdatePcs, RemovePcs
<1>3. FreshInv'
  BY DEF IndexInv, FreshInv, WritePcs, AddPcs, UpdatePcs, RemovePcs
<1> QED
  BY <1>1, <1>2, <1>3

LEMMA IndexInvOutside ==
  ASSUME IndexInv, NEW t \in Threads,
         CallAny(t) \/ LockRead(t) \/ ReaderStep(t) \/ FreeResult(t) \/ SearchDone(t)
  PROVE  IndexInv'
<1> USE DEF WritePcs, ReadPcs, AddPcs, UpdatePcs, RemovePcs
<1>0. pc \in [Threads -> Pcs] /\ req \in [Threads -> Request]
  BY DEF IndexInv, TypeOK, StateOK
<1>1. TypeOK'
  BY TypeCall, TypeReader DEF IndexInv
<1>2. CASE Reject(t)
  BY <1>1, <1>2 DEF Reject, IndexInv, LockInv, PhaseInv, Phase, Tables, Rest, KeysInv, FreshInv
<1>3. ASSUME NEW label \in Pcs, pc' = [pc EXCEPT ![t] = label],
             pc[t] \notin WritePcs, label \notin WritePcs,
             \A u \in Threads \ {t} : req'[u] = req[u],
             UNCHANGED <<writer, index, used, record, next_id, cur>>,
             LockInv'
      PROVE  IndexInv'
  <2>1. pc'[t] = label /\ \A u \in Threads \ {t} : pc'[u] = pc[u]
    BY <1>0, <1>3
  <2> QED
    BY <1>1, <1>3, <2>1, OutsideKeeps DEF IndexInv
<1>4. ASSUME NEW r, NEW label \in {"wait_w", "wait_r"}, Call(t, r, label)
      PROVE  IndexInv'
  <2>1. LockInv'
    BY <1>0, <1>4 DEF Call, IndexInv, LockInv
  <2>2. \A u \in Threads \ {t} : req'[u] = req[u]
    BY <1>0, <1>4 DEF Call
  <2>3. label \in Pcs
    BY DEF Pcs
  <2> QED
    BY <1>3, <1>4, <2>1, <2>2, <2>3 DEF Call
<1>5. CASE CallAdd(t) \/ CallDelete(t) \/ CallUpdate(t) \/ CallSearch(t) \/ CallList(t)
  <2>1. \E r, label : label \in {"wait_w", "wait_r"} /\ Call(t, r, label)
    BY <1>5 DEF CallAdd, CallDelete, CallUpdate, CallSearch, CallList
  <2> QED
    BY <2>1, <1>4
<1>6. CASE LockRead(t)
  <2>1. req[t].op \in ReadPcs
    BY <1>6 DEF LockRead, IndexInv, TypeOK, ArgsOK, ReadArgs
  <2>2. LockInv'
    BY <1>0, <1>6, <2>1, ConstantsAssumption DEF LockRead, IndexInv, LockInv
  <2> QED
    BY <1>3, <1>6, <2>1, <2>2 DEF LockRead, Pcs
<1>7. ASSUME NEW label \in Pcs \cap ReadPcs, pc' = [pc EXCEPT ![t] = label], pc[t] \in ReadPcs,
             UNCHANGED <<writer, readers, index, used, record, next_id, cur, req>>
      PROVE  IndexInv'
  <2>1. LockInv'
    BY <1>0, <1>7 DEF IndexInv, LockInv
  <2> QED
    BY <1>3, <1>7, <2>1
<1>8. CASE SearchOne(t) \/ ListStart(t) \/ ListAllocFails(t) \/ ListEnd(t)
  <2>1. \E label \in {"visit", "unlock_r"} : pc' = [pc EXCEPT ![t] = label]
    BY <1>8 DEF SearchOne, ListStart, ListAllocFails, ListEnd
  <2>2. {"visit", "unlock_r"} \subseteq Pcs \cap ReadPcs
    BY DEF Pcs
  <2> QED
    BY <1>7, <1>8, <2>1, <2>2 DEF SearchOne, ListStart, ListAllocFails, ListEnd
<1>9. CASE ListVisit(t) \/ FreeResult(t)
  BY <1>1, <1>9 DEF ListVisit, FreeResult, IndexInv, LockInv, PhaseInv, Phase, Tables, Rest,
                    KeysInv, FreshInv
<1>10. CASE UnlockRead(t)
  <2>1. LockInv'
    BY <1>0, <1>10 DEF UnlockRead, IndexInv, LockInv
  <2> QED
    BY <1>3, <1>10, <2>1 DEF UnlockRead, Pcs
<1>11. CASE SearchDone(t)
  <2>1. LockInv'
    BY <1>0, <1>11 DEF SearchDone, IndexInv, LockInv
  <2>2. \A u \in Threads \ {t} : req'[u] = req[u]
    BY <1>0, <1>11 DEF SearchDone
  <2> QED
    BY <1>3, <1>11, <2>1, <2>2 DEF SearchDone, Pcs
<1> QED
  BY <1>2, <1>5, <1>6, <1>8, <1>9, <1>10, <1>11 DEF CallAny, ReaderStep

(* A thread inside the write lock is the only one.                           *)
LEMMA WriterAlone ==
  ASSUME IndexInv, NEW t \in Threads, pc[t] \in WritePcs
  PROVE  /\ writer = t /\ t # None
         /\ \A u \in Threads \ {t} : pc[u] \notin WritePcs
BY ConstantsAssumption DEF IndexInv, LockInv

(* So a step of it has only its own phase and the keys to answer for.        *)
LEMMA WriterMoves ==
  ASSUME IndexInv, NEW t \in Threads, pc[t] \in WritePcs,
         NEW label \in WritePcs, pc' = [pc EXCEPT ![t] = label],
         UNCHANGED <<writer, readers>>, TypeOK', Phase(t)', KeysInv',
         label = "alloc" =>
           \A b \in used' : record'[b].imsi # req'[t].imsi /\ record'[b].msisdn # req'[t].msisdn
  PROVE  IndexInv'
<1>0. pc \in [Threads -> Pcs]
  BY DEF IndexInv, TypeOK, StateOK
<1>1. pc'[t] = label /\ \A u \in Threads \ {t} : pc'[u] = pc[u] /\ pc[u] \notin WritePcs
  BY <1>0, WriterAlone
<1>2. LockInv'
  <2>1. label \notin ReadPcs /\ pc[t] \notin ReadPcs
    BY DEF WritePcs, ReadPcs, AddPcs, UpdatePcs, RemovePcs
  <2> QED
    BY <1>1, <2>1 DEF IndexInv, LockInv
<1>3. PhaseInv'
  <2>1. writer' # None
    BY WriterAlone
  <2>2. ASSUME NEW u \in Threads PROVE Phase(u)'
    <3>1. CASE u = t
      BY <3>1
    <3>2. CASE u # t
      BY <1>1, <3>2 DEF Phase, WritePcs, AddPcs, UpdatePcs, RemovePcs, RecordPcs
    <3> QED
      BY <3>1, <3>2
  <2> QED
    BY <2>1, <2>2 DEF PhaseInv
<1>4. FreshInv'
  BY <1>1 DEF FreshInv, WritePcs, AddPcs
<1> QED
  BY <1>2, <1>3, <1>4 DEF IndexInv

(* The keys in block b stay what they are.                                   *)
SameKeysIn(b) ==
  /\ record'[b].id = record[b].id
  /\ record'[b].imsi = record[b].imsi
  /\ record'[b].msisdn = record[b].msisdn

LEMMA SameKeysMove ==
  ASSUME IndexInv, NEW t \in Threads, NEW label, pc' = [pc EXCEPT ![t] = label],
         UNCHANGED <<used, next_id>>,
         \A b \in used : SameKeysIn(b),
         \A u \in Threads \ {t} : cur'[u] = cur[u],
         pc[t] \in {"intern", "assign_id", "free"} =>
           label \in {"intern", "assign_id", "free"} /\ cur'[t] = cur[t]
  PROVE  KeysInv'
<1>0. pc \in [Threads -> Pcs]
  BY DEF IndexInv, TypeOK, StateOK
<1>1. ASSUME NEW b \in used, record'[b].id = 0
      PROVE  \E u \in Threads : cur'[u] = b /\ pc'[u] \in {"intern", "assign_id", "free"}
  <2>1. PICK u \in Threads : cur[u] = b /\ pc[u] \in {"intern", "assign_id", "free"}
    BY <1>1 DEF IndexInv, KeysInv, SameKeysIn
  <2> QED
    BY <1>0, <2>1
<1> QED
  BY <1>1 DEF IndexInv, KeysInv, SameKeysIn

(* subdb_add.                                                                *)
LEMMA IndexInvAdd ==
  ASSUME IndexInv, TypeOK', NEW t \in Threads,
         \/ AddCheck(t) \/ AddAlloc(t) \/ AddAllocFails(t) \/ AddIntern(t) \/ AddAssignId(t)
         \/ AddPutId(t) \/ AddPutImsi(t) \/ AddPutMsisdn(t)
  PROVE  IndexInv'
<1> USE DEF WritePcs, AddPcs, UpdatePcs, RemovePcs, RecordPcs
<1>0. /\ pc \in [Threads -> Pcs] /\ cur \in [Threads -> Blocks \cup {None}]
      /\ Phase(t) /\ KeysInv
  BY DEF IndexInv, TypeOK, StateOK, PhaseInv
<1>1. CASE AddCheck(t)
  <2>1. Tables(used, used, used)
    BY <1>0, <1>1 DEF AddCheck, Phase
  <2>2. PICK label \in {"unlock_w", "alloc"} :
          /\ pc' = [pc EXCEPT ![t] = label]
          /\ label = "alloc" =>
               WithImsi(by_imsi, req[t].imsi) = {} /\ WithMsisdn(by_msisdn, req[t].msisdn) = {}
    BY <1>1 DEF AddCheck
  <2>3. label = "alloc" =>
          \A b \in used : record[b].imsi # req[t].imsi /\ record[b].msisdn # req[t].msisdn
    BY <2>1, <2>2 DEF Tables, WithImsi, WithMsisdn
  <2>4. Phase(t)'
    BY <1>0, <1>1, <2>1, <2>2 DEF AddCheck, Phase, Tables
  <2>5. KeysInv'
    BY <1>1, <2>2, SameKeysMove DEF AddCheck, SameKeysIn
  <2> QED
    BY <1>1, <2>2, <2>3, <2>4, <2>5, WriterMoves DEF AddCheck
<1>2. CASE AddAlloc(t)
  <2>1. PICK b \in Blocks \ used :
          /\ used' = used \cup {b}
          /\ record' = [record EXCEPT ![b] =
               [Blank EXCEPT !.imsi = req[t].imsi, !.msisdn = req[t].msisdn]]
          /\ cur' = [cur EXCEPT ![t] = b]
    BY <1>2 DEF AddAlloc
  <2>2. Tables(used, used, used) /\ used = Rest(t)' /\ cur'[t] = b /\ b \in used'
    BY <1>0, <1>2, <2>1 DEF AddAlloc, Phase, Rest
  <2>3. pc'[t] = "intern"
    BY <1>0, <1>2 DEF AddAlloc
  <2>4. Phase(t)'
    BY <1>2, <2>2, <2>3 DEF AddAlloc, Phase, Tables
  <2>5. \A c \in used : record'[c] = record[c]
    BY <2>1 DEF IndexInv, TypeOK, StateOK
  <2>6. record'[b].id = 0 /\ record'[b].imsi = req[t].imsi /\ record'[b].msisdn = req[t].msisdn
    BY <2>1 DEF Blank, IndexInv, TypeOK, StateOK
  <2>7. \A c \in used : record[c].id # 0
    <3> SUFFICES ASSUME NEW c \in used, record[c].id = 0 PROVE FALSE
      OBVIOUS
    <3>1. PICK u \in Threads : pc[u] \in {"intern", "assign_id", "free"}
      BY <1>0 DEF KeysInv
    <3> QED
      BY <1>2, <3>1, WriterAlone DEF AddAlloc
  <2>8. \A c \in used : record[c].imsi # req[t].imsi /\ record[c].msisdn # req[t].msisdn
    BY <1>2 DEF AddAlloc, IndexInv, FreshInv
  <2>9. 0 < next_id /\ UNCHANGED next_id
    BY <1>2 DEF AddAlloc, IndexInv, TypeOK, StateOK
  <2>10. KeysInv'
    BY <1>0, <2>1, <2>2, <2>3, <2>5, <2>6, <2>7, <2>8, <2>9 DEF KeysInv
  <2> QED
    BY <1>2, <2>4, <2>10, WriterMoves DEF AddAlloc
<1>3. CASE AddAllocFails(t)
  <2>1. Phase(t)'
    BY <1>0, <1>3 DEF AddAllocFails, Phase, Tables
  <2>2. KeysInv'
    BY <1>3, SameKeysMove DEF AddAllocFails, SameKeysIn
  <2> QED
    BY <1>3, <2>1, <2>2, WriterMoves DEF AddAllocFails
<1>4. CASE AddIntern(t)
  <2>1. PICK label \in {"intern", "assign_id", "free"} : pc' = [pc EXCEPT ![t] = label]
    <3>1. pc = [pc EXCEPT ![t] = "intern"] \/ pc[t] # "intern"
      BY <1>0
    <3> QED
      BY <1>4, <3>1 DEF AddIntern
  <2>2. ASSUME NEW b \in used PROVE SameKeysIn(b)
    <3>1. record \in [Blocks -> Record] /\ b \in Blocks
      BY DEF IndexInv, TypeOK, StateOK
    <3>2. \/ record' = record
          \/ record' = [record EXCEPT ![cur[t]] = WithText(@, fld[t], req[t].text[fld[t]])]
      BY <1>4 DEF AddIntern
    <3>3. record'[b] = record[b] \/ \E f, x : record'[b] = WithText(record[b], f, x)
      BY <3>1, <3>2
    <3> QED
      BY <3>1, <3>3 DEF WithText, SameKeysIn, Record
  <2>3. Phase(t)'
    BY <1>0, <1>4, <2>1 DEF AddIntern, Phase, Tables, Rest
  <2>4. KeysInv'
    BY <1>4, <2>1, <2>2, SameKeysMove DEF AddIntern
  <2> QED
    BY <1>4, <2>1, <2>3, <2>4, WriterMoves DEF AddIntern
<1>5. CASE AddAssignId(t)
  <2>1. cur[t] \in used /\ cur[t] \in Blocks /\ used \subseteq Blocks
    BY <1>0, <1>5 DEF AddAssignId, Phase, IndexInv, TypeOK, StateOK
  <2>2. pc'[t] = "put_id"
    BY <1>0, <1>5 DEF AddAssignId
  <2>3. Phase(t)'
    BY <1>0, <1>5, <2>2 DEF AddAssignId, Phase, Tables, Rest
  <2>4. next_id' = next_id + 1 /\ next_id \in Nat \ {0}
    BY <1>5 DEF AddAssignId, IndexInv, TypeOK, StateOK
  <2>5. record \in [Blocks -> Record]
    BY DEF IndexInv, TypeOK, StateOK
  <2>6. record'[cur[t]].id = next_id
    BY <1>5, <2>1, <2>5 DEF AddAssignId, Record
  <2>7. \A b \in used : record'[b].imsi = record[b].imsi /\ record'[b].msisdn = record[b].msisdn
    BY <1>5, <2>1, <2>5 DEF AddAssignId, Record
  <2>8. \A b \in used \ {cur[t]} : record'[b].id = record[b].id /\ record[b].id \in Nat
    BY <1>5, <2>1, <2>5 DEF AddAssignId, Record
  <2>9. \A b \in used \ {cur[t]} : record[b].id # 0
    <3> SUFFICES ASSUME NEW b \in used \ {cur[t]}, record[b].id = 0 PROVE FALSE
      OBVIOUS
    <3>1. PICK u \in Threads : cur[u] = b /\ pc[u] \in {"intern", "assign_id", "free"}
      BY <1>0 DEF KeysInv
    <3> QED
      BY <1>5, <3>1, WriterAlone DEF AddAssignId
  <2>10. KeysInv'
    <3>1. \A b \in used : record[b].id < next_id
      BY <1>0 DEF KeysInv
    <3>2. \A b \in used' : record'[b].id < next_id' /\ record'[b].id # 0
      BY <1>5, <2>4, <2>6, <2>8, <2>9, <3>1 DEF AddAssignId
    <3>3. \A b, c \in used' : record'[b].id = record'[c].id => b = c
      BY <1>0, <1>5, <2>4, <2>6, <2>8, <3>1 DEF AddAssignId, KeysInv
    <3>4. \A b, c \in used' : /\ record'[b].imsi = record'[c].imsi => b = c
                              /\ record'[b].msisdn = record'[c].msisdn => b = c
      BY <1>0, <1>5, <2>7 DEF AddAssignId, KeysInv
    <3> QED
      BY <3>2, <3>3, <3>4 DEF KeysInv
  <2> QED
    BY <1>5, <2>3, <2>10, WriterMoves DEF AddAssignId
<1>6. CASE AddPutId(t)
  <2>1. cur[t] \in used /\ used = Rest(t) \cup {cur[t]}
    BY <1>0, <1>6 DEF AddPutId, Phase, Rest
  <2>2. \/ by_id' = by_id \cup {cur[t]} /\ pc' = [pc EXCEPT ![t] = "put_imsi"]
        \/ by_id' = by_id /\ pc' = [pc EXCEPT ![t] = "remove_id"]
    BY <1>6 DEF AddPutId
  <2>3. Phase(t)'
    BY <1>0, <1>6, <2>1, <2>2 DEF AddPutId, Phase, Tables, Rest
  <2>4. KeysInv'
    BY <1>6, <2>2, SameKeysMove DEF AddPutId, SameKeysIn
  <2> QED
    BY <1>6, <2>2, <2>3, <2>4, WriterMoves DEF AddPutId
<1>7. CASE AddPutImsi(t)
  <2>1. cur[t] \in used /\ used = Rest(t) \cup {cur[t]}
    BY <1>0, <1>7 DEF AddPutImsi, Phase, Rest
  <2>2. \/ by_imsi' = by_imsi \cup {cur[t]} /\ pc' = [pc EXCEPT ![t] = "put_msisdn"]
        \/ by_imsi' = by_imsi /\ pc' = [pc EXCEPT ![t] = "remove_id"]
    BY <1>7 DEF AddPutImsi
  <2>3. Phase(t)'
    BY <1>0, <1>7, <2>1, <2>2 DEF AddPutImsi, Phase, Tables, Rest
  <2>4. KeysInv'
    BY <1>7, <2>2, SameKeysMove DEF AddPutImsi, SameKeysIn
  <2> QED
    BY <1>7, <2>2, <2>3, <2>4, WriterMoves DEF AddPutImsi
<1>8. CASE AddPutMsisdn(t)
  <2>1. cur[t] \in used /\ used = Rest(t) \cup {cur[t]}
    BY <1>0, <1>8 DEF AddPutMsisdn, Phase, Rest
  <2>2. \/ by_msisdn' = by_msisdn \cup {cur[t]} /\ pc' = [pc EXCEPT ![t] = "unlock_w"]
        \/ by_msisdn' = by_msisdn /\ pc' = [pc EXCEPT ![t] = "remove_id"]
    BY <1>8 DEF AddPutMsisdn
  <2>3. Phase(t)'
    BY <1>0, <1>8, <2>1, <2>2 DEF AddPutMsisdn, Phase, Tables, Rest
  <2>4. KeysInv'
    BY <1>8, <2>2, SameKeysMove DEF AddPutMsisdn, SameKeysIn
  <2> QED
    BY <1>8, <2>2, <2>3, <2>4, WriterMoves DEF AddPutMsisdn
<1> QED
  BY <1>1, <1>2, <1>3, <1>4, <1>5, <1>6, <1>7, <1>8

(* subdb_delete, the rollback of subdb_add, and subdb_update.                *)
LEMMA IndexInvRemove ==
  ASSUME IndexInv, TypeOK', NEW t \in Threads,
         \/ DeleteFind(t) \/ RemoveId(t) \/ RemoveImsi(t) \/ RemoveMsisdn(t)
         \/ FreeSubscriberLocked(t)
  PROVE  IndexInv'
<1> USE DEF WritePcs, AddPcs, UpdatePcs, RemovePcs, RecordPcs
<1>0. /\ pc \in [Threads -> Pcs] /\ cur \in [Threads -> Blocks \cup {None}]
      /\ Phase(t) /\ KeysInv
  BY DEF IndexInv, TypeOK, StateOK, PhaseInv
<1>1. CASE DeleteFind(t)
  <2>1. Tables(used, used, used)
    BY <1>0, <1>1 DEF DeleteFind, Phase
  <2>2. PICK label \in {"unlock_w", "remove_id"} :
          /\ pc' = [pc EXCEPT ![t] = label]
          /\ label = "remove_id" => \E b \in by_id : cur' = [cur EXCEPT ![t] = b]
          /\ label = "unlock_w" => UNCHANGED cur
    BY <1>1 DEF DeleteFind, WithId
  <2>3. Phase(t)'
    BY <1>0, <1>1, <2>1, <2>2 DEF DeleteFind, Phase, Tables, Rest
  <2>4. \A u \in Threads \ {t} : cur'[u] = cur[u]
    BY <1>0, <2>2
  <2>5. KeysInv'
    BY <1>1, <2>2, <2>4, SameKeysMove DEF DeleteFind, SameKeysIn
  <2> QED
    BY <1>1, <2>2, <2>3, <2>5, WriterMoves DEF DeleteFind
<1>2. CASE RemoveId(t)
  <2>1. cur[t] \in used /\ by_id \in {used, Rest(t)}
    BY <1>0, <1>2 DEF RemoveId, Phase
  <2>2. by_id' = Rest(t)
    BY <1>0, <1>2, <2>1 DEF RemoveId, WithId, Rest, KeysInv
  <2>3. Phase(t)'
    BY <1>0, <1>2, <2>2 DEF RemoveId, Phase, Tables, Rest
  <2>4. KeysInv'
    BY <1>2, SameKeysMove DEF RemoveId, SameKeysIn
  <2> QED
    BY <1>2, <2>3, <2>4, WriterMoves DEF RemoveId
<1>3. CASE RemoveImsi(t)
  <2>1. cur[t] \in used /\ by_imsi \in {used, Rest(t)}
    BY <1>0, <1>3 DEF RemoveImsi, Phase
  <2>2. by_imsi' = Rest(t)
    BY <1>0, <1>3, <2>1 DEF RemoveImsi, WithImsi, Rest, KeysInv
  <2>3. Phase(t)'
    BY <1>0, <1>3, <2>2 DEF RemoveImsi, Phase, Tables, Rest
  <2>4. KeysInv'
    BY <1>3, SameKeysMove DEF RemoveImsi, SameKeysIn
  <2> QED
    BY <1>3, <2>3, <2>4, WriterMoves DEF RemoveImsi
<1>4. CASE RemoveMsisdn(t)
  <2>1. cur[t] \in used /\ by_msisdn \in {used, Rest(t)}
    BY <1>0, <1>4 DEF RemoveMsisdn, Phase
  <2>2. by_msisdn' = Rest(t)
    BY <1>0, <1>4, <2>1 DEF RemoveMsisdn, WithMsisdn, Rest, KeysInv
  <2>3. Phase(t)'
    BY <1>0, <1>4, <2>2 DEF RemoveMsisdn, Phase, Tables, Rest
  <2>4. KeysInv'
    BY <1>4, SameKeysMove DEF RemoveMsisdn, SameKeysIn
  <2> QED
    BY <1>4, <2>3, <2>4, WriterMoves DEF RemoveMsisdn
<1>5. CASE FreeSubscriberLocked(t)
  <2>1. used' = Rest(t) /\ Tables(Rest(t), Rest(t), Rest(t)) /\ UNCHANGED index
    BY <1>0, <1>5 DEF FreeSubscriberLocked, Phase, Rest
  <2>2. pc'[t] = "unlock_w"
    BY <1>0, <1>5 DEF FreeSubscriberLocked
  <2>3. Phase(t)'
    BY <2>1, <2>2 DEF Phase, Tables
  <2>4. \A b \in used' : b \in used /\ record'[b] = record[b]
    BY <1>5, <2>1 DEF FreeSubscriberLocked, Rest, IndexInv, TypeOK, StateOK
  <2>5. ASSUME NEW b \in used', record'[b].id = 0 PROVE FALSE
    <3>1. PICK u \in Threads : cur[u] = b /\ pc[u] \in {"intern", "assign_id", "free"}
      BY <1>0, <2>4, <2>5 DEF KeysInv
    <3>2. u = t
      BY <1>5, <3>1, WriterAlone DEF FreeSubscriberLocked
    <3> QED
      BY <2>1, <3>1, <3>2 DEF Rest
  <2>6. KeysInv'
    BY <1>0, <1>5, <2>4, <2>5 DEF FreeSubscriberLocked, KeysInv
  <2> QED
    BY <1>5, <2>3, <2>6, WriterMoves DEF FreeSubscriberLocked
<1> QED
  BY <1>1, <1>2, <1>3, <1>4, <1>5

LEMMA IndexInvUpdate ==
  ASSUME IndexInv, TypeOK', NEW t \in Threads,
         UpdateFind(t) \/ UpdateIntern(t) \/ UpdateSkip(t) \/ UpdateSwap(t) \/ UpdateStatus(t)
  PROVE  IndexInv'
<1> USE DEF WritePcs, AddPcs, UpdatePcs, RemovePcs, RecordPcs
<1>0. /\ pc \in [Threads -> Pcs] /\ cur \in [Threads -> Blocks \cup {None}]
      /\ Phase(t)
  BY DEF IndexInv, TypeOK, StateOK, PhaseInv
<1>1. ASSUME NEW label \in {"update_field", "update_swap", "update_status", "unlock_w"},
             pc' = [pc EXCEPT ![t] = label], pc[t] \in UpdatePcs,
             UNCHANGED <<writer, readers, index, used, next_id>>,
             \A u \in Threads \ {t} : cur'[u] = cur[u],
             \A b \in used : SameKeysIn(b),
             label = "unlock_w" \/ cur'[t] \in used
      PROVE  IndexInv'
  <2>1. Phase(t)'
    BY <1>0, <1>1 DEF Phase, Tables
  <2>2. KeysInv'
    BY <1>1, SameKeysMove
  <2> QED
    BY <1>1, <2>1, <2>2, WriterMoves
<1>2. CASE UpdateFind(t)
  <2>1. PICK label \in {"unlock_w", "update_field"} :
          /\ pc' = [pc EXCEPT ![t] = label]
          /\ label = "update_field" => \E b \in by_id : cur' = [cur EXCEPT ![t] = b]
          /\ label = "unlock_w" => UNCHANGED cur
    BY <1>2 DEF UpdateFind, WithId
  <2>2. /\ \A u \in Threads \ {t} : cur'[u] = cur[u]
        /\ label = "unlock_w" \/ cur'[t] \in used
    BY <1>0, <1>2, <2>1 DEF UpdateFind, Phase, Tables
  <2> QED
    BY <1>1, <1>2, <2>1, <2>2 DEF UpdateFind, SameKeysIn
<1>3. CASE UpdateIntern(t) \/ UpdateSkip(t)
  <2>1. \E label \in {"update_field", "update_swap", "update_status"} :
          pc' = [pc EXCEPT ![t] = label]
    BY <1>3 DEF UpdateIntern, UpdateSkip, NextField
  <2>2. cur[t] \in used
    BY <1>0, <1>3 DEF UpdateIntern, UpdateSkip, Phase
  <2> QED
    BY <1>1, <1>3, <2>1, <2>2 DEF UpdateIntern, UpdateSkip, SameKeysIn
<1>4. CASE UpdateSwap(t)
  <2>1. \E label \in {"update_field", "update_status"} : pc' = [pc EXCEPT ![t] = label]
    BY <1>4 DEF UpdateSwap, NextField
  <2>2. cur[t] \in used
    BY <1>0, <1>4 DEF UpdateSwap, Phase
  <2>3. ASSUME NEW b \in used PROVE SameKeysIn(b)
    BY <1>4 DEF UpdateSwap, WithText, SameKeysIn, IndexInv, TypeOK, StateOK, Record
  <2> QED
    BY <1>1, <1>4, <2>1, <2>2, <2>3 DEF UpdateSwap
<1>5. CASE UpdateStatus(t)
  <2>1. ASSUME NEW b \in used PROVE SameKeysIn(b)
    BY <1>5 DEF UpdateStatus, SameKeysIn, IndexInv, TypeOK, StateOK, Record
  <2> QED
    BY <1>1, <1>5, <2>1 DEF UpdateStatus
<1> QED
  BY <1>2, <1>3, <1>4, <1>5

(* Taking and giving back the write lock.                                    *)
LEMMA IndexInvLock ==
  ASSUME IndexInv, TypeOK', NEW t \in Threads, LockWrite(t) \/ UnlockWrite(t)
  PROVE  IndexInv'
<1> USE DEF WritePcs, ReadPcs, AddPcs, UpdatePcs, RemovePcs, RecordPcs
<1>0. pc \in [Threads -> Pcs] /\ cur \in [Threads -> Blocks \cup {None}] /\ PhaseInv
  BY DEF IndexInv, TypeOK, StateOK
<1>1. CASE LockWrite(t)
  <2>1. req[t].op \in {"add", "delete", "update"}
    BY <1>1 DEF LockWrite, IndexInv, TypeOK, ArgsOK, AddArgs, DeleteArgs, UpdateArgs
  <2>2. /\ pc'[t] = req[t].op
        /\ \A u \in Threads \ {t} : pc'[u] = pc[u] /\ pc[u] \notin WritePcs
    BY <1>0, <1>1, ConstantsAssumption DEF LockWrite, IndexInv, LockInv
  <2>3. LockInv'
    BY <1>1, <2>1, <2>2, ConstantsAssumption DEF LockWrite, IndexInv, LockInv
  <2>4. Tables(used, used, used)'
    BY <1>0, <1>1 DEF LockWrite, PhaseInv, Tables
  <2>5. PhaseInv'
    BY <2>1, <2>2, <2>4 DEF PhaseInv, Phase
  <2>6. KeysInv'
    BY <1>1, SameKeysMove DEF LockWrite, SameKeysIn
  <2>7. FreshInv'
    BY <2>1, <2>2 DEF FreshInv
  <2> QED
    BY <2>3, <2>5, <2>6, <2>7 DEF IndexInv
<1>2. CASE UnlockWrite(t)
  <2>1. Tables(used, used, used)'
    BY <1>0, <1>2 DEF UnlockWrite, PhaseInv, Phase, Tables
  <2>2. /\ pc'[t] = "idle"
        /\ \A u \in Threads \ {t} : pc'[u] = pc[u] /\ pc[u] \notin WritePcs
    BY <1>0, <1>2, WriterAlone DEF UnlockWrite
  <2>3. LockInv'
    BY <1>2, <2>2, ConstantsAssumption DEF UnlockWrite, IndexInv, LockInv
  <2>4. PhaseInv'
    BY <2>1, <2>2 DEF PhaseInv, Phase
  <2>5. KeysInv'
    <3>1. \A u \in Threads \ {t} : cur'[u] = cur[u]
      BY <1>0, <1>2 DEF UnlockWrite
    <3> QED
      BY <1>2, <3>1, SameKeysMove DEF UnlockWrite, SameKeysIn
  <2>6. FreshInv'
    BY <2>2 DEF FreshInv
  <2> QED
    BY <2>3, <2>4, <2>5, <2>6 DEF IndexInv
<1> QED
  BY <1>1, <1>2

LEMMA IndexInvNext == IndexInv /\ [Next]_vars => IndexInv'
<1> SUFFICES ASSUME IndexInv, [Next]_vars PROVE IndexInv'
  OBVIOUS
<1>1. TypeOK'
  BY TypeNext DEF IndexInv
<1>2. CASE UNCHANGED vars
  BY <1>1, <1>2 DEF vars, IndexInv, LockInv, PhaseInv, Phase, Tables, Rest, KeysInv, FreshInv
<1>3. CASE Next
  BY <1>1, <1>3, IndexInvOutside, IndexInvLock, IndexInvAdd, IndexInvRemove, IndexInvUpdate
     DEF Next, WriterStep
<1> QED
  BY <1>2, <1>3

THEOREM IndexInvHolds == Spec => []IndexInv
<1> QED
  BY IndexInvInit, IndexInvNext, PTL DEF Spec

(* Whenever no writer is at work the three tables and the pool agree.        *)
THEOREM IndexesStayInSync == Spec => []IndexesAgree
<1>1. IndexInv => IndexesAgree
  BY DEF IndexInv, PhaseInv, Tables, IndexesAgree
<1> QED
  BY <1>1, IndexInvHolds, PTL

(* A table never leads to a block that is not in use.                        *)
LEMMA TablesInUse ==
  ASSUME IndexInv
  PROVE  by_id \cup by_imsi \cup by_msisdn \subseteq used
<1>1. CASE writer = None
  BY <1>1 DEF IndexInv, PhaseInv, Tables
<1>2. CASE writer # None
  <2>1. writer \in Threads /\ pc[writer] \in WritePcs /\ Phase(writer)
    BY <1>2 DEF IndexInv, TypeOK, StateOK, LockInv, PhaseInv
  <2> QED
    BY <2>1 DEF Phase, Tables, Rest, WritePcs, AddPcs, UpdatePcs, RemovePcs
<1> QED
  BY <1>1, <1>2

(* No table ever leads to freed memory or holds a key twice, writer or not.  *)
THEOREM IndexesStaySafe == Spec => []IndexesSafe
<1>1. IndexInv => IndexesSafe
  BY TablesInUse DEF IndexInv, KeysInv, IndexesSafe
<1> QED
  BY <1>1, IndexInvHolds, PTL

-----------------------------------------------------------------------------
(* What the callers of the subscriber database may rely on, for any number   *)
(* of threads, blocks, keys, strings and requests: counts, lists and return  *)
(* values tell the truth, and the database is a map that changes one         *)
(* subscriber at a time.  Each of these relates the tables to view and       *)
(* issued, what a reader could last see; the invariant says, for each point  *)
(* a writer can be at, how far it has moved away from that.                  *)

USE DEF Goto, Status, index, locals

RecordsOf(r, S) == {r[b] : b \in S}

SameKeys(r, s) == r.id = s.id /\ r.imsi = s.imsi /\ r.msisdn = s.msisdn

(* Under the lock of a thread that has read its arguments and gone no further *)
(* nothing differs; the others differ by the record cur.                      *)
Unchanged  == view = RecordsOf(record, used)
OneMore(t) == view = RecordsOf(record, Rest(t))
Replaced(t) ==
  \E old \in view :
    SameKeys(old, record[cur[t]]) /\ view = RecordsOf(record, Rest(t)) \cup {old}

(* What is about to become visible when t gives the lock back.               *)
Outcome(t) ==
  /\ req[t].op \in {"add", "delete", "update"}
  /\ res[t] # "OK" => Unchanged /\ issued \in {next_id - 1, next_id - 2}
  /\ res[t] = "OK" /\ req[t].op = "add" =>
       /\ cur[t] \in used /\ OneMore(t)
       /\ issued = next_id - 2 /\ record[cur[t]].id = next_id - 1
       /\ record[cur[t]].imsi = req[t].imsi /\ record[cur[t]].msisdn = req[t].msisdn
       /\ record[cur[t]].text = req[t].text /\ record[cur[t]].status = req[t].status
  /\ res[t] = "OK" /\ req[t].op = "delete" =>
       /\ issued = next_id - 1
       /\ \E s \in view : /\ s.id = req[t].id
                          /\ \A b \in used : record[b].id # s.id
                          /\ view = RecordsOf(record, used) \cup {s}
  /\ res[t] = "OK" /\ req[t].op = "update" =>
       cur[t] \in used /\ Replaced(t) /\ issued = next_id - 1

(* How far a writer has got.                                                 *)
Progress(t) ==
  /\ pc[t] \in {"add", "alloc", "delete", "update"} => Unchanged /\ issued = next_id - 1
  /\ pc[t] \in {"intern", "assign_id"} => OneMore(t) /\ issued = next_id - 1
  /\ pc[t] \in {"put_id", "put_imsi", "put_msisdn"} =>
       OneMore(t) /\ issued = next_id - 2 /\ record[cur[t]].id = next_id - 1
  /\ pc[t] \in RemovePcs =>
       \/ /\ req[t].op = "add" /\ res[t] # "OK"
          /\ OneMore(t) /\ issued \in {next_id - 1, next_id - 2}
       \/ /\ req[t].op = "delete" /\ res[t] = "OK"
          /\ Unchanged /\ issued = next_id - 1 /\ record[cur[t]].id = req[t].id
  /\ pc[t] \in UpdatePcs \ {"update"} => Replaced(t) /\ issued = next_id - 1
  /\ pc[t] = "unlock_w" => Outcome(t)

(* What subdb_add has copied into the record so far.                         *)
Copied(t) ==
  /\ pc[t] \in AddPcs \ {"add", "alloc"} =>
       record[cur[t]].imsi = req[t].imsi /\ record[cur[t]].msisdn = req[t].msisdn
  /\ pc[t] = "intern" =>
       \A f \in Fields : record[cur[t]].text[f] = IF f < fld[t] THEN req[t].text[f] ELSE None
  /\ pc[t] \in AddPcs \ {"add", "alloc", "intern"} => record[cur[t]].text = req[t].text
  /\ pc[t] \in {"put_id", "put_imsi", "put_msisdn"} => record[cur[t]].status = req[t].status

(* A call starts with OK and the first field, and with no copies.            *)
Fresh(t) ==
  /\ pc[t] \in {"wait_w", "wait_r", "delete"} \cup AddPcs \cup UpdatePcs
               \cup (ReadPcs \ {"unlock_r"}) => res[t] = "OK"
  /\ pc[t] \notin RecordPcs \cup {"unlock_w"} => fld[t] = 1
  /\ pc[t] \notin {"visit", "unlock_r", "results"} => snaps[t] = {}

Matching(t, S) == {b \in S : Match(req[t], record[b])}

(* A list has copied the matching records among those it has visited.        *)
Reading(t) ==
  /\ pc[t] \in {"by_id", "by_imsi", "by_msisdn"} => req[t].op # "list"
  /\ pc[t] = "visit" =>
       todo[t] \subseteq by_id /\ snaps[t] = RecordsOf(record, Matching(t, by_id \ todo[t]))
  /\ pc[t] = "unlock_r" /\ req[t].op = "list" /\ res[t] = "OK" =>
       snaps[t] = RecordsOf(record, Matching(t, by_id))

HistoryInv ==
  /\ writer = None => Unchanged /\ issued = next_id - 1
  /\ \A t \in Threads : Progress(t) /\ Copied(t) /\ Fresh(t) /\ Reading(t)
  /\ IsFiniteSet(used)

-----------------------------------------------------------------------------
(* Records that do not change, seen through the same blocks, are the same.   *)
LEMMA SameRecords ==
  ASSUME NEW r, NEW q, NEW S, \A b \in S : q[b] = r[b]
  PROVE  RecordsOf(q, S) = RecordsOf(r, S)
BY DEF RecordsOf

(* A step of t touches no other thread's variables.                          *)
Mine(t) ==
  \A u \in Threads \ {t} :
    /\ pc'[u] = pc[u] /\ req'[u] = req[u] /\ cur'[u] = cur[u] /\ fld'[u] = fld[u]
    /\ res'[u] = res[u] /\ todo'[u] = todo[u] /\ snaps'[u] = snaps[u]

LEMMA StepsAreMine ==
  ASSUME TypeOK, NEW t \in Threads,
         \/ CallAny(t) \/ LockWrite(t) \/ WriterStep(t) \/ LockRead(t) \/ ReaderStep(t)
         \/ FreeResult(t) \/ SearchDone(t)
  PROVE  Mine(t)
<1> USE DEF Mine
<1>0. /\ DOMAIN pc = Threads /\ DOMAIN req = Threads /\ DOMAIN cur = Threads
      /\ DOMAIN fld = Threads /\ DOMAIN res = Threads /\ DOMAIN todo = Threads
      /\ DOMAIN snaps = Threads
  BY DEF TypeOK, StateOK
<1>1. CASE CallAny(t)
  <2>1. CASE Reject(t)
    BY <1>0, <2>1 DEF Reject
  <2>2. CASE CallAdd(t) \/ CallDelete(t) \/ CallUpdate(t) \/ CallSearch(t) \/ CallList(t)
    <3>1. \E r, label : Call(t, r, label)
      BY <2>2 DEF CallAdd, CallDelete, CallUpdate, CallSearch, CallList
    <3> QED
      BY <1>0, <3>1 DEF Call
  <2> QED
    BY <1>1, <2>1, <2>2 DEF CallAny
<1>2. CASE LockWrite(t) \/ UnlockWrite(t) \/ LockRead(t) \/ FreeResult(t) \/ SearchDone(t)
  BY <1>0, <1>2 DEF LockWrite, UnlockWrite, LockRead, FreeResult, SearchDone
<1>3. CASE AddCheck(t) \/ AddAllocFails(t) \/ AddAssignId(t)
  BY <1>0, <1>3 DEF AddCheck, AddAllocFails, AddAssignId
<1>4. CASE AddAlloc(t)
  BY <1>0, <1>4 DEF AddAlloc
<1>5. CASE AddIntern(t)
  BY <1>0, <1>5 DEF AddIntern
<1>6. CASE AddPutId(t) \/ AddPutImsi(t) \/ AddPutMsisdn(t)
  BY <1>0, <1>6 DEF AddPutId, AddPutImsi, AddPutMsisdn
<1>7. CASE DeleteFind(t) \/ UpdateFind(t)
  BY <1>0, <1>7 DEF DeleteFind, UpdateFind
<1>8. CASE RemoveId(t) \/ RemoveImsi(t) \/ RemoveMsisdn(t) \/ FreeSubscriberLocked(t)
  BY <1>0, <1>8 DEF RemoveId, RemoveImsi, RemoveMsisdn, FreeSubscriberLocked
<1>9. CASE UpdateIntern(t) \/ UpdateSkip(t) \/ UpdateSwap(t) \/ UpdateStatus(t)
  BY <1>0, <1>9 DEF UpdateIntern, UpdateSkip, UpdateSwap, UpdateStatus, NextField
<1>10. CASE ReaderStep(t)
  <2>1. CASE SearchOne(t)
    BY <1>0, <2>1 DEF SearchOne, Snapshot
  <2>2. CASE ListVisit(t)
    BY <1>0, <2>2 DEF ListVisit, Snapshot
  <2> QED
    BY <1>0, <1>10, <2>1, <2>2 DEF ReaderStep, ListStart, ListAllocFails, ListEnd, UnlockRead
<1> QED
  BY <1>1, <1>2, <1>3, <1>4, <1>5, <1>6, <1>7, <1>8, <1>9, <1>10 DEF WriterStep

-----------------------------------------------------------------------------
LEMMA HistoryInit == Init => HistoryInv
<1> SUFFICES ASSUME Init PROVE HistoryInv
  OBVIOUS
<1> USE DEF AddPcs, UpdatePcs, RemovePcs, RecordPcs, ReadPcs
<1>1. IsFiniteSet(used)
  BY FS_EmptySet DEF Init
<1>2. Unchanged /\ issued = next_id - 1
  BY DEF Init, Unchanged, RecordsOf
<1>3. ASSUME NEW t \in Threads PROVE Progress(t) /\ Copied(t) /\ Fresh(t) /\ Reading(t)
  BY DEF Init, Progress, Copied, Fresh, Reading
<1> QED
  BY <1>1, <1>2, <1>3 DEF HistoryInv

(* A step outside the write lock changes nothing that the others speak of.   *)
LEMMA OutsideHistory ==
  ASSUME HistoryInv, NEW t \in Threads, Mine(t),
         UNCHANGED <<index, used, record, next_id, view, issued>>,
         writer' = None => writer = None,
         Progress(t)', Copied(t)', Fresh(t)', Reading(t)'
  PROVE  HistoryInv'
<1>1. writer' = None => (Unchanged /\ issued = next_id - 1)'
  BY DEF HistoryInv, Unchanged
<1>2. ASSUME NEW u \in Threads PROVE (Progress(u) /\ Copied(u) /\ Fresh(u) /\ Reading(u))'
  <2>1. CASE u = t
    BY <2>1
  <2>2. CASE u # t
    <3>1. /\ pc'[u] = pc[u] /\ req'[u] = req[u] /\ cur'[u] = cur[u] /\ fld'[u] = fld[u]
          /\ res'[u] = res[u] /\ todo'[u] = todo[u] /\ snaps'[u] = snaps[u]
      BY <2>2 DEF Mine
    <3>2. Progress(u) /\ Copied(u) /\ Fresh(u) /\ Reading(u)
      BY DEF HistoryInv
    <3>3. Outcome(u)' = Outcome(u)
      BY <3>1 DEF Outcome, Unchanged, OneMore, Replaced, Rest
    <3>4. Progress(u)'
      BY <3>1, <3>2, <3>3 DEF Progress, Unchanged, OneMore, Replaced, Rest
    <3>5. Copied(u)' /\ Fresh(u)'
      BY <3>1, <3>2 DEF Copied, Fresh
    <3>6. Reading(u)'
      BY <3>1, <3>2 DEF Reading, Matching
    <3> QED
      BY <3>4, <3>5, <3>6
  <2> QED
    BY <2>1, <2>2
<1>3. IsFiniteSet(used)'
  BY DEF HistoryInv
<1> QED
  BY <1>1, <1>2, <1>3 DEF HistoryInv

(* The others are outside the lock while a writer works, so a step of it has *)
(* only its own progress to answer for.                                      *)
LEMMA WriterHistory ==
  ASSUME IndexInv, HistoryInv, NEW t \in Threads, Mine(t), pc[t] \in WritePcs,
         UNCHANGED <<writer, snaps>>, pc'[t] \in WritePcs, IsFiniteSet(used)',
         Progress(t)', Copied(t)',
         pc'[t] \in {"delete"} \cup AddPcs \cup UpdatePcs => res'[t] = "OK",
         pc'[t] \notin RecordPcs \cup {"unlock_w"} => fld'[t] = 1
  PROVE  HistoryInv'
<1> USE DEF WritePcs, ReadPcs, AddPcs, UpdatePcs, RemovePcs, RecordPcs
<1>1. writer = t /\ writer # None /\ \A u \in Threads \ {t} : pc[u] \notin WritePcs
  BY WriterAlone
<1>2. \A u \in Threads : pc[u] \notin ReadPcs
  BY <1>1 DEF IndexInv, LockInv
<1>3. ASSUME NEW u \in Threads PROVE (Progress(u) /\ Copied(u) /\ Fresh(u) /\ Reading(u))'
  <2>1. CASE u = t
    <3>1. Fresh(t)' /\ Reading(t)'
      BY DEF HistoryInv, Fresh, Reading
    <3> QED
      BY <2>1, <3>1
  <2>2. CASE u # t
    <3>1. /\ pc'[u] = pc[u] /\ fld'[u] = fld[u] /\ res'[u] = res[u]
          /\ pc[u] \notin WritePcs /\ pc[u] \notin ReadPcs /\ Fresh(u)
      BY <1>1, <1>2, <2>2 DEF Mine, HistoryInv
    <3> QED
      BY <3>1 DEF Progress, Copied, Fresh, Reading
  <2> QED
    BY <2>1, <2>2
<1> QED
  BY <1>1, <1>3 DEF HistoryInv

(* Calls, getting the lock, and all that a search does.                      *)
LEMMA HistoryOutside ==
  ASSUME IndexInv, HistoryInv, NEW t \in Threads,
         \/ CallAny(t) \/ LockWrite(t) \/ LockRead(t) \/ ReaderStep(t)
         \/ FreeResult(t) \/ SearchDone(t)
  PROVE  HistoryInv'
<1> USE DEF WritePcs, ReadPcs, AddPcs, UpdatePcs, RemovePcs, RecordPcs
<1>0. /\ pc \in [Threads -> Pcs] /\ req \in [Threads -> Request]
      /\ res \in [Threads -> Results] /\ snaps \in [Threads -> SUBSET Record]
      /\ todo \in [Threads -> SUBSET Blocks]
      /\ TypeOK /\ ArgsOK
      /\ Progress(t) /\ Copied(t) /\ Fresh(t) /\ Reading(t)
  BY DEF IndexInv, TypeOK, StateOK, HistoryInv
<1>1. Mine(t)
  BY <1>0, StepsAreMine
<1>2. CASE Reject(t)
  <2>1. pc[t] = "idle" /\ UNCHANGED <<pc, fld, snaps>>
    BY <1>2 DEF Reject
  <2>2. Progress(t)' /\ Copied(t)' /\ Fresh(t)' /\ Reading(t)'
    BY <1>0, <2>1 DEF Progress, Copied, Fresh, Reading
  <2> QED
    BY <1>1, <1>2, <2>2, OutsideHistory DEF Reject
<1>3. CASE CallAdd(t) \/ CallDelete(t) \/ CallUpdate(t) \/ CallSearch(t) \/ CallList(t)
  <2>1. PICK r, label : label \in {"wait_w", "wait_r"} /\ Call(t, r, label)
    BY <1>3 DEF CallAdd, CallDelete, CallUpdate, CallSearch, CallList
  <2>2. pc[t] = "idle" /\ pc'[t] = label /\ res'[t] = "OK" /\ UNCHANGED <<fld, snaps>>
    BY <1>0, <2>1 DEF Call
  <2>3. Progress(t)' /\ Copied(t)' /\ Fresh(t)' /\ Reading(t)'
    BY <1>0, <2>1, <2>2 DEF Progress, Copied, Fresh, Reading
  <2> QED
    BY <1>1, <2>1, <2>3, OutsideHistory DEF Call
<1>4. CASE LockWrite(t)
  <2>1. req[t].op \in {"add", "delete", "update"}
    BY <1>0, <1>4 DEF LockWrite, ArgsOK, AddArgs, DeleteArgs, UpdateArgs
  <2>2. /\ pc[t] = "wait_w" /\ pc'[t] = req[t].op /\ writer = None /\ writer' # None
        /\ UNCHANGED <<index, used, record, next_id, locals, view, issued>>
    BY <1>0, <1>4, ConstantsAssumption DEF LockWrite
  <2>3. (Unchanged /\ issued = next_id - 1)'
    BY <2>2 DEF HistoryInv, Unchanged
  <2>4. Progress(t)' /\ Copied(t)' /\ Fresh(t)' /\ Reading(t)'
    BY <1>0, <2>1, <2>2, <2>3 DEF Progress, Copied, Fresh, Reading
  <2> QED
    BY <1>1, <2>2, <2>4, OutsideHistory
<1>5. CASE LockRead(t)
  <2>1. req[t].op \in {"by_id", "by_imsi", "by_msisdn", "list"}
    BY <1>0, <1>5 DEF LockRead, ArgsOK, ReadArgs
  <2>2. pc[t] = "wait_r" /\ pc'[t] = req[t].op /\ UNCHANGED locals
    BY <1>0, <1>5 DEF LockRead
  <2>3. Progress(t)' /\ Copied(t)' /\ Fresh(t)' /\ Reading(t)'
    BY <1>0, <2>1, <2>2 DEF Progress, Copied, Fresh, Reading
  <2> QED
    BY <1>1, <1>5, <2>3, OutsideHistory DEF LockRead
<1>6. CASE SearchOne(t)
  <2>1. /\ pc[t] \in {"by_id", "by_imsi", "by_msisdn"} /\ pc'[t] = "unlock_r"
        /\ UNCHANGED <<req, fld>>
    BY <1>0, <1>6 DEF SearchOne
  <2>2. Progress(t)' /\ Copied(t)' /\ Fresh(t)' /\ Reading(t)'
    BY <1>0, <2>1 DEF Progress, Copied, Fresh, Reading
  <2> QED
    BY <1>1, <1>6, <2>2, OutsideHistory DEF SearchOne
<1>7. CASE ListStart(t)
  <2>1. /\ pc[t] = "list" /\ pc'[t] = "visit" /\ todo'[t] = by_id
        /\ UNCHANGED <<req, fld, res, snaps, index, record>>
    BY <1>0, <1>7 DEF ListStart
  <2>2. snaps[t] = {} /\ RecordsOf(record, Matching(t, by_id \ by_id)) = {}
    BY <1>0, <2>1 DEF Fresh, RecordsOf, Matching
  <2>3. Matching(t, by_id \ todo[t])' = Matching(t, by_id \ by_id)
    BY <2>1 DEF Matching
  <2>4. Progress(t)' /\ Copied(t)' /\ Fresh(t)' /\ Reading(t)'
    BY <1>0, <2>1, <2>2, <2>3 DEF Progress, Copied, Fresh, Reading
  <2> QED
    BY <1>1, <1>7, <2>4, OutsideHistory DEF ListStart
<1>8. CASE ListVisit(t)
  <2>1. PICK b \in todo[t] :
          /\ todo' = [todo EXCEPT ![t] = @ \ {b}]
          /\ IF Match(req[t], record[b])
             THEN Snapshot(t, b)
             ELSE UNCHANGED <<snaps, refs>>
    BY <1>8 DEF ListVisit
  <2>2. /\ pc[t] = "visit" /\ todo'[t] = todo[t] \ {b}
        /\ UNCHANGED <<pc, req, fld, res, index, record>>
    BY <1>0, <1>8, <2>1 DEF ListVisit
  <2>3. todo[t] \subseteq by_id /\ snaps[t] = RecordsOf(record, Matching(t, by_id \ todo[t]))
    BY <1>0, <2>2 DEF Reading
  <2>4. by_id \ (todo[t] \ {b}) = (by_id \ todo[t]) \cup {b}
    BY <2>3
  <2>5. snaps'[t] = RecordsOf(record, Matching(t, (by_id \ todo[t]) \cup {b}))
    <3>1. CASE Match(req[t], record[b])
      <4>1. snaps'[t] = snaps[t] \cup {record[b]}
        BY <1>0, <2>1, <3>1 DEF Snapshot
      <4>2. Matching(t, (by_id \ todo[t]) \cup {b}) = Matching(t, by_id \ todo[t]) \cup {b}
        BY <3>1 DEF Matching
      <4> QED
        BY <2>3, <4>1, <4>2 DEF RecordsOf
    <3>2. CASE ~Match(req[t], record[b])
      <4>1. snaps'[t] = snaps[t]
        BY <2>1, <3>2
      <4>2. Matching(t, (by_id \ todo[t]) \cup {b}) = Matching(t, by_id \ todo[t])
        BY <3>2 DEF Matching
      <4> QED
        BY <2>3, <4>1, <4>2
    <3> QED
      BY <3>1, <3>2
  <2>6. Matching(t, by_id \ todo[t])' = Matching(t, (by_id \ todo[t]) \cup {b})
    BY <2>2, <2>4 DEF Matching
  <2>7. Reading(t)'
    BY <2>2, <2>3, <2>5, <2>6 DEF Reading
  <2>8. Progress(t)' /\ Copied(t)' /\ Fresh(t)'
    BY <1>0, <2>2 DEF Progress, Copied, Fresh
  <2> QED
    BY <1>1, <1>8, <2>7, <2>8, OutsideHistory DEF ListVisit
<1>9. CASE ListAllocFails(t)
  <2>1. /\ pc[t] = "visit" /\ pc'[t] = "unlock_r" /\ res'[t] # "OK" /\ UNCHANGED fld
    BY <1>0, <1>9 DEF ListAllocFails
  <2>2. Progress(t)' /\ Copied(t)' /\ Fresh(t)' /\ Reading(t)'
    BY <1>0, <2>1 DEF Progress, Copied, Fresh, Reading
  <2> QED
    BY <1>1, <1>9, <2>2, OutsideHistory DEF ListAllocFails
<1>10. CASE ListEnd(t)
  <2>1. /\ pc[t] = "visit" /\ pc'[t] = "unlock_r" /\ todo[t] = {}
        /\ UNCHANGED <<locals, index, record>>
    BY <1>0, <1>10 DEF ListEnd
  <2>2. by_id \ todo[t] = by_id
    BY <2>1
  <2>3. snaps[t] = RecordsOf(record, Matching(t, by_id))
    BY <1>0, <2>1, <2>2 DEF Reading
  <2>4. Progress(t)' /\ Copied(t)' /\ Fresh(t)' /\ Reading(t)'
    BY <1>0, <2>1, <2>3 DEF Progress, Copied, Fresh, Reading, Matching
  <2> QED
    BY <1>1, <1>10, <2>4, OutsideHistory DEF ListEnd
<1>11. CASE UnlockRead(t)
  <2>1. /\ pc[t] = "unlock_r" /\ pc'[t] = "results" /\ UNCHANGED locals
    BY <1>0, <1>11 DEF UnlockRead
  <2>2. Progress(t)' /\ Copied(t)' /\ Fresh(t)' /\ Reading(t)'
    BY <1>0, <2>1 DEF Progress, Copied, Fresh, Reading
  <2> QED
    BY <1>1, <1>11, <2>2, OutsideHistory DEF UnlockRead
<1>12. CASE FreeResult(t)
  <2>1. pc[t] = "results" /\ UNCHANGED <<pc, fld>>
    BY <1>12 DEF FreeResult
  <2>2. Progress(t)' /\ Copied(t)' /\ Fresh(t)' /\ Reading(t)'
    BY <1>0, <2>1 DEF Progress, Copied, Fresh, Reading
  <2> QED
    BY <1>1, <1>12, <2>2, OutsideHistory DEF FreeResult
<1>13. CASE SearchDone(t)
  <2>1. pc[t] = "results" /\ pc'[t] = "idle" /\ snaps[t] = {} /\ UNCHANGED <<fld, snaps>>
    BY <1>0, <1>13 DEF SearchDone
  <2>2. Progress(t)' /\ Copied(t)' /\ Fresh(t)' /\ Reading(t)'
    BY <1>0, <2>1 DEF Progress, Copied, Fresh, Reading
  <2> QED
    BY <1>1, <1>13, <2>2, OutsideHistory DEF SearchDone
<1> QED
  BY <1>2, <1>3, <1>4, <1>5, <1>6, <1>7, <1>8, <1>9, <1>10, <1>11, <1>12, <1>13
     DEF CallAny, ReaderStep

(* subdb_add.                                                                *)
LEMMA HistoryAdd ==
  ASSUME IndexInv, HistoryInv, NEW t \in Threads,
         \/ AddCheck(t) \/ AddAlloc(t) \/ AddAllocFails(t) \/ AddIntern(t) \/ AddAssignId(t)
         \/ AddPutId(t) \/ AddPutImsi(t) \/ AddPutMsisdn(t)
  PROVE  HistoryInv'
<1> USE DEF WritePcs, AddPcs, UpdatePcs, RemovePcs, RecordPcs
<1>0. /\ pc \in [Threads -> Pcs] /\ res \in [Threads -> Results]
      /\ cur \in [Threads -> Blocks \cup {None}] /\ fld \in [Threads -> Fields]
      /\ record \in [Blocks -> Record] /\ used \subseteq Blocks
      /\ next_id \in Nat \ {0} /\ issued \in Nat
      /\ TypeOK /\ Phase(t)
      /\ Progress(t) /\ Copied(t) /\ Fresh(t) /\ IsFiniteSet(used)
  BY DEF IndexInv, TypeOK, StateOK, PhaseInv, HistoryInv
<1>1. Mine(t)
  BY <1>0, StepsAreMine DEF WriterStep
<1>2. pc[t] \in AddPcs
  BY DEF AddCheck, AddAlloc, AddAllocFails, AddIntern, AddAssignId, AddPutId, AddPutImsi,
         AddPutMsisdn
<1>3. req[t].op = "add" /\ req[t].text \in [Fields -> Texts]
  BY <1>0, <1>2, ArgsOf DEF AddArgs
<1>4. res[t] = "OK" /\ (pc[t] \in {"add", "alloc"} => fld[t] = 1)
  BY <1>0, <1>2 DEF Fresh
<1>5. CASE AddCheck(t) \/ AddAllocFails(t)
  <2>1. /\ pc[t] \in {"add", "alloc"} /\ pc'[t] \in {"alloc", "unlock_w"}
        /\ pc'[t] = "unlock_w" => res'[t] # "OK"
        /\ pc'[t] = "alloc" => res'[t] = "OK"
        /\ UNCHANGED <<writer, used, record, next_id, req, fld, snaps, view, issued>>
    BY <1>0, <1>4, <1>5 DEF AddCheck, AddAllocFails
  <2>2. Unchanged' /\ issued = next_id - 1
    BY <1>0, <2>1 DEF Progress, Unchanged
  <2>3. Progress(t)' /\ Copied(t)'
    BY <1>3, <2>1, <2>2 DEF Progress, Outcome, Copied
  <2> QED
    BY <1>0, <1>1, <1>2, <1>4, <2>1, <2>3, WriterHistory
<1>6. CASE AddAlloc(t)
  <2>1. PICK b \in Blocks \ used :
          /\ used' = used \cup {b}
          /\ record' = [record EXCEPT ![b] =
               [Blank EXCEPT !.imsi = req[t].imsi, !.msisdn = req[t].msisdn]]
          /\ cur' = [cur EXCEPT ![t] = b]
    BY <1>6 DEF AddAlloc
  <2>2. /\ pc[t] = "alloc" /\ pc'[t] = "intern" /\ cur'[t] = b
        /\ UNCHANGED <<writer, next_id, req, fld, res, snaps, view, issued>>
    BY <1>0, <1>6, <2>1 DEF AddAlloc
  <2>3. Rest(t)' = used /\ \A c \in used : record'[c] = record[c]
    BY <1>0, <2>1, <2>2 DEF Rest
  <2>4. OneMore(t)' /\ issued = next_id - 1
    BY <1>0, <2>2, <2>3, SameRecords DEF Progress, Unchanged, OneMore
  <2>5. Progress(t)'
    BY <2>2, <2>4 DEF Progress
  <2>6. record'[b] = [Blank EXCEPT !.imsi = req[t].imsi, !.msisdn = req[t].msisdn]
    BY <1>0, <2>1
  <2>7. Copied(t)'
    BY <1>4, <2>2, <2>6 DEF Copied, Blank, NoTexts, Fields
  <2>8. IsFiniteSet(used)'
    BY <1>0, <2>1, FS_AddElement
  <2> QED
    BY <1>1, <1>2, <1>4, <2>2, <2>5, <2>7, <2>8, WriterHistory
<1>7. CASE AddIntern(t)
  <2> DEFINE x == req[t].text[fld[t]]
  <2>1. /\ pc[t] = "intern" /\ fld[t] \in Fields
        /\ UNCHANGED <<writer, used, next_id, req, cur, snaps, view, issued>>
    BY <1>0, <1>7 DEF AddIntern
  <2>2. cur[t] \in used /\ cur[t] \in Blocks
    BY <1>0, <2>1 DEF Phase
  <2>3. OneMore(t) /\ issued = next_id - 1
    BY <1>0, <2>1 DEF Progress
  <2>4. CASE record' = record /\ pc'[t] = "free" /\ res'[t] # "OK"
    <3>1. Progress(t)' /\ Copied(t)'
      BY <1>3, <2>1, <2>3, <2>4 DEF Progress, OneMore, Rest, Copied
    <3> QED
      BY <1>0, <1>1, <1>2, <2>1, <2>4, <3>1, WriterHistory
  <2>5. CASE /\ record' = [record EXCEPT ![cur[t]] = WithText(@, fld[t], x)]
             /\ \/ fld[t] = Plan /\ pc'[t] = "assign_id" /\ UNCHANGED fld
                \/ fld[t] # Plan /\ pc'[t] = "intern" /\ fld'[t] = fld[t] + 1
             /\ UNCHANGED res
    <3>1. \A b \in Rest(t) : record'[b] = record[b]
      BY <1>0, <2>2, <2>5 DEF Rest
    <3>2. OneMore(t)'
      BY <2>1, <2>3, <3>1, SameRecords DEF OneMore, Rest
    <3>3. Progress(t)'
      BY <2>1, <2>3, <2>5, <3>2 DEF Progress
    <3>4. record[cur[t]] \in Record /\ record'[cur[t]] = WithText(record[cur[t]], fld[t], x)
      BY <1>0, <2>2, <2>5
    <3>5. /\ record'[cur[t]].imsi = record[cur[t]].imsi
          /\ record'[cur[t]].msisdn = record[cur[t]].msisdn
          /\ record'[cur[t]].text = [record[cur[t]].text EXCEPT ![fld[t]] = x]
          /\ record[cur[t]].text \in [Fields -> Texts \cup {None}]
      BY <3>4 DEF WithText, Record, Texting
    <3>6. \A f \in Fields :
            record'[cur[t]].text[f] = IF f < fld[t] + 1 THEN req[t].text[f] ELSE None
      BY <1>0, <2>1, <3>5 DEF Copied, Fields
    <3>7. fld[t] = Plan => record'[cur[t]].text = req[t].text
      BY <1>3, <3>5, <3>6 DEF Fields, Plan
    <3>8. Copied(t)'
      BY <1>0, <2>1, <2>5, <3>5, <3>6, <3>7 DEF Copied
    <3> QED
      BY <1>0, <1>1, <1>2, <1>4, <2>1, <2>5, <3>3, <3>8, WriterHistory
  <2> QED
    BY <1>0, <1>7, <2>4, <2>5 DEF AddIntern
<1>8. CASE AddAssignId(t)
  <2>1. /\ pc[t] = "assign_id" /\ pc'[t] = "put_id" /\ next_id' = next_id + 1
        /\ record' = [record EXCEPT ![cur[t]] = [@ EXCEPT !.id = next_id, !.status = req[t].status]]
        /\ UNCHANGED <<writer, used, locals, view, issued>>
    BY <1>0, <1>8 DEF AddAssignId
  <2>2. cur[t] \in used /\ cur[t] \in Blocks
    BY <1>0, <2>1 DEF Phase
  <2>3. OneMore(t) /\ issued = next_id - 1
    BY <1>0, <2>1 DEF Progress
  <2>4. \A b \in Rest(t) : record'[b] = record[b]
    BY <1>0, <2>1, <2>2 DEF Rest
  <2>5. OneMore(t)'
    <3>1. Rest(t)' = Rest(t) /\ view' = view
      BY <2>1 DEF Rest
    <3>2. RecordsOf(record', Rest(t)) = RecordsOf(record, Rest(t))
      BY <2>4, SameRecords
    <3> QED
      BY <2>3, <3>1, <3>2 DEF OneMore
  <2>6. /\ record'[cur[t]].id = next_id /\ record'[cur[t]].status = req[t].status
        /\ record'[cur[t]].imsi = record[cur[t]].imsi
        /\ record'[cur[t]].msisdn = record[cur[t]].msisdn
        /\ record'[cur[t]].text = record[cur[t]].text
    BY <1>0, <2>1, <2>2 DEF Record
  <2>7. issued = next_id' - 2 /\ next_id' - 1 = next_id
    BY <1>0, <2>1, <2>3
  <2>8. Progress(t)'
    BY <2>1, <2>5, <2>6, <2>7 DEF Progress
  <2>9. Copied(t)'
    BY <1>0, <2>1, <2>6 DEF Copied
  <2> QED
    BY <1>0, <1>1, <1>2, <1>4, <2>1, <2>8, <2>9, WriterHistory
<1>9. CASE AddPutId(t) \/ AddPutImsi(t) \/ AddPutMsisdn(t)
  <2>1. /\ pc[t] \in {"put_id", "put_imsi", "put_msisdn"}
        /\ \/ pc'[t] = "remove_id" /\ res'[t] # "OK"
           \/ pc'[t] \in {"put_imsi", "put_msisdn", "unlock_w"} /\ res'[t] = "OK"
        /\ UNCHANGED <<writer, used, record, next_id, req, cur, fld, snaps, view, issued>>
    <3>1. \A twins : PutResults(twins) \subseteq {"OK", "DUPLICATE", "ALLOC_FAILED"}
      BY DEF PutResults
    <3> QED
      BY <1>0, <1>9, <3>1 DEF AddPutId, AddPutImsi, AddPutMsisdn
  <2>2. OneMore(t)' /\ issued = next_id - 2 /\ record[cur[t]].id = next_id - 1
    BY <1>0, <2>1 DEF Progress, OneMore, Rest
  <2>3. cur[t] \in used
    BY <1>0, <2>1 DEF Phase
  <2>4. Progress(t)'
    BY <1>0, <1>3, <2>1, <2>2, <2>3 DEF Progress, Outcome, Copied
  <2>5. Copied(t)'
    BY <1>0, <2>1 DEF Copied
  <2> QED
    BY <1>0, <1>1, <1>2, <2>1, <2>4, <2>5, WriterHistory
<1> QED
  BY <1>5, <1>6, <1>7, <1>8, <1>9

(* subdb_delete and the rollback of subdb_add.                               *)
LEMMA HistoryRemove ==
  ASSUME IndexInv, HistoryInv, NEW t \in Threads,
         \/ DeleteFind(t) \/ RemoveId(t) \/ RemoveImsi(t) \/ RemoveMsisdn(t)
         \/ FreeSubscriberLocked(t)
  PROVE  HistoryInv'
<1> USE DEF WritePcs, AddPcs, UpdatePcs, RemovePcs, RecordPcs
<1>0. /\ pc \in [Threads -> Pcs] /\ res \in [Threads -> Results]
      /\ cur \in [Threads -> Blocks \cup {None}]
      /\ record \in [Blocks -> Record] /\ used \subseteq Blocks
      /\ TypeOK /\ Phase(t) /\ KeysInv
      /\ Progress(t) /\ Copied(t) /\ Fresh(t) /\ IsFiniteSet(used)
  BY DEF IndexInv, TypeOK, StateOK, PhaseInv, HistoryInv
<1>1. Mine(t)
  BY <1>0, StepsAreMine DEF WriterStep
<1>2. pc[t] \in RemovePcs \cup {"delete"}
  BY DEF DeleteFind, RemoveId, RemoveImsi, RemoveMsisdn, FreeSubscriberLocked
<1>3. CASE DeleteFind(t)
  <2>1. /\ pc[t] = "delete" /\ res[t] = "OK" /\ req[t].op = "delete"
        /\ UNCHANGED <<writer, used, record, next_id, req, fld, snaps, view, issued>>
    BY <1>0, <1>3, ArgsOf DEF DeleteFind, Fresh, DeleteArgs
  <2>2. Unchanged' /\ issued = next_id - 1
    BY <1>0, <2>1 DEF Progress, Unchanged
  <2>3. \/ pc'[t] = "unlock_w" /\ res'[t] # "OK"
        \/ pc'[t] = "remove_id" /\ UNCHANGED res /\ record[cur'[t]].id = req[t].id
    BY <1>0, <1>3 DEF DeleteFind, WithId
  <2>4. Progress(t)' /\ Copied(t)'
    BY <2>1, <2>2, <2>3 DEF Progress, Outcome, Copied
  <2> QED
    BY <1>0, <1>1, <1>2, <2>1, <2>3, <2>4, WriterHistory
<1>4. CASE RemoveId(t) \/ RemoveImsi(t) \/ RemoveMsisdn(t)
  <2>1. /\ pc[t] \in RemovePcs /\ pc'[t] \in RemovePcs
        /\ UNCHANGED <<writer, used, record, next_id, locals, view, issued>>
    BY <1>0, <1>4 DEF RemoveId, RemoveImsi, RemoveMsisdn
  <2>2. Progress(t)' /\ Copied(t)'
    BY <1>0, <2>1 DEF Progress, Copied, OneMore, Unchanged, Rest
  <2> QED
    BY <1>0, <1>1, <1>2, <2>1, <2>2, WriterHistory
<1>5. CASE FreeSubscriberLocked(t)
  <2>1. /\ pc[t] = "free" /\ pc'[t] = "unlock_w" /\ used' = Rest(t)
        /\ record' = [record EXCEPT ![cur[t]] = Blank]
        /\ UNCHANGED <<writer, next_id, locals, view, issued>>
    BY <1>0, <1>5 DEF FreeSubscriberLocked, Rest
  <2>2. cur[t] \in used
    BY <1>0, <2>1 DEF Phase
  <2>3. \A b \in Rest(t) : record'[b] = record[b]
    BY <1>0, <2>1, <2>2 DEF Rest
  <2>4. RecordsOf(record', used') = RecordsOf(record, Rest(t))
    <3>1. RecordsOf(record', Rest(t)) = RecordsOf(record, Rest(t))
      BY <2>3, SameRecords
    <3> QED
      BY <2>1, <3>1
  <2>5. ASSUME req[t].op = "add" PROVE Outcome(t)'
    <3>1. res[t] # "OK" /\ view = RecordsOf(record, Rest(t)) /\ issued \in {next_id - 1, next_id - 2}
      BY <1>0, <2>1, <2>5 DEF Progress, OneMore
    <3>2. Unchanged'
      BY <2>1, <2>4, <3>1 DEF Unchanged
    <3> QED
      BY <2>1, <2>5, <3>1, <3>2 DEF Outcome
  <2>6. ASSUME req[t].op = "delete" PROVE Outcome(t)'
    <3> DEFINE s == record[cur[t]]
    <3>1. /\ res[t] = "OK" /\ view = RecordsOf(record, used) /\ issued = next_id - 1
          /\ s.id = req[t].id
      BY <1>0, <2>1, <2>6 DEF Progress, Unchanged
    <3>2. s \in view /\ view = RecordsOf(record, Rest(t)) \cup {s}
      BY <2>2, <3>1 DEF RecordsOf, Rest
    <3>3. \A b \in used' : record'[b].id # s.id
      BY <1>0, <2>1, <2>2, <2>3 DEF KeysInv, Rest
    <3> QED
      BY <2>1, <2>4, <2>6, <3>1, <3>2, <3>3 DEF Outcome
  <2>7. req[t].op \in {"add", "delete"}
    BY <1>0, <2>1 DEF Progress
  <2>8. Progress(t)' /\ Copied(t)'
    BY <2>1, <2>5, <2>6, <2>7 DEF Progress, Copied
  <2>9. IsFiniteSet(used)'
    BY <1>0, <2>1, FS_Subset DEF Rest
  <2> QED
    BY <1>1, <1>2, <2>1, <2>8, <2>9, WriterHistory
<1> QED
  BY <1>3, <1>4, <1>5

(* subdb_update.                                                             *)
LEMMA HistoryUpdate ==
  ASSUME IndexInv, HistoryInv, NEW t \in Threads,
         UpdateFind(t) \/ UpdateIntern(t) \/ UpdateSkip(t) \/ UpdateSwap(t) \/ UpdateStatus(t)
  PROVE  HistoryInv'
<1> USE DEF WritePcs, AddPcs, UpdatePcs, RemovePcs, RecordPcs
<1>0. /\ pc \in [Threads -> Pcs] /\ res \in [Threads -> Results]
      /\ cur \in [Threads -> Blocks \cup {None}]
      /\ record \in [Blocks -> Record] /\ used \subseteq Blocks
      /\ TypeOK /\ Phase(t)
      /\ Progress(t) /\ Copied(t) /\ Fresh(t) /\ IsFiniteSet(used)
  BY DEF IndexInv, TypeOK, StateOK, PhaseInv, HistoryInv
<1>1. Mine(t)
  BY <1>0, StepsAreMine DEF WriterStep
<1>2. pc[t] \in UpdatePcs
  BY DEF UpdateFind, UpdateIntern, UpdateSkip, UpdateSwap, UpdateStatus
<1>3. res[t] = "OK" /\ req[t].op = "update"
  BY <1>0, <1>2, ArgsOf DEF Fresh, UpdateArgs
<1>4. CASE UpdateFind(t)
  <2>1. /\ pc[t] = "update"
        /\ UNCHANGED <<writer, used, record, next_id, req, fld, snaps, view, issued>>
    BY <1>4 DEF UpdateFind
  <2>2. Unchanged' /\ Unchanged /\ issued = next_id - 1
    BY <1>0, <2>1 DEF Progress, Unchanged
  <2>3. CASE pc'[t] = "unlock_w" /\ res'[t] # "OK"
    <3>1. Progress(t)' /\ Copied(t)'
      BY <1>3, <2>1, <2>2, <2>3 DEF Progress, Outcome, Copied
    <3> QED
      BY <1>0, <1>1, <1>2, <2>1, <2>3, <3>1, WriterHistory
  <2>4. CASE pc'[t] = "update_field" /\ UNCHANGED res /\ cur'[t] \in by_id
    <3>1. cur'[t] \in used
      BY <1>0, <2>1, <2>4 DEF Phase, Tables
    <3>2. view = RecordsOf(record, used \ {cur'[t]}) \cup {record[cur'[t]]}
      BY <2>2, <3>1 DEF Unchanged, RecordsOf
    <3>3. Replaced(t)'
      BY <2>1, <3>1, <3>2 DEF Replaced, Rest, SameKeys
    <3>4. Progress(t)' /\ Copied(t)'
      BY <2>1, <2>2, <2>4, <3>3 DEF Progress, Copied
    <3> QED
      BY <1>0, <1>1, <1>2, <1>3, <2>1, <2>4, <3>4, WriterHistory
  <2> QED
    BY <1>0, <1>4, <2>3, <2>4 DEF UpdateFind, WithId
<1>5. ASSUME UNCHANGED <<writer, used, next_id, req, cur, res, snaps, view, issued>>,
             pc[t] \in UpdatePcs \ {"update"},
             pc'[t] \in {"update_field", "update_swap", "update_status", "unlock_w"},
             \A b \in Rest(t) : record'[b] = record[b], SameKeysIn(cur[t])
      PROVE  HistoryInv'
  <2>1. Replaced(t) /\ issued = next_id - 1 /\ cur[t] \in used
    BY <1>0, <1>5 DEF Progress, Phase
  <2>2. RecordsOf(record', Rest(t)') = RecordsOf(record, Rest(t))
    BY <1>5, SameRecords DEF Rest
  <2>3. Replaced(t)'
    BY <1>5, <2>1, <2>2 DEF Replaced, SameKeys, SameKeysIn
  <2>4. Progress(t)' /\ Copied(t)'
    BY <1>3, <1>5, <2>1, <2>3 DEF Progress, Outcome, Copied
  <2> QED
    BY <1>0, <1>1, <1>2, <1>3, <1>5, <2>4, WriterHistory
<1>6. CASE UpdateIntern(t) \/ UpdateSkip(t)
  <2>1. pc'[t] \in {"update_field", "update_swap", "update_status"}
    BY <1>0, <1>6 DEF UpdateIntern, UpdateSkip, NextField
  <2> QED
    BY <1>5, <1>6, <2>1 DEF UpdateIntern, UpdateSkip, SameKeysIn
<1>7. CASE UpdateSwap(t)
  <2>1. pc'[t] \in {"update_field", "update_status"}
    BY <1>0, <1>7 DEF UpdateSwap, NextField
  <2>2. cur[t] \in Blocks
    BY <1>0, <1>7 DEF UpdateSwap, Phase
  <2>3. SameKeysIn(cur[t]) /\ \A b \in Rest(t) : record'[b] = record[b]
    BY <1>0, <1>7, <2>2 DEF UpdateSwap, WithText, SameKeysIn, Rest, Record
  <2> QED
    BY <1>5, <1>7, <2>1, <2>3 DEF UpdateSwap
<1>8. CASE UpdateStatus(t)
  <2>1. pc'[t] = "unlock_w"
    BY <1>0, <1>8 DEF UpdateStatus
  <2>2. cur[t] \in Blocks
    BY <1>0, <1>8 DEF UpdateStatus, Phase
  <2>3. SameKeysIn(cur[t]) /\ \A b \in Rest(t) : record'[b] = record[b]
    BY <1>0, <1>8, <2>2 DEF UpdateStatus, SameKeysIn, Rest, Record
  <2> QED
    BY <1>5, <1>8, <2>1, <2>3 DEF UpdateStatus
<1> QED
  BY <1>4, <1>6, <1>7, <1>8

(* Giving the lock back makes the change visible.                            *)
LEMMA HistoryUnlock ==
  ASSUME IndexInv, HistoryInv, NEW t \in Threads, UnlockWrite(t)
  PROVE  HistoryInv'
<1> USE DEF WritePcs, ReadPcs, AddPcs, UpdatePcs, RemovePcs, RecordPcs
<1>0. /\ pc \in [Threads -> Pcs] /\ fld \in [Threads -> Fields]
      /\ TypeOK /\ Phase(t) /\ Fresh(t)
  BY DEF IndexInv, TypeOK, StateOK, PhaseInv, HistoryInv
<1>1. Mine(t)
  BY <1>0, StepsAreMine DEF WriterStep
<1>2. /\ pc[t] = "unlock_w" /\ pc'[t] = "idle" /\ fld'[t] = 1
      /\ view' = Content /\ issued' = next_id - 1
      /\ UNCHANGED <<index, used, record, next_id, snaps>>
  BY <1>0 DEF UnlockWrite
<1>3. by_id = used
  BY <1>0, <1>2 DEF Phase, Tables
<1>4. (Unchanged /\ issued = next_id - 1)'
  BY <1>2, <1>3 DEF Unchanged, Content, RecordsOf
<1>5. \A u \in Threads : pc[u] \notin ReadPcs /\ (u # t => pc[u] \notin WritePcs)
  BY <1>2, WriterAlone DEF IndexInv, LockInv
<1>6. ASSUME NEW u \in Threads PROVE (Progress(u) /\ Copied(u) /\ Fresh(u) /\ Reading(u))'
  <2>1. CASE u = t
    BY <1>0, <1>2, <2>1 DEF Progress, Copied, Fresh, Reading
  <2>2. CASE u # t
    <3>1. /\ pc'[u] = pc[u] /\ fld'[u] = fld[u] /\ res'[u] = res[u] /\ snaps'[u] = snaps[u]
          /\ pc[u] \notin ReadPcs /\ pc[u] \notin WritePcs /\ Fresh(u)
      BY <1>1, <1>5, <2>2 DEF Mine, HistoryInv
    <3> QED
      BY <3>1 DEF Progress, Copied, Fresh, Reading
  <2> QED
    BY <2>1, <2>2
<1> QED
  BY <1>2, <1>4, <1>6 DEF HistoryInv

LEMMA HistoryNext == IndexInv /\ HistoryInv /\ [Next]_vars => HistoryInv'
<1> SUFFICES ASSUME IndexInv, HistoryInv, [Next]_vars PROVE HistoryInv'
  OBVIOUS
<1>1. CASE UNCHANGED vars
  <2> USE <1>1 DEF vars
  <2>1. Unchanged' = Unchanged
    BY DEF Unchanged
  <2>2. ASSUME NEW t \in Threads PROVE (Progress(t) /\ Copied(t) /\ Fresh(t) /\ Reading(t))'
    <3>1. Progress(t) /\ Copied(t) /\ Fresh(t) /\ Reading(t)
      BY DEF HistoryInv
    <3>2. OneMore(t)' = OneMore(t) /\ Replaced(t)' = Replaced(t)
      BY DEF OneMore, Replaced, Rest
    <3>3. Outcome(t)' = Outcome(t)
      BY <2>1, <3>2 DEF Outcome
    <3>4. Progress(t)'
      BY <2>1, <3>1, <3>2, <3>3 DEF Progress
    <3>5. Copied(t)' /\ Fresh(t)' /\ Reading(t)'
      BY <3>1 DEF Copied, Fresh, Reading, Matching
    <3> QED
      BY <3>4, <3>5
  <2> QED
    BY <2>1, <2>2 DEF HistoryInv
<1>2. CASE Next
  BY <1>2, HistoryOutside, HistoryAdd, HistoryRemove, HistoryUpdate, HistoryUnlock
     DEF Next, WriterStep
<1> QED
  BY <1>1, <1>2

LEMMA HistoryHolds == Spec => [](IndexInv /\ HistoryInv)
<1>1. Init => IndexInv /\ HistoryInv
  BY IndexInvInit, HistoryInit
<1>2. IndexInv /\ HistoryInv /\ [Next]_vars => (IndexInv /\ HistoryInv)'
  BY IndexInvNext, HistoryNext
<1> QED
  BY <1>1, <1>2, PTL DEF Spec

-----------------------------------------------------------------------------
(* A list that succeeded returns the committed matching subscribers, all of  *)
(* them and whole: subdb_list_all and the three filtered searches.           *)
THEOREM ListsStayConsistent == Spec => []ListsAreConsistent
<1>1. ASSUME IndexInv, HistoryInv PROVE ListsAreConsistent
  <2> SUFFICES ASSUME NEW t \in readers, pc[t] = "unlock_r", req[t].op = "list", res[t] = "OK"
               PROVE  snaps[t] = {s \in view : Match(req[t], s)}
    BY DEF ListsAreConsistent
  <2>1. t \in Threads /\ writer = None
    BY <1>1 DEF IndexInv, TypeOK, StateOK, LockInv
  <2>2. snaps[t] = RecordsOf(record, Matching(t, by_id))
    BY <1>1, <2>1 DEF HistoryInv, Reading
  <2>3. view = RecordsOf(record, by_id)
    BY <1>1, <2>1 DEF HistoryInv, Unchanged, IndexInv, PhaseInv, Tables
  <2> QED
    BY <2>2, <2>3 DEF RecordsOf, Matching
<1> QED
  BY <1>1, HistoryHolds, PTL

(* Records with different ids are as many as the blocks they are in.         *)
LEMMA RecordsCount ==
  ASSUME KeysInv, NEW S, S \subseteq used, IsFiniteSet(used)
  PROVE  /\ IsFiniteSet(S) /\ Cardinality(S) \in Nat
         /\ IsFiniteSet(RecordsOf(record, S))
         /\ Cardinality(RecordsOf(record, S)) = Cardinality(S)
<1> DEFINE f == [b \in S |-> record[b]]
<1>1. IsFiniteSet(S) /\ Cardinality(S) \in Nat
  BY FS_Subset, FS_CardinalityType
<1>2. f \in Surjection(S, RecordsOf(record, S))
  BY DEF Surjection, RecordsOf
<1>3. f \in Injection(S, RecordsOf(record, S))
  <2>1. \A b, c \in S : record[b] = record[c] => b = c
    BY DEF KeysInv
  <2> QED
    BY <1>2, <2>1 DEF Injection, IsInjective, Surjection
<1> HIDE DEF f
<1> QED
  BY <1>1, <1>2, <1>3, FS_Surjection

(* subdb_count, which takes no lock, is off by at most the record that is    *)
(* being added or deleted.                                                   *)
THEOREM CountStaysClose == Spec => []CountOffByAtMostOne
<1>1. ASSUME IndexInv, HistoryInv PROVE CountOffByAtMostOne
  <2> USE DEF WritePcs, AddPcs, UpdatePcs, RemovePcs, RecordPcs
  <2>1. KeysInv /\ IsFiniteSet(used) /\ next_id \in Nat
    BY <1>1 DEF IndexInv, HistoryInv, TypeOK, StateOK
  <2>2. CASE writer = None
    <3>1. by_id = used /\ view = RecordsOf(record, used)
      BY <1>1, <2>2 DEF IndexInv, PhaseInv, Tables, HistoryInv, Unchanged
    <3>2. Cardinality(view) = Cardinality(by_id) /\ Cardinality(by_id) \in Nat
      BY <2>1, <3>1, RecordsCount
    <3> QED
      BY <3>2 DEF CountOffByAtMostOne, Count
  <2>3. CASE writer # None
    <3> DEFINE t == writer
               n == Cardinality(used)
    <3>1. t \in Threads /\ pc[t] \in WritePcs /\ Phase(t) /\ Progress(t)
      BY <1>1, <2>3 DEF IndexInv, TypeOK, StateOK, LockInv, PhaseInv, HistoryInv
    <3>2. n \in Nat /\ Cardinality(RecordsOf(record, used)) = n
      BY <2>1, RecordsCount
    <3>3. ASSUME cur[t] \in used
          PROVE  /\ Cardinality(Rest(t)) = n - 1
                 /\ IsFiniteSet(RecordsOf(record, Rest(t)))
                 /\ Cardinality(RecordsOf(record, Rest(t))) = n - 1
      BY <2>1, <3>3, RecordsCount, FS_RemoveElement DEF Rest
    <3>4. CASE pc[t] \in {"add", "alloc", "delete", "update"}
      BY <3>1, <3>2, <3>4 DEF Phase, Tables, Progress, Unchanged, CountOffByAtMostOne, Count
    <3>5. CASE cur[t] \in used /\ OneMore(t) /\ by_id \in {used, Rest(t)}
      BY <2>3, <3>2, <3>3, <3>5 DEF OneMore, CountOffByAtMostOne, Count
    <3>6. CASE cur[t] \in used /\ Unchanged /\ by_id \in {used, Rest(t)}
      BY <2>3, <3>2, <3>3, <3>6 DEF Unchanged, CountOffByAtMostOne, Count
    <3>7. CASE cur[t] \in used /\ Replaced(t) /\ by_id = used
      <4>1. PICK old : /\ old.id = record[cur[t]].id
                       /\ view = RecordsOf(record, Rest(t)) \cup {old}
        BY <3>7 DEF Replaced, SameKeys
      <4>2. old \notin RecordsOf(record, Rest(t))
        BY <2>1, <3>7, <4>1 DEF RecordsOf, Rest, KeysInv
      <4>3. Cardinality(view) = Cardinality(RecordsOf(record, Rest(t))) + 1
        BY <3>3, <3>7, <4>1, <4>2, FS_AddElement
      <4>4. Cardinality(view) = n
        BY <3>2, <3>3, <3>7, <4>3
      <4> QED
        BY <2>3, <3>2, <3>7, <4>4 DEF CountOffByAtMostOne, Count
    <3>8. CASE pc[t] \in RecordPcs
      BY <3>1, <3>5, <3>6, <3>7, <3>8 DEF Phase, Tables, Progress
    <3>9. CASE pc[t] = "unlock_w"
      <4>1. by_id = used /\ Outcome(t)
        BY <3>1, <3>9 DEF Phase, Tables, Progress
      <4>2. CASE Unchanged
        BY <2>3, <3>2, <4>1, <4>2 DEF Unchanged, CountOffByAtMostOne, Count
      <4>3. CASE \E s : /\ \A b \in used : record[b].id # s.id
                        /\ view = RecordsOf(record, used) \cup {s}
        <5>1. PICK s : /\ \A b \in used : record[b].id # s.id
                       /\ view = RecordsOf(record, used) \cup {s}
          BY <4>3
        <5>2. s \notin RecordsOf(record, used)
          BY <5>1 DEF RecordsOf
        <5>3. Cardinality(view) = n + 1
          BY <2>1, <3>2, <5>1, <5>2, RecordsCount, FS_AddElement
        <5> QED
          BY <2>3, <3>2, <4>1, <5>3 DEF CountOffByAtMostOne, Count
      <4> QED
        BY <3>5, <3>7, <4>1, <4>2, <4>3 DEF Outcome
    <3> QED
      BY <3>1, <3>4, <3>8, <3>9
  <2> QED
    BY <2>2, <2>3
<1> QED
  BY <1>1, HistoryHolds, PTL

-----------------------------------------------------------------------------
(* Only giving back the write lock changes what readers may see.             *)
LEMMA OnlyUnlockShows ==
  ASSUME IndexInv, [Next]_vars
  PROVE  \/ \E t \in Threads : UnlockWrite(t)
         \/ UNCHANGED <<view, issued>> /\ (writer' = None => writer = None)
<1>1. CASE UNCHANGED vars
  BY <1>1 DEF vars
<1>2. ASSUME NEW t \in Threads, CallAny(t) \/ LockRead(t) \/ ReaderStep(t) \/ FreeResult(t)
                                \/ SearchDone(t)
      PROVE  UNCHANGED <<view, issued, writer>>
  BY <1>2 DEF CallAny, Reject, CallAdd, CallDelete, CallUpdate, CallSearch, CallList, Call,
     LockRead, ReaderStep, SearchOne, ListStart, ListVisit, ListAllocFails, ListEnd, UnlockRead,
     FreeResult, SearchDone
<1>3. ASSUME NEW t \in Threads, WriterStep(t), ~UnlockWrite(t)
      PROVE  UNCHANGED <<view, issued, writer>>
  BY <1>3 DEF WriterStep, AddCheck, AddAlloc, AddAllocFails, AddIntern, AddAssignId, AddPutId,
     AddPutImsi, AddPutMsisdn, DeleteFind, RemoveId, RemoveImsi, RemoveMsisdn,
     FreeSubscriberLocked, UpdateFind, UpdateIntern, UpdateSkip, UpdateSwap, UpdateStatus
<1>4. ASSUME NEW t \in Threads, LockWrite(t)
      PROVE  UNCHANGED <<view, issued>> /\ writer' # None
  BY <1>4, ConstantsAssumption DEF LockWrite
<1> QED
  BY <1>1, <1>2, <1>3, <1>4 DEF Next

(* What a writer is about to return is true of what it made visible.         *)
LEMMA UnlockShows ==
  ASSUME IndexInv, HistoryInv, NEW t \in Threads, UnlockWrite(t)
  PROVE  /\ Outcome(t) /\ KeysInv /\ writer = t
         /\ view' = RecordsOf(record, used) /\ issued' = next_id - 1
         /\ next_id \in Nat /\ record \in [Blocks -> Record] /\ used \subseteq Blocks
<1>1. pc[t] = "unlock_w" /\ view' = Content /\ issued' = next_id - 1
  BY DEF UnlockWrite
<1>2. Phase(t) /\ Progress(t)
  BY DEF IndexInv, PhaseInv, HistoryInv
<1>3. by_id = used
  BY <1>1, <1>2 DEF Phase, Tables
<1>4. writer = t
  BY <1>1, WriterAlone DEF WritePcs
<1> QED
  BY <1>1, <1>2, <1>3, <1>4 DEF Progress, Content, RecordsOf, IndexInv, TypeOK, StateOK

(* The database is a map: what readers can see changes by one whole          *)
(* subscriber at a time, keys stay unique and no id is given out twice.      *)
THEOREM DatabaseIsAMap == Spec => ImplementsMap
<1>1. Init => Abstract!AbsInit
  BY DEF Init, Abstract!AbsInit
<1>2. ASSUME IndexInv, HistoryInv, [Next]_vars
      PROVE  [Abstract!AbsNext]_(Abstract!absVars)
  <2> USE DEF Abstract!absVars
  <2>1. CASE UNCHANGED <<view, issued>>
    BY <2>1
  <2>2. ASSUME NEW t \in Threads, UnlockWrite(t)
        PROVE  [Abstract!AbsNext]_(Abstract!absVars)
    <3>1. /\ Outcome(t) /\ KeysInv /\ view' = RecordsOf(record, used) /\ issued' = next_id - 1
          /\ next_id \in Nat
      BY <1>2, <2>2, UnlockShows
    <3>2. CASE res[t] # "OK"
      <4>1. view' = view /\ issued \in {next_id - 1, next_id - 2}
        BY <3>1, <3>2 DEF Outcome, Unchanged
      <4> QED
        BY <3>1, <4>1 DEF Abstract!AbsNext, Abstract!AbsBurn
    <3>3. CASE res[t] = "OK" /\ req[t].op = "add"
      <4> DEFINE s == record[cur[t]]
      <4>1. /\ cur[t] \in used /\ view = RecordsOf(record, Rest(t))
            /\ issued = next_id - 2 /\ s.id = next_id - 1
        BY <3>1, <3>3 DEF Outcome, OneMore
      <4>2. view' = view \cup {s} /\ s \in view' /\ \A r \in view : ~Abstract!Clash(s, r)
        BY <3>1, <4>1 DEF RecordsOf, Rest, KeysInv, Abstract!Clash
      <4>3. s.id > issued /\ issued' = s.id
        BY <3>1, <4>1
      <4> QED
        BY <4>2, <4>3 DEF Abstract!AbsNext, Abstract!AbsAdd
    <3>4. CASE res[t] = "OK" /\ req[t].op = "delete"
      <4>1. PICK s \in view : /\ \A b \in used : record[b].id # s.id
                              /\ view = RecordsOf(record, used) \cup {s}
        BY <3>1, <3>4 DEF Outcome
      <4>2. view' = view \ {s} /\ issued' = issued
        BY <3>1, <3>4, <4>1 DEF RecordsOf, Outcome
      <4> QED
        BY <4>2 DEF Abstract!AbsNext, Abstract!AbsDelete
    <3>5. CASE res[t] = "OK" /\ req[t].op = "update"
      <4> DEFINE s == record[cur[t]]
      <4>1. cur[t] \in used /\ Replaced(t) /\ issued = next_id - 1
        BY <3>1, <3>5 DEF Outcome
      <4>2. PICK old \in view : SameKeys(old, s) /\ view = RecordsOf(record, Rest(t)) \cup {old}
        BY <4>1 DEF Replaced
      <4>3. view' = RecordsOf(record, Rest(t)) \cup {s}
        BY <3>1, <4>1 DEF RecordsOf, Rest
      <4>4. old \notin RecordsOf(record, Rest(t))
        BY <3>1, <4>1, <4>2 DEF RecordsOf, Rest, KeysInv, SameKeys
      <4>5. view' = (view \ {old}) \cup {s} /\ s \in view' /\ issued' = issued
        BY <3>1, <4>1, <4>2, <4>3, <4>4
      <4>6. Abstract!SameKeys(old, s)
        BY <4>2 DEF SameKeys, Abstract!SameKeys
      <4> QED
        BY <4>2, <4>5, <4>6 DEF Abstract!AbsNext, Abstract!AbsUpdate
    <3> QED
      BY <3>1, <3>2, <3>3, <3>4, <3>5 DEF Outcome
  <2> QED
    BY <1>2, <2>1, <2>2, OnlyUnlockShows
<1> QED
  BY <1>1, <1>2, HistoryHolds, PTL DEF Spec, ImplementsMap, Abstract!AbsSpec

-----------------------------------------------------------------------------
(* Reference counts.  A string's references are held by fields of records,   *)
(* by fields of callers' copies, and by the update about to swap it in.      *)
RecordHolders(x) == {h \in used \X Fields : record[h[1]].text[h[2]] = x}
CopyHolders(x) ==
  {h \in Threads \X (UNION {snaps[t] : t \in Threads}) \X Fields :
     h[2] \in snaps[h[1]] /\ h[2].text[h[3]] = x}
SwapHolders(x) == {t \in Threads : pc[t] = "update_swap" /\ req[t].text[fld[t]] = x}

RefsInv == \A x \in Texts : IsFiniteSet(CopyHolders(x)) /\ refs[x] = Holders(x)

LEMMA FieldsFinite == IsFiniteSet(Fields)
<1>1. 1 \in Int /\ 3 \in Int
  OBVIOUS
<1> QED
  BY <1>1, FS_Interval DEF Fields

(* What a record or a copy holds of x, counted in its own fields.            *)
InRecord(b, text, x) == {h \in {b} \X Fields : text[h[2]] = x}
InCopy(t, s, x) == {h \in {t} \X {s} \X Fields : s.text[h[3]] = x}

LEMMA CountInRecord ==
  ASSUME NEW b, NEW text, NEW x
  PROVE  /\ IsFiniteSet(InRecord(b, text, x))
         /\ Cardinality(InRecord(b, text, x)) = Holds(text, x)
<1> DEFINE F == {f \in Fields : text[f] = x}
           g == [f \in F |-> <<b, f>>]
<1>1. g \in Bijection(F, InRecord(b, text, x))
  <2>1. g \in [F -> InRecord(b, text, x)]
    BY DEF InRecord
  <2>2. \A e, f \in F : g[e] = g[f] => e = f
    OBVIOUS
  <2>3. ASSUME NEW h \in InRecord(b, text, x) PROVE \E f \in F : g[f] = h
    <3>1. h[2] \in F /\ h = <<b, h[2]>>
      BY DEF InRecord
    <3> QED
      BY <3>1
  <2> QED
    BY <2>1, <2>2, <2>3 DEF Bijection, Injection, Surjection, IsInjective
<1>2. ExistsBijection(F, InRecord(b, text, x))
  BY <1>1 DEF ExistsBijection
<1> HIDE DEF F
<1>3. IsFiniteSet(F)
  <2>1. F \in SUBSET Fields
    BY DEF F
  <2> QED
    BY <2>1, FieldsFinite, FS_Subset
<1>4. IsFiniteSet(InRecord(b, text, x)) /\ Cardinality(InRecord(b, text, x)) = Cardinality(F)
  BY <1>2, <1>3, FS_Bijection
<1> QED
  BY <1>4 DEF F, Holds

LEMMA CountInCopy ==
  ASSUME NEW t, NEW s, NEW x
  PROVE  /\ IsFiniteSet(InCopy(t, s, x))
         /\ Cardinality(InCopy(t, s, x)) = Holds(s.text, x)
<1> DEFINE F == {f \in Fields : s.text[f] = x}
           g == [f \in F |-> <<t, s, f>>]
<1>1. g \in Bijection(F, InCopy(t, s, x))
  <2>1. g \in [F -> InCopy(t, s, x)]
    BY DEF InCopy
  <2>2. \A e, f \in F : g[e] = g[f] => e = f
    OBVIOUS
  <2>3. ASSUME NEW h \in InCopy(t, s, x) PROVE \E f \in F : g[f] = h
    <3>1. h[3] \in F /\ h = <<t, s, h[3]>>
      BY DEF InCopy
    <3> QED
      BY <3>1
  <2> QED
    BY <2>1, <2>2, <2>3 DEF Bijection, Injection, Surjection, IsInjective
<1>2. ExistsBijection(F, InCopy(t, s, x))
  BY <1>1 DEF ExistsBijection
<1> HIDE DEF F
<1>3. IsFiniteSet(F)
  <2>1. F \in SUBSET Fields
    BY DEF F
  <2> QED
    BY <2>1, FieldsFinite, FS_Subset
<1>4. IsFiniteSet(InCopy(t, s, x)) /\ Cardinality(InCopy(t, s, x)) = Cardinality(F)
  BY <1>2, <1>3, FS_Bijection
<1> QED
  BY <1>4 DEF F, Holds

(* Adding to and taking from a finite set.                                   *)
LEMMA Joined ==
  ASSUME NEW S, IsFiniteSet(S), NEW D, IsFiniteSet(D), S \cap D = {}
  PROVE  IsFiniteSet(S \cup D) /\ Cardinality(S \cup D) = Cardinality(S) + Cardinality(D)
<1>1. Cardinality(S \cap D) = 0
  BY FS_EmptySet
<1>2. Cardinality(S) \in Nat /\ Cardinality(D) \in Nat
  BY FS_CardinalityType
<1>3. /\ IsFiniteSet(S \cup D)
      /\ Cardinality(S \cup D) = Cardinality(S) + Cardinality(D) - Cardinality(S \cap D)
  BY FS_Union
<1> QED
  BY <1>1, <1>2, <1>3

LEMMA Parted ==
  ASSUME NEW S, IsFiniteSet(S), NEW D, D \subseteq S
  PROVE  IsFiniteSet(S \ D) /\ Cardinality(S \ D) = Cardinality(S) - Cardinality(D)
<1>1. S \cap D = D
  OBVIOUS
<1> QED
  BY <1>1, FS_Difference

(* All three sets of holders are finite.                                     *)
LEMMA HoldersFinite ==
  ASSUME IndexInv, HistoryInv, RefsInv, NEW x \in Texts
  PROVE  /\ IsFiniteSet(RecordHolders(x)) /\ Cardinality(RecordHolders(x)) \in Nat
         /\ IsFiniteSet(CopyHolders(x)) /\ Cardinality(CopyHolders(x)) \in Nat
         /\ IsFiniteSet(SwapHolders(x)) /\ Cardinality(SwapHolders(x)) \in Nat
         /\ refs[x] = Cardinality(RecordHolders(x)) + Cardinality(CopyHolders(x))
                        + Cardinality(SwapHolders(x))
<1>1. IsFiniteSet(used \X Fields)
  BY FieldsFinite, FS_Product DEF HistoryInv
<1>2. IsFiniteSet(RecordHolders(x))
  <2>1. RecordHolders(x) \in SUBSET (used \X Fields)
    BY DEF RecordHolders
  <2> QED
    BY <1>1, <2>1, FS_Subset
<1>3. IsFiniteSet(SwapHolders(x))
  <2>1. SwapHolders(x) \in SUBSET {writer}
    BY DEF SwapHolders, IndexInv, LockInv, WritePcs, UpdatePcs
  <2> QED
    BY <2>1, FS_Singleton, FS_Subset
<1>4. IsFiniteSet(CopyHolders(x)) /\ refs[x] = Holders(x)
  BY DEF RefsInv
<1> QED
  BY <1>2, <1>3, <1>4, FS_CardinalityType DEF Holders, RecordHolders, CopyHolders, SwapHolders

LEMMA HoldersAre ==
  ASSUME NEW x
  PROVE  Holders(x)' = Cardinality(RecordHolders(x)') + Cardinality(CopyHolders(x)')
                         + Cardinality(SwapHolders(x)')
BY DEF Holders, RecordHolders, CopyHolders, SwapHolders

LEMMA RefsInit == Init => RefsInv
<1> SUFFICES ASSUME Init, NEW x \in Texts
             PROVE  IsFiniteSet(CopyHolders(x)) /\ refs[x] = Holders(x)
  BY DEF RefsInv
<1>1. RecordHolders(x) = {} /\ CopyHolders(x) = {} /\ SwapHolders(x) = {}
  BY DEF Init, RecordHolders, CopyHolders, SwapHolders
<1> QED
  BY <1>1, FS_EmptySet DEF Init, Holders, RecordHolders, CopyHolders, SwapHolders

(* Where no holder comes or goes and no count changes, the counts stay right. *)
LEMMA SameHolders ==
  ASSUME RefsInv, NEW x \in Texts, refs'[x] = refs[x],
         RecordHolders(x)' = RecordHolders(x), CopyHolders(x)' = CopyHolders(x),
         SwapHolders(x)' = SwapHolders(x)
  PROVE  (IsFiniteSet(CopyHolders(x)) /\ refs[x] = Holders(x))'
BY DEF RefsInv, Holders, RecordHolders, CopyHolders, SwapHolders

(* Only the swap itself holds a string outside records and copies.           *)
LEMMA SwapUntouched ==
  ASSUME NEW t \in Threads, Mine(t), pc[t] # "update_swap", pc'[t] # "update_swap", NEW x
  PROVE  SwapHolders(x)' = SwapHolders(x)
BY DEF SwapHolders, Mine

LEMMA RecordsUntouched ==
  ASSUME UNCHANGED used, \A b \in used : record'[b].text = record[b].text, NEW x
  PROVE  RecordHolders(x)' = RecordHolders(x)
BY DEF RecordHolders

LEMMA CopiesUntouched ==
  ASSUME UNCHANGED snaps, NEW x
  PROVE  CopyHolders(x)' = CopyHolders(x)
BY DEF CopyHolders

(* The steps that touch no string.                                           *)
LEMMA QuietSteps ==
  ASSUME IndexInv, HistoryInv, RefsInv, NEW t \in Threads, Mine(t),
         UNCHANGED <<refs, snaps, used>>, pc[t] # "update_swap", pc'[t] # "update_swap",
         \A b \in used : record'[b].text = record[b].text
  PROVE  RefsInv'
<1> SUFFICES ASSUME NEW x \in Texts
             PROVE  (IsFiniteSet(CopyHolders(x)) /\ refs[x] = Holders(x))'
  BY DEF RefsInv
<1> QED
  BY SwapUntouched, RecordsUntouched, CopiesUntouched, SameHolders

(* A copy made or freed by t takes or gives back what its fields hold.       *)
LEMMA RefsSnapshot ==
  ASSUME IndexInv, HistoryInv, RefsInv, NEW t \in Threads, Mine(t),
         UNCHANGED <<used, record>>, pc[t] # "update_swap", pc'[t] # "update_swap",
         NEW b \in used, record[b] \notin snaps[t], Snapshot(t, b)
  PROVE  RefsInv'
<1> SUFFICES ASSUME NEW x \in Texts
             PROVE  (IsFiniteSet(CopyHolders(x)) /\ refs[x] = Holders(x))'
  BY DEF RefsInv
<1> DEFINE s == record[b]
<1>1. RecordHolders(x)' = RecordHolders(x) /\ SwapHolders(x)' = SwapHolders(x)
  BY SwapUntouched, RecordsUntouched
<1>2. refs'[x] = refs[x] + Holds(s.text, x)
  BY DEF Snapshot, Retained
<1>3. snaps \in [Threads -> SUBSET Record]
  BY DEF IndexInv, TypeOK, StateOK
<1>4. snaps' = [snaps EXCEPT ![t] = snaps[t] \cup {s}]
  BY DEF Snapshot
<1>5. CopyHolders(x)' = CopyHolders(x) \cup InCopy(t, s, x)
  BY <1>3, <1>4 DEF CopyHolders, InCopy
<1>6. CopyHolders(x) \cap InCopy(t, s, x) = {}
  BY DEF CopyHolders, InCopy
<1>7. /\ IsFiniteSet(CopyHolders(x)')
      /\ Cardinality(CopyHolders(x)') = Cardinality(CopyHolders(x)) + Holds(s.text, x)
  <2>1. /\ IsFiniteSet(InCopy(t, s, x))
        /\ Cardinality(InCopy(t, s, x)) = Holds(s.text, x)
    BY CountInCopy
  <2>2. IsFiniteSet(CopyHolders(x))
    BY HoldersFinite
  <2>3. /\ IsFiniteSet(CopyHolders(x) \cup InCopy(t, s, x))
        /\ Cardinality(CopyHolders(x) \cup InCopy(t, s, x))
             = Cardinality(CopyHolders(x)) + Cardinality(InCopy(t, s, x))
    BY <1>6, <2>1, <2>2, Joined
  <2> QED
    BY <1>5, <2>1, <2>3
<1>8. Holds(s.text, x) \in Nat
  BY HoldsNat
<1> QED
  BY <1>1, <1>2, <1>7, <1>8, HoldersFinite, HoldersAre

LEMMA RefsFreeResult ==
  ASSUME IndexInv, HistoryInv, RefsInv, NEW t \in Threads, Mine(t), FreeResult(t)
  PROVE  RefsInv'
<1> SUFFICES ASSUME NEW x \in Texts
             PROVE  (IsFiniteSet(CopyHolders(x)) /\ refs[x] = Holders(x))'
  BY DEF RefsInv
<1>1. PICK s \in snaps[t] :
        refs' = Released(s.text) /\ snaps' = [snaps EXCEPT ![t] = snaps[t] \ {s}]
  BY DEF FreeResult
<1>2. RecordHolders(x)' = RecordHolders(x) /\ SwapHolders(x)' = SwapHolders(x)
  BY SwapUntouched, RecordsUntouched DEF FreeResult
<1>3. refs'[x] = refs[x] - Holds(s.text, x)
  BY <1>1 DEF Released
<1>4. snaps \in [Threads -> SUBSET Record]
  BY DEF IndexInv, TypeOK, StateOK
<1>5. CopyHolders(x)' = CopyHolders(x) \ InCopy(t, s, x)
  BY <1>1, <1>4 DEF CopyHolders, InCopy
<1>6. InCopy(t, s, x) \subseteq CopyHolders(x)
  BY <1>1 DEF CopyHolders, InCopy
<1>7. /\ IsFiniteSet(CopyHolders(x)')
      /\ Cardinality(CopyHolders(x)') = Cardinality(CopyHolders(x)) - Holds(s.text, x)
  <2>1. Cardinality(InCopy(t, s, x)) = Holds(s.text, x)
    BY CountInCopy
  <2> QED
    BY <1>5, <1>6, <2>1, HoldersFinite, Parted
<1>8. Holds(s.text, x) \in Nat
  BY HoldsNat
<1> QED
  BY <1>2, <1>3, <1>7, <1>8, HoldersFinite, HoldersAre

(* subdb_add interns a field into a record whose field was empty.            *)
LEMMA RefsAddIntern ==
  ASSUME IndexInv, HistoryInv, RefsInv, NEW t \in Threads, Mine(t), AddIntern(t)
  PROVE  RefsInv'
<1> DEFINE b == cur[t]
           f == fld[t]
           y == req[t].text[f]
<1>0. /\ TypeOK /\ Phase(t) /\ Copied(t) /\ pc \in [Threads -> Pcs]
      /\ record \in [Blocks -> Record] /\ used \subseteq Blocks
      /\ f \in Fields /\ refs \in [Texts -> Int]
  BY DEF IndexInv, TypeOK, StateOK, PhaseInv, HistoryInv
<1>1. /\ pc[t] = "intern" /\ pc'[t] # "update_swap" /\ UNCHANGED <<used, snaps>>
      /\ \/ UNCHANGED <<refs, record>>
         \/ /\ refs' = [refs EXCEPT ![y] = @ + 1]
            /\ record' = [record EXCEPT ![b] = WithText(@, f, y)]
  <2>1. pc'[t] \in {"intern", "assign_id", "free"}
    BY <1>0 DEF AddIntern
  <2> QED
    BY <2>1 DEF AddIntern
<1>2. CASE UNCHANGED <<refs, record>>
  BY <1>1, <1>2, QuietSteps
<1>3. CASE /\ refs' = [refs EXCEPT ![y] = @ + 1]
           /\ record' = [record EXCEPT ![b] = WithText(@, f, y)]
  <2> SUFFICES ASSUME NEW x \in Texts
               PROVE  (IsFiniteSet(CopyHolders(x)) /\ refs[x] = Holders(x))'
    BY DEF RefsInv
  <2>1. b \in used /\ b \in Blocks /\ record[b].text[f] = None
    <3>1. b \in used /\ b \in Blocks
      BY <1>0, <1>1 DEF Phase, RecordPcs, AddPcs, TypeOK, StateOK
    <3>2. ~(f < f)
      BY <1>0 DEF Fields
    <3> QED
      BY <1>0, <1>1, <3>1, <3>2 DEF Copied
  <2>2. /\ \A c \in used \ {b} : record'[c] = record[c]
        /\ record'[b].text = [record[b].text EXCEPT ![f] = y]
        /\ DOMAIN record[b].text = Fields
    BY <1>0, <1>3, <2>1 DEF WithText, Record, Texting
  <2>3. CopyHolders(x)' = CopyHolders(x) /\ SwapHolders(x)' = SwapHolders(x)
    BY <1>1, SwapUntouched, CopiesUntouched
  <2>4. CASE x = y
    <3>1. RecordHolders(x)' = RecordHolders(x) \cup {<<b, f>>} /\ <<b, f>> \notin RecordHolders(x)
      BY <1>0, <1>1, <2>1, <2>2, <2>4, ConstantsAssumption DEF RecordHolders
    <3>2. Cardinality(RecordHolders(x)') = Cardinality(RecordHolders(x)) + 1
      BY <3>1, HoldersFinite, FS_AddElement
    <3>3. refs'[x] = refs[x] + 1
      BY <1>0, <1>3, <2>4
    <3> QED
      BY <2>3, <3>2, <3>3, HoldersFinite, HoldersAre
  <2>5. CASE x # y
    <3>1. RecordHolders(x)' = RecordHolders(x)
      BY <1>0, <1>1, <2>1, <2>2, <2>5, ConstantsAssumption DEF RecordHolders
    <3>2. refs'[x] = refs[x]
      BY <1>0, <1>3, <2>5
    <3> QED
      BY <2>3, <3>1, <3>2, SameHolders
  <2> QED
    BY <2>4, <2>5
<1> QED
  BY <1>1, <1>2, <1>3

(* free_subscriber_locked drops what the record's fields hold.               *)
LEMMA RefsFreeSubscriber ==
  ASSUME IndexInv, HistoryInv, RefsInv, NEW t \in Threads, Mine(t), FreeSubscriberLocked(t)
  PROVE  RefsInv'
<1> SUFFICES ASSUME NEW x \in Texts
             PROVE  (IsFiniteSet(CopyHolders(x)) /\ refs[x] = Holders(x))'
  BY DEF RefsInv
<1> DEFINE b == cur[t]
           text == record[b].text
<1>0. Phase(t) /\ pc \in [Threads -> Pcs] /\ record \in [Blocks -> Record]
  BY DEF IndexInv, TypeOK, StateOK, PhaseInv
<1>1. /\ pc[t] = "free" /\ pc'[t] = "unlock_w" /\ used' = used \ {b}
      /\ record' = [record EXCEPT ![b] = Blank] /\ refs' = Released(text) /\ UNCHANGED snaps
  BY <1>0 DEF FreeSubscriberLocked
<1>2. b \in used
  BY <1>0, <1>1 DEF Phase, RecordPcs, RemovePcs
<1>3. CopyHolders(x)' = CopyHolders(x) /\ SwapHolders(x)' = SwapHolders(x)
  BY <1>1, SwapUntouched, CopiesUntouched
<1>4. refs'[x] = refs[x] - Holds(text, x)
  BY <1>1 DEF Released
<1>5. RecordHolders(x)' = RecordHolders(x) \ InRecord(b, text, x)
  BY <1>0, <1>1 DEF RecordHolders, InRecord
<1>6. InRecord(b, text, x) \subseteq RecordHolders(x)
  BY <1>2 DEF RecordHolders, InRecord
<1>7. Cardinality(RecordHolders(x)') = Cardinality(RecordHolders(x)) - Holds(text, x)
  <2>1. Cardinality(InRecord(b, text, x)) = Holds(text, x)
    BY CountInRecord
  <2> QED
    BY <1>5, <1>6, <2>1, HoldersFinite, Parted
<1>8. Holds(text, x) \in Nat
  BY HoldsNat
<1> QED
  BY <1>3, <1>4, <1>7, <1>8, HoldersFinite, HoldersAre

(* subdb_update holds a new string from interning it to swapping it in.      *)
LEMMA RefsUpdateIntern ==
  ASSUME IndexInv, HistoryInv, RefsInv, NEW t \in Threads, Mine(t), UpdateIntern(t)
  PROVE  RefsInv'
<1> DEFINE y == req[t].text[fld[t]]
<1>0. pc \in [Threads -> Pcs] /\ refs \in [Texts -> Int]
  BY DEF IndexInv, TypeOK, StateOK
<1>1. pc[t] = "update_field" /\ UNCHANGED <<used, snaps, record, req>>
  BY DEF UpdateIntern
<1>2. CASE UNCHANGED refs /\ pc'[t] # "update_swap"
  BY <1>1, <1>2, QuietSteps
<1>3. CASE refs' = [refs EXCEPT ![y] = @ + 1] /\ pc'[t] = "update_swap" /\ UNCHANGED fld
  <2> SUFFICES ASSUME NEW x \in Texts
               PROVE  (IsFiniteSet(CopyHolders(x)) /\ refs[x] = Holders(x))'
    BY DEF RefsInv
  <2>1. RecordHolders(x)' = RecordHolders(x) /\ CopyHolders(x)' = CopyHolders(x)
    BY <1>1, RecordsUntouched, CopiesUntouched
  <2>2. CASE x = y
    <3>1. SwapHolders(x)' = SwapHolders(x) \cup {t} /\ t \notin SwapHolders(x)
      BY <1>1, <1>3, <2>2 DEF SwapHolders, Mine
    <3>2. Cardinality(SwapHolders(x)') = Cardinality(SwapHolders(x)) + 1
      BY <3>1, HoldersFinite, FS_AddElement
    <3>3. refs'[x] = refs[x] + 1
      BY <1>0, <1>3, <2>2
    <3> QED
      BY <2>1, <3>2, <3>3, HoldersFinite, HoldersAre
  <2>3. CASE x # y
    <3>1. SwapHolders(x)' = SwapHolders(x)
      BY <1>1, <1>3, <2>3 DEF SwapHolders, Mine
    <3>2. refs'[x] = refs[x]
      BY <1>0, <1>3, <2>3
    <3> QED
      BY <2>1, <3>1, <3>2, SameHolders
  <2> QED
    BY <2>2, <2>3
<1>4. \/ UNCHANGED refs /\ pc'[t] # "update_swap"
      \/ refs' = [refs EXCEPT ![y] = @ + 1] /\ pc'[t] = "update_swap" /\ UNCHANGED fld
  BY <1>0 DEF UpdateIntern, NextField
<1> QED
  BY <1>2, <1>3, <1>4

(* The swap hands the reference over to the record and drops the old one.    *)
LEMMA RefsUpdateSwap ==
  ASSUME IndexInv, HistoryInv, RefsInv, NEW t \in Threads, Mine(t), UpdateSwap(t)
  PROVE  RefsInv'
<1> SUFFICES ASSUME NEW x \in Texts
             PROVE  (IsFiniteSet(CopyHolders(x)) /\ refs[x] = Holders(x))'
  BY DEF RefsInv
<1> DEFINE b == cur[t]
           f == fld[t]
           y == req[t].text[f]
           old == record[b].text[f]
<1>0. /\ Phase(t) /\ pc \in [Threads -> Pcs] /\ record \in [Blocks -> Record]
      /\ used \subseteq Blocks /\ f \in Fields /\ refs \in [Texts -> Int]
  BY DEF IndexInv, TypeOK, StateOK, PhaseInv
<1>1. /\ pc[t] = "update_swap" /\ pc'[t] # "update_swap" /\ UNCHANGED <<used, snaps, req>>
      /\ record' = [record EXCEPT ![b] = WithText(@, f, y)]
      /\ refs' = [refs EXCEPT ![old] = @ - 1]
  BY <1>0 DEF UpdateSwap, NextField
<1>2. b \in used
  BY <1>0, <1>1 DEF Phase, RecordPcs, UpdatePcs
<1>3. /\ \A c \in used \ {b} : record'[c] = record[c]
      /\ record'[b].text = [record[b].text EXCEPT ![f] = y]
      /\ DOMAIN record[b].text = Fields
  BY <1>0, <1>1, <1>2 DEF WithText, Record, Texting
<1>4. CopyHolders(x)' = CopyHolders(x)
  BY <1>1, CopiesUntouched
<1>5. refs'[x] = IF x = old THEN refs[x] - 1 ELSE refs[x]
  BY <1>0, <1>1
<1>6. Cardinality(SwapHolders(x)')
        = IF x = y THEN Cardinality(SwapHolders(x)) - 1 ELSE Cardinality(SwapHolders(x))
  <2>1. SwapHolders(x)' = SwapHolders(x) \ {t} /\ (t \in SwapHolders(x) <=> x = y)
    BY <1>1 DEF SwapHolders, Mine
  <2> QED
    BY <2>1, HoldersFinite, FS_RemoveElement
<1>7. \A h \in used \X Fields :
        record'[h[1]].text[h[2]] = IF h = <<b, f>> THEN y ELSE record[h[1]].text[h[2]]
  <2> SUFFICES ASSUME NEW c \in used, NEW g \in Fields
               PROVE  record'[c].text[g] = IF c = b /\ g = f THEN y ELSE record[c].text[g]
    OBVIOUS
  <2>1. CASE c = b
    BY <1>3, <2>1
  <2>2. CASE c # b
    BY <1>3, <2>2
  <2> QED
    BY <2>1, <2>2
<1>8. /\ <<b, f>> \in used \X Fields
      /\ <<b, f>> \in RecordHolders(x) <=> x = old
  BY <1>0, <1>2 DEF RecordHolders
<1>9. RecordHolders(x)'
        = IF x = y THEN RecordHolders(x) \cup {<<b, f>>} ELSE RecordHolders(x) \ {<<b, f>>}
  <2> DEFINE h0 == <<b, f>>
  <2>1. RecordHolders(x)' = {h \in used \X Fields : record'[h[1]].text[h[2]] = x}
    BY <1>1 DEF RecordHolders
  <2>2. RecordHolders(x) = {h \in used \X Fields : record[h[1]].text[h[2]] = x}
    BY DEF RecordHolders
  <2>3. h0 \in used \X Fields
    BY <1>8
  <2>4. \A h \in used \X Fields :
          record'[h[1]].text[h[2]] = IF h = h0 THEN y ELSE record[h[1]].text[h[2]]
    BY <1>7
  <2> HIDE DEF h0, y
  <2>5. RecordHolders(x)' = IF x = y THEN RecordHolders(x) \cup {h0} ELSE RecordHolders(x) \ {h0}
    BY <2>1, <2>2, <2>3, <2>4
  <2> QED
    BY <2>5 DEF h0
<1>10. IsFiniteSet(RecordHolders(x)) /\ Cardinality(RecordHolders(x)) \in Nat
  BY HoldersFinite, FS_CardinalityType
<1>11. Cardinality(RecordHolders(x)')
         = Cardinality(RecordHolders(x)) + (IF x = y THEN 1 ELSE 0) - (IF x = old THEN 1 ELSE 0)
  <2> DEFINE h0 == <<b, f>>
             R == RecordHolders(x)
  <2>1. RecordHolders(x)' = IF x = y THEN R \cup {h0} ELSE R \ {h0}
    BY <1>9
  <2>2. IsFiniteSet(R) /\ Cardinality(R) \in Nat /\ (h0 \in R <=> x = old)
    BY <1>8, <1>10
  <2> HIDE DEF h0, R, y, old
  <2>3. Cardinality(R \cup {h0}) = Cardinality(R) + (IF x = old THEN 0 ELSE 1)
    <3>1. h0 \in R => R \cup {h0} = R
      OBVIOUS
    <3>2. h0 \notin R => Cardinality(R \cup {h0}) = Cardinality(R) + 1
      BY <2>2, FS_AddElement
    <3> QED
      BY <2>2, <3>1, <3>2
  <2>4. Cardinality(R \ {h0}) = Cardinality(R) - (IF x = old THEN 1 ELSE 0)
    <3>1. h0 \notin R => R \ {h0} = R
      OBVIOUS
    <3>2. h0 \in R => Cardinality(R \ {h0}) = Cardinality(R) - 1
      BY <2>2, FS_RemoveElement
    <3> QED
      BY <2>2, <3>1, <3>2
  <2>5. Cardinality(RecordHolders(x)')
          = Cardinality(R) + (IF x = y THEN 1 ELSE 0) - (IF x = old THEN 1 ELSE 0)
    <3>1. CASE x = y
      BY <2>1, <2>2, <2>3, <3>1
    <3>2. CASE x # y
      BY <2>1, <2>2, <2>4, <3>2
    <3> QED
      BY <3>1, <3>2
  <2> QED
    BY <2>5 DEF R
<1> QED
  BY <1>4, <1>5, <1>6, <1>10, <1>11, HoldersFinite, HoldersAre

(* A fresh block holds no string yet.                                        *)
LEMMA RefsAddAlloc ==
  ASSUME IndexInv, HistoryInv, RefsInv, NEW t \in Threads, Mine(t), AddAlloc(t)
  PROVE  RefsInv'
<1> SUFFICES ASSUME NEW x \in Texts
             PROVE  (IsFiniteSet(CopyHolders(x)) /\ refs[x] = Holders(x))'
  BY DEF RefsInv
<1>0. /\ pc \in [Threads -> Pcs] /\ record \in [Blocks -> Record] /\ used \subseteq Blocks
  BY DEF IndexInv, TypeOK, StateOK
<1>1. pc[t] = "alloc" /\ pc'[t] = "intern" /\ UNCHANGED <<refs, snaps>>
  BY <1>0 DEF AddAlloc
<1>2. PICK b \in Blocks \ used :
        /\ used' = used \cup {b}
        /\ record' = [record EXCEPT ![b] =
             [Blank EXCEPT !.imsi = req[t].imsi, !.msisdn = req[t].msisdn]]
  BY DEF AddAlloc
<1>3. /\ \A c \in used : record'[c] = record[c]
      /\ \A f \in Fields : record'[b].text[f] = None
  BY <1>0, <1>2 DEF Blank, NoTexts
<1>4. RecordHolders(x)' = RecordHolders(x)
  BY <1>2, <1>3, ConstantsAssumption DEF RecordHolders
<1> QED
  BY <1>1, <1>4, SwapUntouched, CopiesUntouched, SameHolders

LEMMA RefsWriter ==
  ASSUME IndexInv, HistoryInv, RefsInv, NEW t \in Threads, LockWrite(t) \/ WriterStep(t)
  PROVE  RefsInv'
<1>0. /\ pc \in [Threads -> Pcs] /\ record \in [Blocks -> Record] /\ used \subseteq Blocks
      /\ Phase(t) /\ TypeOK /\ ArgsOK
  BY DEF IndexInv, TypeOK, StateOK, PhaseInv
<1>1. Mine(t)
  BY <1>0, StepsAreMine
<1>2. CASE LockWrite(t)
  <2>1. req[t].op \in {"add", "delete", "update"}
    BY <1>0, <1>2 DEF LockWrite, ArgsOK, AddArgs, DeleteArgs, UpdateArgs
  <2>2. pc[t] = "wait_w" /\ pc'[t] = req[t].op /\ UNCHANGED <<refs, snaps, used, record>>
    BY <1>0, <1>2 DEF LockWrite
  <2> QED
    BY <1>1, <2>1, <2>2, QuietSteps
<1>3. CASE \/ AddCheck(t) \/ AddAllocFails(t) \/ AddPutId(t) \/ AddPutImsi(t) \/ AddPutMsisdn(t)
           \/ DeleteFind(t) \/ RemoveId(t) \/ RemoveImsi(t) \/ RemoveMsisdn(t)
           \/ UpdateFind(t) \/ UnlockWrite(t)
  <2>1. pc[t] # "update_swap" /\ pc'[t] # "update_swap" /\ UNCHANGED <<refs, snaps, used, record>>
    BY <1>0, <1>3 DEF AddCheck, AddAllocFails, AddPutId, AddPutImsi, AddPutMsisdn,
       DeleteFind, RemoveId, RemoveImsi, RemoveMsisdn, UpdateFind, UnlockWrite
  <2> QED
    BY <1>1, <2>1, QuietSteps
<1>4. CASE AddAssignId(t) \/ UpdateStatus(t)
  <2>1. /\ pc[t] # "update_swap" /\ pc'[t] # "update_swap" /\ UNCHANGED <<refs, snaps, used>>
        /\ pc[t] \in RecordPcs
    BY <1>0, <1>4 DEF AddAssignId, UpdateStatus, RecordPcs, AddPcs, UpdatePcs
  <2>2. cur[t] \in Blocks
    BY <1>0, <2>1 DEF Phase
  <2>3. ASSUME NEW b \in used PROVE record'[b].text = record[b].text
    <3>1. record[b] \in Record
      BY <1>0
    <3>2. CASE AddAssignId(t)
      BY <1>0, <2>2, <3>1, <3>2 DEF AddAssignId, Record
    <3>3. CASE UpdateStatus(t)
      BY <1>0, <2>2, <3>1, <3>3 DEF UpdateStatus, Record
    <3> QED
      BY <1>4, <3>2, <3>3
  <2> QED
    BY <1>1, <2>1, <2>3, QuietSteps
<1>5. CASE UpdateSkip(t)
  <2>1. /\ pc[t] # "update_swap" /\ pc'[t] # "update_swap"
        /\ UNCHANGED <<refs, snaps, used, record>>
    BY <1>0, <1>5 DEF UpdateSkip, NextField
  <2> QED
    BY <1>1, <2>1, QuietSteps
<1> QED
  BY <1>1, <1>2, <1>3, <1>4, <1>5, RefsAddAlloc, RefsAddIntern, RefsFreeSubscriber,
     RefsUpdateIntern, RefsUpdateSwap DEF WriterStep

LEMMA RefsReader ==
  ASSUME IndexInv, HistoryInv, RefsInv, NEW t \in Threads,
         CallAny(t) \/ LockRead(t) \/ ReaderStep(t) \/ FreeResult(t) \/ SearchDone(t)
  PROVE  RefsInv'
<1>0. /\ pc \in [Threads -> Pcs] /\ TypeOK /\ ArgsOK /\ Fresh(t) /\ Reading(t) /\ KeysInv
      /\ snaps \in [Threads -> SUBSET Record]
  BY DEF IndexInv, TypeOK, StateOK, HistoryInv
<1>1. Mine(t)
  BY <1>0, StepsAreMine
<1>2. by_id \cup by_imsi \cup by_msisdn \subseteq used
  BY TablesInUse
<1>3. CASE CallAny(t)
  <2>1. CASE Reject(t)
    <3>1. pc[t] = "idle" /\ UNCHANGED <<pc, refs, snaps, used, record>>
      BY <2>1 DEF Reject
    <3> QED
      BY <1>1, <3>1, QuietSteps
  <2>2. ASSUME NEW r, NEW label \in {"wait_w", "wait_r"}, Call(t, r, label)
        PROVE  RefsInv'
    <3>1. pc[t] = "idle" /\ pc'[t] = label /\ UNCHANGED <<refs, snaps, used, record>>
      BY <1>0, <2>2 DEF Call
    <3> QED
      BY <1>1, <2>2, <3>1, QuietSteps
  <2> QED
    BY <1>3, <2>1, <2>2 DEF CallAny, CallAdd, CallDelete, CallUpdate, CallSearch, CallList
<1>4. CASE LockRead(t)
  <2>1. req[t].op \in {"by_id", "by_imsi", "by_msisdn", "list"}
    BY <1>0, <1>4 DEF LockRead, ArgsOK, ReadArgs
  <2>2. pc[t] = "wait_r" /\ pc'[t] = req[t].op /\ UNCHANGED <<refs, snaps, used, record>>
    BY <1>0, <1>4 DEF LockRead
  <2> QED
    BY <1>1, <2>1, <2>2, QuietSteps
<1>5. CASE SearchOne(t)
  <2>1. /\ pc[t] \in {"by_id", "by_imsi", "by_msisdn"} /\ pc'[t] = "unlock_r"
        /\ UNCHANGED <<used, record>>
    BY <1>0, <1>5 DEF SearchOne
  <2>2. CASE UNCHANGED <<snaps, refs>>
    BY <1>1, <2>1, <2>2, QuietSteps
  <2>3. CASE \E b \in used : Snapshot(t, b)
    <3>1. snaps[t] = {}
      BY <1>0, <2>1 DEF Fresh
    <3> QED
      BY <1>1, <2>1, <2>3, <3>1, RefsSnapshot
  <2>4. UNCHANGED <<snaps, refs>> \/ \E b \in used : Snapshot(t, b)
    <3>1. CASE pc[t] = "by_id"
      BY <1>2, <1>5, <3>1 DEF SearchOne, WithId
    <3>2. CASE pc[t] = "by_imsi"
      BY <1>2, <1>5, <3>2 DEF SearchOne, WithImsi
    <3>3. CASE pc[t] = "by_msisdn"
      BY <1>2, <1>5, <3>3 DEF SearchOne, WithMsisdn
    <3> QED
      BY <2>1, <3>1, <3>2, <3>3
  <2> QED
    BY <2>2, <2>3, <2>4
<1>6. CASE ListVisit(t)
  <2>1. PICK b \in todo[t] :
          IF Match(req[t], record[b]) THEN Snapshot(t, b) ELSE UNCHANGED <<snaps, refs>>
    BY <1>6 DEF ListVisit
  <2>2. pc[t] = "visit" /\ UNCHANGED <<pc, used, record>>
    BY <1>6 DEF ListVisit
  <2>3. b \in used /\ record[b] \notin snaps[t]
    BY <1>0, <1>2, <2>2 DEF Reading, RecordsOf, Matching, KeysInv
  <2> QED
    BY <1>1, <2>1, <2>2, <2>3, QuietSteps, RefsSnapshot
<1>7. CASE ListStart(t) \/ ListAllocFails(t) \/ ListEnd(t) \/ UnlockRead(t) \/ SearchDone(t)
  <2>1. pc[t] # "update_swap" /\ pc'[t] # "update_swap" /\ UNCHANGED <<refs, snaps, used, record>>
    BY <1>0, <1>7 DEF ListStart, ListAllocFails, ListEnd, UnlockRead, SearchDone
  <2> QED
    BY <1>1, <2>1, QuietSteps
<1> QED
  BY <1>1, <1>3, <1>4, <1>5, <1>6, <1>7, RefsFreeResult DEF ReaderStep

LEMMA RefsNext == IndexInv /\ HistoryInv /\ RefsInv /\ [Next]_vars => RefsInv'
<1> SUFFICES ASSUME IndexInv, HistoryInv, RefsInv, [Next]_vars PROVE RefsInv'
  OBVIOUS
<1>1. CASE UNCHANGED vars
  <2>1. ASSUME NEW x \in Texts
        PROVE  /\ RecordHolders(x)' = RecordHolders(x)
               /\ CopyHolders(x)' = CopyHolders(x) /\ SwapHolders(x)' = SwapHolders(x)
    BY <1>1 DEF vars, RecordHolders, CopyHolders, SwapHolders
  <2> QED
    BY <1>1, <2>1, SameHolders DEF vars, RefsInv
<1>2. CASE Next
  BY <1>2, RefsWriter, RefsReader DEF Next
<1> QED
  BY <1>1, <1>2

(* No string reference leaks and none is dropped twice: the count of every   *)
(* string is the number of fields and callers' copies that hold it.          *)
THEOREM ReferencesExact == Spec => []RefsMatchHolders
<1>1. Init => IndexInv /\ HistoryInv /\ RefsInv
  BY IndexInvInit, HistoryInit, RefsInit
<1>2. IndexInv /\ HistoryInv /\ RefsInv /\ [Next]_vars => (IndexInv /\ HistoryInv /\ RefsInv)'
  BY IndexInvNext, HistoryNext, RefsNext
<1>3. RefsInv => RefsMatchHolders
  BY DEF RefsInv, RefsMatchHolders
<1> QED
  BY <1>1, <1>2, <1>3, PTL DEF Spec

-----------------------------------------------------------------------------
(* Updates.  An update under way has a record that is, field by field, what  *)
(* it found or what it was asked to make of it: the strings of the fields it *)
(* has passed are updated, the later ones and the status are as they were.   *)
Changing(t) ==
  \/ pc[t] \in UpdatePcs \ {"update"}
  \/ pc[t] = "unlock_w" /\ res[t] = "OK" /\ req[t].op = "update"

Passed(t) == {f \in Fields : pc[t] \in {"update_status", "unlock_w"} \/ f < fld[t]}

(* No other record holds the string x.                                       *)
Lacks(t, x) == \A b \in Rest(t), g \in Fields : record[b].text[g] # x

FieldUpdated(t, old, f) ==
  IF req[t].text[f] = None
  THEN record[cur[t]].text[f] = old.text[f]
  ELSE \/ record[cur[t]].text[f] = req[t].text[f]
       \/ record[cur[t]].text[f] = old.text[f] /\ Lacks(t, req[t].text[f])

(* The record t found as old is now this far from it.                        *)
Halfway(t, old) ==
  /\ view = RecordsOf(record, Rest(t)) \cup {old}
  /\ old.id = req[t].id /\ SameKeys(old, record[cur[t]])
  /\ \A f \in Passed(t) : FieldUpdated(t, old, f)
  /\ \A f \in Fields \ Passed(t) : record[cur[t]].text[f] = old.text[f]
  /\ record[cur[t]].status =
       IF pc[t] = "unlock_w" /\ req[t].status # None THEN req[t].status ELSE old.status

UpdateInv ==
  \A t \in Threads :
    /\ Changing(t) => \E old \in view : Halfway(t, old)
    /\ pc[t] = "update_swap" => req[t].text[fld[t]] # None

LEMMA UpdateInit == Init => UpdateInv
BY DEF Init, UpdateInv, Changing, UpdatePcs

(* A string with no reference is in no record.                               *)
LEMMA UnheldIsLacking ==
  ASSUME IndexInv, HistoryInv, RefsInv, NEW x \in Texts, ~(refs[x] > 0), NEW t
  PROVE  Lacks(t, x)
<1>1. /\ IsFiniteSet(RecordHolders(x)) /\ Cardinality(RecordHolders(x)) \in Nat
      /\ Cardinality(CopyHolders(x)) \in Nat /\ Cardinality(SwapHolders(x)) \in Nat
      /\ refs[x] = Cardinality(RecordHolders(x)) + Cardinality(CopyHolders(x))
                     + Cardinality(SwapHolders(x))
  BY HoldersFinite
<1>2. Cardinality(RecordHolders(x)) = 0
  BY <1>1
<1>3. RecordHolders(x) = {}
  BY <1>1, <1>2, FS_EmptySet
<1>4. \A b \in used, g \in Fields : <<b, g>> \notin RecordHolders(x)
  BY <1>3
<1>5. \A b \in used, g \in Fields : record[b].text[g] # x
  BY <1>4 DEF RecordHolders
<1> QED
  BY <1>5 DEF Lacks, Rest

(* Going on to the next field, or to the status after the last.              *)
LEMMA PassesField ==
  ASSUME TypeOK, NEW t \in Threads, pc[t] \in {"update_field", "update_swap"}, NextField(t)
  PROVE  /\ pc'[t] \in {"update_field", "update_status"}
         /\ Passed(t)' = Passed(t) \cup {fld[t]}
         /\ fld[t] \in Fields \ Passed(t)
<1>1. pc \in [Threads -> Pcs] /\ fld \in [Threads -> Fields]
  BY DEF TypeOK, StateOK
<1>2. fld[t] \in Fields \ Passed(t)
  BY <1>1 DEF Passed, Fields
<1>3. CASE fld[t] = Plan
  <2>1. pc'[t] = "update_status"
    BY <1>1, <1>3 DEF NextField
  <2>2. Passed(t)' = Fields
    BY <2>1 DEF Passed
  <2>3. Fields = Passed(t) \cup {fld[t]}
    BY <1>3 DEF Passed, Fields, Plan
  <2> QED
    BY <1>2, <2>1, <2>2, <2>3
<1>4. CASE fld[t] # Plan
  <2>1. pc'[t] = "update_field" /\ fld'[t] = fld[t] + 1
    BY <1>1, <1>4 DEF NextField
  <2>2. Passed(t)' = {f \in Fields : f < fld[t] + 1}
    BY <2>1 DEF Passed
  <2>3. Passed(t) = {f \in Fields : f < fld[t]}
    BY DEF Passed
  <2>4. \A f \in Fields : f < fld[t] + 1 <=> f < fld[t] \/ f = fld[t]
    BY <1>1 DEF Fields
  <2> QED
    BY <1>2, <2>1, <2>2, <2>3, <2>4
<1> QED
  BY <1>3, <1>4

(* A field passed without a change to the record is skipped or has failed.   *)
LEMMA UpdatePassOver ==
  ASSUME IndexInv, NEW t \in Threads, pc[t] = "update_field", UpdateInv, NextField(t),
         req[t].text[fld[t]] = None \/ Lacks(t, req[t].text[fld[t]]),
         UNCHANGED <<used, record, req, cur, view>>
  PROVE  \E old \in view' : Halfway(t, old)'
<1>1. PICK old \in view : Halfway(t, old)
  BY DEF UpdateInv, Changing, UpdatePcs
<1>2. /\ pc'[t] \in {"update_field", "update_status"}
      /\ Passed(t)' = Passed(t) \cup {fld[t]} /\ fld[t] \in Fields \ Passed(t)
  BY PassesField DEF IndexInv
<1>3. FieldUpdated(t, old, fld[t])
  BY <1>1, <1>2 DEF Halfway, FieldUpdated
<1>4. \A f : FieldUpdated(t, old, f)' = FieldUpdated(t, old, f)
  BY DEF FieldUpdated, Lacks, Rest
<1>5. \A f \in Passed(t)' : FieldUpdated(t, old, f)'
  BY <1>1, <1>2, <1>3, <1>4 DEF Halfway
<1>6. \A f \in Fields \ Passed(t)' : record'[cur'[t]].text[f] = old.text[f]
  BY <1>1, <1>2 DEF Halfway
<1>7. /\ record'[cur'[t]].status = old.status /\ pc'[t] # "unlock_w"
      /\ view' = RecordsOf(record, Rest(t))' \cup {old}
      /\ old.id = req'[t].id /\ SameKeys(old, record'[cur'[t]])
  BY <1>1, <1>2 DEF Halfway, Rest, RecordsOf
<1> QED
  BY <1>1, <1>5, <1>6, <1>7 DEF Halfway, SameKeys

LEMMA UpdateSwaps ==
  ASSUME IndexInv, HistoryInv, UpdateInv, NEW t \in Threads, UpdateSwap(t)
  PROVE  \E old \in view' : Halfway(t, old)'
<1> DEFINE x == req[t].text[fld[t]]
<1>0. /\ cur \in [Threads -> Blocks \cup {None}] /\ record \in [Blocks -> Record]
      /\ used \subseteq Blocks /\ TypeOK /\ Phase(t) /\ fld \in [Threads -> Fields]
  BY DEF IndexInv, TypeOK, StateOK, PhaseInv
<1>1. pc[t] = "update_swap" /\ UNCHANGED <<used, req, cur, view>>
  BY DEF UpdateSwap
<1>2. PICK old \in view : Halfway(t, old)
  BY <1>1 DEF UpdateInv, Changing, UpdatePcs
<1>3. /\ pc'[t] \in {"update_field", "update_status"}
      /\ Passed(t)' = Passed(t) \cup {fld[t]} /\ fld[t] \in Fields \ Passed(t)
  BY <1>0, <1>1, PassesField DEF UpdateSwap
<1>4. cur[t] \in used /\ cur[t] \in Blocks
  BY <1>0, <1>1 DEF Phase, RecordPcs, UpdatePcs
<1>5. \A b \in Rest(t) : record'[b] = record[b]
  BY <1>0, <1>4 DEF UpdateSwap, Rest
<1>6. record'[cur[t]] = WithText(record[cur[t]], fld[t], x) /\ record[cur[t]] \in Record
  BY <1>0, <1>4 DEF UpdateSwap
<1>7. /\ SameKeys(record[cur[t]], record'[cur[t]])
      /\ record'[cur[t]].status = record[cur[t]].status
      /\ record'[cur[t]].text = [record[cur[t]].text EXCEPT ![fld[t]] = x]
      /\ record[cur[t]].text \in [Fields -> Texts \cup {None}]
  BY <1>6 DEF WithText, Record, Texting, SameKeys
<1>8. /\ record'[cur[t]].text[fld[t]] = x
      /\ \A f \in Fields \ {fld[t]} : record'[cur[t]].text[f] = record[cur[t]].text[f]
  BY <1>3, <1>7
<1>9. \A y : Lacks(t, y)' = Lacks(t, y)
  BY <1>1, <1>5 DEF Lacks, Rest
<1>10. x # None
  BY <1>1 DEF UpdateInv
<1>11. ASSUME NEW f \in Passed(t)' PROVE FieldUpdated(t, old, f)'
  <2>1. CASE f = fld[t]
    BY <1>1, <1>8, <1>10, <2>1 DEF FieldUpdated
  <2>2. CASE f \in Passed(t)
    <3>1. f \in Fields \ {fld[t]} /\ FieldUpdated(t, old, f)
      BY <1>2, <1>3, <2>2 DEF Halfway, Passed
    <3> QED
      BY <1>1, <1>8, <1>9, <3>1 DEF FieldUpdated
  <2> QED
    BY <1>3, <2>1, <2>2
<1>12. \A f \in Fields \ Passed(t)' : record'[cur'[t]].text[f] = old.text[f]
  BY <1>1, <1>2, <1>3, <1>8 DEF Halfway
<1>13. RecordsOf(record, Rest(t))' = RecordsOf(record, Rest(t))
  BY <1>1, <1>5, SameRecords DEF Rest
<1>14. /\ record'[cur'[t]].status = old.status /\ pc'[t] # "unlock_w"
       /\ view' = RecordsOf(record, Rest(t))' \cup {old}
       /\ old.id = req'[t].id /\ SameKeys(old, record'[cur'[t]])
  BY <1>1, <1>2, <1>3, <1>7, <1>13 DEF Halfway, SameKeys
<1> QED
  BY <1>1, <1>2, <1>11, <1>12, <1>14 DEF Halfway, SameKeys

LEMMA UpdateEnds ==
  ASSUME IndexInv, HistoryInv, UpdateInv, NEW t \in Threads, UpdateStatus(t)
  PROVE  \E old \in view' : Halfway(t, old)'
<1>0. /\ cur \in [Threads -> Blocks \cup {None}] /\ record \in [Blocks -> Record]
      /\ used \subseteq Blocks /\ TypeOK /\ Phase(t) /\ pc \in [Threads -> Pcs]
  BY DEF IndexInv, TypeOK, StateOK, PhaseInv
<1>1. /\ pc[t] = "update_status" /\ pc'[t] = "unlock_w"
      /\ UNCHANGED <<used, req, cur, view>>
  BY <1>0 DEF UpdateStatus
<1>2. PICK old \in view : Halfway(t, old)
  BY <1>1 DEF UpdateInv, Changing, UpdatePcs
<1>3. cur[t] \in used /\ cur[t] \in Blocks
  BY <1>0, <1>1 DEF Phase, RecordPcs, UpdatePcs
<1>4. \A b \in Rest(t) : record'[b] = record[b]
  BY <1>0, <1>3 DEF UpdateStatus, Rest
<1>5. /\ SameKeys(record[cur[t]], record'[cur[t]])
      /\ record'[cur[t]].text = record[cur[t]].text
      /\ record'[cur[t]].status =
           IF req[t].status = None THEN record[cur[t]].status ELSE req[t].status
  BY <1>0, <1>3 DEF UpdateStatus, Record, SameKeys
<1>6. \A y : Lacks(t, y)' = Lacks(t, y)
  BY <1>1, <1>4 DEF Lacks, Rest
<1>7. Passed(t)' = Passed(t) /\ Passed(t) = Fields
  BY <1>1 DEF Passed
<1>8. \A f \in Passed(t)' : FieldUpdated(t, old, f)'
  <2>1. \A f \in Passed(t) : FieldUpdated(t, old, f)
    BY <1>2 DEF Halfway
  <2> QED
    BY <1>1, <1>5, <1>6, <1>7, <2>1 DEF FieldUpdated
<1>9. RecordsOf(record, Rest(t))' = RecordsOf(record, Rest(t))
  BY <1>1, <1>4, SameRecords DEF Rest
<1>10. record[cur[t]].status = old.status
  BY <1>1, <1>2 DEF Halfway
<1>11. /\ record'[cur'[t]].status = IF req'[t].status # None THEN req'[t].status ELSE old.status
       /\ view' = RecordsOf(record, Rest(t))' \cup {old}
       /\ old.id = req'[t].id /\ SameKeys(old, record'[cur'[t]])
  BY <1>1, <1>2, <1>5, <1>9, <1>10 DEF Halfway, SameKeys
<1> QED
  BY <1>1, <1>2, <1>7, <1>8, <1>11 DEF Halfway, SameKeys

(* subdb_update, and its last moment under the lock.                         *)
LEMMA UpdateMoves ==
  ASSUME IndexInv, HistoryInv, RefsInv, UpdateInv, NEW t \in Threads,
         UpdateFind(t) \/ UpdateIntern(t) \/ UpdateSkip(t) \/ UpdateSwap(t) \/ UpdateStatus(t)
  PROVE  /\ Changing(t)' => \E old \in view' : Halfway(t, old)'
         /\ pc'[t] = "update_swap" => req'[t].text[fld'[t]] # None
<1> USE DEF UpdatePcs
<1>0. /\ pc \in [Threads -> Pcs] /\ cur \in [Threads -> Blocks \cup {None}]
      /\ res \in [Threads -> Results] /\ fld \in [Threads -> Fields]
      /\ TypeOK /\ Phase(t) /\ Progress(t) /\ Fresh(t)
  BY DEF IndexInv, TypeOK, StateOK, PhaseInv, HistoryInv
<1>1. CASE UpdateFind(t)
  <2>1. pc[t] = "update" /\ UNCHANGED <<used, record, req, fld, view>>
    BY <1>1 DEF UpdateFind
  <2>2. CASE pc'[t] = "unlock_w" /\ res'[t] # "OK"
    BY <2>2 DEF Changing
  <2>3. CASE pc'[t] = "update_field" /\ cur'[t] \in by_id /\ record[cur'[t]].id = req[t].id
    <3>0. PICK old : old = record[cur'[t]]
      OBVIOUS
    <3>1. cur'[t] \in used /\ view = RecordsOf(record, used)
      BY <1>0, <2>1, <2>3 DEF Phase, Tables, Progress, Unchanged
    <3>2. old \in view' /\ view' = RecordsOf(record, Rest(t))' \cup {old}
      BY <2>1, <3>0, <3>1 DEF RecordsOf, Rest
    <3>3. fld'[t] = 1
      BY <1>0, <2>1 DEF Fresh, RecordPcs, AddPcs, RemovePcs
    <3>4. Passed(t)' = {}
      BY <2>3, <3>3 DEF Passed, Fields
    <3>5. Halfway(t, old)'
      BY <2>1, <2>3, <3>0, <3>2, <3>4 DEF Halfway, SameKeys
    <3> QED
      BY <2>3, <3>2, <3>5
  <2> QED
    BY <1>0, <1>1, <2>2, <2>3 DEF UpdateFind, WithId
<1>2. CASE UpdateIntern(t)
  <2> DEFINE x == req[t].text[fld[t]]
  <2>1. /\ pc[t] = "update_field" /\ x # None
        /\ UNCHANGED <<used, record, req, cur, view>>
    BY <1>2 DEF UpdateIntern
  <2>2. x \in Texts
    BY <1>0, <2>1, ArgsOf DEF UpdateArgs, Texting
  <2>3. CASE pc' = [pc EXCEPT ![t] = "update_swap"] /\ UNCHANGED fld
    <3>1. pc'[t] = "update_swap"
      BY <1>0, <2>3
    <3>2. PICK old \in view : Halfway(t, old)
      BY <2>1 DEF UpdateInv, Changing
    <3>3. Passed(t)' = Passed(t)
      BY <2>1, <2>3, <3>1 DEF Passed
    <3>4. \A f : FieldUpdated(t, old, f)' = FieldUpdated(t, old, f)
      BY <2>1 DEF FieldUpdated, Lacks, Rest
    <3>5. Halfway(t, old)'
      BY <2>1, <3>1, <3>2, <3>3, <3>4 DEF Halfway, SameKeys, Rest, RecordsOf
    <3> QED
      BY <2>1, <2>3, <3>1, <3>2, <3>5
  <2>4. CASE NextField(t) /\ ~(refs[x] > 0)
    <3>1. Lacks(t, x)
      BY <2>2, <2>4, UnheldIsLacking
    <3>2. pc'[t] # "update_swap"
      BY <1>0, <2>1, <2>4, PassesField
    <3> QED
      BY <2>1, <2>4, <3>1, <3>2, UpdatePassOver
  <2> QED
    BY <1>2, <2>3, <2>4 DEF UpdateIntern, InternResults
<1>3. CASE UpdateSkip(t)
  <2>1. pc[t] = "update_field" /\ UNCHANGED <<used, record, req, cur, view>> /\ NextField(t)
        /\ req[t].text[fld[t]] = None
    BY <1>3 DEF UpdateSkip
  <2>2. pc'[t] # "update_swap"
    BY <1>0, <2>1, PassesField
  <2> QED
    BY <2>1, <2>2, UpdatePassOver
<1>4. CASE UpdateSwap(t)
  <2>1. pc'[t] # "update_swap"
    BY <1>0, <1>4, PassesField DEF UpdateSwap
  <2> QED
    BY <1>4, <2>1, UpdateSwaps
<1>5. CASE UpdateStatus(t)
  <2>1. pc'[t] # "update_swap"
    BY <1>0, <1>5 DEF UpdateStatus
  <2> QED
    BY <1>5, <2>1, UpdateEnds
<1> QED
  BY <1>1, <1>2, <1>3, <1>4, <1>5

(* No other step starts or goes on with an update.                           *)
LEMMA NoUpdateStarts ==
  ASSUME TypeOK, HistoryInv, NEW t \in Threads,
         \/ CallAny(t) \/ LockWrite(t) \/ WriterStep(t) \/ LockRead(t) \/ ReaderStep(t)
         \/ FreeResult(t) \/ SearchDone(t),
         ~(UpdateFind(t) \/ UpdateIntern(t) \/ UpdateSkip(t) \/ UpdateSwap(t) \/ UpdateStatus(t))
  PROVE  ~Changing(t)' /\ pc'[t] # "update_swap"
<1> USE DEF UpdatePcs
<1>0. /\ pc \in [Threads -> Pcs] /\ res \in [Threads -> Results] /\ ArgsOK
      /\ Fresh(t) /\ Progress(t)
  BY DEF TypeOK, StateOK, HistoryInv
<1>1. CASE CallAny(t)
  <2>1. CASE Reject(t)
    BY <1>0, <2>1 DEF Reject, Changing
  <2>2. CASE CallAdd(t) \/ CallDelete(t) \/ CallUpdate(t) \/ CallSearch(t) \/ CallList(t)
    <3>1. PICK r, label : label \in {"wait_w", "wait_r"} /\ Call(t, r, label)
      BY <2>2 DEF CallAdd, CallDelete, CallUpdate, CallSearch, CallList
    <3> QED
      BY <1>0, <3>1 DEF Call, Changing
  <2> QED
    BY <1>1, <2>1, <2>2 DEF CallAny
<1>2. CASE LockWrite(t) \/ LockRead(t)
  <2>1. req[t].op \in {"add", "delete", "update", "by_id", "by_imsi", "by_msisdn", "list"}
    BY <1>0, <1>2 DEF LockWrite, LockRead, ArgsOK, AddArgs, DeleteArgs, UpdateArgs, ReadArgs
  <2> QED
    BY <1>0, <1>2, <2>1 DEF LockWrite, LockRead, Changing
<1>3. CASE ReaderStep(t) \/ FreeResult(t) \/ SearchDone(t)
  BY <1>0, <1>3 DEF ReaderStep, SearchOne, ListStart, ListVisit, ListAllocFails, ListEnd,
     UnlockRead, FreeResult, SearchDone, Changing
<1>4. CASE \/ AddCheck(t) \/ AddAlloc(t) \/ AddAllocFails(t) \/ AddIntern(t) \/ AddAssignId(t)
           \/ AddPutId(t) \/ AddPutImsi(t) \/ AddPutMsisdn(t)
  <2>1. pc[t] \in AddPcs /\ UNCHANGED req
    BY <1>4 DEF AddCheck, AddAlloc, AddAllocFails, AddIntern, AddAssignId, AddPutId,
       AddPutImsi, AddPutMsisdn, AddPcs
  <2>2. req[t].op = "add"
    BY <1>0, <2>1 DEF ArgsOK, AddArgs
  <2>3. pc'[t] \notin UpdatePcs
    BY <1>0, <1>4 DEF AddCheck, AddAlloc, AddAllocFails, AddIntern, AddAssignId, AddPutId,
       AddPutImsi, AddPutMsisdn
  <2> QED
    BY <2>1, <2>2, <2>3 DEF Changing
<1>5. CASE DeleteFind(t) \/ RemoveId(t) \/ RemoveImsi(t) \/ RemoveMsisdn(t)
           \/ FreeSubscriberLocked(t)
  <2>1. pc[t] \in RemovePcs \cup {"delete"} /\ UNCHANGED req
    BY <1>5 DEF DeleteFind, RemoveId, RemoveImsi, RemoveMsisdn, FreeSubscriberLocked, RemovePcs
  <2>2. req[t].op \in {"add", "delete"}
    BY <1>0, <2>1 DEF ArgsOK, DeleteArgs, Progress
  <2>3. pc'[t] \notin UpdatePcs
    BY <1>0, <1>5 DEF DeleteFind, RemoveId, RemoveImsi, RemoveMsisdn, FreeSubscriberLocked
  <2> QED
    BY <2>1, <2>2, <2>3 DEF Changing
<1>6. CASE UnlockWrite(t)
  BY <1>0, <1>6 DEF UnlockWrite, Changing
<1> QED
  BY <1>1, <1>2, <1>3, <1>4, <1>5, <1>6 DEF WriterStep

LEMMA UpdateNext ==
  IndexInv /\ HistoryInv /\ RefsInv /\ UpdateInv /\ [Next]_vars => UpdateInv'
<1> SUFFICES ASSUME IndexInv, HistoryInv, RefsInv, UpdateInv, [Next]_vars, NEW u \in Threads
             PROVE  /\ Changing(u)' => \E old \in view' : Halfway(u, old)'
                    /\ pc'[u] = "update_swap" => req'[u].text[fld'[u]] # None
  BY DEF UpdateInv
<1>0. TypeOK
  BY DEF IndexInv
<1>1. ASSUME UNCHANGED <<used, record, view>>,
             pc'[u] = pc[u] /\ req'[u] = req[u] /\ cur'[u] = cur[u] /\ fld'[u] = fld[u]
               /\ res'[u] = res[u]
      PROVE  /\ Changing(u)' => \E old \in view' : Halfway(u, old)'
             /\ pc'[u] = "update_swap" => req'[u].text[fld'[u]] # None
  <2>1. Changing(u)' = Changing(u) /\ Passed(u)' = Passed(u)
    BY <1>1 DEF Changing, Passed
  <2>2. ASSUME NEW old PROVE Halfway(u, old)' = Halfway(u, old)
    BY <1>1, <2>1 DEF Halfway, FieldUpdated, Lacks, Rest, RecordsOf, SameKeys
  <2> QED
    BY <1>1, <2>1, <2>2 DEF UpdateInv
<1>2. CASE UNCHANGED vars
  BY <1>1, <1>2 DEF vars
<1>3. CASE Next
  <2>1. PICK t \in Threads :
          \/ CallAny(t) \/ LockWrite(t) \/ WriterStep(t) \/ LockRead(t) \/ ReaderStep(t)
          \/ FreeResult(t) \/ SearchDone(t)
    BY <1>3 DEF Next
  <2>2. CASE u = t
    BY <1>0, <2>1, <2>2, UpdateMoves, NoUpdateStarts
  <2>3. CASE u # t
    <3>1. Mine(t)
      BY <1>0, <2>1, StepsAreMine
    <3>2. /\ pc'[u] = pc[u] /\ req'[u] = req[u] /\ cur'[u] = cur[u] /\ fld'[u] = fld[u]
          /\ res'[u] = res[u]
      BY <2>3, <3>1 DEF Mine
    <3>3. CASE WriterStep(t)
      <4>1. pc[t] \in WritePcs
        BY <3>3 DEF WriterStep, AddCheck, AddAlloc, AddAllocFails, AddIntern, AddAssignId,
           AddPutId, AddPutImsi, AddPutMsisdn, DeleteFind, RemoveId, RemoveImsi, RemoveMsisdn,
           FreeSubscriberLocked, UpdateFind, UpdateIntern, UpdateSkip, UpdateSwap, UpdateStatus,
           UnlockWrite, WritePcs, AddPcs, UpdatePcs, RemovePcs
      <4>2. pc[u] \notin WritePcs
        BY <2>3, <4>1, WriterAlone
      <4> QED
        BY <3>2, <4>2 DEF Changing, WritePcs, UpdatePcs
    <3>4. CASE ~WriterStep(t)
      <4>1. UNCHANGED <<used, record, view>>
        BY <2>1, <3>4 DEF CallAny, Reject, CallAdd, CallDelete, CallUpdate, CallSearch, CallList,
           Call, LockWrite, LockRead, ReaderStep, SearchOne, ListStart, ListVisit,
           ListAllocFails, ListEnd, UnlockRead, FreeResult, SearchDone
      <4> QED
        BY <1>1, <3>2, <4>1
    <3> QED
      BY <3>3, <3>4
  <2> QED
    BY <2>2, <2>3
<1> QED
  BY <1>2, <1>3

(* What subdb_add, subdb_delete and subdb_update return is true: after an    *)
(* error nothing has changed, after SM_OK the record was added, deleted, or  *)
(* replaced by the update asked for, and a string asked for is missing from  *)
(* it only if no other subscriber holds that string.                         *)
THEOREM ResultsAreTrue == Spec => ResultsMatchEffects
<1> DEFINE True(t) ==
      GivesBack(t) =>
         /\ res[t] # "OK" => view' = view
         /\ res[t] = "OK" /\ req[t].op = "add" =>
              \E s \in view' \ view :
                /\ view' = view \cup {s}
                /\ s.imsi = req[t].imsi /\ s.msisdn = req[t].msisdn
                /\ s.text = req[t].text /\ s.status = req[t].status
         /\ res[t] = "OK" /\ req[t].op = "delete" =>
              \E s \in view : s.id = req[t].id /\ view' = view \ {s}
         /\ res[t] = "OK" /\ req[t].op = "update" =>
              \E s \in view, n \in view' :
                /\ s.id = req[t].id /\ view' = (view \ {s}) \cup {n}
                /\ IsUpdate(req[t], s, n, view \ {s})
<1>1. ASSUME IndexInv, HistoryInv, UpdateInv, [Next]_vars, NEW t \in Threads PROVE True(t)
  <2> SUFFICES ASSUME writer = t, writer' = None PROVE True(t)
    BY DEF GivesBack
  <2>1. t # None
    BY ConstantsAssumption
  <2>2. UnlockWrite(t)
    <3>1. PICK u \in Threads : UnlockWrite(u)
      BY <1>1, <2>1, OnlyUnlockShows
    <3> QED
      BY <1>1, <3>1, UnlockShows
  <2>3. Outcome(t) /\ KeysInv /\ view' = RecordsOf(record, used)
    BY <1>1, <2>2, UnlockShows
  <2>4. CASE res[t] # "OK"
    BY <2>3, <2>4 DEF Outcome, Unchanged
  <2>5. CASE res[t] = "OK" /\ req[t].op = "add"
    <3> DEFINE s == record[cur[t]]
    <3>1. /\ cur[t] \in used /\ view = RecordsOf(record, Rest(t))
          /\ s.imsi = req[t].imsi /\ s.msisdn = req[t].msisdn
          /\ s.text = req[t].text /\ s.status = req[t].status
      BY <2>3, <2>5 DEF Outcome, OneMore
    <3>2. view' = view \cup {s} /\ s \notin view
      BY <2>3, <3>1 DEF RecordsOf, Rest, KeysInv
    <3> QED
      BY <2>5, <3>1, <3>2
  <2>6. CASE res[t] = "OK" /\ req[t].op = "delete"
    <3>1. PICK s \in view : /\ s.id = req[t].id
                            /\ \A b \in used : record[b].id # s.id
                            /\ view = RecordsOf(record, used) \cup {s}
      BY <2>3, <2>6 DEF Outcome
    <3>2. view' = view \ {s}
      BY <2>3, <3>1 DEF RecordsOf
    <3> QED
      BY <2>6, <3>1, <3>2
  <2>7. CASE res[t] = "OK" /\ req[t].op = "update"
    <3> DEFINE n == record[cur[t]]
    <3>1. pc[t] = "unlock_w" /\ cur[t] \in used
      BY <2>2, <2>3, <2>7 DEF UnlockWrite, Outcome
    <3>2. PICK s \in view : Halfway(t, s)
      BY <1>1, <2>7, <3>1 DEF UpdateInv, Changing
    <3>3. /\ view = RecordsOf(record, Rest(t)) \cup {s} /\ s.id = req[t].id /\ SameKeys(s, n)
          /\ \A f \in Fields : FieldUpdated(t, s, f)
          /\ n.status = IF req[t].status = None THEN s.status ELSE req[t].status
      BY <3>1, <3>2 DEF Halfway, Passed
    <3>4. s \notin RecordsOf(record, Rest(t))
      BY <2>3, <3>1, <3>3 DEF RecordsOf, Rest, KeysInv, SameKeys
    <3>5. view \ {s} = RecordsOf(record, Rest(t))
      BY <3>3, <3>4
    <3>6. n \in view' /\ view' = (view \ {s}) \cup {n}
      BY <2>3, <3>1, <3>5 DEF RecordsOf, Rest
    <3>7. \A f \in Fields :
            IF req[t].text[f] = None
            THEN n.text[f] = s.text[f]
            ELSE \/ n.text[f] = req[t].text[f]
                 \/ /\ n.text[f] = s.text[f]
                    /\ ~\E o \in view \ {s}, g \in Fields : o.text[g] = req[t].text[f]
      BY <3>3, <3>5 DEF FieldUpdated, Lacks, RecordsOf
    <3>8. IsUpdate(req[t], s, n, view \ {s})
      BY <3>3, <3>7 DEF IsUpdate, SameKeys
    <3> QED
      BY <2>7, <3>3, <3>6, <3>8
  <2> QED
    BY <2>3, <2>4, <2>5, <2>6, <2>7 DEF Outcome
<1>2. IndexInv /\ HistoryInv /\ UpdateInv /\ [Next]_vars => [\A t \in Threads : True(t)]_vars
  BY <1>1
<1>3. Init => IndexInv /\ HistoryInv /\ RefsInv /\ UpdateInv
  BY IndexInvInit, HistoryInit, RefsInit, UpdateInit
<1>4. IndexInv /\ HistoryInv /\ RefsInv /\ UpdateInv /\ [Next]_vars
        => (IndexInv /\ HistoryInv /\ RefsInv /\ UpdateInv)'
  BY IndexInvNext, HistoryNext, RefsNext, UpdateNext
<1> QED
  BY <1>2, <1>3, <1>4, PTL DEF Spec, ResultsMatchEffects

-----------------------------------------------------------------------------
(* The sorts.  The loops and the recursion of Sorting are functions of the   *)
(* round or of the length; what they compute is proved by induction on it.   *)

LEMMA LeastNatural ==
  ASSUME NEW S, S \subseteq Nat, S # {}
  PROVE  \E n \in S : \A m \in S : n <= m
<1> DEFINE R == {p \in Nat \X Nat : p[1] < p[2]}
<1>1. R = OpToRel(<, Nat)
  BY Zenon DEF OpToRel
<1>2. IsWellFoundedOn(R, Nat)
  BY <1>1, NatLessThanWellFounded, Zenon
<1> HIDE DEF R
<1>3. PICK n \in S : \A m \in S : <<m, n>> \notin R
  BY <1>2, WFMin, Zenon
<1>4. \A m \in S : ~ (m < n)
  BY <1>3 DEF R
<1> QED
  BY <1>4

LEMMA EveryNatural ==
  ASSUME NEW S, 0 \in S, \A n \in Nat : n \in S => n + 1 \in S
  PROVE  Nat \subseteq S
<1> DEFINE missing == {n \in Nat : n \notin S}
<1>1. ASSUME missing # {} PROVE FALSE
  <2>1. PICK n \in missing : \A m \in missing : n <= m
    BY <1>1, LeastNatural
  <2>2. n # 0 /\ n - 1 \in Nat /\ n - 1 \notin missing
    BY <2>1
  <2> QED
    BY <2>1, <2>2
<1> QED
  BY <1>1


-----------------------------------------------------------------------------
(* Merge sort.  Tags tell equal keys apart: Before is strict and total on    *)
(* the elements of an array, and being sorted by it is being sorted stably.  *)

Element == [key : Int, tag : Nat]
Before(a, b) == a.key < b.key \/ (a.key = b.key /\ a.tag < b.tag)
Strict(s) == \A i, j \in 1..Len(s) : i < j => Before(s[i], s[j])

\* Two halves that a merge may be given.
Halves(l, r) ==
  /\ l \in Seq(Element) /\ r \in Seq(Element) /\ Strict(l) /\ Strict(r)
  /\ \A i \in 1..Len(l), j \in 1..Len(r) : l[i].tag < r[j].tag

\* The first i of l and the first j of r come before the others.
Split(l, r, i, j) ==
  /\ i \in 0..Len(l) /\ j \in 0..Len(r)
  /\ \A x \in 1..i, y \in (j + 1)..Len(r) : Before(l[x], r[y])
  /\ \A x \in 1..j, y \in (i + 1)..Len(l) : Before(r[x], l[y])

LEMMA BeforeAfter ==
  ASSUME NEW a \in Element, NEW b \in Element, NEW c \in Element, Before(a, b), Before(b, c)
  PROVE  Before(a, c)
BY DEF Before, Element

LEMMA HeadBefore ==
  ASSUME NEW s \in Seq(Element), Strict(s), NEW a \in Element, NEW i \in 1..Len(s), Before(a, s[i]),
         NEW y \in i..Len(s)
  PROVE  Before(a, s[y])
<1>1. s[i] \in Element /\ s[y] \in Element
  OBVIOUS
<1>2. CASE y = i
  BY <1>2
<1>3. CASE i < y
  <2>1. Before(s[i], s[y])
    BY <1>3 DEF Strict
  <2> QED
    BY <1>1, <2>1, BeforeAfter
<1> QED
  BY <1>2, <1>3

LEMMA TakeLeft ==
  ASSUME NEW l, NEW r, Halves(l, r), NEW i, NEW j, Split(l, r, i, j), i < Len(l),
         j = Len(r) \/ ~Above(l[i+1], r[j+1])
  PROVE  Split(l, r, i + 1, j)
<1>1. l \in Seq(Element) /\ r \in Seq(Element) /\ Strict(l) /\ Strict(r)
      /\ i \in 0..Len(l) /\ j \in 0..Len(r) /\ i + 1 \in 1..Len(l)
  BY DEF Halves, Split
<1>2. ASSUME NEW y \in (j+1)..Len(r)
      PROVE  Before(l[i+1], r[y])
  <2>1. j + 1 \in 1..Len(r) /\ ~Above(l[i+1], r[j+1]) /\ y \in j+1..Len(r)
    BY <1>1
  <2>2. l[i+1] \in Element /\ r[j+1] \in Element /\ l[i+1].tag < r[j+1].tag
    BY <1>1, <2>1 DEF Halves
  <2>3. Before(l[i+1], r[j+1])
    BY <2>1, <2>2 DEF Above, Before, Element
  <2> QED
    BY <1>1, <2>1, <2>2, <2>3, HeadBefore
<1>3. ASSUME NEW x \in 1..(i+1), NEW y \in (j+1)..Len(r)
      PROVE  Before(l[x], r[y])
  <2>1. CASE x = i + 1
    BY <1>2, <2>1
  <2>2. CASE x # i + 1
    <3>1. x \in 1..i
      BY <1>1, <2>2
    <3> QED
      BY <3>1 DEF Split
  <2> QED
    BY <2>1, <2>2
<1>4. ASSUME NEW x \in 1..j, NEW y \in ((i+1)+1)..Len(l)
      PROVE  Before(r[x], l[y])
  <2>1. y \in (i+1)..Len(l)
    BY <1>1
  <2> QED
    BY <2>1 DEF Split
<1> QED
  BY <1>1, <1>3, <1>4 DEF Split

LEMMA TakeRight ==
  ASSUME NEW l, NEW r, Halves(l, r), NEW i, NEW j, Split(l, r, i, j), j < Len(r),
         i = Len(l) \/ Above(l[i+1], r[j+1])
  PROVE  Split(l, r, i, j + 1)
<1>1. l \in Seq(Element) /\ r \in Seq(Element) /\ Strict(l) /\ Strict(r)
      /\ i \in 0..Len(l) /\ j \in 0..Len(r) /\ j + 1 \in 1..Len(r)
  BY DEF Halves, Split
<1>2. ASSUME NEW y \in (i+1)..Len(l)
      PROVE  Before(r[j+1], l[y])
  <2>1. i + 1 \in 1..Len(l) /\ Above(l[i+1], r[j+1])
    BY <1>1
  <2>2. l[i+1] \in Element /\ r[j+1] \in Element
    BY <1>1, <2>1
  <2>3. Before(r[j+1], l[i+1])
    BY <2>1, <2>2 DEF Above, Before, Element
  <2> QED
    BY <1>1, <2>1, <2>2, <2>3, HeadBefore
<1>3. ASSUME NEW x \in 1..(j+1), NEW y \in (i+1)..Len(l)
      PROVE  Before(r[x], l[y])
  <2>1. CASE x = j + 1
    BY <1>2, <2>1
  <2>2. CASE x # j + 1
    <3>1. x \in 1..j
      BY <1>1, <2>2
    <3> QED
      BY <3>1 DEF Split
  <2> QED
    BY <2>1, <2>2
<1>4. ASSUME NEW x \in 1..i, NEW y \in ((j+1)+1)..Len(r)
      PROVE  Before(l[x], r[y])
  <2>1. y \in (j+1)..Len(r)
    BY <1>1
  <2> QED
    BY <2>1 DEF Split
<1> QED
  BY <1>1, <1>3, <1>4 DEF Split

\* The first i + j elements of out are the first i of l and the first j of r,
\* in order.
Written(l, r, i, j, out) ==
  /\ Split(l, r, i, j)
  /\ \A x \in 1..(i + j) : (\E y \in 1..i : out[x] = l[y]) \/ (\E y \in 1..j : out[x] = r[y])
  /\ \A y \in 1..i : \E x \in 1..(i + j) : out[x] = l[y]
  /\ \A y \in 1..j : \E x \in 1..(i + j) : out[x] = r[y]
  /\ \A x, y \in 1..(i + j) : x < y => Before(out[x], out[y])

LEMMA WriteLeft ==
  ASSUME NEW l, NEW r, Halves(l, r), NEW out, NEW i, NEW j, Written(l, r, i, j, out), i < Len(l),
         j = Len(r) \/ ~Above(l[i+1], r[j+1]), out[i + j + 1] = l[i+1]
  PROVE  Written(l, r, i + 1, j, out)
<1>1. i \in Nat /\ j \in Nat /\ Len(l) \in Nat /\ Split(l, r, i, j) /\ Strict(l) /\ i + 1 \in 1..Len(l)
  BY DEF Written, Split, Halves
<1>2. Split(l, r, i + 1, j)
  BY <1>1, TakeLeft
<1>3. ASSUME NEW x \in 1..(i + j)
      PROVE  Before(out[x], out[i + j + 1])
  <2>1. CASE \E y \in 1..i : out[x] = l[y]
    <3>1. PICK y \in 1..i : out[x] = l[y]
      BY <2>1
    <3>2. Before(l[y], l[i+1])
      <4>1. y \in 1..Len(l) /\ i + 1 \in 1..Len(l) /\ y < i + 1
        BY <1>1
      <4> QED
        BY <1>1, <4>1 DEF Strict
    <3> QED
      BY <3>1, <3>2
  <2>2. CASE \E y \in 1..j : out[x] = r[y]
    <3>1. PICK y \in 1..j : out[x] = r[y]
      BY <2>2
    <3>2. Before(r[y], l[i+1])
      BY <1>1 DEF Split
    <3> QED
      BY <3>1, <3>2
  <2> QED
    BY <2>1, <2>2 DEF Written
<1>4. \A x \in 1..((i+1) + j) : x \in 1..(i + j) \/ x = i + j + 1
  BY <1>1
<1>5. /\ \A x \in 1..(i + j) : x \in 1..((i+1) + j) /\ x < i + j + 1
      /\ i + j + 1 \in 1..((i+1) + j) /\ \A y \in 1..i : y \in 1..(i+1)
      /\ \A y \in 1..(i+1) : y \in 1..i \/ y = i + 1
      /\ i + 1 \in 1..(i+1)
  BY <1>1
<1>6. ASSUME NEW x \in 1..((i+1) + j)
      PROVE  (\E y \in 1..(i+1) : out[x] = l[y]) \/ (\E y \in 1..j : out[x] = r[y])
  <2>1. CASE x = i + j + 1
    BY <1>5, <2>1
  <2>2. CASE x \in 1..(i + j)
    BY <1>5, <2>2 DEF Written
  <2> QED
    BY <1>4, <2>1, <2>2
<1>7. ASSUME NEW y \in 1..(i+1)
      PROVE  \E x \in 1..((i+1) + j) : out[x] = l[y]
  <2>1. CASE y = i + 1
    BY <1>5, <2>1
  <2>2. CASE y \in 1..i
    BY <1>5, <2>2 DEF Written
  <2> QED
    BY <1>5, <2>1, <2>2
<1>8. ASSUME NEW y \in 1..j
      PROVE  \E x \in 1..((i+1) + j) : out[x] = r[y]
  BY <1>5 DEF Written
<1>9. ASSUME NEW x \in 1..((i+1) + j), NEW y \in 1..((i+1) + j), x < y
      PROVE  Before(out[x], out[y])
  <2>1. x \in 1..(i + j)
    BY <1>1, <1>9
  <2>2. CASE y = i + j + 1
    BY <1>3, <2>1, <2>2
  <2>3. CASE y \in 1..(i + j)
    BY <1>9, <2>1, <2>3 DEF Written
  <2> QED
    BY <1>4, <2>2, <2>3
<1> QED
  BY <1>2, <1>6, <1>7, <1>8, <1>9 DEF Written

LEMMA WriteRight ==
  ASSUME NEW l, NEW r, Halves(l, r), NEW out, NEW i, NEW j, Written(l, r, i, j, out), j < Len(r),
         i = Len(l) \/ Above(l[i+1], r[j+1]), out[i + j + 1] = r[j+1]
  PROVE  Written(l, r, i, j + 1, out)
<1>1. i \in Nat /\ j \in Nat /\ Len(r) \in Nat /\ Split(l, r, i, j) /\ Strict(r) /\ j + 1 \in 1..Len(r)
  BY DEF Written, Split, Halves
<1>2. Split(l, r, i, j + 1)
  BY <1>1, TakeRight
<1>3. ASSUME NEW x \in 1..(i + j)
      PROVE  Before(out[x], out[i + j + 1])
  <2>1. CASE \E y \in 1..j : out[x] = r[y]
    <3>1. PICK y \in 1..j : out[x] = r[y]
      BY <2>1
    <3>2. Before(r[y], r[j+1])
      <4>1. y \in 1..Len(r) /\ j + 1 \in 1..Len(r) /\ y < j + 1
        BY <1>1
      <4> QED
        BY <1>1, <4>1 DEF Strict
    <3> QED
      BY <3>1, <3>2
  <2>2. CASE \E y \in 1..i : out[x] = l[y]
    <3>1. PICK y \in 1..i : out[x] = l[y]
      BY <2>2
    <3>2. Before(l[y], r[j+1])
      BY <1>1 DEF Split
    <3> QED
      BY <3>1, <3>2
  <2> QED
    BY <2>1, <2>2 DEF Written
<1>4. \A x \in 1..(i + (j+1)) : x \in 1..(i + j) \/ x = i + j + 1
  BY <1>1
<1>5. /\ \A x \in 1..(i + j) : x \in 1..(i + (j+1)) /\ x < i + j + 1
      /\ i + j + 1 \in 1..(i + (j+1)) /\ \A y \in 1..j : y \in 1..(j+1)
      /\ \A y \in 1..(j+1) : y \in 1..j \/ y = j + 1
      /\ j + 1 \in 1..(j+1)
  BY <1>1
<1>6. ASSUME NEW x \in 1..(i + (j+1))
      PROVE  (\E y \in 1..i : out[x] = l[y]) \/ (\E y \in 1..(j+1) : out[x] = r[y])
  <2>1. CASE x = i + j + 1
    BY <1>5, <2>1
  <2>2. CASE x \in 1..(i + j)
    BY <1>5, <2>2 DEF Written
  <2> QED
    BY <1>4, <2>1, <2>2
<1>7. ASSUME NEW y \in 1..(j+1)
      PROVE  \E x \in 1..(i + (j+1)) : out[x] = r[y]
  <2>1. CASE y = j + 1
    BY <1>5, <2>1
  <2>2. CASE y \in 1..j
    BY <1>5, <2>2 DEF Written
  <2> QED
    BY <1>5, <2>1, <2>2
<1>8. ASSUME NEW y \in 1..i
      PROVE  \E x \in 1..(i + (j+1)) : out[x] = l[y]
  BY <1>5 DEF Written
<1>9. ASSUME NEW x \in 1..(i + (j+1)), NEW y \in 1..(i + (j+1)), x < y
      PROVE  Before(out[x], out[y])
  <2>1. x \in 1..(i + j)
    BY <1>1, <1>9
  <2>2. CASE y = i + j + 1
    BY <1>3, <2>1, <2>2
  <2>3. CASE y \in 1..(i + j)
    BY <1>9, <2>1, <2>3 DEF Written
  <2> QED
    BY <1>4, <2>2, <2>3
<1> QED
  BY <1>2, <1>6, <1>7, <1>8, <1>9 DEF Written

LEMMA MergeSorts ==
  ASSUME NEW l, NEW r, Halves(l, r)
  PROVE  /\ Merge(l, r) \in Seq(Element) /\ Len(Merge(l, r)) = Len(l) + Len(r) /\ Strict(Merge(l, r))
         /\ ToSet(Merge(l, r)) = ToSet(l) \cup ToSet(r)
<1> DEFINE L == Len(l)
           R == Len(r)
           size == L + R
           Takes(i, j) == j = R \/ (i < L /\ ~Above(l[i+1], r[j+1]))
           Def(f, k) == IF k = 0 THEN 0
                        ELSE LET i == f[k-1] IN IF Takes(i, (k - 1) - i) THEN i + 1 ELSE i
           Fits(f, k) == f = [x \in 0..k |-> Def(f, x)]
           fit == {k \in Nat : \E f : Fits(f, k)}
           taken == CHOOSE f : Fits(f, size)
           out == [k \in 1..size |-> IF taken[k] > taken[k-1] THEN l[taken[k]] ELSE r[k - taken[k]]]
<1>0. l \in Seq(Element) /\ r \in Seq(Element)
  BY DEF Halves
<1>1. size \in Nat /\ L \in Nat /\ R \in Nat /\ Merge(l, r) = out
  BY <1>0 DEF Merge
<1>2. Nat \subseteq fit
  <2>1. 0 \in fit
    <3>1. \A k \in 0..0 : k = 0
      OBVIOUS
    <3>2. Fits([k \in 0..0 |-> 0], 0)
      BY <3>1
    <3> QED
      BY <3>2
  <2>2. ASSUME NEW n \in Nat, n \in fit
        PROVE  n + 1 \in fit
    <3>1. PICK h : Fits(h, n)
      BY <2>2
    <3> DEFINE g == [k \in 0..(n+1) |-> IF k <= n THEN h[k] ELSE Def(h, k)]
    <3>2. \A k \in 0..n : h[k] = Def(h, k)
      BY <3>1
    <3>3. \A k \in 0..(n+1) : g[k] = Def(g, k)
      <4> TAKE k \in 0..(n+1)
      <4>1. CASE k = 0
        <5>1. g[k] = h[k] /\ k \in 0..n
          BY <4>1
        <5> QED
          BY <3>2, <4>1, <5>1
      <4>2. CASE k # 0
        <5>1. k - 1 \in 0..(n+1) /\ k - 1 <= n /\ k - 1 \in 0..n
          BY <4>2
        <5>2. g[k-1] = h[k-1]
          BY <5>1
        <5>3. Def(g, k) = Def(h, k)
          BY <5>2
        <5>4. g[k] = Def(h, k)
          BY <3>2
        <5> QED
          BY <5>3, <5>4
      <4> QED
        BY <4>1, <4>2
    <3>4. g = [k \in 0..(n+1) |-> Def(g, k)]
      <4>1. g = [k \in 0..(n+1) |-> g[k]]
        OBVIOUS
      <4> HIDE DEF g, Def
      <4> QED
        BY <4>1, <3>3
    <3>5. n + 1 \in Nat
      OBVIOUS
    <3> HIDE DEF g, Def
    <3>6. Fits(g, n + 1)
      BY <3>4
    <3> HIDE DEF Fits
    <3> QED
      BY <3>5, <3>6
  <2> HIDE DEF fit
  <2> QED
    BY <2>1, <2>2, EveryNatural
<1>3. Fits(taken, size)
  <2>1. \E g : Fits(g, size)
    BY <1>1, <1>2
  <2> HIDE DEF Fits
  <2> QED
    BY <2>1
<1>4. \A n \in 0..size : taken[n] = Def(taken, n)
  BY <1>3
<1> HIDE DEF taken, fit, Fits
<1>5. taken[0] = 0
  <2>1. 0 \in 0..size
    BY <1>1
  <2> QED
    BY <1>4, <2>1
<1>6. ASSUME NEW k \in Nat, k < size
      PROVE  taken[k+1] = IF Takes(taken[k], k - taken[k]) THEN taken[k] + 1 ELSE taken[k]
  <2>1. k + 1 \in 0..size /\ k + 1 # 0 /\ (k + 1) - 1 = k
    BY <1>1, <1>6
  <2>2. taken[k+1] = Def(taken, k + 1)
    <3> HIDE DEF Def
    <3> QED
      BY <1>4, <2>1
  <2> HIDE DEF Takes
  <2> QED
    BY <2>1, <2>2
<1> DEFINE Part(k) == Written(l, r, taken[k], k - taken[k], out)
           part == {k \in Nat : k <= size => Part(k)}
<1> HIDE DEF Def
<1>7. ASSUME NEW k \in Nat, k < size, Part(k)
      PROVE  Part(k + 1)
  <2> DEFINE i == taken[k]
             j == k - i
  <2>1. i \in 0..L /\ j \in 0..R
    BY <1>7 DEF Written, Split
  <2>2. taken[k+1] = (IF Takes(i, j) THEN i + 1 ELSE i) /\ k + 1 \in 1..size /\ (k + 1) - 1 = k
    <3> HIDE DEF Takes
    <3> QED
      BY <1>1, <1>6, <1>7
  <2>3. out[k+1] = IF taken[k+1] > taken[k] THEN l[taken[k+1]] ELSE r[(k + 1) - taken[k+1]]
    <3> HIDE DEF size, taken
    <3> QED
      BY <2>2
  <2>4. j = k - i /\ i = taken[k] /\ size = L + R /\ L = Len(l) /\ R = Len(r) /\ Written(l, r, i, j, out)
    BY <1>7
  <2>5. Takes(i, j) <=> (j = R \/ (i < L /\ ~Above(l[i+1], r[j+1])))
    OBVIOUS
  <2> HIDE DEF i, j, taken, size, L, R, out, Takes
  <2>6. /\ i \in Nat /\ j \in Nat /\ k = i + j /\ k + 1 = i + j + 1
        /\ (k + 1) - (i + 1) = j /\ (k + 1) - i = j + 1
    <3>1. L \in Nat /\ k \in Nat /\ i \in Int /\ 0 <= i /\ j = k - i /\ j \in 0..R /\ R \in Nat
      BY <1>1, <1>7, <2>1, <2>4
    <3> QED
      BY <3>1
  <2>7. CASE Takes(i, j)
    <3>1. i < L
      <4>1. L \in Nat /\ R \in Nat /\ size = L + R /\ k < size /\ k = i + j /\ i \in Nat
        BY <1>1, <1>7, <2>4, <2>6
      <4>2. j = R \/ i < L
        BY <2>5, <2>7
      <4> QED
        BY <4>1, <4>2
    <3>2. taken[k+1] = i + 1 /\ i + 1 > i
      BY <2>2, <2>6, <2>7
    <3>3. out[i + j + 1] = l[i+1]
      BY <2>3, <2>4, <2>6, <3>2
    <3>4. Written(l, r, i + 1, j, out)
      BY <2>4, <2>5, <2>7, <3>1, <3>3, WriteLeft
    <3> QED
      BY <2>6, <3>2, <3>4
  <2>8. CASE ~Takes(i, j)
    <3>1. j < R /\ (i = L \/ Above(l[i+1], r[j+1]))
      BY <1>1, <2>1, <2>5, <2>8
    <3>2. taken[k+1] = i /\ ~(i > i)
      BY <2>2, <2>6, <2>8
    <3>3. out[i + j + 1] = r[j+1]
      BY <2>3, <2>4, <2>6, <3>2
    <3>4. Written(l, r, i, j + 1, out)
      BY <2>4, <3>1, <3>3, WriteRight
    <3> QED
      BY <2>6, <3>2, <3>4
  <2> QED
    BY <2>7, <2>8
<1>8. Nat \subseteq part
  <2>1. 0 \in part
    <3>1. \A x \in 1..0 : FALSE
      OBVIOUS
    <3>2. 0 - 0 = 0 /\ 0 + 0 = 0 /\ 0 \in 0..Len(l) /\ 0 \in 0..Len(r)
      BY <1>1
    <3>3. Written(l, r, 0, 0, out)
      <4> HIDE DEF out
      <4> QED
        BY <3>1, <3>2 DEF Written, Split
    <3> QED
      BY <1>5, <3>2, <3>3
  <2>2. ASSUME NEW k \in Nat, k \in part
        PROVE  k + 1 \in part
    <3> HIDE DEF Part
    <3> SUFFICES ASSUME k + 1 <= size PROVE Part(k + 1)
      OBVIOUS
    <3> QED
      BY <1>1, <1>7, <2>2
  <2> HIDE DEF part
  <2> QED
    BY <2>1, <2>2, EveryNatural
<1>9. Part(size)
  <2> HIDE DEF Part
  <2> QED
    BY <1>1, <1>8
<1>10. taken[size] = L /\ size - taken[size] = R
  BY <1>1, <1>9 DEF Written, Split
<1>11. Written(l, r, L, R, out)
  BY <1>9, <1>10
<1>12. \A x \in 1..size : out[x] \in ToSet(l) \cup ToSet(r)
  <2> HIDE DEF out
  <2> QED
    BY <1>0, <1>1, <1>11 DEF Written, ToSet
<1>13. \A y \in ToSet(l) \cup ToSet(r) : \E x \in 1..size : out[x] = y
  <2>1. /\ \A z \in 1..L : \E x \in 1..size : out[x] = l[z]
        /\ \A z \in 1..R : \E x \in 1..size : out[x] = r[z]
    BY <1>11 DEF Written
  <2>2. ToSet(l) = {l[z] : z \in 1..L} /\ ToSet(r) = {r[z] : z \in 1..R}
    BY <1>0 DEF ToSet
  <2> HIDE DEF out, size, L, R
  <2> QED
    BY <2>1, <2>2
<1>14. ToSet(l) \subseteq Element /\ ToSet(r) \subseteq Element
  BY <1>0 DEF ToSet
<1>15. out = [x \in 1..size |-> out[x]]
  OBVIOUS
<1> HIDE DEF out, size
<1>16. out \in Seq(Element) /\ Len(out) = size
  BY <1>1, <1>12, <1>14, <1>15
<1>17. Strict(out)
  BY <1>11, <1>16 DEF Written, Strict, size
<1>18. ToSet(out) = ToSet(l) \cup ToSet(r)
  <2>1. ToSet(out) = {out[x] : x \in 1..size}
    BY <1>16 DEF ToSet
  <2> QED
    BY <1>12, <1>13, <2>1
<1> QED
  BY <1>1, <1>16, <1>17, <1>18 DEF size

\* s is the n elements of arr from lo on, in order.
SortedPart(arr, s, lo, n) ==
  /\ s \in Seq(Element) /\ Len(s) = n /\ Strict(s)
  /\ ToSet(s) = {arr[x] : x \in lo..(lo + n - 1)}

\* The elements of an array carry the places at which they were listed.
Listed(arr) == arr \in Seq(Element) /\ \A x \in 1..Len(arr) : arr[x].tag = x

LEMMA ShortPart ==
  ASSUME NEW arr, Listed(arr), NEW n \in 0..Len(arr), n <= 1, NEW lo \in 1..(Len(arr) - n + 1)
  PROVE  SortedPart(arr, SubSeq(arr, lo, lo + n - 1), lo, n)
<1> DEFINE s == SubSeq(arr, lo, lo + n - 1)
           hi == lo + n - 1
<1>1. arr \in Seq(Element) /\ Len(arr) \in Nat
  BY DEF Listed
<1>2. lo \in 1..(Len(arr) + 1) /\ hi \in (lo - 1)..Len(arr) /\ hi - lo + 1 = n
  BY <1>1
<1>3. /\ s \in Seq(Element) /\ Len(s) = n
      /\ \A i \in 1..n : s[i] = arr[lo + i - 1]
  <2> HIDE DEF hi
  <2> QED
    BY <1>1, <1>2, SubSeqProperties DEF hi
<1> HIDE DEF s
<1>4. Strict(s)
  BY <1>3 DEF Strict
<1>5. ToSet(s) = {s[i] : i \in 1..n}
  BY <1>3 DEF ToSet
<1>6. {s[i] : i \in 1..n} = {arr[x] : x \in lo..hi}
  <2>1. CASE n = 0
    <3>1. \A x \in 1..0 : FALSE
      OBVIOUS
    <3>2. \A x \in lo..hi : FALSE
      BY <1>2, <2>1
    <3> QED
      BY <2>1, <3>1, <3>2
  <2>2. CASE n = 1
    <3>1. s[1] = arr[lo] /\ 1..n = {1} /\ lo..hi = {lo}
      BY <1>3, <2>2
    <3> QED
      BY <3>1
  <2>3. n = 0 \/ n = 1
    BY <1>1
  <2> HIDE DEF hi
  <2> QED
    BY <2>1, <2>2, <2>3
<1> QED
  BY <1>3, <1>4, <1>5, <1>6 DEF SortedPart, s

LEMMA PartsMerge ==
  ASSUME NEW arr, Listed(arr), NEW m \in Nat, NEW n \in Nat, NEW lo \in 1..(Len(arr) - (m + n) + 1),
         NEW l, NEW r, SortedPart(arr, l, lo, m), SortedPart(arr, r, lo + m, n)
  PROVE  SortedPart(arr, Merge(l, r), lo, m + n)
<1>1. /\ l \in Seq(Element) /\ Len(l) = m /\ Strict(l) /\ ToSet(l) = {arr[x] : x \in lo..(lo + m - 1)}
      /\ r \in Seq(Element) /\ Len(r) = n /\ Strict(r)
      /\ ToSet(r) = {arr[x] : x \in (lo + m)..((lo + m) + n - 1)}
  BY DEF SortedPart
<1>2. ASSUME NEW i \in 1..Len(l), NEW j \in 1..Len(r)
      PROVE  l[i].tag < r[j].tag
  <2>1. l[i] \in ToSet(l) /\ r[j] \in ToSet(r)
    BY <1>1 DEF ToSet
  <2>2. PICK x \in lo..(lo + m - 1) : l[i] = arr[x]
    BY <1>1, <2>1
  <2>3. PICK y \in (lo + m)..((lo + m) + n - 1) : r[j] = arr[y]
    BY <1>1, <2>1
  <2>4. Len(arr) \in Nat
    BY DEF Listed
  <2>5. lo \in Nat /\ lo >= 1 /\ lo <= Len(arr) - (m + n) + 1
    BY <2>4
  <2>6. x \in Int /\ lo <= x /\ x < lo + m
    BY <2>5
  <2>7. y \in Int /\ lo + m <= y /\ y < lo + m + n
    BY <2>5
  <2>8. x \in 1..Len(arr) /\ y \in 1..Len(arr) /\ x < y
    BY <2>4, <2>5, <2>6, <2>7
  <2> QED
    BY <2>2, <2>3, <2>8 DEF Listed
<1>3. Halves(l, r)
  BY <1>1, <1>2 DEF Halves
<1>4. {arr[x] : x \in lo..(lo + m - 1)} \cup {arr[x] : x \in (lo + m)..((lo + m) + n - 1)}
        = {arr[x] : x \in lo..(lo + (m + n) - 1)}
  <2>1. lo..(lo + (m + n) - 1) = (lo..(lo + m - 1)) \cup ((lo + m)..((lo + m) + n - 1))
    OBVIOUS
  <2> QED
    BY <2>1
<1> QED
  BY <1>1, <1>3, <1>4, MergeSorts DEF SortedPart

LEMMA MergeSortSorts ==
  ASSUME NEW arr, Listed(arr), Len(arr) >= 1
  PROVE  SortedPart(arr, MergeSort(arr), 1, Len(arr))
<1> DEFINE size == Len(arr)
           Def(f, n) == [lo \in 1..(size - n + 1) |->
                          IF n <= 1 THEN SubSeq(arr, lo, lo + n - 1)
                          ELSE Merge(f[n \div 2][lo], f[n - (n \div 2)][lo + (n \div 2)])]
           Fits(f, k) == f = [x \in 0..k |-> Def(f, x)]
           fit == {k \in Nat : \E f : Fits(f, k)}
           sorted == CHOOSE f : Fits(f, size)
<1>1. size \in Nat /\ MergeSort(arr) = sorted[size][1] /\ arr \in Seq(Element)
  BY DEF Listed, MergeSort
<1>half. \A n \in Nat : n > 1 => n \div 2 \in 0..(n-1) /\ n - (n \div 2) \in 0..(n-1)
                                 /\ (n \div 2) + (n - (n \div 2)) = n
  OBVIOUS
<1>same. ASSUME NEW n \in Nat, NEW f, NEW h, \A x \in 0..(n-1) : f[x] = h[x]
         PROVE  Def(f, n) = Def(h, n)
  <2>1. CASE n <= 1
    BY <2>1
  <2>2. CASE n > 1
    <3>1. f[n \div 2] = h[n \div 2] /\ f[n - (n \div 2)] = h[n - (n \div 2)]
      BY <1>half, <1>same, <2>2
    <3> QED
      BY <3>1
  <2> QED
    BY <2>1, <2>2
<1>2. Nat \subseteq fit
  <2>1. 0 \in fit
    <3> DEFINE g == [k \in 0..0 |-> Def(<<>>, 0)]
    <3>1. \A k \in 0..0 : k = 0 /\ g[k] = Def(<<>>, k)
      <4> HIDE DEF Def
      <4> QED
        OBVIOUS
    <3>2. \A x \in 0..(0 - 1) : FALSE
      OBVIOUS
    <3>3. Def(g, 0) = Def(<<>>, 0)
      <4> HIDE DEF g, Def
      <4> QED
        BY <3>2, <1>same
    <3>4. g = [k \in 0..0 |-> Def(g, k)]
      <4>1. \A k \in 0..0 : Def(<<>>, 0) = Def(g, k)
        <5> HIDE DEF g, Def
        <5> QED
          BY <3>1, <3>3
      <4> HIDE DEF Def
      <4> QED
        BY <4>1
    <3> HIDE DEF g, Def
    <3> QED
      BY <3>4
  <2>2. ASSUME NEW n \in Nat, n \in fit
        PROVE  n + 1 \in fit
    <3>1. PICK h : Fits(h, n)
      BY <2>2
    <3> DEFINE g == [k \in 0..(n+1) |-> IF k <= n THEN h[k] ELSE Def(h, k)]
    <3>2. \A k \in 0..n : h[k] = Def(h, k)
      <4> HIDE DEF Def
      <4> QED
        BY <3>1
    <3>3. \A k \in 0..(n+1) : g[k] = Def(g, k)
      <4> TAKE k \in 0..(n+1)
      <4>1. \A x \in 0..(k-1) : g[x] = h[x]
        <5> HIDE DEF Def
        <5> QED
          OBVIOUS
      <4>2. g[k] = Def(h, k)
        <5> HIDE DEF Def
        <5> QED
          BY <3>2
      <4>3. k \in Nat
        OBVIOUS
      <4> HIDE DEF g, Def
      <4>4. Def(g, k) = Def(h, k)
        BY <4>1, <4>3, <1>same
      <4> QED
        BY <4>2, <4>4
    <3>4. g = [k \in 0..(n+1) |-> Def(g, k)]
      <4>1. g = [k \in 0..(n+1) |-> g[k]]
        OBVIOUS
      <4> HIDE DEF g, Def
      <4> QED
        BY <4>1, <3>3
    <3>5. n + 1 \in Nat
      OBVIOUS
    <3> HIDE DEF g, Def
    <3>6. Fits(g, n + 1)
      BY <3>4
    <3> HIDE DEF Fits
    <3> QED
      BY <3>5, <3>6
  <2> HIDE DEF fit
  <2> QED
    BY <2>1, <2>2, EveryNatural
<1>3. Fits(sorted, size)
  <2>1. \E g : Fits(g, size)
    <3> HIDE DEF Fits
    <3> QED
      BY <1>1, <1>2
  <2> HIDE DEF Fits
  <2> QED
    BY <2>1
<1> HIDE DEF Def
<1>4. \A n \in 0..size : sorted[n] = Def(sorted, n)
  BY <1>3
<1> HIDE DEF sorted, fit, Fits
<1> DEFINE Right(n) == \A lo \in 1..(size - n + 1) : SortedPart(arr, sorted[n][lo], lo, n)
           right == {n \in Nat : \A m \in 0..n : m <= size => Right(m)}
<1>5. ASSUME NEW n \in 0..size, \A m \in 0..(n-1) : Right(m)
      PROVE  Right(n)
  <2> TAKE lo \in 1..(size - n + 1)
  <2>1. sorted[n][lo] = IF n <= 1 THEN SubSeq(arr, lo, lo + n - 1)
                        ELSE Merge(sorted[n \div 2][lo], sorted[n - (n \div 2)][lo + (n \div 2)])
    BY <1>4 DEF Def
  <2>2. CASE n <= 1
    BY <2>1, <2>2, ShortPart
  <2>3. CASE n > 1
    <3> DEFINE p == n \div 2
               q == n - (n \div 2)
    <3>1. p \in 0..(n-1) /\ q \in 0..(n-1) /\ p + q = n /\ p \in Nat /\ q \in Nat
      BY <1>half, <2>3
    <3>2. sorted[n][lo] = Merge(sorted[p][lo], sorted[q][lo + p])
      BY <2>1, <2>3
    <3> HIDE DEF p, q
    <3>3. lo \in 1..(size - p + 1) /\ lo + p \in 1..(size - q + 1) /\ lo \in 1..(size - (p + q) + 1)
      BY <1>1, <3>1
    <3>4. SortedPart(arr, sorted[p][lo], lo, p) /\ SortedPart(arr, sorted[q][lo + p], lo + p, q)
      BY <1>5, <3>1, <3>3
    <3>5. SortedPart(arr, Merge(sorted[p][lo], sorted[q][lo + p]), lo, p + q)
      BY <3>1, <3>3, <3>4, PartsMerge
    <3> QED
      BY <3>1, <3>2, <3>5
  <2> QED
    BY <2>2, <2>3
<1>6. Nat \subseteq right
  <2> HIDE DEF Right
  <2>1. 0 \in right
    <3>1. \A m \in 0..(0-1) : FALSE
      OBVIOUS
    <3>2. Right(0)
      BY <1>1, <1>5, <3>1
    <3> QED
      BY <3>2
  <2>2. ASSUME NEW n \in Nat, n \in right
        PROVE  n + 1 \in right
    <3>1. n + 1 <= size => Right(n + 1)
      BY <1>1, <1>5, <2>2
    <3> QED
      BY <2>2, <3>1
  <2> HIDE DEF right
  <2> QED
    BY <2>1, <2>2, EveryNatural
<1>7. Right(size)
  <2>1. size \in right /\ size \in 0..size
    BY <1>1, <1>6
  <2> HIDE DEF Right, size
  <2> QED
    BY <2>1
<1>8. 1 \in 1..(size - size + 1)
  BY <1>1
<1> QED
  BY <1>1, <1>7, <1>8

-----------------------------------------------------------------------------
(* Quick sort.  An array is a function on 1..N; every step rearranges a part *)
(* of it and leaves the rest alone.                                          *)

\* b is a with the elements from lo to hi rearranged among themselves.
Moves(a, b, lo, hi) ==
  /\ \A x \in lo..hi : \E y \in lo..hi : b[x] = a[y]
  /\ \A y \in lo..hi : \E x \in lo..hi : b[x] = a[y]
  /\ \A x \in DOMAIN a : x \notin lo..hi => b[x] = a[x]

OrderedIn(a, lo, hi) == \A x, y \in lo..hi : x < y => ~Above(a[x], a[y])

LEMMA GreatestNumber ==
  ASSUME NEW S, NEW n \in Int, S \subseteq Int, S # {}, \A x \in S : x <= n
  PROVE  Max(S) \in S /\ \A y \in S : y <= Max(S)
<1> DEFINE below == {n - x : x \in S}
<1>1. below \subseteq Nat /\ below # {}
  <2>1. below \subseteq Nat
    OBVIOUS
  <2>2. PICK x : x \in S
    OBVIOUS
  <2>3. n - x \in below
    BY <2>2
  <2> QED
    BY <2>1, <2>3
<1>2. PICK d \in below : \A e \in below : d <= e
  BY <1>1, LeastNatural
<1>3. n - d \in S /\ \A y \in S : n - d >= y
  <2>1. PICK x \in S : d = n - x
    BY <1>2
  <2>2. \A y \in S : d <= n - y
    BY <1>2
  <2> QED
    BY <2>1, <2>2
<1> QED
  BY <1>3 DEF Max

LEMMA DoublePower ==
  ASSUME NEW k \in Nat
  PROVE  2 ^ k \in Nat /\ 2 ^ (k + 1) = 2 * 2 ^ k
<1> DEFINE S == 1..k
           more == {t \cup {k + 1} : t \in SUBSET S}
           f == [t \in SUBSET S |-> t \cup {k + 1}]
<1>1. IsFiniteSet(S) /\ Cardinality(S) = k /\ IsFiniteSet(1..(k+1)) /\ Cardinality(1..(k+1)) = k + 1
  BY FS_Interval
<1>2. /\ IsFiniteSet(SUBSET S) /\ Cardinality(SUBSET S) = 2 ^ k
      /\ Cardinality(SUBSET (1..(k+1))) = 2 ^ (k + 1)
  <2> HIDE DEF S
  <2> QED
    BY <1>1, FS_SUBSET
<1>3. k + 1 \notin S /\ 1..(k+1) = S \cup {k + 1}
  OBVIOUS
<1> HIDE DEF S
<1>4. f \in Bijection(SUBSET S, more)
  <2>1. f \in [SUBSET S -> more] /\ \A y \in more : \E x \in SUBSET S : f[x] = y
    OBVIOUS
  <2>2. ASSUME NEW a \in SUBSET S, NEW b \in SUBSET S, f[a] = f[b]
        PROVE  a = b
    BY <1>3, <2>2
  <2> QED
    <3> HIDE DEF f, more
    <3>1. f \in Injection(SUBSET S, more)
      BY <2>1, <2>2 DEF Injection, IsInjective
    <3>2. f \in Surjection(SUBSET S, more)
      BY <2>1 DEF Surjection
    <3> QED
      BY <3>1, <3>2 DEF Bijection
<1>5. IsFiniteSet(more) /\ Cardinality(more) = Cardinality(SUBSET S)
  <2>1. ExistsBijection(SUBSET S, more)
    BY <1>4 DEF ExistsBijection
  <2> HIDE DEF more
  <2> QED
    BY <1>2, <2>1, FS_Bijection
<1>6. SUBSET (1..(k+1)) = (SUBSET S) \cup more
  <2>1. ASSUME NEW t \in SUBSET (1..(k+1))
        PROVE  t \in (SUBSET S) \cup more
    <3>1. CASE k + 1 \in t
      <4>1. t \ {k + 1} \in SUBSET S /\ (t \ {k + 1}) \cup {k + 1} = t
        BY <1>3, <3>1
      <4> QED
        BY <4>1
    <3>2. CASE k + 1 \notin t
      BY <1>3, <3>2
    <3> QED
      BY <3>1, <3>2
  <2>2. ASSUME NEW t \in (SUBSET S) \cup more
        PROVE  t \in SUBSET (1..(k+1))
    BY <1>3
  <2> QED
    BY <2>1, <2>2
<1>7. (SUBSET S) \cap more = {}
  BY <1>3
<1> DEFINE old == SUBSET S
<1> HIDE DEF more, f, old
<1>8. old \cap more = {} /\ IsFiniteSet(old) /\ SUBSET (1..(k+1)) = old \cup more
      /\ Cardinality(old) = 2 ^ k /\ Cardinality(more) = Cardinality(old)
  BY <1>2, <1>5, <1>6, <1>7 DEF old
<1>9. Cardinality(old \cup more) = Cardinality(old) + Cardinality(more) - Cardinality(old \cap more)
  BY <1>5, <1>8, FS_Union
<1>10. Cardinality(old \cap more) = 0 /\ Cardinality(old) \in Nat
  BY <1>8, FS_EmptySet, FS_CardinalityType
<1>11. 2 ^ (k + 1) = Cardinality(old \cup more)
  BY <1>2, <1>8
<1> QED
  BY <1>8, <1>9, <1>10, <1>11

LEMMA MovesThen ==
  ASSUME NEW N \in Nat, NEW a, NEW b, NEW c, DOMAIN a = 1..N, DOMAIN b = 1..N, NEW lo, NEW hi,
         Moves(a, b, lo, hi), Moves(b, c, lo, hi)
  PROVE  Moves(a, c, lo, hi)
<1>1. ASSUME NEW x \in lo..hi
      PROVE  \E y \in lo..hi : c[x] = a[y]
  <2>1. PICK z \in lo..hi : c[x] = b[z]
    BY DEF Moves
  <2>2. PICK y \in lo..hi : b[z] = a[y]
    BY DEF Moves
  <2> QED
    BY <2>1, <2>2
<1>2. ASSUME NEW y \in lo..hi
      PROVE  \E x \in lo..hi : c[x] = a[y]
  <2>1. PICK z \in lo..hi : b[z] = a[y]
    BY DEF Moves
  <2>2. PICK x \in lo..hi : c[x] = b[z]
    BY DEF Moves
  <2> QED
    BY <2>1, <2>2
<1> QED
  BY <1>1, <1>2 DEF Moves

LEMMA MovesWithin ==
  ASSUME NEW N \in Nat, NEW a, NEW b, DOMAIN a = 1..N, NEW lo \in 1..N, NEW hi \in 0..N,
         NEW first \in Int, NEW last \in Int, lo <= first, last <= hi, Moves(a, b, first, last)
  PROVE  Moves(a, b, lo, hi)
<1>1. \A x \in first..last : x \in lo..hi
  OBVIOUS
<1>2. \A x \in lo..hi : x \in DOMAIN a
  OBVIOUS
<1>3. ASSUME NEW x \in lo..hi
      PROVE  (\E y \in lo..hi : b[x] = a[y]) /\ (\E y \in lo..hi : b[y] = a[x])
  <2>1. CASE x \in first..last
    BY <1>1, <2>1 DEF Moves
  <2>2. CASE x \notin first..last
    BY <1>2, <2>2 DEF Moves
  <2> QED
    BY <2>1, <2>2
<1>4. ASSUME NEW x \in DOMAIN a, x \notin lo..hi
      PROVE  b[x] = a[x]
  BY <1>1, <1>4 DEF Moves
<1> QED
  BY <1>3, <1>4 DEF Moves

Swapped(N, a, b, i, j) ==
  b[i] = a[j] /\ b[j] = a[i] /\ \A x \in 1..N : x # i /\ x # j => b[x] = a[x]

LEMMA SwapMoves ==
  ASSUME NEW N \in Nat, NEW S, NEW a \in [1..N -> S], NEW lo \in 1..N, NEW hi \in 1..N,
         NEW i \in lo..hi, NEW j \in lo..hi
  PROVE  /\ Swap(a, i, j) \in [1..N -> S] /\ Moves(a, Swap(a, i, j), lo, hi)
         /\ Swapped(N, a, Swap(a, i, j), i, j)
<1> DEFINE b == Swap(a, i, j)
<1>1. i \in 1..N /\ j \in 1..N /\ \A x \in lo..hi : x \in 1..N
  OBVIOUS
<1>2. /\ b \in [1..N -> S] /\ b[j] = a[i] /\ b[i] = a[j]
      /\ \A x \in 1..N : x # i /\ x # j => b[x] = a[x]
  BY <1>1 DEF Swap
<1> HIDE DEF b
<1>3. ASSUME NEW x \in lo..hi
      PROVE  (\E y \in lo..hi : b[x] = a[y]) /\ (\E y \in lo..hi : b[y] = a[x])
  BY <1>1, <1>2
<1>4. ASSUME NEW x \in 1..N, x \notin lo..hi
      PROVE  b[x] = a[x]
  BY <1>2, <1>4
<1>5. DOMAIN a = 1..N
  OBVIOUS
<1> QED
  BY <1>2, <1>3, <1>4, <1>5 DEF Moves, Swapped, b

LEMMA AboveIsOneWay ==
  ASSUME NEW a \in Element, NEW b \in Element, Above(a, b)
  PROVE  ~Above(b, a)
BY DEF Above, Element

LEMMA NotAboveThen ==
  ASSUME NEW a \in Element, NEW b \in Element, NEW c \in Element, ~Above(a, b), ~Above(b, c)
  PROVE  ~Above(a, c)
BY DEF Above, Element

LEMMA SinkSorts ==
  ASSUME NEW N \in Nat, NEW S, S \subseteq Element, NEW a \in [1..N -> S],
         NEW lo \in 1..N, NEW i \in (lo + 1)..N, OrderedIn(a, lo, i - 1)
  PROVE  /\ SinkLeft(a, lo, i) \in [1..N -> S] /\ Moves(a, SinkLeft(a, lo, i), lo, i)
         /\ OrderedIn(SinkLeft(a, lo, i), lo, i)
<1> DEFINE stops == {lo - 1} \cup {x \in lo..(i - 1) : ~Above(a[x], a[i])}
           j == Max(stops)
           b == [x \in 1..N |-> IF x = j + 1 THEN a[i]
                                ELSE IF x \in (j + 2)..i THEN a[x - 1] ELSE a[x]]
<1>1. SinkLeft(a, lo, i) = b
  <2>1. DOMAIN a = 1..N
    OBVIOUS
  <2> HIDE DEF stops
  <2> QED
    BY <2>1 DEF SinkLeft, stops
<1>2. j \in stops /\ \A x \in stops : x <= j
  <2>1. stops \subseteq Int /\ lo - 1 \in stops /\ \A x \in stops : x <= i
    OBVIOUS
  <2> HIDE DEF stops
  <2>2. stops # {} /\ i \in Int
    BY <2>1
  <2> QED
    BY <2>1, <2>2, GreatestNumber
<1>3. /\ j \in (lo - 1)..(i - 1) /\ (j >= lo => ~Above(a[j], a[i]))
      /\ \A x \in (j + 1)..(i - 1) : Above(a[x], a[i])
  <2> DEFINE m == j
  <2>1. m \in stops /\ \A x \in stops : x <= m
    BY <1>2
  <2> HIDE DEF m
  <2>2. m \in (lo - 1)..(i - 1) /\ (m >= lo => ~Above(a[m], a[i]))
    BY <2>1
  <2>3. ASSUME NEW x \in (m + 1)..(i - 1)
        PROVE  Above(a[x], a[i])
    <3>1. x \in lo..(i - 1) /\ ~(x <= m)
      BY <2>2
    <3> QED
      BY <2>1, <3>1
  <2> QED
    BY <2>2, <2>3 DEF m
<1> HIDE DEF j
<1>4. /\ \A x \in 1..N : x <= j => b[x] = a[x]
      /\ b[j + 1] = a[i]
      /\ \A x \in (j + 2)..i : b[x] = a[x - 1]
      /\ \A x \in 1..N : x > i => b[x] = a[x]
      /\ b \in [1..N -> S]
  <2>1. j + 1 \in 1..N /\ i \in 1..N /\ \A x \in (j + 2)..i : x \in 1..N /\ x - 1 \in 1..N /\ x # j + 1
    BY <1>3
  <2>2. b \in [1..N -> S]
    BY <1>3, <2>1
  <2> QED
    BY <1>3, <2>1, <2>2
<1> HIDE DEF b
<1>5. \A x \in lo..i : x <= j \/ x = j + 1 \/ (x \in (j + 2)..i /\ x - 1 \in (j + 1)..(i - 1))
  BY <1>3
<1>6. \A x \in lo..i : x \in 1..N /\ a[x] \in Element
  OBVIOUS
<1>7. ASSUME NEW x \in lo..i
      PROVE  (\E y \in lo..i : b[x] = a[y]) /\ (\E y \in lo..i : b[y] = a[x])
  <2>1. CASE x <= j
    BY <1>4, <1>6, <2>1
  <2>2. \E y \in lo..i : b[x] = a[y]
    <3>1. CASE x = j + 1
      BY <1>4, <3>1
    <3>2. CASE x \in (j + 2)..i
      <4>1. x - 1 \in lo..i
        BY <1>3, <3>2
      <4> QED
        BY <1>4, <3>2, <4>1
    <3> QED
      BY <1>5, <2>1, <3>1, <3>2
  <2>3. \E y \in lo..i : b[y] = a[x]
    <3>1. CASE x = i
      <4>1. j + 1 \in lo..i
        BY <1>3
      <4> QED
        BY <1>4, <3>1, <4>1
    <3>2. CASE x # i /\ x > j
      <4>1. x + 1 \in (j + 2)..i /\ x + 1 \in lo..i /\ (x + 1) - 1 = x
        BY <1>3, <3>2
      <4> QED
        BY <1>4, <4>1
    <3> QED
      BY <1>3, <2>1, <3>1, <3>2
  <2> QED
    BY <2>2, <2>3
<1>8. Moves(a, b, lo, i)
  <2>1. ASSUME NEW x \in DOMAIN a, x \notin lo..i
        PROVE  b[x] = a[x]
    <3>1. x \in 1..N /\ (x <= j \/ x > i)
      BY <1>3, <2>1
    <3> QED
      BY <1>4, <3>1
  <2> QED
    BY <1>7, <2>1 DEF Moves
<1>9. ASSUME NEW x \in lo..i, NEW y \in lo..i, x < y
      PROVE  ~Above(b[x], b[y])
  <2>1. CASE x <= j /\ y <= j
    <3>1. x \in lo..(i - 1) /\ y \in lo..(i - 1) /\ b[x] = a[x] /\ b[y] = a[y]
      BY <1>3, <1>4, <1>6, <2>1
    <3> QED
      BY <1>9, <3>1 DEF OrderedIn
  <2>2. CASE x <= j /\ y = j + 1
    <3>1. j \in lo..(i - 1) /\ x \in lo..(i - 1) /\ ~Above(a[j], a[i]) /\ b[x] = a[x] /\ b[y] = a[i]
      BY <1>3, <1>4, <1>6, <2>2
    <3>2. x = j \/ ~Above(a[x], a[j])
      BY <2>2, <3>1 DEF OrderedIn
    <3>3. a[x] \in Element /\ a[j] \in Element /\ a[i] \in Element
      <4>1. j \in lo..i /\ i \in lo..i
        BY <3>1
      <4> QED
        BY <1>6, <4>1
    <3> QED
      BY <3>1, <3>2, <3>3, NotAboveThen
  <2>3. CASE x <= j /\ y \in (j + 2)..i
    <3>1. x \in lo..(i - 1) /\ y - 1 \in lo..(i - 1) /\ x < y - 1 /\ b[x] = a[x] /\ b[y] = a[y - 1]
      BY <1>3, <1>4, <1>6, <2>3
    <3> QED
      BY <3>1 DEF OrderedIn
  <2>4. CASE x = j + 1
    <3>1. y \in (j + 2)..i /\ y - 1 \in (j + 1)..(i - 1) /\ y - 1 \in lo..i /\ i \in lo..i
      BY <1>3, <1>9, <2>4
    <3>2. Above(a[y - 1], a[i]) /\ b[x] = a[i] /\ b[y] = a[y - 1]
      BY <1>3, <1>4, <2>4, <3>1
    <3>3. a[i] \in Element /\ a[y - 1] \in Element
      BY <1>6, <3>1
    <3> QED
      BY <3>2, <3>3, AboveIsOneWay
  <2>5. CASE x \in (j + 2)..i
    <3>1. y \in (j + 2)..i /\ x - 1 \in lo..(i - 1) /\ y - 1 \in lo..(i - 1) /\ x - 1 < y - 1
      BY <1>3, <1>9, <2>5
    <3>2. b[x] = a[x - 1] /\ b[y] = a[y - 1]
      BY <1>4, <2>5, <3>1
    <3> QED
      BY <3>1, <3>2 DEF OrderedIn
  <2> QED
    BY <1>3, <1>5, <2>1, <2>2, <2>3, <2>4, <2>5
<1>10. OrderedIn(b, lo, i)
  BY <1>9 DEF OrderedIn
<1> QED
  BY <1>1, <1>4, <1>8, <1>10

LEMMA InsertionSorts ==
  ASSUME NEW N \in Nat, NEW S, S \subseteq Element, NEW arr \in [1..N -> S],
         NEW lo \in 1..N, NEW hi \in lo..N
  PROVE  /\ InsertionSort(arr, lo, hi) \in [1..N -> S] /\ Moves(arr, InsertionSort(arr, lo, hi), lo, hi)
         /\ OrderedIn(InsertionSort(arr, lo, hi), lo, hi)
<1> DEFINE size == hi - lo
           Def(f, k) == IF k = 0 THEN arr ELSE SinkLeft(f[k-1], lo, lo + k)
           Fits(f, k) == f = [x \in 0..k |-> Def(f, x)]
           fit == {k \in Nat : \E f : Fits(f, k)}
           sunk == CHOOSE f : Fits(f, size)
<1>1. size \in Nat /\ InsertionSort(arr, lo, hi) = sunk[size]
  BY DEF InsertionSort
<1>2. Nat \subseteq fit
  <2>1. 0 \in fit
    <3>1. \A k \in 0..0 : k = 0
      OBVIOUS
    <3>2. Fits([k \in 0..0 |-> arr], 0)
      BY <3>1
    <3> QED
      BY <3>2
  <2>2. ASSUME NEW n \in Nat, n \in fit
        PROVE  n + 1 \in fit
    <3>1. PICK h : Fits(h, n)
      BY <2>2
    <3> DEFINE g == [k \in 0..(n+1) |-> IF k <= n THEN h[k] ELSE Def(h, k)]
    <3>2. \A k \in 0..n : h[k] = Def(h, k)
      BY <3>1
    <3>3. \A k \in 0..(n+1) : g[k] = Def(g, k)
      <4> TAKE k \in 0..(n+1)
      <4>1. CASE k = 0
        <5>1. g[k] = h[k] /\ k \in 0..n
          BY <4>1
        <5> QED
          BY <3>2, <4>1, <5>1
      <4>2. CASE k # 0
        <5>1. k - 1 \in 0..(n+1) /\ k - 1 <= n /\ k - 1 \in 0..n
          BY <4>2
        <5>2. g[k-1] = h[k-1]
          BY <5>1
        <5>3. Def(g, k) = Def(h, k)
          BY <5>2
        <5>4. g[k] = Def(h, k)
          BY <3>2
        <5> QED
          BY <5>3, <5>4
      <4> QED
        BY <4>1, <4>2
    <3>4. g = [k \in 0..(n+1) |-> Def(g, k)]
      <4>1. g = [k \in 0..(n+1) |-> g[k]]
        OBVIOUS
      <4> HIDE DEF g, Def
      <4> QED
        BY <4>1, <3>3
    <3>5. n + 1 \in Nat
      OBVIOUS
    <3> HIDE DEF g, Def
    <3>6. Fits(g, n + 1)
      BY <3>4
    <3> HIDE DEF Fits
    <3> QED
      BY <3>5, <3>6
  <2> HIDE DEF fit
  <2> QED
    BY <2>1, <2>2, EveryNatural
<1>3. Fits(sunk, size)
  <2>1. \E g : Fits(g, size)
    BY <1>1, <1>2
  <2> HIDE DEF Fits
  <2> QED
    BY <2>1
<1>4. \A n \in 0..size : sunk[n] = Def(sunk, n)
  BY <1>3
<1> HIDE DEF sunk, fit, Fits
<1> DEFINE Done(k) == /\ sunk[k] \in [1..N -> S] /\ Moves(arr, sunk[k], lo, lo + k)
                      /\ OrderedIn(sunk[k], lo, lo + k)
           done == {k \in Nat : k <= size => Done(k)}
<1>5. Nat \subseteq done
  <2>1. 0 \in done
    <3>1. sunk[0] = arr
      <4>1. 0 \in 0..size
        BY <1>1
      <4> QED
        BY <1>4, <4>1
    <3>2. Moves(arr, arr, lo, lo + 0) /\ OrderedIn(arr, lo, lo + 0)
      BY DEF Moves, OrderedIn
    <3> QED
      BY <3>1, <3>2
  <2>2. ASSUME NEW k \in Nat, k \in done
        PROVE  k + 1 \in done
    <3> SUFFICES ASSUME k + 1 <= size PROVE Done(k + 1)
      OBVIOUS
    <3>1. Done(k)
      BY <1>1, <2>2
    <3>2. sunk[k+1] = SinkLeft(sunk[k], lo, lo + (k + 1))
      <4>1. k + 1 \in 0..size /\ k + 1 # 0 /\ (k + 1) - 1 = k
        BY <1>1
      <4>2. sunk[k+1] = Def(sunk, k + 1)
        <5> HIDE DEF Def
        <5> QED
          BY <1>4, <4>1
      <4> QED
        BY <4>1, <4>2
    <3> DEFINE i == lo + (k + 1)
               c == sunk[k]
               d == sunk[k+1]
    <3>3. i \in (lo + 1)..N /\ i - 1 = lo + k /\ i \in 1..N /\ lo <= i
      BY <1>1
    <3>4. c \in [1..N -> S] /\ Moves(arr, c, lo, lo + k) /\ OrderedIn(c, lo, i - 1) /\ d = SinkLeft(c, lo, i)
      BY <3>1, <3>2, <3>3
    <3> HIDE DEF i, c, d
    <3>5. d \in [1..N -> S] /\ Moves(c, d, lo, i) /\ OrderedIn(d, lo, i)
      BY <3>3, <3>4, SinkSorts
    <3>6. Moves(arr, c, lo, i)
      <4>1. DOMAIN arr = 1..N /\ lo + k \in Int /\ lo + k <= i /\ i \in 0..N /\ lo \in Int /\ lo <= lo
        BY <3>3
      <4> QED
        BY <3>4, <4>1, MovesWithin
    <3>7. Moves(arr, d, lo, i)
      <4>1. DOMAIN arr = 1..N /\ DOMAIN c = 1..N
        BY <3>4
      <4> QED
        BY <3>5, <3>6, <4>1, MovesThen
    <3> QED
      BY <3>5, <3>7 DEF i, d
  <2> HIDE DEF done
  <2> QED
    BY <2>1, <2>2, EveryNatural
<1>6. Done(size)
  <2> HIDE DEF Done
  <2> QED
    BY <1>1, <1>5
<1>7. lo + size = hi
  OBVIOUS
<1> QED
  BY <1>1, <1>6, <1>7

LEMMA MedianMoves ==
  ASSUME NEW N \in Nat, NEW S, NEW a \in [1..N -> S], NEW lo \in 1..N, NEW hi \in lo..N, NEW mid \in lo..hi
  PROVE  /\ MedianOfThree(a, lo, mid, hi) \in [1..N -> S]
         /\ Moves(a, MedianOfThree(a, lo, mid, hi), lo, hi)
<1> DEFINE Order(c, i, j) == IF Above(c[i], c[j]) THEN Swap(c, i, j) ELSE c
           b == Order(a, lo, mid)
           c == Order(b, lo, hi)
           d == Order(c, mid, hi)
<1>1. lo \in lo..hi /\ hi \in lo..hi /\ hi \in 1..N
  OBVIOUS
<1>2. ASSUME NEW f \in [1..N -> S], NEW i \in lo..hi, NEW j \in lo..hi
      PROVE  Order(f, i, j) \in [1..N -> S] /\ Moves(f, Order(f, i, j), lo, hi)
  <2>1. Swap(f, i, j) \in [1..N -> S] /\ Moves(f, Swap(f, i, j), lo, hi)
    BY <1>1, SwapMoves
  <2>2. Moves(f, f, lo, hi)
    BY DEF Moves
  <2> QED
    BY <2>1, <2>2
<1>3. MedianOfThree(a, lo, mid, hi) = d
  BY DEF MedianOfThree
<1> HIDE DEF Order
<1>4. b \in [1..N -> S] /\ Moves(a, b, lo, hi)
  BY <1>1, <1>2
<1> HIDE DEF b
<1>5. c \in [1..N -> S] /\ Moves(b, c, lo, hi)
  BY <1>1, <1>2, <1>4
<1> HIDE DEF c
<1>6. d \in [1..N -> S] /\ Moves(c, d, lo, hi)
  BY <1>1, <1>2, <1>5
<1> HIDE DEF d
<1>7. DOMAIN a = 1..N /\ DOMAIN b = 1..N /\ DOMAIN c = 1..N
  BY <1>4, <1>5
<1>8. Moves(a, c, lo, hi)
  BY <1>4, <1>5, <1>7, MovesThen
<1>9. Moves(a, d, lo, hi)
  BY <1>6, <1>7, <1>8, MovesThen
<1> QED
  BY <1>3, <1>6, <1>9

\* After k rounds of the scan: what is not above the pivot, at hi, ends at i.
Scanned(N, S, a, lo, hi, c, i, k) ==
  /\ c \in [1..N -> S] /\ Moves(a, c, lo, hi) /\ c[hi] = a[hi]
  /\ i \in (lo - 1)..(lo + k - 1)
  /\ \A x \in lo..i : ~Above(c[x], a[hi])
  /\ \A x \in (i + 1)..(lo + k - 1) : Above(c[x], a[hi])

LEMMA ScanPasses ==
  ASSUME NEW N \in Nat, NEW S, NEW a, NEW lo \in 1..N, NEW hi \in lo..N, NEW k \in Nat, k < hi - lo,
         NEW c, NEW i, Scanned(N, S, a, lo, hi, c, i, k), Above(c[lo + k], a[hi])
  PROVE  Scanned(N, S, a, lo, hi, c, i, k + 1)
<1>1. \A x \in (i + 1)..(lo + (k + 1) - 1) : x = lo + k \/ x \in (i + 1)..(lo + k - 1)
  BY DEF Scanned
<1>2. i \in (lo - 1)..(lo + (k + 1) - 1)
  BY DEF Scanned
<1>3. ASSUME NEW x \in (i + 1)..(lo + (k + 1) - 1)
      PROVE  Above(c[x], a[hi])
  BY <1>1 DEF Scanned
<1> QED
  BY <1>2, <1>3 DEF Scanned

LEMMA ScanMoves ==
  ASSUME NEW N \in Nat, NEW S, NEW a, DOMAIN a = 1..N, NEW lo \in 1..N, NEW hi \in lo..N,
         NEW k \in Nat, k < hi - lo,
         NEW c, NEW i, Scanned(N, S, a, lo, hi, c, i, k), ~Above(c[lo + k], a[hi])
  PROVE  Scanned(N, S, a, lo, hi, Swap(c, i + 1, lo + k), i + 1, k + 1)
<1> DEFINE q == lo + k
           d == Swap(c, i + 1, q)
<1>1. /\ c \in [1..N -> S] /\ Moves(a, c, lo, hi) /\ c[hi] = a[hi] /\ i \in (lo - 1)..(q - 1)
      /\ \A x \in lo..i : ~Above(c[x], a[hi])
      /\ \A x \in (i + 1)..(q - 1) : Above(c[x], a[hi])
      /\ ~Above(c[q], a[hi])
  BY DEF Scanned
<1>2. q \in lo..(hi - 1) /\ lo + (k + 1) - 1 = q
  OBVIOUS
<1> HIDE DEF q
<1>3. i + 1 \in lo..hi /\ q \in lo..hi /\ hi \in 1..N /\ i + 1 <= q
  BY <1>1, <1>2
<1>4. /\ d \in [1..N -> S] /\ Moves(c, d, lo, hi) /\ d[q] = c[i+1] /\ d[i+1] = c[q]
      /\ \A x \in 1..N : x # i + 1 /\ x # q => d[x] = c[x]
  <2> DEFINE p == i + 1
  <2>1. p \in lo..hi
    BY <1>3
  <2> HIDE DEF p
  <2>2. /\ Swap(c, p, q) \in [1..N -> S] /\ Moves(c, Swap(c, p, q), lo, hi)
        /\ Swapped(N, c, Swap(c, p, q), p, q)
    <3>1. c \in [1..N -> S] /\ lo \in 1..N /\ hi \in 1..N /\ q \in lo..hi
      BY <1>1, <1>3
    <3> QED
      BY <2>1, <3>1, SwapMoves
  <2> QED
    BY <2>2 DEF p, Swapped
<1> HIDE DEF d
<1>5. Moves(a, d, lo, hi)
  <2>1. DOMAIN c = 1..N
    BY <1>1
  <2> QED
    BY <1>1, <1>4, <2>1, MovesThen
<1>6. d[hi] = a[hi]
  <2>1. hi # i + 1 /\ hi # q /\ hi \in 1..N
    BY <1>2, <1>3
  <2> QED
    BY <1>1, <1>4, <2>1
<1>7. ASSUME NEW x \in lo..(i + 1)
      PROVE  ~Above(d[x], a[hi])
  <2>1. CASE x = i + 1
    BY <1>1, <1>4, <2>1
  <2>2. CASE x # i + 1
    <3>1. x \in lo..i /\ x # q /\ x \in 1..N
      BY <1>1, <1>2, <1>3, <2>2
    <3> QED
      BY <1>1, <1>4, <2>2, <3>1
  <2> QED
    BY <2>1, <2>2
<1>8. ASSUME NEW x \in ((i + 1) + 1)..q
      PROVE  Above(d[x], a[hi])
  <2>1. CASE x = q
    <3>1. i + 1 \in (i + 1)..(q - 1)
      BY <1>1, <1>2, <2>1
    <3> QED
      BY <1>1, <1>4, <2>1, <3>1
  <2>2. CASE x # q
    <3>1. x \in (i + 1)..(q - 1) /\ x # i + 1 /\ x \in 1..N
      BY <1>1, <1>2, <1>3, <2>2
    <3> QED
      BY <1>1, <1>4, <2>2, <3>1
  <2> QED
    BY <2>1, <2>2
<1>9. i + 1 \in (lo - 1)..q
  BY <1>1, <1>2
<1>10. Scanned(N, S, a, lo, hi, d, i + 1, k + 1)
  BY <1>2, <1>4, <1>5, <1>6, <1>7, <1>8, <1>9 DEF Scanned
<1> QED
  BY <1>10 DEF d, q

\* Nothing before p is above it, nothing after p is below it.
Around(b, lo, p, hi) ==
  /\ \A x \in lo..(p - 1) : ~Above(b[x], b[p])
  /\ \A x \in (p + 1)..hi : ~Above(b[p], b[x])

LEMMA PartitionSplits ==
  ASSUME NEW N \in Nat, NEW S, S \subseteq Element, NEW arr \in [1..N -> S],
         NEW lo \in 1..N, NEW hi \in 1..N, lo < hi
  PROVE  LET s == Partition(arr, lo, hi)
         IN  s.a \in [1..N -> S] /\ s.p \in lo..hi /\ Moves(arr, s.a, lo, hi) /\ Around(s.a, lo, s.p, hi)
<1> DEFINE mid == lo + ((hi - lo) \div 2)
           med == MedianOfThree(arr, lo, mid, hi)
           a == Swap(med, mid, hi)
           size == hi - lo
           Def(f, k) == IF k = 0 THEN [a |-> a, i |-> lo - 1]
                        ELSE LET s == f[k-1]
                             IN  IF Above(s.a[lo + k - 1], a[hi]) THEN s
                                 ELSE [a |-> Swap(s.a, s.i + 1, lo + k - 1), i |-> s.i + 1]
           Fits(f, k) == f = [x \in 0..k |-> Def(f, x)]
           fit == {k \in Nat : \E f : Fits(f, k)}
           scanned == CHOOSE f : Fits(f, size)
           last == scanned[size]
<1>1. size \in Nat /\ hi \in lo..N
  OBVIOUS
<1>whole. Partition(arr, lo, hi) = [a |-> Swap(last.a, last.i + 1, hi), p |-> last.i + 1]
  BY DEF Partition
<1>mid. mid \in lo..hi /\ hi \in lo..hi
  OBVIOUS
<1> HIDE DEF mid
<1>med. med \in [1..N -> S] /\ Moves(arr, med, lo, hi)
  BY <1>1, <1>mid, MedianMoves
<1> HIDE DEF med
<1>start. a \in [1..N -> S] /\ Moves(arr, a, lo, hi)
  <2>1. a \in [1..N -> S] /\ Moves(med, a, lo, hi)
    BY <1>mid, <1>med, SwapMoves
  <2> HIDE DEF a
  <2>2. DOMAIN arr = 1..N /\ DOMAIN med = 1..N
    BY <1>med
  <2> QED
    BY <1>med, <2>1, <2>2, MovesThen
<1> HIDE DEF a
<1>2. Nat \subseteq fit
  <2>1. 0 \in fit
    <3>1. \A k \in 0..0 : k = 0
      OBVIOUS
    <3>2. Fits([k \in 0..0 |-> [a |-> a, i |-> lo - 1]], 0)
      BY <3>1
    <3> QED
      BY <3>2
  <2>2. ASSUME NEW n \in Nat, n \in fit
        PROVE  n + 1 \in fit
    <3>1. PICK h : Fits(h, n)
      BY <2>2
    <3> DEFINE g == [k \in 0..(n+1) |-> IF k <= n THEN h[k] ELSE Def(h, k)]
    <3>2. \A k \in 0..n : h[k] = Def(h, k)
      BY <3>1
    <3>3. \A k \in 0..(n+1) : g[k] = Def(g, k)
      <4> TAKE k \in 0..(n+1)
      <4>1. CASE k = 0
        <5>1. g[k] = h[k] /\ k \in 0..n
          BY <4>1
        <5> QED
          BY <3>2, <4>1, <5>1
      <4>2. CASE k # 0
        <5>1. k - 1 \in 0..(n+1) /\ k - 1 <= n /\ k - 1 \in 0..n
          BY <4>2
        <5>2. g[k-1] = h[k-1]
          BY <5>1
        <5>3. Def(g, k) = Def(h, k)
          BY <5>2
        <5>4. g[k] = Def(h, k)
          BY <3>2
        <5> QED
          BY <5>3, <5>4
      <4> QED
        BY <4>1, <4>2
    <3>4. g = [k \in 0..(n+1) |-> Def(g, k)]
      <4>1. g = [k \in 0..(n+1) |-> g[k]]
        OBVIOUS
      <4> HIDE DEF g, Def
      <4> QED
        BY <4>1, <3>3
    <3>5. n + 1 \in Nat
      OBVIOUS
    <3> HIDE DEF g, Def
    <3>6. Fits(g, n + 1)
      BY <3>4
    <3> HIDE DEF Fits
    <3> QED
      BY <3>5, <3>6
  <2> HIDE DEF fit
  <2> QED
    BY <2>1, <2>2, EveryNatural
<1>3. Fits(scanned, size)
  <2>1. \E g : Fits(g, size)
    BY <1>1, <1>2
  <2> HIDE DEF Fits
  <2> QED
    BY <2>1
<1>4. \A n \in 0..size : scanned[n] = Def(scanned, n)
  BY <1>3
<1> HIDE DEF scanned, fit, Fits
<1> DEFINE Good(k) == Scanned(N, S, a, lo, hi, scanned[k].a, scanned[k].i, k)
           good == {k \in Nat : k <= size => Good(k)}
<1>5. Nat \subseteq good
  <2>1. 0 \in good
    <3>1. scanned[0] = [a |-> a, i |-> lo - 1]
      <4>1. 0 \in 0..size
        BY <1>1
      <4> QED
        BY <1>4, <4>1
    <3>2. scanned[0].a = a /\ scanned[0].i = lo - 1
      BY <3>1
    <3>3. Scanned(N, S, a, lo, hi, a, lo - 1, 0)
      <4>1. lo - 1 \in (lo - 1)..(lo + 0 - 1) /\ \A x \in lo..(lo - 1) : FALSE
        OBVIOUS
      <4>2. \A x \in ((lo - 1) + 1)..(lo + 0 - 1) : FALSE
        OBVIOUS
      <4>3. Moves(a, a, lo, hi)
        BY DEF Moves
      <4> QED
        BY <1>start, <4>1, <4>2, <4>3 DEF Scanned
    <3> QED
      BY <3>2, <3>3
  <2>2. ASSUME NEW k \in Nat, k \in good
        PROVE  k + 1 \in good
    <3> SUFFICES ASSUME k + 1 <= size PROVE Good(k + 1)
      OBVIOUS
    <3> DEFINE c == scanned[k].a
               i == scanned[k].i
    <3>1. Scanned(N, S, a, lo, hi, c, i, k) /\ k < hi - lo
      BY <1>1, <2>2
    <3>2. scanned[k+1] = IF Above(c[lo + k], a[hi]) THEN scanned[k]
                         ELSE [a |-> Swap(c, i + 1, lo + k), i |-> i + 1]
      <4>1. k + 1 \in 0..size /\ k + 1 # 0 /\ (k + 1) - 1 = k /\ lo + (k + 1) - 1 = lo + k
        BY <1>1
      <4>2. scanned[k+1] = Def(scanned, k + 1)
        <5> HIDE DEF Def
        <5> QED
          BY <1>4, <4>1
      <4> QED
        BY <4>1, <4>2
    <3>3. CASE Above(c[lo + k], a[hi])
      <4>1. scanned[k+1].a = c /\ scanned[k+1].i = i
        BY <3>2, <3>3
      <4> HIDE DEF c, i
      <4>2. Scanned(N, S, a, lo, hi, c, i, k + 1)
        BY <1>1, <3>1, <3>3, ScanPasses
      <4> QED
        BY <4>1, <4>2
    <3>4. CASE ~Above(c[lo + k], a[hi])
      <4>1. scanned[k+1].a = Swap(c, i + 1, lo + k) /\ scanned[k+1].i = i + 1
        BY <3>2, <3>4
      <4> HIDE DEF c, i
      <4>2. Scanned(N, S, a, lo, hi, Swap(c, i + 1, lo + k), i + 1, k + 1)
        BY <1>1, <1>start, <3>1, <3>4, ScanMoves
      <4> QED
        BY <4>1, <4>2
    <3> QED
      BY <3>3, <3>4
  <2> HIDE DEF good
  <2> QED
    BY <2>1, <2>2, EveryNatural
<1> DEFINE c == last.a
           p == last.i + 1
           d == Swap(c, p, hi)
<1>6. Scanned(N, S, a, lo, hi, c, last.i, size)
  <2>1. Good(size)
    <3> HIDE DEF Good
    <3> QED
      BY <1>1, <1>5
  <2> QED
    BY <2>1
<1>7. last.i \in (lo - 1)..(hi - 1) /\ lo + size - 1 = hi - 1 /\ last.i = p - 1
  BY <1>6 DEF Scanned
<1> HIDE DEF size, last
<1>8. /\ c \in [1..N -> S] /\ Moves(a, c, lo, hi) /\ c[hi] = a[hi] /\ p \in lo..hi
      /\ \A x \in lo..(p - 1) : ~Above(c[x], c[hi])
      /\ \A x \in p..(hi - 1) : Above(c[x], c[hi])
  <2>1. p \in lo..hi /\ last.i + 1 = p
    BY <1>7
  <2> HIDE DEF p, c
  <2> QED
    BY <1>6, <1>7, <2>1 DEF Scanned
<1> HIDE DEF c, p
<1>9. /\ d \in [1..N -> S] /\ Moves(c, d, lo, hi) /\ d[hi] = c[p] /\ d[p] = c[hi]
      /\ \A x \in 1..N : x # p /\ x # hi => d[x] = c[x]
  <2>1. /\ Swap(c, p, hi) \in [1..N -> S] /\ Moves(c, Swap(c, p, hi), lo, hi)
        /\ Swapped(N, c, Swap(c, p, hi), p, hi)
    <3>1. c \in [1..N -> S] /\ lo \in 1..N /\ hi \in 1..N /\ hi \in lo..hi /\ p \in lo..hi
      BY <1>mid, <1>8
    <3> QED
      BY <3>1, SwapMoves
  <2> QED
    BY <2>1 DEF Swapped
<1> HIDE DEF d
<1>10. Moves(arr, d, lo, hi)
  <2>1. DOMAIN arr = 1..N /\ DOMAIN a = 1..N /\ DOMAIN c = 1..N
    BY <1>start, <1>8
  <2>2. Moves(arr, c, lo, hi)
    BY <1>start, <1>8, <2>1, MovesThen
  <2> QED
    BY <1>9, <2>1, <2>2, MovesThen
<1>11. ASSUME NEW x \in lo..(p - 1)
       PROVE  ~Above(d[x], d[p])
  <2>1. x # p /\ x # hi /\ x \in 1..N
    BY <1>8
  <2> QED
    BY <1>8, <1>9, <2>1
<1>12. ASSUME NEW x \in (p + 1)..hi
       PROVE  ~Above(d[p], d[x])
  <2>1. Above(d[x], d[p])
    <3>1. CASE x = hi
      <4>1. p \in p..(hi - 1)
        BY <1>8, <3>1
      <4> QED
        BY <1>8, <1>9, <3>1, <4>1
    <3>2. CASE x # hi
      <4>1. x # p /\ x \in 1..N /\ x \in p..(hi - 1)
        BY <1>8, <3>2
      <4> QED
        BY <1>8, <1>9, <3>2, <4>1
    <3> QED
      BY <3>1, <3>2
  <2>2. x \in 1..N /\ p \in 1..N
    BY <1>8
  <2>3. d[x] \in Element /\ d[p] \in Element
    BY <1>9, <2>2
  <2> QED
    BY <2>1, <2>3, AboveIsOneWay
<1>13. Partition(arr, lo, hi) = [a |-> d, p |-> p]
  BY <1>whole DEF d, c, p
<1>14. Partition(arr, lo, hi).a = d /\ Partition(arr, lo, hi).p = p
  BY <1>13
<1>15. Around(d, lo, p, hi)
  BY <1>11, <1>12 DEF Around
<1> QED
  BY <1>8, <1>9, <1>10, <1>14, <1>15

LEMMA AroundStays ==
  ASSUME NEW N \in Nat, NEW S, S \subseteq Element, NEW b \in [1..N -> S], NEW c,
         NEW lo \in 1..N, NEW hi \in 1..N, NEW p \in lo..hi, Around(b, lo, p, hi),
         NEW first, NEW last, Moves(b, c, first, last),
         (first = lo /\ last = p - 1) \/ (first = p + 1 /\ last = hi)
  PROVE  Around(c, lo, p, hi)
<1>1. c[p] = b[p] /\ p \in 1..N
  BY DEF Moves
<1>2. ASSUME NEW x \in lo..(p - 1)
      PROVE  ~Above(c[x], c[p])
  <2>1. CASE first = lo /\ last = p - 1
    <3>1. PICK y \in lo..(p - 1) : c[x] = b[y]
      BY <2>1 DEF Moves
    <3> QED
      BY <1>1, <3>1 DEF Around
  <2>2. CASE first = p + 1 /\ last = hi
    <3>1. x \in 1..N /\ x \notin first..last
      BY <2>2
    <3>2. c[x] = b[x]
      BY <3>1 DEF Moves
    <3> QED
      BY <1>1, <3>2 DEF Around
  <2> QED
    BY <2>1, <2>2
<1>3. ASSUME NEW x \in (p + 1)..hi
      PROVE  ~Above(c[p], c[x])
  <2>1. CASE first = p + 1 /\ last = hi
    <3>1. PICK y \in (p + 1)..hi : c[x] = b[y]
      BY <2>1 DEF Moves
    <3> QED
      BY <1>1, <3>1 DEF Around
  <2>2. CASE first = lo /\ last = p - 1
    <3>1. x \in 1..N /\ x \notin first..last
      BY <2>2
    <3>2. c[x] = b[x]
      BY <3>1 DEF Moves
    <3> QED
      BY <1>1, <3>2 DEF Around
  <2> QED
    BY <2>1, <2>2
<1> QED
  BY <1>2, <1>3 DEF Around

LEMMA OrderStays ==
  ASSUME NEW N \in Nat, NEW b, DOMAIN b = 1..N, NEW c, NEW lo \in Int, NEW hi \in Int, 1 <= lo, hi <= N,
         OrderedIn(b, lo, hi), NEW first \in Int, NEW last \in Int, Moves(b, c, first, last),
         hi < first \/ last < lo
  PROVE  OrderedIn(c, lo, hi)
<1>1. ASSUME NEW x \in lo..hi
      PROVE  c[x] = b[x]
  <2>1. x \in 1..N /\ x \notin first..last
    OBVIOUS
  <2> QED
    BY <2>1 DEF Moves
<1> QED
  BY <1>1 DEF OrderedIn

LEMMA JoinOrder ==
  ASSUME NEW N \in Nat, NEW S, S \subseteq Element, NEW c \in [1..N -> S],
         NEW lo \in 1..N, NEW hi \in 1..N, NEW p \in lo..hi, Around(c, lo, p, hi),
         OrderedIn(c, lo, p - 1), OrderedIn(c, p + 1, hi)
  PROVE  OrderedIn(c, lo, hi)
<1>1. ASSUME NEW x \in lo..hi, NEW y \in lo..hi, x < y
      PROVE  ~Above(c[x], c[y])
  <2>1. x \in 1..N /\ y \in 1..N /\ p \in 1..N
    OBVIOUS
  <2>2. c[x] \in Element /\ c[y] \in Element /\ c[p] \in Element
    BY <2>1
  <2>3. x < p => x \in lo..(p - 1) /\ ~Above(c[x], c[p])
    BY DEF Around
  <2>4. p < y => y \in (p + 1)..hi /\ ~Above(c[p], c[y])
    BY DEF Around
  <2>5. CASE x < p /\ y < p
    <3>1. y \in lo..(p - 1)
      BY <2>5
    <3> QED
      BY <1>1, <2>3, <2>5, <3>1 DEF OrderedIn
  <2>6. CASE p < x
    <3>1. x \in (p + 1)..hi /\ y \in (p + 1)..hi
      BY <1>1, <2>6
    <3> QED
      BY <1>1, <3>1 DEF OrderedIn
  <2>7. CASE x < p /\ p < y
    BY <2>2, <2>3, <2>4, <2>7, NotAboveThen
  <2>8. CASE x = p
    BY <1>1, <2>4, <2>8
  <2>9. CASE y = p
    BY <1>1, <2>3, <2>9
  <2>10. p \in Int /\ x \in Int /\ y \in Int
    OBVIOUS
  <2>11. (x < p /\ y < p) \/ p < x \/ (x < p /\ p < y) \/ x = p \/ y = p
    BY <2>10
  <2> QED
    BY <2>5, <2>6, <2>7, <2>8, <2>9, <2>11
<1> QED
  BY <1>1 DEF OrderedIn

\* f..l and g..m are the two sides of p in lo..hi.
Sides(lo, p, hi, f, l, g, m) ==
  \/ f = lo /\ l = p - 1 /\ g = p + 1 /\ m = hi
  \/ g = lo /\ m = p - 1 /\ f = p + 1 /\ l = hi

\* A step from a to b has put f..l in order.
Sorts(N, S, a, b, f, l) ==
  /\ a \in [1..N -> S] /\ b \in [1..N -> S] /\ f \in Int /\ l \in Int
  /\ Moves(a, b, f, l) /\ OrderedIn(b, f, l)

LEMMA SidesJoin ==
  ASSUME NEW N \in Nat, NEW S, S \subseteq Element, NEW b, NEW c, NEW d,
         NEW lo \in 1..N, NEW hi \in 1..N, NEW p \in lo..hi, Around(b, lo, p, hi),
         NEW f, NEW l, NEW g, NEW m, Sorts(N, S, b, c, f, l), Sorts(N, S, c, d, g, m),
         Sides(lo, p, hi, f, l, g, m)
  PROVE  Moves(b, d, lo, hi) /\ OrderedIn(d, lo, hi)
<1>0. /\ b \in [1..N -> S] /\ c \in [1..N -> S] /\ d \in [1..N -> S]
      /\ f \in Int /\ l \in Int /\ g \in Int /\ m \in Int
      /\ Moves(b, c, f, l) /\ OrderedIn(c, f, l) /\ Moves(c, d, g, m) /\ OrderedIn(d, g, m)
  BY DEF Sorts
<1>1. Around(c, lo, p, hi)
  <2>1. (f = lo /\ l = p - 1) \/ (f = p + 1 /\ l = hi)
    BY DEF Sides
  <2> QED
    BY <1>0, <2>1, AroundStays
<1>2. Around(d, lo, p, hi)
  <2>1. (g = lo /\ m = p - 1) \/ (g = p + 1 /\ m = hi)
    BY DEF Sides
  <2> QED
    BY <1>0, <1>1, <2>1, AroundStays
<1>3. /\ DOMAIN b = 1..N /\ DOMAIN c = 1..N /\ 1 <= f /\ l <= N /\ hi \in 0..N
      /\ lo <= f /\ l <= hi /\ lo <= g /\ m <= hi /\ (l < g \/ m < f)
  BY <1>0 DEF Sides
<1>4. OrderedIn(d, f, l)
  BY <1>0, <1>3, OrderStays
<1>5. OrderedIn(d, lo, p - 1) /\ OrderedIn(d, p + 1, hi)
  BY <1>0, <1>4 DEF Sides
<1>6. OrderedIn(d, lo, hi)
  BY <1>0, <1>2, <1>5, JoinOrder
<1>7. Moves(b, c, lo, hi)
  BY <1>0, <1>3, MovesWithin
<1>8. Moves(c, d, lo, hi)
  BY <1>0, <1>3, MovesWithin
<1> QED
  BY <1>0, <1>3, <1>6, <1>7, <1>8, MovesThen

LEMMA DepthJoins ==
  ASSUME NEW m \in Nat, NEW q \in Nat, m <= q, NEW d \in Nat \ {0}, NEW e \in Nat \ {0},
         2 ^ (d - 1) <= m + 1, 2 ^ (e - 1) <= q + 1
  PROVE  Max({1 + d, e}) \in Nat \ {0} /\ 2 ^ (Max({1 + d, e}) - 1) <= m + q + 2
<1> DEFINE t == Max({1 + d, e})
<1>1. t \in {1 + d, e}
  <2> DEFINE both == {1 + d, e}
  <2>1. both \subseteq Int /\ 1 + d \in both /\ 1 + d + e \in Int /\ \A x \in both : x <= 1 + d + e
    OBVIOUS
  <2> HIDE DEF both
  <2>2. both # {}
    BY <2>1
  <2>3. Max(both) \in both
    BY <2>1, <2>2, GreatestNumber
  <2> QED
    BY <2>3 DEF both
<1>2. 2 ^ (d - 1) \in Nat /\ 2 ^ ((d - 1) + 1) = 2 * 2 ^ (d - 1)
  <2>1. d - 1 \in Nat
    OBVIOUS
  <2> QED
    BY <2>1, DoublePower
<1>3. (1 + d) - 1 = (d - 1) + 1
  OBVIOUS
<1> HIDE DEF t
<1>4. CASE t = 1 + d
  <2>1. 2 ^ (t - 1) = 2 ^ ((d - 1) + 1)
    BY <1>3, <1>4
  <2> DEFINE u == 2 ^ (d - 1)
             v == 2 ^ (t - 1)
  <2>2. v = 2 * u /\ u \in Nat /\ u <= m + 1
    BY <1>2, <2>1
  <2> HIDE DEF u, v
  <2>3. v <= m + q + 2
    BY <2>2
  <2> QED
    BY <1>4, <2>3 DEF t, v
<1>5. CASE t = e
  <2> DEFINE v == 2 ^ (e - 1)
  <2>1. v <= q + 1 /\ v \in Nat
    <3>1. e - 1 \in Nat
      OBVIOUS
    <3> QED
      BY <3>1, DoublePower
  <2> HIDE DEF v
  <2>2. v <= m + q + 2
    BY <2>1
  <2> QED
    BY <1>5, <2>2 DEF t, v
<1> QED
  BY <1>1, <1>4, <1>5

\* r is what a call for the n elements of a from lo on returns.
QuickSorted(N, S, a, lo, n, r) ==
  /\ r.a \in [1..N -> S] /\ Moves(a, r.a, lo, lo + n - 1) /\ OrderedIn(r.a, lo, lo + n - 1)
  /\ r.depth \in Nat \ {0} /\ 2 ^ (r.depth - 1) <= n + 1

LEMMA LeafSorted ==
  ASSUME NEW N \in Nat, NEW S, NEW a \in [1..N -> S], NEW b \in [1..N -> S], NEW lo \in Int, NEW n \in Nat,
         Moves(a, b, lo, lo + n - 1), OrderedIn(b, lo, lo + n - 1)
  PROVE  QuickSorted(N, S, a, lo, n, [a |-> b, depth |-> 1])
<1> DEFINE r == [a |-> b, depth |-> 1]
<1>1. r.a = b /\ r.depth = 1 /\ r.depth - 1 = 0
  OBVIOUS
<1>2. 2 ^ 0 = 1 /\ 1 <= n + 1
  OBVIOUS
<1> HIDE DEF r
<1>3. QuickSorted(N, S, a, lo, n, r)
  BY <1>1, <1>2 DEF QuickSorted
<1> QED
  BY <1>3 DEF r

LEMMA QuickSorts ==
  ASSUME NEW arr \in Seq(Element), Len(arr) >= 1
  PROVE  QuickSorted(Len(arr), ToSet(arr), arr, 1, Len(arr), QuickSort(arr))
<1> DEFINE size == Len(arr)
           S == ToSet(arr)
           A == [DOMAIN arr -> S]
           Body(f, n, a, lo) ==
             LET hi    == lo + n - 1
                 s     == Partition(a, lo, hi)
                 left  == LeftIsSmaller(lo, s.p, hi)
                 small == IF left THEN f[s.p - lo][s.a][lo] ELSE f[hi - s.p][s.a][s.p + 1]
                 rest  == IF left THEN f[hi - s.p][small.a][s.p + 1] ELSE f[s.p - lo][small.a][lo]
             IN  IF lo >= hi THEN [a |-> a, depth |-> 1]
                 ELSE IF hi - lo < Cutoff THEN [a |-> InsertionSort(a, lo, hi), depth |-> 1]
                 ELSE [a |-> rest.a, depth |-> Max({1 + small.depth, rest.depth})]
           Def(f, n) == [a \in A |-> [lo \in 1..(size - n + 1) |-> Body(f, n, a, lo)]]
           Fits(f, k) == f = [x \in 0..k |-> Def(f, x)]
           fit == {k \in Nat : \E f : Fits(f, k)}
           sorted == CHOOSE f : Fits(f, size)
<1>1. size \in Nat /\ QuickSort(arr) = sorted[size][arr][1]
  BY DEF QuickSort
<1>size. size \in Nat
  OBVIOUS
<1>arr. A = [1..size -> S] /\ arr \in A /\ S \subseteq Element
  BY DEF ToSet
<1> HIDE DEF S, A
<1>split. ASSUME NEW n \in Nat, NEW a \in A, NEW lo \in 1..(size - n + 1), NEW hi, hi = lo + n - 1, lo < hi
          PROVE  LET s == Partition(a, lo, hi)
                 IN  /\ s.a \in A /\ s.p \in lo..hi /\ Moves(a, s.a, lo, hi) /\ Around(s.a, lo, s.p, hi)
                     /\ s.p - lo \in 0..(n-1) /\ hi - s.p \in 0..(n-1) /\ lo \in 1..size /\ hi \in 1..size
  <2> DEFINE s == Partition(a, lo, hi)
  <2>1. lo \in 1..size /\ hi \in 1..size /\ hi - lo = n - 1
    <3> HIDE DEF size
    <3>1. lo \in Int /\ n > 1 /\ lo >= 1 /\ lo <= size - n + 1
      BY <1>size, <1>split
    <3> QED
      BY <1>size, <1>split, <3>1
  <2>2. s.a \in A /\ s.p \in lo..hi /\ Moves(a, s.a, lo, hi) /\ Around(s.a, lo, s.p, hi)
    <3>1. a \in [1..size -> S]
      BY <1>arr
    <3> HIDE DEF size
    <3> QED
      BY <1>1, <1>arr, <1>split, <2>1, <3>1, PartitionSplits
  <2> HIDE DEF s
  <2>3. s.p - lo \in 0..(n-1) /\ hi - s.p \in 0..(n-1)
    BY <2>1, <2>2
  <2> QED
    BY <2>1, <2>2, <2>3 DEF s
<1>same. ASSUME NEW n \in Nat, NEW f, NEW h, \A x \in 0..(n-1) : f[x] = h[x]
         PROVE  Def(f, n) = Def(h, n)
  <2>1. ASSUME NEW a \in A, NEW lo \in 1..(size - n + 1)
        PROVE  Body(f, n, a, lo) = Body(h, n, a, lo)
    <3> DEFINE hi == lo + n - 1
    <3>1. CASE lo >= hi
      BY <3>1
    <3>2. CASE lo < hi
      <4> DEFINE s == Partition(a, lo, hi)
      <4>1. s.p - lo \in 0..(n-1) /\ hi - s.p \in 0..(n-1)
        <5> HIDE DEF size
        <5> QED
          BY <1>split, <3>2
      <4>2. f[s.p - lo] = h[s.p - lo] /\ f[hi - s.p] = h[hi - s.p]
        <5> DEFINE m == s.p - lo
                   q == hi - s.p
        <5>1. m \in 0..(n-1) /\ q \in 0..(n-1)
          BY <4>1
        <5> HIDE DEF m, q
        <5>2. f[m] = h[m] /\ f[q] = h[q]
          BY <1>same, <5>1
        <5> QED
          BY <5>2 DEF m, q
      <4> HIDE DEF s
      <4> QED
        BY <4>2 DEF s
    <3>3. lo \in Int /\ hi \in Int
      OBVIOUS
    <3> HIDE DEF Body, hi
    <3> QED
      BY <3>1, <3>2, <3>3
  <2> HIDE DEF Body
  <2> QED
    BY <2>1
<1>2. Nat \subseteq fit
  <2>1. 0 \in fit
    <3> DEFINE g == [k \in 0..0 |-> Def(<<>>, 0)]
    <3>1. \A k \in 0..0 : k = 0 /\ g[k] = Def(<<>>, k)
      <4> HIDE DEF Def
      <4> QED
        OBVIOUS
    <3>2. \A x \in 0..(0 - 1) : FALSE
      OBVIOUS
    <3>3. Def(g, 0) = Def(<<>>, 0)
      <4> HIDE DEF g, Def
      <4> QED
        BY <3>2, <1>same
    <3>4. g = [k \in 0..0 |-> Def(g, k)]
      <4>1. \A k \in 0..0 : Def(<<>>, 0) = Def(g, k)
        <5> HIDE DEF g, Def
        <5> QED
          BY <3>1, <3>3
      <4> HIDE DEF Def
      <4> QED
        BY <4>1
    <3> HIDE DEF g, Def
    <3> QED
      BY <3>4
  <2>2. ASSUME NEW n \in Nat, n \in fit
        PROVE  n + 1 \in fit
    <3>1. PICK h : Fits(h, n)
      BY <2>2
    <3> DEFINE g == [k \in 0..(n+1) |-> IF k <= n THEN h[k] ELSE Def(h, k)]
    <3>2. \A k \in 0..n : h[k] = Def(h, k)
      <4> HIDE DEF Def
      <4> QED
        BY <3>1
    <3>3. \A k \in 0..(n+1) : g[k] = Def(g, k)
      <4> TAKE k \in 0..(n+1)
      <4>1. \A x \in 0..(k-1) : g[x] = h[x]
        <5> HIDE DEF Def
        <5> QED
          OBVIOUS
      <4>2. g[k] = Def(h, k)
        <5> HIDE DEF Def
        <5> QED
          BY <3>2
      <4>3. k \in Nat
        OBVIOUS
      <4> HIDE DEF g, Def
      <4>4. Def(g, k) = Def(h, k)
        BY <4>1, <4>3, <1>same
      <4> QED
        BY <4>2, <4>4
    <3>4. g = [k \in 0..(n+1) |-> Def(g, k)]
      <4>1. g = [k \in 0..(n+1) |-> g[k]]
        OBVIOUS
      <4> HIDE DEF g, Def
      <4> QED
        BY <4>1, <3>3
    <3>5. n + 1 \in Nat
      OBVIOUS
    <3> HIDE DEF g, Def
    <3>6. Fits(g, n + 1)
      BY <3>4
    <3> HIDE DEF Fits
    <3> QED
      BY <3>5, <3>6
  <2> HIDE DEF fit
  <2> QED
    BY <2>1, <2>2, EveryNatural
<1>3. Fits(sorted, size)
  <2>1. \E g : Fits(g, size)
    <3> HIDE DEF Fits
    <3> QED
      BY <1>1, <1>2
  <2> HIDE DEF Fits
  <2> QED
    BY <2>1
<1> HIDE DEF Def
<1>4. \A n \in 0..size : sorted[n] = Def(sorted, n)
  BY <1>3
<1> HIDE DEF sorted, fit, Fits
<1> DEFINE Right(n) == \A a \in A : \A lo \in 1..(size - n + 1) :
                         QuickSorted(size, S, a, lo, n, sorted[n][a][lo])
           right == {n \in Nat : \A m \in 0..n : m <= size => Right(m)}
<1>5. ASSUME NEW n \in 0..size, \A m \in 0..(n-1) : Right(m)
      PROVE  Right(n)
  <2> SUFFICES ASSUME NEW a \in A, NEW lo \in 1..(size - n + 1)
               PROVE  QuickSorted(size, S, a, lo, n, sorted[n][a][lo])
    OBVIOUS
  <2> DEFINE hi == lo + n - 1
             s     == Partition(a, lo, hi)
             left  == LeftIsSmaller(lo, s.p, hi)
             small == IF left THEN sorted[s.p - lo][s.a][lo] ELSE sorted[hi - s.p][s.a][s.p + 1]
             rest  == IF left THEN sorted[hi - s.p][small.a][s.p + 1] ELSE sorted[s.p - lo][small.a][lo]
             joined == [a |-> rest.a, depth |-> Max({1 + small.depth, rest.depth})]
  <2>1. sorted[n][a][lo] = Body(sorted, n, a, lo)
    <3>1. sorted[n] = Def(sorted, n)
      BY <1>4
    <3>2. Def(sorted, n) = [b \in A |-> [l \in 1..(size - n + 1) |-> Body(sorted, n, b, l)]]
      BY DEF Def
    <3> HIDE DEF Body
    <3> QED
      BY <3>1, <3>2
  <2>2. sorted[n][a][lo] = IF lo >= hi THEN [a |-> a, depth |-> 1]
                           ELSE IF hi - lo < Cutoff THEN [a |-> InsertionSort(a, lo, hi), depth |-> 1]
                           ELSE joined
    BY <2>1
  <2>3. lo \in Int /\ n \in Nat /\ hi \in Int /\ a \in [1..size -> S] /\ hi = lo + n - 1
    BY <1>1, <1>arr
  <2>4. CASE lo >= hi
    <3>1. Moves(a, a, lo, hi) /\ OrderedIn(a, lo, hi)
      BY <2>3, <2>4 DEF Moves, OrderedIn
    <3>2. QuickSorted(size, S, a, lo, n, [a |-> a, depth |-> 1])
      <4> HIDE DEF size
      <4> QED
        BY <1>1, <2>3, <3>1, LeafSorted
    <3> QED
      BY <2>2, <2>4, <3>2
  <2>5. CASE lo < hi
    <3>1. lo \in 1..size /\ hi \in 1..size /\ hi \in lo..size
      BY <1>1, <2>5
    <3>2. CASE hi - lo < Cutoff
      <4> DEFINE b == InsertionSort(a, lo, hi)
      <4>1. b \in [1..size -> S] /\ Moves(a, b, lo, hi) /\ OrderedIn(b, lo, hi)
        <5> HIDE DEF size, hi
        <5> QED
          BY <1>1, <1>arr, <2>3, <3>1, InsertionSorts
      <4> HIDE DEF b
      <4>2. QuickSorted(size, S, a, lo, n, [a |-> b, depth |-> 1])
        <5> HIDE DEF size
        <5> QED
          BY <1>1, <2>3, <4>1, LeafSorted
      <4>3. sorted[n][a][lo] = [a |-> b, depth |-> 1]
        <5>1. ~(lo >= hi)
          BY <2>5
        <5> HIDE DEF hi, joined
        <5> QED
          BY <2>2, <3>2, <5>1 DEF b
      <4> QED
        BY <4>2, <4>3
    <3>3. CASE ~(hi - lo < Cutoff)
      <4> DEFINE p == s.p
                 b == s.a
                 m == p - lo
                 q == hi - p
      <4>1. /\ b \in A /\ p \in lo..hi /\ Moves(a, b, lo, hi) /\ Around(b, lo, p, hi)
            /\ m \in 0..(n-1) /\ q \in 0..(n-1)
        <5> HIDE DEF size
        <5> QED
          BY <1>split, <2>3, <2>5
      <4>2. small = IF left THEN sorted[m][b][lo] ELSE sorted[q][b][p + 1]
        OBVIOUS
      <4>3. rest = IF left THEN sorted[q][small.a][p + 1] ELSE sorted[m][small.a][lo]
        OBVIOUS
      <4>4. left <=> m < q
        BY DEF LeftIsSmaller
      <4>5. sorted[n][a][lo] = joined
        <5>1. ~(lo >= hi)
          BY <2>3, <2>5
        <5> HIDE DEF hi, joined
        <5> QED
          BY <2>2, <3>3, <5>1
      <4>6. m = p - lo /\ q = hi - p
        OBVIOUS
      <4> HIDE DEF m, q
      <4> HIDE DEF p, b
      <4> HIDE DEF left
      <4>7. joined.a = rest.a /\ joined.depth = Max({1 + small.depth, rest.depth})
        OBVIOUS
      <4> HIDE DEF joined
      <4> HIDE DEF rest
      <4> HIDE DEF small
      <4> HIDE DEF hi
      <4>8. /\ lo \in 1..(size - m + 1) /\ p + 1 \in 1..(size - q + 1)
            /\ lo + m - 1 = p - 1 /\ (p + 1) + q - 1 = hi /\ m + q + 2 = n + 1 /\ m \in Nat /\ q \in Nat
            /\ p - 1 \in Int /\ p + 1 \in Int
        <5>1. /\ lo \in Int /\ hi \in Int /\ p \in Int /\ n \in Int /\ m \in Nat /\ q \in Nat
              /\ 1 <= lo /\ hi <= size /\ lo <= p /\ p <= hi
              /\ hi = lo + n - 1 /\ m = p - lo /\ q = hi - p
          BY <1>size, <2>3, <3>1, <4>1, <4>6
        <5> HIDE DEF size
        <5>2. lo \in 1..(size - m + 1) /\ p + 1 \in 1..(size - q + 1)
          BY <1>size, <5>1
        <5>3. /\ lo + m - 1 = p - 1 /\ (p + 1) + q - 1 = hi /\ m + q + 2 = n + 1
              /\ p - 1 \in Int /\ p + 1 \in Int
          BY <5>1
        <5> QED
          BY <5>1, <5>2, <5>3
      <4>9. /\ \A c \in A : QuickSorted(size, S, c, lo, m, sorted[m][c][lo])
            /\ \A c \in A : QuickSorted(size, S, c, p + 1, q, sorted[q][c][p + 1])
        BY <1>5, <4>1, <4>8
      <4>10. ASSUME left
             PROVE  /\ rest.a \in A /\ Moves(b, rest.a, lo, hi) /\ OrderedIn(rest.a, lo, hi)
                    /\ joined.depth \in Nat \ {0} /\ 2 ^ (joined.depth - 1) <= n + 1
        <5>1. QuickSorted(size, S, b, lo, m, small)
          BY <4>1, <4>2, <4>9, <4>10
        <5>2. /\ small.a \in A /\ Moves(b, small.a, lo, p - 1) /\ OrderedIn(small.a, lo, p - 1)
              /\ small.depth \in Nat \ {0} /\ 2 ^ (small.depth - 1) <= m + 1
          BY <1>arr, <4>8, <5>1 DEF QuickSorted
        <5>3. QuickSorted(size, S, small.a, p + 1, q, rest)
          BY <4>3, <4>9, <4>10, <5>2
        <5>4. /\ rest.a \in A /\ Moves(small.a, rest.a, p + 1, hi) /\ OrderedIn(rest.a, p + 1, hi)
              /\ rest.depth \in Nat \ {0} /\ 2 ^ (rest.depth - 1) <= q + 1
          BY <1>arr, <4>8, <5>3 DEF QuickSorted
        <5>5. Moves(b, rest.a, lo, hi) /\ OrderedIn(rest.a, lo, hi)
          <6> DEFINE c == small.a
                     d == rest.a
                     under == p - 1
                     over == p + 1
          <6>1. Sorts(size, S, b, c, lo, under) /\ Sorts(size, S, c, d, over, hi)
            BY <1>arr, <2>3, <3>1, <4>1, <4>8, <5>2, <5>4 DEF Sorts
          <6>2. Sides(lo, p, hi, lo, under, over, hi)
            BY DEF Sides
          <6>3. S \subseteq Element /\ lo \in 1..size /\ hi \in 1..size /\ p \in lo..hi /\ Around(b, lo, p, hi)
            BY <1>arr, <3>1, <4>1
          <6> HIDE DEF size, c, d, under, over
          <6>4. Moves(b, d, lo, hi) /\ OrderedIn(d, lo, hi)
            BY <1>size, <6>1, <6>2, <6>3, SidesJoin
          <6> QED
            BY <6>4 DEF c, d
        <5>6. m <= q
          BY <4>4, <4>8, <4>10
        <5>7. joined.depth \in Nat \ {0} /\ 2 ^ (joined.depth - 1) <= n + 1
          <6> DEFINE d == small.depth
                     e == rest.depth
          <6>1. /\ m \in Nat /\ q \in Nat /\ m <= q /\ d \in Nat \ {0} /\ e \in Nat \ {0}
                /\ 2 ^ (d - 1) <= m + 1 /\ 2 ^ (e - 1) <= q + 1
                /\ m + q + 2 = n + 1 /\ joined.depth = Max({1 + d, e})
            BY <4>7, <4>8, <5>2, <5>4, <5>6
          <6> HIDE DEF d, e
          <6>2. Max({1 + d, e}) \in Nat \ {0} /\ 2 ^ (Max({1 + d, e}) - 1) <= m + q + 2
            BY <6>1, DepthJoins
          <6> QED
            BY <6>1, <6>2
        <5> QED
          BY <5>4, <5>5, <5>7
      <4>11. ASSUME ~left
             PROVE  /\ rest.a \in A /\ Moves(b, rest.a, lo, hi) /\ OrderedIn(rest.a, lo, hi)
                    /\ joined.depth \in Nat \ {0} /\ 2 ^ (joined.depth - 1) <= n + 1
        <5>1. QuickSorted(size, S, b, p + 1, q, small)
          BY <4>1, <4>2, <4>9, <4>11
        <5>2. /\ small.a \in A /\ Moves(b, small.a, p + 1, hi) /\ OrderedIn(small.a, p + 1, hi)
              /\ small.depth \in Nat \ {0} /\ 2 ^ (small.depth - 1) <= q + 1
          BY <1>arr, <4>8, <5>1 DEF QuickSorted
        <5>3. QuickSorted(size, S, small.a, lo, m, rest)
          BY <4>3, <4>9, <4>11, <5>2
        <5>4. /\ rest.a \in A /\ Moves(small.a, rest.a, lo, p - 1) /\ OrderedIn(rest.a, lo, p - 1)
              /\ rest.depth \in Nat \ {0} /\ 2 ^ (rest.depth - 1) <= m + 1
          BY <1>arr, <4>8, <5>3 DEF QuickSorted
        <5>5. Moves(b, rest.a, lo, hi) /\ OrderedIn(rest.a, lo, hi)
          <6> DEFINE c == small.a
                     d == rest.a
                     under == p - 1
                     over == p + 1
          <6>1. Sorts(size, S, b, c, over, hi) /\ Sorts(size, S, c, d, lo, under)
            BY <1>arr, <2>3, <3>1, <4>1, <4>8, <5>2, <5>4 DEF Sorts
          <6>2. Sides(lo, p, hi, over, hi, lo, under)
            BY DEF Sides
          <6>3. S \subseteq Element /\ lo \in 1..size /\ hi \in 1..size /\ p \in lo..hi /\ Around(b, lo, p, hi)
            BY <1>arr, <3>1, <4>1
          <6> HIDE DEF size, c, d, under, over
          <6>4. Moves(b, d, lo, hi) /\ OrderedIn(d, lo, hi)
            BY <1>size, <6>1, <6>2, <6>3, SidesJoin
          <6> QED
            BY <6>4 DEF c, d
        <5>6. q <= m /\ q + m + 2 = n + 1
          BY <4>4, <4>8, <4>11
        <5>7. joined.depth \in Nat \ {0} /\ 2 ^ (joined.depth - 1) <= n + 1
          <6> DEFINE d == small.depth
                     e == rest.depth
          <6>1. /\ q \in Nat /\ m \in Nat /\ q <= m /\ d \in Nat \ {0} /\ e \in Nat \ {0}
                /\ 2 ^ (d - 1) <= q + 1 /\ 2 ^ (e - 1) <= m + 1
                /\ q + m + 2 = n + 1 /\ joined.depth = Max({1 + d, e})
            BY <4>7, <4>8, <5>2, <5>4, <5>6
          <6> HIDE DEF d, e
          <6>2. Max({1 + d, e}) \in Nat \ {0} /\ 2 ^ (Max({1 + d, e}) - 1) <= q + m + 2
            BY <6>1, DepthJoins
          <6> QED
            BY <6>1, <6>2
        <5> QED
          BY <5>4, <5>5, <5>7
      <4>12. /\ rest.a \in A /\ Moves(b, rest.a, lo, hi) /\ OrderedIn(rest.a, lo, hi)
             /\ joined.depth \in Nat \ {0} /\ 2 ^ (joined.depth - 1) <= n + 1
        <5>1. CASE left
          BY <4>10, <5>1
        <5>2. CASE ~left
          BY <4>11, <5>2
        <5> QED
          BY <5>1, <5>2
      <4>13. Moves(a, rest.a, lo, hi)
        <5>1. DOMAIN a = 1..size /\ DOMAIN b = 1..size
          BY <1>arr, <4>1
        <5> HIDE DEF size
        <5> QED
          BY <1>1, <4>1, <4>12, <5>1, MovesThen
      <4> QED
        BY <1>arr, <2>3, <4>5, <4>7, <4>12, <4>13 DEF QuickSorted
    <3> QED
      BY <3>2, <3>3
  <2>6. lo >= hi \/ lo < hi
    BY <2>3
  <2> QED
    BY <2>4, <2>5, <2>6
<1>6. Nat \subseteq right
  <2> HIDE DEF Right
  <2>1. 0 \in right
    <3>1. \A m \in 0..(0-1) : FALSE
      OBVIOUS
    <3>2. Right(0)
      BY <1>1, <1>5, <3>1
    <3> QED
      BY <3>2
  <2>2. ASSUME NEW n \in Nat, n \in right
        PROVE  n + 1 \in right
    <3>1. n + 1 <= size => Right(n + 1)
      BY <1>1, <1>5, <2>2
    <3> QED
      BY <2>2, <3>1
  <2> HIDE DEF right
  <2> QED
    BY <2>1, <2>2, EveryNatural
<1>7. Right(size)
  <2>1. size \in right /\ size \in 0..size
    BY <1>1, <1>6
  <2> HIDE DEF Right, size
  <2> QED
    BY <2>1
<1>8. 1 \in 1..(size - size + 1)
  BY <1>1
<1>9. QuickSorted(size, S, arr, 1, size, sorted[size][arr][1])
  BY <1>7, <1>8, <1>arr
<1> QED
  BY <1>1, <1>9 DEF S

-----------------------------------------------------------------------------
\* What both sorts may rely on: the array is a list of elements, each with the
\* place at which it was listed.
SortInv == Listed(array)

LEMMA StrictIsStable ==
  ASSUME NEW s \in Seq(Element), Strict(s)
  PROVE  Ordered(s) /\ StablySorted(s)
<1>1. DOMAIN s = 1..Len(s)
  OBVIOUS
<1>2. ASSUME NEW i \in 1..Len(s), NEW j \in 1..Len(s), i < j
      PROVE  ~Above(s[i], s[j]) /\ (s[i].key = s[j].key => s[i].tag < s[j].tag)
  <2>1. Before(s[i], s[j])
    BY <1>2 DEF Strict
  <2>2. s[i] \in Element /\ s[j] \in Element
    OBVIOUS
  <2> QED
    BY <2>1, <2>2 DEF Before, Above, Element
<1>3. Ordered(s)
  BY <1>1, <1>2 DEF Ordered
<1>4. StablySorted(s)
  BY <1>1, <1>2 DEF StablySorted
<1> QED
  BY <1>3, <1>4

LEMMA ShortIsSorted ==
  ASSUME NEW s \in Seq(Element), Len(s) < 2
  PROVE  Ordered(s) /\ StablySorted(s) /\ Rearranged(s, s) /\ 2 ^ 0 <= Len(s) + 1
<1>1. DOMAIN s = 1..Len(s) /\ Len(s) \in Nat
  OBVIOUS
<1>2. \A i, j \in 1..Len(s) : ~(i < j)
  BY <1>1
<1>3. Ordered(s) /\ StablySorted(s)
  BY <1>1, <1>2 DEF Ordered, StablySorted
<1>4. 2 ^ 0 <= Len(s) + 1
  <2>1. 2 ^ 0 = 1
    OBVIOUS
  <2> QED
    BY <1>1, <2>1
<1> QED
  BY <1>3, <1>4 DEF Rearranged

LEMMA MergedRight ==
  ASSUME NEW arr, Listed(arr)
  PROVE  LET merged == SortMerge(arr, TRUE)
         IN  Ordered(merged) /\ Rearranged(merged, arr) /\ StablySorted(merged)
<1>1. arr \in Seq(Element) /\ Len(arr) \in Nat /\ DOMAIN arr = 1..Len(arr)
  BY DEF Listed
<1>2. CASE Len(arr) < 2
  <2>1. SortMerge(arr, TRUE) = arr
    BY <1>2 DEF SortMerge
  <2> QED
    BY <1>1, <1>2, <2>1, ShortIsSorted
<1>3. CASE ~(Len(arr) < 2)
  <2> DEFINE s == MergeSort(arr)
  <2>1. SortMerge(arr, TRUE) = s
    BY <1>3 DEF SortMerge
  <2>2. SortedPart(arr, s, 1, Len(arr))
    <3>1. Len(arr) >= 1
      BY <1>1, <1>3
    <3> QED
      BY <3>1, MergeSortSorts
  <2> HIDE DEF s
  <2>3. /\ s \in Seq(Element) /\ Len(s) = Len(arr) /\ Strict(s)
        /\ ToSet(s) = {arr[x] : x \in 1..(1 + Len(arr) - 1)}
    BY <2>2 DEF SortedPart
  <2>4. 1..(1 + Len(arr) - 1) = DOMAIN arr
    BY <1>1
  <2>5. ToSet(s) = ToSet(arr)
    BY <2>3, <2>4 DEF ToSet
  <2>6. Rearranged(s, arr)
    BY <2>3, <2>5 DEF Rearranged
  <2> QED
    BY <2>1, <2>3, <2>6, StrictIsStable
<1> QED
  BY <1>2, <1>3

LEMMA QuicklyRight ==
  ASSUME NEW arr \in Seq(Element)
  PROVE  LET quick == SortQuick(arr)
         IN  Ordered(quick.a) /\ Rearranged(quick.a, arr) /\ 2 ^ (quick.depth - 1) <= Len(arr) + 1
<1>1. Len(arr) \in Nat /\ DOMAIN arr = 1..Len(arr)
  OBVIOUS
<1>2. CASE Len(arr) < 2
  <2> DEFINE q == SortQuick(arr)
  <2>1. q.a = arr /\ q.depth = 1 /\ q.depth - 1 = 0
    BY <1>2 DEF SortQuick
  <2> HIDE DEF q
  <2>2. Ordered(q.a) /\ Rearranged(q.a, arr) /\ 2 ^ (q.depth - 1) <= Len(arr) + 1
    BY <1>2, <2>1, ShortIsSorted
  <2> QED
    BY <2>2 DEF q
<1>3. CASE ~(Len(arr) < 2)
  <2> DEFINE N == Len(arr)
             q == QuickSort(arr)
             b == q.a
  <2>1. SortQuick(arr) = q
    BY <1>3 DEF SortQuick
  <2>2. QuickSorted(N, ToSet(arr), arr, 1, N, q)
    <3>1. N >= 1
      BY <1>1, <1>3
    <3> QED
      BY <3>1, QuickSorts
  <2> HIDE DEF q
  <2>3. /\ b \in [1..N -> ToSet(arr)] /\ Moves(arr, b, 1, N) /\ OrderedIn(b, 1, N)
        /\ 2 ^ (q.depth - 1) <= N + 1
    <3>1. 1 + N - 1 = N
      BY <1>1
    <3> HIDE DEF N
    <3> QED
      BY <2>2, <3>1 DEF QuickSorted
  <2> HIDE DEF b
  <2>4. Ordered(b)
    BY <2>3 DEF OrderedIn, Ordered
  <2>5. b \in Seq(ToSet(arr)) /\ Len(b) = N
    <3> HIDE DEF N
    <3>1. N \in Nat
      BY <1>1 DEF N
    <3> QED
      BY <2>3, <3>1
  <2>6. ToSet(b) = ToSet(arr)
    <3>1. ToSet(b) = {b[x] : x \in 1..N} /\ ToSet(arr) = {arr[x] : x \in 1..N}
      BY <1>1, <2>3 DEF ToSet
    <3>2. /\ \A x \in 1..N : \E y \in 1..N : b[x] = arr[y]
          /\ \A y \in 1..N : \E x \in 1..N : b[x] = arr[y]
      BY <2>3 DEF Moves
    <3> HIDE DEF N
    <3>3. \A z \in ToSet(b) : z \in ToSet(arr)
      BY <3>1, <3>2
    <3>4. \A z \in ToSet(arr) : z \in ToSet(b)
      BY <3>1, <3>2
    <3> QED
      BY <3>3, <3>4
  <2>7. Rearranged(b, arr)
    BY <2>5, <2>6 DEF Rearranged
  <2> QED
    BY <2>1, <2>3, <2>4, <2>7 DEF b
<1> QED
  BY <1>2, <1>3

LEMMA GrowsListed ==
  ASSUME SortInv, [Grow]_array
  PROVE  SortInv'
<1>1. CASE Grow
  <2>1. PICK k \in SortKeys : array' = Append(array, [key |-> k, tag |-> Len(array) + 1])
    BY <1>1 DEF Grow
  <2> DEFINE e == [key |-> k, tag |-> Len(array) + 1]
             n == Len(array)
  <2>2. array \in Seq(Element) /\ n \in Nat /\ \A x \in 1..n : array[x].tag = x
    BY DEF SortInv, Listed
  <2>3. k \in Int
    BY SortingAssumption
  <2>4. e \in Element /\ e.tag = n + 1
    BY <2>2, <2>3 DEF Element
  <2> HIDE DEF e
  <2>5. /\ array' \in Seq(Element) /\ Len(array') = n + 1
        /\ \A x \in 1..n : array'[x] = array[x]
        /\ array'[n + 1] = e
    BY <2>1, <2>2, <2>4 DEF e
  <2>6. \A x \in 1..(n + 1) : x \in 1..n \/ x = n + 1
    BY <2>2
  <2>7. \A x \in 1..Len(array') : array'[x].tag = x
    <3> HIDE DEF n
    <3> QED
      BY <2>2, <2>4, <2>5, <2>6
  <2> QED
    BY <2>5, <2>7 DEF SortInv, Listed
<1>2. CASE UNCHANGED array
  BY <1>2 DEF SortInv, Listed
<1> QED
  BY <1>1, <1>2

\* Whatever a caller has listed, both sorts give it back in order, merge sort
\* with equal keys in the order they were listed, and the recursion of quick
\* sort is at most logarithmically deep (merge_sort_rec, quick_sort_rec).
THEOREM SortsStayRight == SortSpec => []SortsAreRight
<1>1. SortInit => SortInv
  BY DEF SortInit, SortInv, Listed
<1>2. SortInv /\ [Grow]_array => SortInv'
  BY GrowsListed
<1>3. SortInv => SortsAreRight
  <2> SUFFICES ASSUME SortInv PROVE SortsAreRight
    OBVIOUS
  <2>1. Listed(array) /\ array \in Seq(Element)
    BY DEF SortInv, Listed
  <2>2. LET merged == SortMerge(array, TRUE)
        IN  Ordered(merged) /\ Rearranged(merged, array) /\ StablySorted(merged)
    BY <2>1, MergedRight
  <2>3. LET quick == SortQuick(array)
        IN  Ordered(quick.a) /\ Rearranged(quick.a, array) /\ 2 ^ (quick.depth - 1) <= Len(array) + 1
    BY <2>1, QuicklyRight
  <2>4. SortMerge(array, FALSE) = array
    BY DEF SortMerge
  <2> QED
    BY <2>2, <2>3, <2>4 DEF SortsAreRight
<1> QED
  BY <1>1, <1>2, <1>3, PTL DEF SortSpec
=============================================================================
