----------------------------- MODULE KeyValueMap -----------------------------
(* What hash_table.h promises: a map from keys to values, and the answer to  *)
(* each call.  Neither hashes, nor chains, nor capacities can be seen.       *)
EXTENDS Naturals, Sequences, FiniteSets

CONSTANTS Keys, Values

VARIABLES map, answer

vars == <<map, answer>>

Nothing == [call |-> "none", status |-> "OK", data |-> <<>>]
Answer(call, status, data) == answer' = [call |-> call, status |-> status, data |-> data]

Init == map = <<>> /\ answer = Nothing

\* A new table, or none: the old content is gone.
Reset == map' = <<>> /\ answer' = Nothing

\* A known key is refused or gets the new value; a new one is added, unless
\* there is no memory for it.
Put(k, v, replace) ==
  \/ /\ k \in DOMAIN map /\ ~replace
     /\ Answer("put", "DUPLICATE", <<k, v>>) /\ UNCHANGED map
  \/ /\ k \notin DOMAIN map
     /\ Answer("put", "ALLOC_FAILED", <<k, v>>) /\ UNCHANGED map
  \/ /\ k \in DOMAIN map => replace
     /\ Answer("put", "OK", <<k, v>>)
     /\ map' = [x \in DOMAIN map \cup {k} |-> IF x = k THEN v ELSE map[x]]

Get(k) ==
  /\ IF k \in DOMAIN map THEN Answer("get", "OK", <<k, map[k]>>)
                         ELSE Answer("get", "NOT_FOUND", <<k>>)
  /\ UNCHANGED map

RemoveKey(k) ==
  /\ Answer("remove", IF k \in DOMAIN map THEN "OK" ELSE "NOT_FOUND", <<k>>)
  /\ map' = [x \in DOMAIN map \ {k} |-> map[x]]

Size == Answer("size", "OK", <<Cardinality(DOMAIN map)>>) /\ UNCHANGED map

\* An iteration shows entries of the map at the moment it ends, none twice, and
\* all of them unless the callback stopped it.
Iterate ==
  /\ UNCHANGED map
  /\ \E seen \in {answer'.data}, status \in {"OK", "STOPPED"} :
       /\ Answer("iterate", status, seen)
       /\ \A i \in DOMAIN seen : seen[i][1] \in DOMAIN map /\ map[seen[i][1]] = seen[i][2]
       /\ \A i, j \in DOMAIN seen : i # j => seen[i][1] # seen[j][1]
       /\ status = "OK" => Len(seen) = Cardinality(DOMAIN map)

Next ==
  \/ Reset \/ Size \/ Iterate
  \/ \E k \in Keys : Get(k) \/ RemoveKey(k)
  \/ \E k \in Keys, v \in Values, replace \in BOOLEAN : Put(k, v, replace)

Spec == Init /\ [][Next]_vars
=============================================================================
