---------------------------- MODULE SubscriberMap ----------------------------
(* What the subscriber database promises its callers: a set of subscribers   *)
(* with unique ids, IMSIs and MSISDNs that changes one whole subscriber at a *)
(* time, and ids that are never given out twice.                             *)
EXTENDS Integers

VARIABLES
  subs,      \* the subscribers every reader can find
  issued     \* the largest id given out so far

absVars == <<subs, issued>>

\* The three keys of a subscriber: none is ever changed by an update.
SameKeys(r, s) == r.id = s.id /\ r.imsi = s.imsi /\ r.msisdn = s.msisdn

\* Two subscribers that may not be in the set together.
Clash(r, s) == r.id = s.id \/ r.imsi = s.imsi \/ r.msisdn = s.msisdn

AbsInit == subs = {} /\ issued = 0

\* One new subscriber, under an id above every id given out before.
AbsAdd ==
  \E r \in subs' :
    /\ r.id > issued
    /\ \A s \in subs : ~Clash(r, s)
    /\ subs' = subs \cup {r}
    /\ issued' = r.id

\* One subscriber disappears; its id is not given back.
AbsDelete == \E r \in subs : subs' = subs \ {r} /\ issued' = issued

\* The mutable fields of one subscriber change, its keys do not.
AbsUpdate ==
  \E r \in subs, s \in subs' :
    /\ SameKeys(r, s)
    /\ subs' = (subs \ {r}) \cup {s}
    /\ issued' = issued

\* An add that failed late has used up its id and left nothing else behind.
AbsBurn == subs' = subs /\ issued' = issued + 1

AbsNext == AbsAdd \/ AbsDelete \/ AbsUpdate \/ AbsBurn

AbsSpec == AbsInit /\ [][AbsNext]_absVars
=============================================================================
