--------------------------- MODULE RegionContract ---------------------------
(***************************************************************************)
(* The capsule SDK as an application sees it: a region whose content       *)
(* changes by the application's writes alone, whatever sleeps, wakes and   *)
(* fails in between, as long as it is used as stateram_sdk.cpp asks for.   *)
(***************************************************************************)
EXTENDS RegionCalls

VARIABLE region

Init == \E v \in Values : region = Fresh([p \in Pages |-> v])

Write ==
    \E p \in Usable(region), v \in Values :
        region' = Written(region, [region.content EXCEPT ![p] = v])

Call ==
    \E call \in Calls :
        /\ Accepted(call, region)
        /\ region' \in Successes(call, region) \cup Failures(call, region)

ThreadEnds == region' \in Built(region) \cup Restored(region)

Destroy ==
    /\ region.state # "none" /\ Quiet(region)
    /\ region' = Destroyed(region)

Next == Write \/ Call \/ ThreadEnds \/ Destroy

Spec == Init /\ [][Next]_region

\* No thread of the SDK runs for ever.
FairSpec == Spec /\ WF_region(ThreadEnds)
=============================================================================
