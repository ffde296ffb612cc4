---------------------------- MODULE LeasedMemory ----------------------------
(***************************************************************************)
(* What a registered object promises to the applications that lease it:    *)
(* it is a memory.  Its content changes only when the holder of a WRITE    *)
(* lease stores into its range.  Residency, eviction, journaling and       *)
(* restoration do not appear here: they must be invisible.                 *)
(*                                                                         *)
(* An object registered without initial data is whatever its backing is    *)
(* first seen to return; from then on it is a memory like any other.       *)
(***************************************************************************)
CONSTANTS Threads, Segments, Pages, Values

VARIABLES
    mem,     \* the content of each segment, meaningful once it is known
    known,   \* whether the content of a segment has been fixed
    grants   \* the live lease of each thread

Content == [Pages -> Values]
Nothing == [mode |-> "NONE", pages |-> [s \in Segments |-> {}]]
Grants  == [mode : {"READ", "WRITE"}, pages : [Segments -> SUBSET Pages]]

Init ==
    /\ mem \in [Segments -> Content]
    /\ known \in [Segments -> BOOLEAN]
    /\ grants = [t \in Threads |-> Nothing]

\* Fixing the content of further segments leaves the known ones alone.
Reveal ==
    /\ mem' \in [Segments -> Content]
    /\ known' \in [Segments -> BOOLEAN]
    /\ \A s \in Segments : known[s] => known'[s] /\ mem'[s] = mem[s]

Look == Reveal /\ UNCHANGED grants

Grant(t) ==
    /\ grants[t] = Nothing
    /\ Reveal
    /\ \E g \in Grants :
         /\ grants' = [grants EXCEPT ![t] = g]
         /\ \A s \in Segments : g.pages[s] # {} => known'[s]

Store(t) ==
    /\ grants[t].mode = "WRITE"
    /\ \E s \in Segments : \E p \in grants[t].pages[s], v \in Values :
         mem' = [mem EXCEPT ![s][p] = v]
    /\ UNCHANGED <<known, grants>>

Return(t) ==
    /\ grants[t] # Nothing
    /\ grants' = [grants EXCEPT ![t] = Nothing]
    /\ UNCHANGED <<mem, known>>

Next == Look \/ \E t \in Threads : Grant(t) \/ Store(t) \/ Return(t)

Spec == Init /\ [][Next]_<<mem, known, grants>>
=============================================================================
