---------------------------- MODULE ByteChannel ----------------------------
(***************************************************************************)
(* What one direction of a serial line promises: characters come out in    *)
(* the order they went in, each at most once.  Until the line breaks       *)
(* nothing is lost; from then on it may lose characters under way, never   *)
(* twist, repeat or invent them.                                           *)
(***************************************************************************)
EXTENDS Naturals, Sequences, SequencesExt

VARIABLES
    broken,         \* whether characters under way may be lost
    accepted,       \* the characters that went in
    pending,        \* the characters under way, the oldest first
    delivered       \* the characters that came out

vars == <<broken, accepted, pending, delivered>>

Init == broken \in BOOLEAN /\ accepted = <<>> /\ pending = <<>> /\ delivered = <<>>

Put ==
    /\ IsStrictPrefix(accepted, accepted')
    /\ pending' = pending \o SubSeq(accepted', Len(accepted) + 1, Len(accepted'))
    /\ UNCHANGED <<broken, delivered>>

Deliver == \E n \in 1..Len(pending) :
    /\ delivered' = delivered \o SubSeq(pending, 1, n)
    /\ pending' = SubSeq(pending, n + 1, Len(pending))
    /\ UNCHANGED <<broken, accepted>>

Break == broken' /\ UNCHANGED <<accepted, pending, delivered>>

(* A stretch of what is under way is lost, the rest keeps its order.       *)
Lose == \E i \in 0..Len(pending), j \in 0..Len(pending) :
    /\ broken' /\ i < j
    /\ pending' = SubSeq(pending, 1, i) \o SubSeq(pending, j + 1, Len(pending))
    /\ UNCHANGED <<accepted, delivered>>

Next == Put \/ Deliver \/ Break \/ Lose

Spec == Init /\ [][Next]_vars
=============================================================================
