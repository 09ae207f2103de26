------------------------------ MODULE CallStack ------------------------------
(***************************************************************************)
(* What a core's return address stack promises: a call remembers where the *)
(* core was, a return goes back to where the last call that has not        *)
(* returned was made, nothing else touches what is remembered, and no more *)
(* than Limit calls are open.                                              *)
(***************************************************************************)
EXTENDS Naturals, Sequences

CONSTANTS PCs, Limit

VARIABLES pc, calls

Init == pc \in PCs /\ calls = <<>>

Call ==
    /\ Len(calls) < Limit
    /\ calls' = Append(calls, pc)
    /\ pc' \in PCs

Return ==
    /\ calls # <<>>
    /\ pc' = calls[Len(calls)]
    /\ calls' = SubSeq(calls, 1, Len(calls) - 1)

GoOn == pc' \in PCs /\ UNCHANGED calls

Spec == Init /\ [][Call \/ Return \/ GoOn]_<<pc, calls>>

=============================================================================
