----------------------------- MODULE BoundedFifo -----------------------------
(***************************************************************************)
(* What a fixed-size queue promises its users: values come out in the      *)
(* order they went in, each one once, a push is refused only when Capacity *)
(* values are waiting, and a pop only when none is.                        *)
(***************************************************************************)
EXTENDS Naturals, Sequences

CONSTANTS Values, Capacity

VARIABLES fifo,   \* the values waiting, oldest first
          result  \* what the last operation returned

vars == <<fifo, result>>

Init == fifo = <<>> /\ result = <<"none">>

Put(v) ==
    /\ Len(fifo) < Capacity
    /\ fifo' = Append(fifo, v)
    /\ result' = <<"pushed">>

Refuse ==
    /\ Len(fifo) = Capacity
    /\ result' = <<"full">>
    /\ UNCHANGED fifo

Take ==
    /\ fifo # <<>>
    /\ result' = <<"popped", Head(fifo)>>
    /\ fifo' = Tail(fifo)

Starve ==
    /\ fifo = <<>>
    /\ result' = <<"empty">>
    /\ UNCHANGED fifo

Next == Starve \/ Take \/ Refuse \/ \E v \in Values : Put(v)

Spec == Init /\ [][Next]_vars
=============================================================================
