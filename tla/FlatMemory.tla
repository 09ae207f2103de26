------------------------------ MODULE FlatMemory ------------------------------
(***************************************************************************)
(* What the data memory promises its cores: one flat array of cells that   *)
(* only grows, and whose addresses are taken modulo AddressSpace.  A load  *)
(* or a store of one unit that lies in its natural place happens at once;  *)
(* every other access moves its cells in order, from the address it was    *)
(* given, and other cores may see it half done.  An access is refused if   *)
(* it does not fit in the memory, or, where it is of one unit, if it does  *)
(* not fit in a page; what is refused after it began can only be a         *)
(* transfer that has used up its first page.  The atomic load of a dword   *)
(* is promised nothing of what it loads.                                   *)
(***************************************************************************)
EXTENDS Naturals, Sequences

CONSTANTS Cores, PageSize, AddressSpace

VARIABLES mem, size, jobs

AtRest(kind) ==
    [kind |-> kind, asked |-> 0, addr |-> 0, len |-> 0, done |-> 0, array |-> <<>>]
Rest == {AtRest("ok"), AtRest("refused")}

Unit(j) == j.kind \in {"load", "store", "atm_loadd"}
Stores(j) == j.kind \in {"store", "sin"}
Indivisible(j) == Unit(j) /\ j.addr % j.len = 0

Init ==
    /\ size \in Nat
    /\ mem = [a \in 0..(size - 1) |-> 0]
    /\ jobs = [c \in Cores |-> AtRest("ok")]

Begin(c) ==
    /\ jobs[c] \in Rest
    /\ jobs'[c].kind \in {"load", "store", "atm_loadd", "sin", "sout"}
    /\ jobs'[c].addr = jobs'[c].asked % AddressSpace
    /\ jobs'[c].done = 0
    /\ Len(jobs'[c].array) = IF Stores(jobs'[c]) THEN jobs'[c].len ELSE 0
    /\ UNCHANGED <<mem, size>>

\* The next k cells are copied; the access may be over with the last.
Move(c) ==
    LET j == jobs[c]
    IN  \E k \in 1..(j.len - j.done) :
          LET cells == (j.addr + j.done)..(j.addr + j.done + k - 1)
              moved == [j EXCEPT !.done = @ + k,
                           !.array = IF Stores(j) THEN @
                                     ELSE @ \o [i \in 1..k |-> mem[j.addr + j.done + i - 1]]]
          IN  /\ j.kind # "atm_loadd" /\ (Indivisible(j) => k = j.len)
              /\ cells \subseteq 0..(size - 1)
              /\ mem' = [a \in DOMAIN mem |->
                           IF Stores(j) /\ a \in cells THEN j.array[a - j.addr + 1]
                           ELSE mem[a]]
              /\ jobs'[c] \in {moved} \cup
                              (IF moved.done = j.len THEN {AtRest("ok")} ELSE {})
              /\ UNCHANGED size

Finish(c) ==
    /\ jobs[c] \notin Rest /\ jobs[c].done = jobs[c].len
    /\ jobs'[c] = AtRest("ok")
    /\ UNCHANGED <<mem, size>>

\* Whatever was loaded, it is no cell of the memory.
LoadOther(c) ==
    /\ jobs[c].kind = "atm_loadd" /\ jobs[c].addr + jobs[c].len <= size
    /\ jobs'[c] = AtRest("ok")
    /\ UNCHANGED <<mem, size>>

Refuse(c) ==
    LET j == jobs[c]
    IN  /\ j \notin Rest
        /\ \/ j.addr >= size \/ j.addr + j.len > size
           \/ Unit(j) /\ (j.addr % PageSize) + j.len > PageSize
        /\ j.done # 0 => ~Unit(j) /\ j.done = PageSize - (j.addr % PageSize)
        /\ jobs'[c] = AtRest("refused")
        /\ UNCHANGED <<mem, size>>

Grow ==
    /\ size' = size + PageSize
    /\ mem' = [a \in 0..(size' - 1) |-> IF a < size THEN mem[a] ELSE 0]
    /\ UNCHANGED jobs

Next ==
    \/ Grow
    \/ \E c \in Cores : /\ Begin(c) \/ Move(c) \/ LoadOther(c) \/ Finish(c) \/ Refuse(c)
                        /\ \A d \in Cores \ {c} : jobs'[d] = jobs[d]

Spec == Init /\ [][Next]_<<mem, size, jobs>>

=============================================================================
