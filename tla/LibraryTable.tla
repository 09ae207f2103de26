----------------------------- MODULE LibraryTable -----------------------------
(***************************************************************************)
(* What the dynamic loader promises (docs/dynamiclibs.txt), as far as the  *)
(* code keeps it: a handle, once given for a library, stands for it until  *)
(* somebody unloads that handle, and calls reach the library that the      *)
(* handle stands for.  Two things the code does are no part of the promise *)
(* and are actions of their own here, which say when they happen: Stale,   *)
(* and Break.                                                              *)
(***************************************************************************)
CONSTANTS Libs, Handles, FirstHandles, None

VARIABLES libs,    \* the library each handle stands for
          last,    \* the library it last stood for
          answer,  \* the last handle given and what for, or called and the library reached
          broken   \* the table is no longer one

vars == <<libs, last, answer, broken>>

Init ==
    /\ libs = [h \in Handles |-> None]
    /\ last \in [Handles -> Libs \cup {None}]
    /\ answer = None
    /\ broken = FALSE

Given(h, n) == answer' = <<"DYNL", h, n>>

\* The library is loaded already, whoever loaded it.
Share(h, n) ==
    /\ libs[h] = n
    /\ Given(h, n)
    /\ UNCHANGED <<libs, last, broken>>

Load(h, n) ==
    /\ libs[h] = None /\ \A k \in Handles : last[k] # n
    /\ libs' = [libs EXCEPT ![h] = n] /\ last' = [last EXCEPT ![h] = n]
    /\ Given(h, n)
    /\ UNCHANGED broken

\* A library that was unloaded is not loaded again while its handle is free: whoever
\* asks is given the old handle, which stands for nothing.
Stale(h, n) ==
    /\ libs[h] = None /\ last[h] = n
    /\ Given(h, n)
    /\ UNCHANGED <<libs, last, broken>>

Unload(h) ==
    /\ libs[h] # None /\ libs' = [libs EXCEPT ![h] = None]
    /\ UNCHANGED <<last, answer, broken>>

Call(h) ==
    /\ libs[h] # None /\ answer' = <<"DYNCALL", h, libs[h]>>
    /\ UNCHANGED <<libs, last, broken>>

Close ==
    /\ libs' = [h \in Handles |-> None]
    /\ UNCHANGED <<last, answer, broken>>

\* One library more than the table was made for, and nothing holds any longer.
Break ==
    /\ \A h \in FirstHandles : libs[h] # None
    /\ broken' = TRUE

Next ==
    \/ broken /\ broken'
    \/ Break \/ Close
    \/ \E h \in Handles : Unload(h) \/ Call(h)
    \/ \E h \in Handles, n \in Libs :
          Share(h, n) \/ Load(h, n) \/ Stale(h, n)

Spec == Init /\ [][Next]_vars

=============================================================================
