--------------------------- MODULE RequestService ---------------------------
(***************************************************************************)
(* What the request handler and the OS promise a core together             *)
(* (defs/merry_request.h: a core that posts a request "will have to stop   *)
(* execution totally and wait for it's request to be fulfilled"): between  *)
(* the post and the core's next instruction there is exactly one answer,   *)
(* and a core that is let go without one executes nothing more.            *)
(***************************************************************************)
CONSTANT Cores

VARIABLES core,    \* each core's standing with the service
          told,    \* the cores told to stop: none is ever untold
          closed   \* no more posts are taken; never taken back

vars == <<core, told, closed>>

Standings == {"off", "running", "posted", "answered", "released", "ended"}

Init ==
    /\ core = [c \in Cores |-> "off"]
    /\ told = {}
    /\ closed = FALSE

Move(c, from, to) == core[c] = from /\ core' = [core EXCEPT ![c] = to]

Start(c) == Move(c, "off", "running") /\ UNCHANGED <<told, closed>>

Post(c) == Move(c, "running", "posted") /\ ~closed /\ UNCHANGED <<told, closed>>

\* An answer may come with an order to stop (HALT), or close the service.
Answer(c) ==
    /\ Move(c, "posted", "answered")
    /\ told' \in {told, told \cup {c}}
    /\ closed' \in {closed, TRUE}

\* The answer to a request for a new core d starts it.
Create(c, d) ==
    /\ core[c] = "posted" /\ core[d] = "off"
    /\ core' = [core EXCEPT ![c] = "answered", ![d] = "running"]
    /\ UNCHANGED <<told, closed>>

Continue(c) ==
    /\ Move(c, "answered", "running")
    /\ told' \in {told, told \cup {c}}
    /\ UNCHANGED closed

\* The VM is stopping: cores let go without an answer, all told before.
Release(S) ==
    /\ S # {} /\ S \subseteq told
    /\ \A c \in S : core[c] = "posted"
    /\ core' = [c \in Cores |-> IF c \in S THEN "released" ELSE core[c]]
    /\ UNCHANGED <<told, closed>>

\* A core leaves its loop: told to, let go, or on an error that closes the service.
End(c) ==
    /\ core[c] \in {"running", "released"}
    /\ core' = [core EXCEPT ![c] = "ended"]
    /\ \/ c \in told /\ UNCHANGED closed
       \/ core[c] = "running" /\ closed' = TRUE
    /\ UNCHANGED told

\* A core is told to stop, or an error closes the service.
Tell(c) == told' = told \cup {c} /\ closed' \in {closed, TRUE} /\ UNCHANGED core

Close == closed' = TRUE /\ UNCHANGED <<core, told>>

Next ==
    \/ Close
    \/ \E S \in SUBSET Cores : Release(S)
    \/ \E c \in Cores :
          \/ Start(c) \/ Post(c) \/ Answer(c) \/ Continue(c)
          \/ End(c) \/ Tell(c)
          \/ \E d \in Cores : Create(c, d)

Spec == Init /\ [][Next]_vars
=============================================================================
