----------------------------- MODULE MCMerryCore -----------------------------
(* MerryCore for TLC: programs that compute, and programs that call. *)
EXTENDS MerryCore

\* No stack and no calls: what the registers and flags do, and jumps.
Computing ==
    AllInstructions \ {"CALL", "CALL_EXCP", "SET_EXCP", "RET", "SVA", "SVC",
                       "SVA_MEM", "SVC_MEM", "PUSH", "POP", "PUSHA", "POPA"}

\* The stack and calls.  PUSH and POP put different values in the registers.
Calling ==
    {"CALL", "CALL_EXCP", "SET_EXCP", "RET", "SVA", "SVC", "SVA_MEM", "SVC_MEM",
     "PUSH", "POP", "PUSHA", "POPA", "HALT"}

=============================================================================
