---------------------------- MODULE MCOSServices ----------------------------
(***************************************************************************)
(* The instance of OSServices for TLC.  A program uses libraries or files: *)
(* the two share nothing but the panic.                                    *)
(***************************************************************************)
EXTENDS OSServices

LibrariesOrFiles ==
    {{"DYNL", "DYNUL", "DYNCALL"},
     {"FOPEN", "FCLOSE", "FREAD", "FWRITE", "FEOF", "REWIND"}}

\* What malloc left in the entries is told apart only by a program that uses them.
MCInit ==
    /\ Init
    /\ "DYNL" \notin program => \A h \in 0..(InitEntries - 1) : Entry(h).name = None

MCSpec == MCInit /\ [][Next]_vars

=============================================================================
