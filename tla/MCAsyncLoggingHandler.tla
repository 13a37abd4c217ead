----------------------- MODULE MCAsyncLoggingHandler -----------------------
(***************************************************************************)
(* Small instances of AsyncLoggingHandler for TLC.                         *)
(***************************************************************************)
EXTENDS AsyncLoggingHandler, TLC

\* Emitters are told apart only by their program counters.
Symmetry == Permutations(Emitters)

=============================================================================
