---------------------------- MODULE UsageMeterMC ----------------------------
(***************************************************************************)
(* A small instance of UsageMeter: the sweep beside a host who pauses,      *)
(* resumes and stops the take; each pause and each stop meters as well.    *)
(***************************************************************************)
EXTENDS UsageMeter, TLC

CONSTANTS h1

=============================================================================
