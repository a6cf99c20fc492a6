-------------------------- MODULE SpaceRecordingMC --------------------------
(***************************************************************************)
(* Small instances of SpaceRecording: enough start requests for one to      *)
(* succeed after another was stopped, two requests that stop the same       *)
(* session, and every way to end the space.                                 *)
(***************************************************************************)
EXTENDS SpaceRecording, TLC

CONSTANTS e1, e2, s1, s2, s3, r1, r2, j1

Takes   == Permutations(Sessions)

=============================================================================
