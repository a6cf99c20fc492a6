-------------------------- MODULE TrackFinalizeMC --------------------------
(***************************************************************************)
(* Small instances of TrackFinalize.  Two chunks, each of which opens a     *)
(* container; one or two tabs; two runs, enough for a job that is given to *)
(* a second worker while the first still encodes.  Every kind of fault is  *)
(* switched on by the run that asks about it.                              *)
(***************************************************************************)
EXTENDS TrackFinalize, TLC

CONSTANTS tabA, tabB, rejoin, w1, w2

AllReport  == [t \in Tabs |-> NumChunks]
TabAEmpty  == [t \in Tabs |-> IF t = tabA THEN 0 ELSE NumChunks]
EachChunk  == Chunks      \* every chunk opens a container of its own
Workers    == Permutations(Runs)

Once(kinds)   == [k \in FaultKinds |-> IF k \in kinds THEN 1 ELSE 0]
OneRetry      == Once({"storage"})
Outages       == Once({"crash", "storage"})
OtherFaults   == Once({"stall", "encode", "db", "api"})
Crash         == Once({"crash"})

=============================================================================
