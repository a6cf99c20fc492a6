-------------------------- MODULE ChunkUploaderMC --------------------------
(***************************************************************************)
(* Two tabs of one participant, in one browser or on two devices; each may *)
(* record, be taken over, be closed and be opened again.                   *)
(***************************************************************************)
EXTENDS ChunkUploader

CONSTANTS t1, t2, t3, laptop, phone

OneBrowser == [t \in Tabs |-> laptop]
TwoDevices == [t \in Tabs |-> IF t = t3 THEN phone ELSE laptop]

=============================================================================
