---------------------------- MODULE ScreenTakeMC ----------------------------
(***************************************************************************)
(* Small takes: a screen with two chunks, or with one and a camera with one *)
(* that the browser reports empty while its only chunk is still being       *)
(* written.                                                                *)
(***************************************************************************)
EXTENDS ScreenTake

ScreenOnly      == {Screen}
ScreenAndCamera == {Screen, Camera}
OneEach         == [t \in Tracks |-> 1]
TwoOfScreen     == [t \in Tracks |-> IF t = Screen THEN 2 ELSE 1]
CameraEmpty     == [t \in Tracks |-> IF t = Screen THEN {Last[t]} ELSE {0}]
AnyReport       == [t \in Tracks |-> 0 .. Last[t]]
=============================================================================
