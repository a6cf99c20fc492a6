------------------------------ MODULE Delivery ------------------------------
(***************************************************************************)
(* What a participant may expect of a recorded chunk: it is held by one of *)
(* their browsers until the server has it, and what the server has it      *)
(* keeps.  A chunk is lost only if something happened to it that the code  *)
(* names as a reason (it is pardoned): the user deleted the take, the      *)
(* server refused it, the buffer expired, or its only copy was in the      *)
(* memory of a tab that went away.                                         *)
(***************************************************************************)
CONSTANT Chunks

VARIABLES fate, pardoned
vars == <<fate, pardoned>>

Fates == {"unrecorded", "held", "stored", "lost"}

Init == fate = [c \in Chunks |-> "unrecorded"] /\ pardoned = {}

\* How one chunk may fare in a step after which it is pardoned or not.
May(from, to, excused) ==
  \/ to = from
  \/ from = "unrecorded" /\ to = "held"
  \/ from = "held" /\ to = "stored"
  \/ excused /\ to # "unrecorded"

Step ==
  /\ fate' \in [Chunks -> Fates]
  /\ pardoned \subseteq pardoned' /\ pardoned' \subseteq Chunks
  /\ \A c \in Chunks : May(fate[c], fate'[c], c \in pardoned')

Spec == Init /\ [][Step]_vars

=============================================================================
