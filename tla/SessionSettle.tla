--------------------------- MODULE SessionSettle ---------------------------
(***************************************************************************)
(* The status of a stopped session over its tracks.  Every run of a track  *)
(* ends in settleSessionStatus, which counts READY outputs and pending     *)
(* tracks and then writes the session, and possibly the space; runs of     *)
(* different tracks, and the kicks of maybeFinalizeSession, do so at the   *)
(* same time.                                                              *)
(***************************************************************************)
EXTENDS Naturals, FiniteSets

CONSTANTS
  Tracks,
  MaxLate,      \* chunks that arrive for a settled track
  MaxKicks      \* calls of maybeFinalizeSession

VARIABLES
  status,       \* the session: STOPPED, PROCESSING, READY, FAILED
  track,        \* per track: uploading, UPLOADED, PROCESSING, READY, FAILED
  output,       \* tracks with a READY output row
  run,          \* per track, its finalize job: none, encode, output, count, settle
  decision,     \* per settler, what it has read and not yet written
  overtaken,    \* history: settlers that read before the last READY write
  nobody,       \* history: a worker died before its run settled the session
  late, kicks

vars == <<status, track, output, run, decision, overtaken, nobody, late, kicks>>

Kick     == "kick"                      \* maybeFinalizeSession, as a settler
Settlers == Tracks \cup {Kick}
Pending(t) == track[t] \in {"uploading", "UPLOADED", "PROCESSING"}

Init ==
  /\ status = "STOPPED" /\ track = [t \in Tracks |-> "uploading"] /\ output = {}
  /\ run = [t \in Tracks |-> "none"]
  /\ decision = [s \in Settlers |-> "none"]
  /\ overtaken = {} /\ nobody = FALSE /\ late = 0 /\ kicks = 0

----------------------------------------------------------------------------
(* The tracks. *)

\* The track is complete: with chunks, or (a report of none) failed at once.
TrackCompletes(t) ==
  /\ track[t] = "uploading"
  /\ \E s \in {"UPLOADED", "FAILED"} : track' = [track EXCEPT ![t] = s]
  /\ UNCHANGED <<status, output, run, decision, overtaken, nobody, late, kicks>>

\* finalizeTrack claims the track; the first one moves the session on.
Claim(t) ==
  /\ run[t] = "none" /\ track[t] \in {"UPLOADED", "PROCESSING"}
  /\ track' = [track EXCEPT ![t] = "PROCESSING"]
  /\ status' = IF status = "STOPPED" THEN "PROCESSING" ELSE status
  /\ run' = [run EXCEPT ![t] = "encode"]
  /\ UNCHANGED <<output, decision, overtaken, nobody, late, kicks>>

\* The master is written, then the track is READY, then its output row is.
EncodeSucceeds(t) ==
  /\ run[t] = "encode"
  /\ track' = [track EXCEPT ![t] = "READY"] /\ run' = [run EXCEPT ![t] = "output"]
  /\ UNCHANGED <<status, output, decision, overtaken, nobody, late, kicks>>

\* failTrack: a track that has a master stays READY.  (Master and output row
\* differ only after a crash between the two, where nothing is promised.)
EncodeFails(t) ==
  /\ run[t] = "encode"
  /\ track' = [track EXCEPT ![t] = IF t \in output THEN "READY" ELSE "FAILED"]
  /\ run' = [run EXCEPT ![t] = "count"]
  /\ UNCHANGED <<status, output, decision, overtaken, nobody, late, kicks>>

WriteOutput(t) ==
  /\ run[t] = "output"
  /\ output' = output \cup {t} /\ run' = [run EXCEPT ![t] = "count"]
  /\ UNCHANGED <<status, track, decision, overtaken, nobody, late, kicks>>

\* A chunk for a settled track re-opens it (its own request, or the recount).
LateChunk(t) ==
  /\ track[t] \in {"READY", "FAILED"} /\ late < MaxLate
  /\ late' = late + 1 /\ track' = [track EXCEPT ![t] = "UPLOADED"]
  /\ UNCHANGED <<status, output, run, decision, overtaken, nobody, kicks>>

\* The worker dies; the job is handed out again and finds the track claimed,
\* or settled (then the run ends at its claim).
WorkerDies(t) ==
  /\ run[t] # "none" /\ ~nobody
  /\ run' = [run EXCEPT ![t] = "none"]
  /\ decision' = [decision EXCEPT ![t] = "none"]
  /\ nobody' = TRUE
  /\ UNCHANGED <<status, track, output, overtaken, late, kicks>>

----------------------------------------------------------------------------
(* settleSessionStatus. *)

\* The two counts are read at once.
Decide(s) == decision' = [decision EXCEPT ![s] =
  IF output # {} THEN "READY"
  ELSE IF \E t \in Tracks : Pending(t) THEN "nothing" ELSE "FAILED"]

SettleReads(t) ==
  /\ run[t] = "count" /\ Decide(t)
  /\ run' = [run EXCEPT ![t] = "settle"]
  /\ overtaken' = overtaken \ {t}
  /\ UNCHANGED <<status, track, output, nobody, late, kicks>>

\* maybeFinalizeSession settles only when no track is pending or READY yet.
KickReads ==
  /\ decision[Kick] = "none" /\ kicks < MaxKicks /\ kicks' = kicks + 1
  /\ status # "READY" /\ \A t \in Tracks : ~Pending(t)
  /\ Decide(Kick) /\ overtaken' = overtaken \ {Kick}
  /\ UNCHANGED <<status, track, output, run, nobody, late>>

\* Mutant: a session that has failed stays FAILED.
SettleWritesOnce(s) ==
  /\ decision[s] # "none"
  /\ status' = IF decision[s] = "nothing" \/ status = "FAILED" THEN status ELSE decision[s]
  /\ decision' = [decision EXCEPT ![s] = "none"]
  /\ run' = IF s = Kick THEN run ELSE [run EXCEPT ![s] = "none"]
  /\ UNCHANGED <<overtaken, track, output, nobody, late, kicks>>

\* The write asks only that the session does not record.
SettleWrites(s) ==
  /\ decision[s] # "none"
  /\ status' = IF decision[s] = "nothing" THEN status ELSE decision[s]
  /\ overtaken' = IF decision[s] = "READY"
                  THEN overtaken \cup {x \in Settlers : decision[x] = "FAILED"}
                  ELSE overtaken
  /\ decision' = [decision EXCEPT ![s] = "none"]
  /\ run' = IF s = Kick THEN run ELSE [run EXCEPT ![s] = "none"]
  /\ UNCHANGED <<track, output, nobody, late, kicks>>

----------------------------------------------------------------------------
Next ==
  \/ KickReads
  \/ \E s \in Settlers : SettleWrites(s)
  \/ \E t \in Tracks : \/ TrackCompletes(t) \/ Claim(t) \/ EncodeSucceeds(t)
                       \/ EncodeFails(t) \/ WriteOutput(t) \/ LateChunk(t)
                       \/ WorkerDies(t) \/ SettleReads(t)

Spec == Init /\ [][Next]_vars

----------------------------------------------------------------------------
\* When every track has landed and every run has ended, a session with a track
\* that can be downloaded is READY, although each settler saw only some of the
\* tracks finish.  (Not when a worker died before it settled, nor when a FAILED
\* is written after a READY that was decided later.)
AtRest == (\A t \in Tracks : ~Pending(t) /\ run[t] = "none") /\ decision[Kick] = "none"

DownloadableIsReady ==
  (AtRest /\ ~nobody /\ overtaken = {} /\ output # {}) => status = "READY"
=============================================================================
