------------------------------ MODULE PcmLink ------------------------------
(***************************************************************************)
(* A participant records a camera track and, beside it, a lossless track   *)
(* of the microphone (PCM).  Two jobs finalize them in any order, again    *)
(* after late chunks; whichever ends last attaches the WAV to the output   *)
(* rows of the camera track.  Neither waits for the other.                 *)
(***************************************************************************)
EXTENDS Naturals

CONSTANTS
  MaxRuns,      \* runs of each of the two jobs
  MaxCrashes    \* workers that die

VARIABLES
  camera,       \* where the camera track's run is
  pcm,          \* where the PCM track's run is
  outputs,      \* the output rows of the camera track that exist
  failedRow,    \* the RAW row says FAILED: no camera run has succeeded
  attached,     \* output rows that name the WAV
  wav,          \* the PCM track's mergedFileKey is set
  seen,         \* what the camera run's link has read of it
  cameraRuns, pcmRuns,
  crashes

vars == <<camera, pcm, outputs, failedRow, attached, wav, seen, cameraRuns, pcmRuns,
          crashes>>

Variants == {"RAW", "ALIGNED"}

Init ==
  /\ camera = "idle" /\ pcm = "idle" /\ outputs = {} /\ attached = {}
  /\ failedRow = FALSE /\ wav = FALSE /\ seen = FALSE
  /\ cameraRuns = 0 /\ pcmRuns = 0 /\ crashes = 0

----------------------------------------------------------------------------
(* The camera track: finalizeRecording, then linkPcmWavToVideoOutput. *)

CameraStarts ==
  /\ camera = "idle" /\ cameraRuns < MaxRuns /\ cameraRuns' = cameraRuns + 1
  /\ camera' = "raw"
  /\ UNCHANGED <<pcm, outputs, failedRow, attached, wav, seen, pcmRuns, crashes>>

\* failTrack: a run that fails leaves the rows of an earlier one; if there is
\* no master yet the RAW row says FAILED, and nothing is attached to it.
CameraFails ==
  /\ camera = "raw" /\ camera' = "idle"
  /\ IF outputs = {} \/ failedRow
     THEN outputs' = {"RAW"} /\ failedRow' = TRUE
     ELSE UNCHANGED <<outputs, failedRow>>
  /\ UNCHANGED <<pcm, attached, wav, seen, cameraRuns, pcmRuns, crashes>>

\* The RAW row is created, or updated without its audioWavKey.
WriteRaw ==
  /\ camera = "raw" /\ camera' = "aligned"
  /\ outputs' = outputs \cup {"RAW"} /\ failedRow' = FALSE
  /\ UNCHANGED <<pcm, attached, wav, seen, cameraRuns, pcmRuns, crashes>>

\* The ALIGNED row, when the run made one (or failed to).
WriteAligned ==
  /\ camera = "aligned" /\ camera' = "link"
  /\ \E made \in SUBSET {"ALIGNED"} : outputs' = outputs \cup made
  /\ UNCHANGED <<pcm, failedRow, attached, wav, seen, cameraRuns, pcmRuns, crashes>>

\* Mutant: while the PCM track is being finalized, attaching is left to it.
LinkLeavesItToPcm ==
  /\ camera = "link" /\ seen' = (wav /\ pcm = "idle") /\ camera' = "attach"
  /\ UNCHANGED <<pcm, outputs, failedRow, attached, wav, cameraRuns, pcmRuns, crashes>>

LinkReads ==
  /\ camera = "link" /\ seen' = wav /\ camera' = "attach"
  /\ UNCHANGED <<pcm, outputs, failedRow, attached, wav, cameraRuns, pcmRuns, crashes>>

\* No WAV yet: the PCM run will attach it.
LinkWrites ==
  /\ camera = "attach" /\ camera' = "idle"
  /\ attached' = IF seen THEN outputs ELSE attached
  /\ UNCHANGED <<pcm, outputs, failedRow, wav, seen, cameraRuns, pcmRuns, crashes>>

----------------------------------------------------------------------------
(* The PCM track: finalizePcmRecording, then the same link. *)

PcmStarts ==
  /\ pcm = "idle" /\ pcmRuns < MaxRuns /\ pcmRuns' = pcmRuns + 1
  /\ pcm' = "wav"
  /\ UNCHANGED <<camera, outputs, failedRow, attached, wav, seen, cameraRuns, crashes>>

\* A failed run keeps a WAV that already worked.
PcmFails ==
  /\ pcm = "wav" /\ pcm' = "idle"
  /\ UNCHANGED <<camera, outputs, failedRow, attached, wav, seen, cameraRuns, pcmRuns, crashes>>

WriteWav ==
  /\ pcm = "wav" /\ pcm' = "link" /\ wav' = TRUE
  /\ UNCHANGED <<camera, outputs, failedRow, attached, seen, cameraRuns, pcmRuns, crashes>>

\* All rows of the participant's camera tracks, in one statement.
PcmLinks ==
  /\ pcm = "link" /\ pcm' = "idle"
  /\ attached' = outputs
  /\ UNCHANGED <<camera, outputs, failedRow, wav, seen, cameraRuns, pcmRuns, crashes>>

----------------------------------------------------------------------------
\* A worker dies with one of the jobs, or the query of its link fails: the
\* track's row may say READY already, and then no later run links.
WorkerDies ==
  /\ crashes < MaxCrashes /\ crashes' = crashes + 1
  /\ \/ camera # "idle" /\ camera' = "idle" /\ UNCHANGED pcm
     \/ pcm # "idle" /\ pcm' = "idle" /\ UNCHANGED camera
  /\ UNCHANGED <<outputs, failedRow, attached, wav, seen, cameraRuns, pcmRuns>>

Next ==
  \/ CameraStarts \/ CameraFails \/ WriteRaw \/ WriteAligned \/ LinkReads \/ LinkWrites
  \/ PcmStarts \/ PcmFails \/ WriteWav \/ PcmLinks \/ WorkerDies

Spec == Init /\ [][Next]_vars

----------------------------------------------------------------------------
\* Once both jobs have ended, every output row of the camera track names the
\* WAV there is, in whatever order the two wrote and read, and however often
\* either ran; unless the camera track failed, whose row has it only if the PCM
\* track came later.  A worker that dies between a track's READY and its link
\* can leave a row without it.
WavIsAttached ==
  (camera = "idle" /\ pcm = "idle" /\ wav /\ crashes = 0 /\ ~failedRow)
    => attached = outputs
=============================================================================
