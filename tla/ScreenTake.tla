----------------------------- MODULE ScreenTake -----------------------------
(***************************************************************************)
(* One take of the screen recorder: a session of one user, with a track     *)
(* for the screen and, when the camera is on, one for the camera.  Unlike   *)
(* a meeting, where each track is finalized by itself, the take is          *)
(* finalized as a whole by one job, whose id is the session:                *)
(*                                                                         *)
(*   - the browser uploads chunks, reports each track complete and stops    *)
(*     the session; chunks may land long after;                             *)
(*   - a run of the job fetches the chunks, puts a quick preview up, builds *)
(*     the masters, publishes them and then looks for chunks it missed; a   *)
(*     composite makes the raw chunks useless, so it deletes them;          *)
(*   - the recovery sweep stops abandoned takes, completes abandoned tracks *)
(*     and queues takes whose job is gone; a daily cleanup deletes chunks;  *)
(*   - a straggler re-opens a finished take.                                *)
(*                                                                         *)
(* Every process is split at its awaits.                                   *)
(***************************************************************************)
EXTENDS Naturals, FiniteSets

CONSTANTS
  Screen, Camera,  \* the two kinds of track
  Tracks,          \* the tracks of this take
  Last,            \* [Tracks -> Nat]: chunks each track records
  Reports,         \* [Tracks -> SUBSET Nat]: counts the browser may report
  Host,            \* the request that stops the take
  Attempts,        \* attempts of a finalize job
  MaxFaults,       \* faults in a behaviour (a bound)
  MaxRequests,     \* API requests in flight at once (a bound)
  None

Chunks   == UNION {{t} \X (1 .. Last[t]) : t \in Tracks}
TrackOf(c) == c[1]
Requests == Chunks \cup Tracks \cup {Host}
Counts(t) == 0 .. Last[t]

(* What matters later of the faults: an encode failed, or an API request died *)
(* after its commit; the last attempt is spent; a straggler comes          *)
(* while the chunks of its take are being deleted, or while a run fails for  *)
(* want of chunks; a straggler of one track re-opens a take although the     *)
(* chunks of another are deleted; a run dies between its video and the look  *)
(* for chunks it missed.                                                     *)
Happenings == {"encode", "api", "givenUp", "race", "sibling", "unchecked"}

ASSUME TracksAssumption ==
  /\ Tracks # {} /\ Tracks \subseteq {Screen, Camera} /\ Screen # Camera
  /\ Last \in [Tracks -> Nat] /\ \A t \in Tracks : Reports[t] \subseteq Counts(t)
ASSUME RequestsOfTake == Host \notin Chunks \cup Tracks /\ Tracks \cap Chunks = {}
ASSUME BoundsOfTake ==
  /\ Attempts \in Nat \ {0} /\ MaxRequests \in Nat \ {0}
  /\ MaxFaults \in Nat /\ None \notin Nat

SessionStatuses == {"ACTIVE", "STOPPED", "PROCESSING", "READY", "FAILED"}
TrackStatuses   == {"UPLOADING", "UPLOADED", "PROCESSING", "READY", "FAILED"}
OutputKinds     == {"none", "preview", "both", "separate", "salvage"}
ReqPhases == {"idle", "arrived", "cleaned?", "reopen", "session",
              "report", "try", "flip", "stop", "kick", "enqueue", "done"}
RunPhases == {"idle", "claim", "mark", "fetch", "preview", "build", "settle",
              "ready", "recount", "reopen", "enqueue", "list", "delete",
              "processed", "finish"}

VARIABLES
  session,     \* RecordingSession.status
  outputs,     \* RecordingSession.outputs: its kind and the chunks in it
  status, isComplete, expected,  \* the ParticipantRecording rows
  segs,        \* the RecordingSegment rows
  cleaned,     \* those marked PROCESSED
  objects,     \* chunk objects in the bucket
  job,         \* the take's BullMQ job: state, failed attempts, stalls
  pc, seen,    \* API requests: where each is, and what it read of its track
  run,         \* the finalize run: where, and its local variables
  sweep,       \* the recovery sweep
  cleaner,     \* the daily cleanup
  faults,      \* faults that may still happen
  hit,         \* history: the faults that happened, and what came of them
  late         \* history: chunks that came after their track's were deleted

rows    == <<status, isComplete, expected>>
uploads == <<segs, late>>
store   == <<uploads, cleaned, objects>>
reqVars == <<pc, seen>>
others  == <<sweep, cleaner>>
world   == <<faults, hit>>
vars == <<session, outputs, rows, store, job, reqVars, run, others, world>>

NoChunks == [t \in Tracks |-> {}]
NoJob    == [state |-> "none", tries |-> 0, stalls |-> 0]
IdleRun  == [at |-> "idle", snap |-> {}, todo |-> {}, got |-> NoChunks,
             hadFinal |-> FALSE, out |-> [kind |-> "none", has |-> {}]]
IdleSweep   == [at |-> "idle", track |-> None, segs |-> {}, expected |-> None]
IdleCleaner == [at |-> "idle", track |-> None, segs |-> {}]
Nothing     == [status |-> "UPLOADING", expected |-> None]

AnyCount == (UNION {Counts(t) : t \in Tracks}) \cup {None}

TypeOK ==
  /\ session \in SessionStatuses
  /\ outputs \in [kind : OutputKinds, has : SUBSET Chunks]
  /\ status \in [Tracks -> TrackStatuses] /\ isComplete \in [Tracks -> BOOLEAN]
  /\ expected \in [Tracks -> AnyCount]
  /\ segs \subseteq Chunks /\ cleaned \subseteq Chunks /\ objects \subseteq Chunks
  /\ job \in [state : {"none", "queued", "active", "failed"},
              tries : 0 .. (Attempts - 1), stalls : {0, 1}]
  /\ pc \in [Requests -> ReqPhases]
  /\ seen \in [Requests -> [status : TrackStatuses, expected : AnyCount]]
  /\ run \in [at : RunPhases, snap : SUBSET Chunks, todo : SUBSET Tracks,
              got : [Tracks -> SUBSET Chunks], hadFinal : BOOLEAN,
              out : [kind : OutputKinds, has : SUBSET Chunks]]
  /\ sweep \in [at : {"idle", "force", "kick", "enqueue"},
                track : Tracks \cup {None}, segs : SUBSET Chunks, expected : AnyCount]
  /\ cleaner \in [at : {"idle", "delete", "processed"},
                  track : Tracks \cup {None}, segs : SUBSET Chunks]
  /\ faults \in 0 .. MaxFaults /\ hit \subseteq Happenings /\ late \subseteq segs

Init ==
  /\ session = "ACTIVE" /\ outputs = [kind |-> "none", has |-> {}]
  /\ status = [t \in Tracks |-> "UPLOADING"]
  /\ isComplete = [t \in Tracks |-> FALSE] /\ expected = [t \in Tracks |-> None]
  /\ segs = {} /\ late = {} /\ cleaned = {} /\ objects = {}
  /\ job = NoJob /\ run = IdleRun /\ sweep = IdleSweep /\ cleaner = IdleCleaner
  /\ pc = [r \in Requests |-> "idle"] /\ seen = [r \in Requests |-> Nothing]
  /\ faults = MaxFaults /\ hit = {}

-----------------------------------------------------------------------------
(* Helpers.                                                                *)

OrZero(n)      == IF n = None THEN 0 ELSE n
Larger(a, b)   == IF a < b THEN b ELSE a
ChunksOf(S, t) == {c \in S : TrackOf(c) = t}
Observed(S)    == IF S = {} THEN 0 ELSE (CHOOSE c \in S : \A d \in S : d[2] <= c[2])[2]
Arrived(t, n)  == \A i \in 1 .. n : <<t, i>> \in segs
IsFinal(o)     == o.kind \in {"both", "separate", "salvage"}

Happened(what) == hit' = hit \cup what
\* One of the faults of this behaviour.
Fault(what)    == faults > 0 /\ faults' = faults - 1 /\ Happened(what)
Note(race)     == UNCHANGED faults /\ Happened(IF race THEN {"race"} ELSE {})
InFlight       == {r \in Requests : pc[r] \notin {"idle", "done"}}
Goto(r, phase) == pc' = [pc EXCEPT ![r] = phase]
Return(r)      == Goto(r, "done") /\ seen' = [seen EXCEPT ![r] = Nothing]
Keep(r, t, phase) ==
  Goto(r, phase) /\ seen' = [seen EXCEPT ![r] = [status |-> status[t], expected |-> expected[t]]]

\* enqueueFinalize: a failed job of that id is removed, a live one stays, and
\* add() does nothing while it is there.
Add == IF job.state \in {"none", "failed"}
       THEN job' = [NoJob EXCEPT !.state = "queued"] ELSE UNCHANGED job

(* Somebody has looked whether chunks were deleted and is about to re-open.   *)
Reopening == \E c \in Chunks : pc[c] = "reopen"
(* Chunks are being deleted, or a worker died half way through.              *)
Deleting == \/ run.at \in {"list", "delete", "processed"} \/ cleaner.at # "idle"
            \/ \E c \in segs \ cleaned : c \notin objects
Settled  == {"READY", "FAILED"}
(* No chunk of S for the whole window of the sweep: nobody is registering one. *)
Quiet(S) == \A r \in S \cup {Host} : r \notin InFlight
AtRest   == /\ run.at = "idle" /\ job.state \in {"none", "failed"} /\ InFlight = {}
            /\ sweep.at = "idle" /\ cleaner.at = "idle"

-----------------------------------------------------------------------------
(* A chunk is PUT to the bucket and then registered: createSegment writes    *)
(* the row and the counters in one transaction.  (An object without a row is *)
(* never read.)                                                              *)

RegisterChunk(c) ==
  /\ pc[c] = "idle" /\ Cardinality(InFlight) < MaxRequests /\ Goto(c, "arrived")
  /\ segs' = segs \cup {c} /\ objects' = objects \cup {c}
  /\ late' = IF ChunksOf(cleaned, TrackOf(c)) # {} THEN late \cup {c} ELSE late
  /\ Note(Deleting)
  /\ UNCHANGED <<session, outputs, rows, cleaned, job, seen, run, others>>

\* onSegmentArrived: a track that waits for chunks may now be complete, and a
\* settled one has to be re-opened.
ChunkArrived(c) ==
  LET t == TrackOf(c)
  IN  /\ pc[c] = "arrived"
      /\ \/ ~isComplete[t] /\ Goto(c, "try") /\ UNCHANGED seen
         \/ isComplete[t] /\ status[t] \in {"READY", "FAILED"} /\ Keep(c, t, "cleaned?")
         \/ isComplete[t] /\ status[t] \notin {"READY", "FAILED"} /\ Return(c)
      /\ UNCHANGED <<session, outputs, rows, store, job, run, others, world>>

\* Mutant: chunks that were cleaned up do not keep a track closed.
CheckNothing(c) ==
  /\ pc[c] = "cleaned?" /\ Goto(c, "reopen")
  /\ UNCHANGED <<session, outputs, rows, store, job, seen, run, others, world>>

CheckCleaned(c) ==
  /\ pc[c] = "cleaned?"
  /\ IF ChunksOf(cleaned, TrackOf(c)) # {} THEN Return(c) ELSE Goto(c, "reopen") /\ UNCHANGED seen
  /\ UNCHANGED <<session, outputs, rows, store, job, run, others, world>>

ReopenTrack(c) ==
  LET t == TrackOf(c)
  IN  /\ pc[c] = "reopen"
      /\ \/ /\ status[t] \in {"READY", "FAILED"} /\ Goto(c, "session") /\ UNCHANGED seen
            /\ status' = [status EXCEPT ![t] = "UPLOADED"]
            /\ expected' = [expected EXCEPT ![t] = Larger(OrZero(seen[c].expected), c[2])]
            /\ UNCHANGED faults
            /\ Happened((IF Deleting THEN {"race"} ELSE {})
                        \cup (IF cleaned \ ChunksOf(cleaned, t) # {} THEN {"sibling"} ELSE {}))
         \/ /\ status[t] \notin {"READY", "FAILED"} /\ Return(c)
            /\ UNCHANGED <<status, expected, world>>
      /\ UNCHANGED <<session, outputs, isComplete, store, job, run, others>>

\* reopenScreenSession.
ReopenSession(c) ==
  /\ pc[c] = "session"
  /\ IF session \in {"READY", "FAILED", "PROCESSING"}
     THEN session' = "STOPPED" /\ Goto(c, "enqueue") /\ UNCHANGED seen
     ELSE Return(c) /\ UNCHANGED session
  /\ UNCHANGED <<outputs, rows, store, job, run, others, world>>

-----------------------------------------------------------------------------
(* The browser reports each track complete and then stops the take; when its *)
(* recorders fail it only stops it.                                          *)

ReadForReport(t) ==
  /\ pc[t] = "idle" /\ pc[Host] = "idle" /\ Cardinality(InFlight) < MaxRequests
  /\ Keep(t, t, "report")
  /\ UNCHANGED <<session, outputs, rows, store, job, run, others, world>>

\* markRecordingComplete never shrinks the count; a higher one than before puts
\* a track that is complete but unclaimed back to uploading (a second report,
\* which a take has none of).
MarkRecordingComplete(t) ==
  /\ pc[t] = "report" /\ Goto(t, "try") /\ UNCHANGED seen
  /\ \E n \in Reports[t] :
       expected' = [expected EXCEPT ![t] = Larger(OrZero(seen[t].expected), n)]
  /\ UNCHANGED <<session, outputs, status, isComplete, store, job, run, others, world>>

TrackFor(r) == IF r \in Tracks THEN r ELSE TrackOf(r)

\* tryCompleteRecording: every chunk the browser reported is registered.
TryComplete(r) ==
  LET t == TrackFor(r)
  IN  /\ pc[r] = "try"
      /\ IF ~isComplete[t] /\ expected[t] # None /\ Arrived(t, OrZero(expected[t]))
         THEN Keep(r, t, "flip") ELSE Return(r)
      /\ UNCHANGED <<session, outputs, rows, store, job, run, others, world>>

FlipComplete(r) ==
  LET t == TrackFor(r)
  IN  /\ pc[r] = "flip"
      /\ \/ /\ ~isComplete[t] /\ isComplete' = [isComplete EXCEPT ![t] = TRUE]
            /\ status' = [status EXCEPT ![t] = IF seen[r].status = "UPLOADING" THEN "UPLOADED" ELSE @]
            /\ Goto(r, "kick") /\ UNCHANGED seen
         \/ isComplete[t] /\ Return(r) /\ UNCHANGED <<isComplete, status>>
      /\ UNCHANGED <<session, outputs, expected, store, job, run, others, world>>

\* stopScreenRecordingSession: the read; the last stretch is metered meanwhile.
StopReads ==
  /\ pc[Host] = "idle" /\ \A t \in Tracks : pc[t] \in {"idle", "done"}
  /\ Cardinality(InFlight) < MaxRequests /\ session = "ACTIVE"
  /\ Goto(Host, "stop")
  /\ UNCHANGED <<session, outputs, rows, store, job, seen, run, others, world>>

StopWrites ==
  /\ pc[Host] = "stop" /\ Goto(Host, "kick") /\ session' = "STOPPED"
  /\ UNCHANGED <<outputs, rows, store, job, seen, run, others, world>>

\* maybeFinalizeScreenSession.
AllComplete == session = "STOPPED" /\ \A t \in Tracks : isComplete[t]

MaybeFinalize(r) ==
  /\ pc[r] = "kick"
  /\ IF AllComplete THEN Goto(r, "enqueue") /\ UNCHANGED seen ELSE Return(r)
  /\ UNCHANGED <<session, outputs, rows, store, job, run, others, world>>

EnqueueFinalize(r) ==
  /\ pc[r] = "enqueue" /\ Add /\ Return(r)
  /\ UNCHANGED <<session, outputs, rows, store, run, others, world>>

\* The API process dies, or what follows the commit fails: it is logged only.
RequestDies(r) ==
  /\ pc[r] \notin {"idle", "report", "done"} /\ Fault({"api"}) /\ Return(r)
  /\ UNCHANGED <<session, outputs, rows, store, job, run, others>>

-----------------------------------------------------------------------------
(* The finalize job on a worker.                                           *)

Step(phase) == run' = [run EXCEPT !.at = phase]
Final       == job.tries + 1 >= Attempts
OnLast      == IF Final THEN {"givenUp"} ELSE {}
JobDone     == job' = NoJob /\ run' = IdleRun

PickUp ==
  /\ job.state = "queued" /\ run.at = "idle" /\ Step("claim")
  /\ job' = [job EXCEPT !.state = "active"]
  /\ UNCHANGED <<session, outputs, rows, store, reqVars, others, world>>

\* The take and its chunks are read; a READY or ACTIVE one is left alone.
Claim ==
  /\ run.at = "claim"
  /\ IF session \in {"STOPPED", "PROCESSING", "FAILED"}
     THEN /\ run' = [run EXCEPT !.at = "mark", !.snap = segs, !.todo = Tracks,
                                !.hadFinal = IsFinal(outputs)]
          /\ UNCHANGED job
     ELSE JobDone
  /\ UNCHANGED <<session, outputs, rows, store, reqVars, others, world>>

MarkProcessing ==
  /\ run.at = "mark" /\ Step("fetch") /\ session' = "PROCESSING"
  /\ UNCHANGED <<outputs, rows, store, job, reqVars, others, world>>

\* The screen is fetched first, and the preview is made of what comes first.
Turn(t) == t \in run.todo /\ (t = Screen \/ Screen \notin run.todo)
AfterFetch(t, got) ==
  run' = [run EXCEPT !.todo = @ \ {t}, !.got[t] = got,
                     !.at = IF run.todo = Tracks THEN "preview"
                            ELSE IF run.todo = {t} THEN "build" ELSE "fetch"]

\* A track without chunks waits a little for late ones, then fails.
FetchNothing(t) ==
  /\ run.at = "fetch" /\ Turn(t) /\ ChunksOf(run.snap, t) = {} /\ ChunksOf(segs, t) = {}
  /\ status' = [status EXCEPT ![t] = "FAILED"] /\ AfterFetch(t, {})
  /\ UNCHANGED <<session, outputs, isComplete, expected, store, job, reqVars, others, world>>

ToFetch(t) == IF ChunksOf(run.snap, t) = {} THEN ChunksOf(segs, t) ELSE ChunksOf(run.snap, t)

\* Missing objects are skipped, as long as one can be read.
FetchTrack(t) ==
  /\ run.at = "fetch" /\ Turn(t) /\ ToFetch(t) \cap objects # {}
  /\ status' = [status EXCEPT ![t] = "PROCESSING"]
  /\ AfterFetch(t, ToFetch(t) \cap objects)
  /\ UNCHANGED <<session, outputs, isComplete, expected, store, job, reqVars, others, world>>

\* No object can be read, because they are gone or storage fails: the whole
\* take is tried again, and the last attempt goes on without the track.
FetchFails(t) ==
  /\ run.at = "fetch" /\ Turn(t) /\ ToFetch(t) # {}
  /\ IF ToFetch(t) \cap objects = {} THEN UNCHANGED world ELSE Fault(OnLast)
  /\ IF Final
     THEN /\ status' = [status EXCEPT ![t] = "FAILED"] /\ AfterFetch(t, {})
          /\ UNCHANGED <<job, session>>
     ELSE /\ status' = [status EXCEPT ![t] = "PROCESSING"]
          /\ job' = [job EXCEPT !.state = "queued", !.tries = @ + 1] /\ run' = IdleRun
          /\ UNCHANGED session
  /\ UNCHANGED <<outputs, isComplete, expected, store, reqVars, others>>

Primary == IF Screen \in Tracks THEN Screen ELSE Camera
\* The quick copy goes up unless the take already had its real video.
PutPreview ==
  /\ run.at = "preview"
  /\ run' = [run EXCEPT !.at = IF run.todo = {} THEN "build" ELSE "fetch", !.hadFinal = FALSE]
  /\ outputs' = IF session = "PROCESSING" /\ run.got[Primary] # {} /\ ~run.hadFinal
                THEN [kind |-> "preview", has |-> run.got[Primary]] ELSE outputs
  /\ UNCHANGED <<session, rows, store, job, reqVars, others, world>>

\* The masters.  An encode that fails leaves the first part of its track, and
\* the screen's fails to take the camera in with it.
Masters(got, salvaged) ==
  [t \in Tracks |-> IF t \in salvaged THEN {c \in got[t] : \A d \in got[t] : c[2] <= d[2]}
                                      ELSE got[t]]

BuildMasters ==
  /\ run.at = "build"
  /\ \E salvaged \in SUBSET Tracks, together \in BOOLEAN :
       LET got  == Masters(run.got, salvaged)
           made == {t \in Tracks : got[t] # {}}
           both == together /\ salvaged = {} /\ made = {Screen, Camera}
       IN  /\ IF salvaged = {} /\ (both \/ made # {Screen, Camera})
              THEN UNCHANGED world ELSE Fault({"encode"})
           /\ run' = [run EXCEPT !.at = IF made = {} THEN "ready" ELSE "settle",
                                 !.todo = made, !.got = NoChunks,
                                 !.out = [kind |-> IF both THEN "both" ELSE "separate",
                                          has |-> UNION {got[t] : t \in Tracks}]]
  /\ UNCHANGED <<session, outputs, rows, store, job, reqVars, others>>

\* A master cannot be made or uploaded: on the last attempt the quick copy is
\* the take's video, if there is one.
BuildFails ==
  /\ run.at = "build" /\ Final /\ Fault({"encode"}) /\ run.got[Primary] # {}
  /\ run' = [run EXCEPT !.at = "ready", !.got = NoChunks,
                     !.out = [kind |-> "salvage", has |-> run.got[Primary]]]
  /\ status' = [t \in Tracks |-> IF run.got[t] # {} THEN "FAILED" ELSE status[t]]
  /\ UNCHANGED <<session, outputs, isComplete, expected, store, job, reqVars, others>>

\* publishMaster, settleCompositeInput.
SettleTrack(t) ==
  /\ run.at = "settle" /\ Turn(t)
  /\ status' = [status EXCEPT ![t] = "READY"]
  /\ run' = [run EXCEPT !.todo = @ \ {t}, !.at = IF run.todo = {t} THEN "ready" ELSE "settle"]
  /\ UNCHANGED <<session, outputs, isComplete, expected, store, job, reqVars, others, world>>

\* Mutant: a take without a video is READY all the same.
PublishAlways ==
  /\ run.at = "ready" /\ session' = "READY" /\ outputs' = run.out /\ Step("recount")
  /\ UNCHANGED <<rows, store, job, reqVars, others, world>>

\* A take without a video fails; nobody then looks for chunks the run missed.
PublishTake ==
  /\ run.at = "ready"
  /\ IF run.out.has = {}
     THEN /\ session' = "FAILED" /\ outputs' = [kind |-> "none", has |-> {}] /\ JobDone
          /\ Note(segs # run.snap)
     ELSE /\ session' = "READY" /\ outputs' = run.out /\ Step("recount")
          /\ UNCHANGED <<job, world>>
  /\ UNCHANGED <<rows, store, reqVars, others>>

(* A chunk that did make it into the video re-opens the take all the same: its *)
(* track is left waiting in a READY take, or the take's chunks are deleted     *)
(* under the next run.                                                        *)
ReopenInVain ==
  \/ \E t \in Tracks : status[t] = "UPLOADED"
  \/ run.out.kind = "both" /\ (session # "READY" \/ \E c \in Chunks : pc[c] = "session")

\* Mutant: nobody looks for chunks the run missed.
NoRecount ==
  /\ run.at = "recount" /\ Step(IF run.out.kind = "both" THEN "list" ELSE "finish")
  /\ Note(FALSE)
  /\ UNCHANGED <<session, outputs, rows, store, job, reqVars, others>>

\* Chunks that came meanwhile are not in the video.
Recount ==
  /\ run.at = "recount"
  /\ Step(IF segs # run.snap THEN "reopen" ELSE IF run.out.kind = "both" THEN "list" ELSE "finish")
  /\ Note(segs = run.snap /\ ReopenInVain)
  /\ UNCHANGED <<session, outputs, rows, store, job, reqVars, others>>

ReopenMissed ==
  /\ run.at = "reopen"
  /\ IF session \in {"READY", "FAILED", "PROCESSING"}
     THEN session' = "STOPPED" /\ Step("enqueue") ELSE UNCHANGED session /\ Step("finish")
  /\ UNCHANGED <<outputs, rows, store, job, reqVars, others, world>>

\* This run's own job is still there: the add does nothing.
EnqueueMissed ==
  /\ run.at = "enqueue" /\ Add /\ Step("finish")
  /\ UNCHANGED <<session, outputs, rows, store, reqVars, others, world>>

\* A composite is all the take needs: list its chunks, delete them with
\* whatever else is in their tracks' folders, and mark the rows.
ListChunks ==
  /\ run.at = "list" /\ run' = [run EXCEPT !.at = "delete", !.snap = segs \ cleaned]
  /\ UNCHANGED <<session, outputs, rows, store, job, reqVars, others, world>>

DeleteChunks ==
  /\ run.at = "delete" /\ Step("processed")
  /\ objects' = {c \in objects : ChunksOf(run.snap, TrackOf(c)) = {}}
  /\ UNCHANGED <<session, outputs, rows, uploads, cleaned, job, reqVars, others, world>>

MarkCleaned ==
  /\ run.at = "processed" /\ Step("finish") /\ cleaned' = cleaned \cup run.snap
  /\ Note(Reopening)
  /\ UNCHANGED <<session, outputs, rows, uploads, objects, job, reqVars, others>>

FinishJob ==
  /\ run.at = "finish" /\ JobDone
  /\ UNCHANGED <<session, outputs, rows, store, reqVars, others, world>>

\* Storage fails outside a track's own work: tried again, and after the last
\* attempt the take is failed, with what it has published so far.
RunFails ==
  /\ run.at \in {"mark", "build", "settle"} /\ Fault(OnLast) /\ run' = IdleRun
  /\ IF Final
     THEN /\ session' = "FAILED" /\ job' = NoJob
          /\ status' = [t \in Tracks |-> IF status[t] = "PROCESSING" THEN "FAILED" ELSE status[t]]
     ELSE /\ job' = [job EXCEPT !.state = "queued", !.tries = @ + 1]
          /\ UNCHANGED <<session, status>>
  /\ UNCHANGED <<outputs, isComplete, expected, store, reqVars, others>>

\* The worker dies; its job is found stalled, and given up on the second time.
WorkerDies ==
  /\ run.at # "idle" /\ run' = IdleRun
  /\ Fault(IF run.at \in {"recount", "reopen"} THEN {"unchecked"} ELSE {})
  /\ UNCHANGED <<session, outputs, rows, store, job, reqVars, others>>

JobStalled ==
  /\ job.state = "active" /\ run.at = "idle"
  /\ job' = [job EXCEPT !.state = IF job.stalls = 0 THEN "queued" ELSE "failed", !.stalls = 1]
  /\ Happened(IF job.stalls = 0 THEN {} ELSE {"givenUp"}) /\ UNCHANGED faults
  /\ UNCHANGED <<session, outputs, rows, store, reqVars, run, others>>

-----------------------------------------------------------------------------
(* The recovery sweep and the daily cleanup.                               *)

\* A take whose browser is gone is stopped; it sends no stop of its own.
ReapTake ==
  /\ session = "ACTIVE" /\ pc[Host] = "idle" /\ Quiet(Chunks) /\ session' = "STOPPED"
  /\ UNCHANGED <<outputs, rows, store, job, reqVars, run, others, world>>

ForceReads(t) ==
  /\ sweep.at = "idle" /\ session # "ACTIVE" /\ ~isComplete[t] /\ Quiet(ChunksOf(Chunks, t))
  /\ sweep' = [at |-> "force", track |-> t, segs |-> ChunksOf(segs, t), expected |-> expected[t]]
  /\ UNCHANGED <<session, outputs, rows, store, job, reqVars, run, cleaner, world>>

ForceCompletes ==
  LET t == sweep.track
  IN  /\ sweep.at = "force" /\ sweep' = [IdleSweep EXCEPT !.at = "kick"]
      /\ IF isComplete[t] THEN UNCHANGED rows
         ELSE /\ isComplete' = [isComplete EXCEPT ![t] = TRUE]
              /\ expected' = [expected EXCEPT ![t] = Larger(OrZero(sweep.expected), Observed(sweep.segs))]
              /\ status' = [status EXCEPT ![t] = IF sweep.segs = {} THEN "FAILED" ELSE "UPLOADED"]
      /\ UNCHANGED <<session, outputs, store, job, reqVars, run, cleaner, world>>

SweepMaybeFinalizes ==
  /\ sweep.at = "kick" /\ sweep' = [IdleSweep EXCEPT !.at = IF AllComplete THEN "enqueue" ELSE "idle"]
  /\ UNCHANGED <<session, outputs, rows, store, job, reqVars, run, cleaner, world>>

\* Mutant: a take whose job was given up on is left as it is.
RecoverMissing ==
  /\ sweep.at = "idle" /\ session \in {"STOPPED", "PROCESSING"} /\ \A t \in Tracks : isComplete[t]
  /\ job.state = "none" /\ sweep' = [IdleSweep EXCEPT !.at = "enqueue"]
  /\ UNCHANGED <<session, outputs, rows, store, job, reqVars, run, cleaner, world>>

\* recoverScreenFinalize, for a complete take that waits or was claimed: a live
\* job is left alone, a job given up on fails the take, a missing one is added.
RecoverTake ==
  /\ sweep.at = "idle" /\ session \in {"STOPPED", "PROCESSING"} /\ \A t \in Tracks : isComplete[t]
  /\ \/ /\ job.state = "none" /\ sweep' = [IdleSweep EXCEPT !.at = "enqueue"]
        /\ UNCHANGED session
     \/ job.state = "failed" /\ session' = "FAILED" /\ UNCHANGED sweep
  /\ UNCHANGED <<outputs, rows, store, job, reqVars, run, cleaner, world>>

SweepEnqueues ==
  /\ sweep.at = "enqueue" /\ Add /\ sweep' = IdleSweep
  /\ UNCHANGED <<session, outputs, rows, store, reqVars, run, cleaner, world>>

\* A READY track with no write and no chunk for a day: nobody is at work on it.
CleanerLists(t) ==
  /\ AtRest /\ session \in Settled /\ status[t] = "READY" /\ ChunksOf(segs \ cleaned, t) # {}
  /\ cleaner' = [at |-> "delete", track |-> t, segs |-> ChunksOf(segs \ cleaned, t)]
  /\ UNCHANGED <<session, outputs, rows, store, job, reqVars, run, sweep, world>>

CleanerDeletes ==
  /\ cleaner.at = "delete" /\ cleaner' = [cleaner EXCEPT !.at = "processed"]
  /\ objects' = objects \ {c \in objects : TrackOf(c) = cleaner.track}
  /\ UNCHANGED <<session, outputs, rows, uploads, cleaned, job, reqVars, run, sweep, world>>

CleanerMarks ==
  /\ cleaner.at = "processed" /\ cleaner' = IdleCleaner /\ cleaned' = cleaned \cup cleaner.segs
  /\ Note(Reopening)
  /\ UNCHANGED <<session, outputs, rows, uploads, objects, job, reqVars, run, sweep>>

-----------------------------------------------------------------------------
RequestStep(r) ==
  \/ /\ r \in Chunks
     /\ ChunkArrived(r) \/ CheckCleaned(r) \/ ReopenTrack(r) \/ ReopenSession(r)
  \/ r \in Tracks /\ MarkRecordingComplete(r)
  \/ r = Host /\ StopWrites
  \/ r # Host /\ (TryComplete(r) \/ FlipComplete(r))
  \/ MaybeFinalize(r) \/ EnqueueFinalize(r)

RunStep ==
  \/ Claim \/ MarkProcessing \/ PutPreview \/ BuildMasters \/ PublishTake
  \/ \E t \in Tracks : FetchNothing(t) \/ FetchTrack(t) \/ FetchFails(t) \/ SettleTrack(t)
  \/ Recount \/ ReopenMissed \/ EnqueueMissed
  \/ ListChunks \/ DeleteChunks \/ MarkCleaned \/ FinishJob

SweepStep ==
  \/ \E t \in Tracks : ForceReads(t)
  \/ ForceCompletes \/ SweepMaybeFinalizes \/ RecoverTake \/ SweepEnqueues

CleanerStep == (\E t \in Tracks : CleanerLists(t)) \/ CleanerDeletes \/ CleanerMarks

Next ==
  \/ \E c \in Chunks : RegisterChunk(c)
  \/ \E t \in Tracks : ReadForReport(t)
  \/ StopReads \/ ReapTake
  \/ \E r \in Requests : RequestStep(r) \/ RequestDies(r)
  \/ PickUp \/ RunStep \/ BuildFails \/ RunFails \/ WorkerDies \/ JobStalled
  \/ SweepStep \/ CleanerStep

(* What the API and the worker have begun they carry on, a queued job is    *)
(* picked up, and the sweeps come round.                                    *)
Fairness ==
  /\ WF_vars(\E r \in Requests : RequestStep(r))
  /\ WF_vars(PickUp) /\ WF_vars(RunStep) /\ WF_vars(JobStalled)
  /\ WF_vars(SweepStep)

Untimed == Init /\ [][Next]_vars
Spec    == Untimed /\ Fairness

-----------------------------------------------------------------------------
(* Properties.                                                             *)

\* What the code stands up to: everything but a straggler that comes while
\* chunks are being deleted or a run fails without any, a run that dies just
\* before it would look for chunks it missed, a request that dies after its
\* commit, and a job whose attempts are spent.
Sound == hit \cap {"race", "sibling", "unchecked", "api", "givenUp"} = {}

\* What is deleted or settled is not forgotten.  Once a take has settled and
\* everything is quiet, each registered chunk is in the take's video, unless it
\* came after the chunks of its track were deleted, or an encode failed
\* (finalizeScreenSession, onSegmentArrived, deleteTrackChunks).
NothingForgotten ==
  (session \in Settled /\ AtRest /\ Sound /\ "encode" \notin hit) =>
    segs \ late \subseteq outputs.has

\* A take that is READY has a video that is not the preview, with something in
\* it, whoever wrote the session last (finalizeScreenSession 1034-1071).
ReadyHasVideo == session = "READY" => IsFinal(outputs) /\ outputs.has # {}

\* A finished video is never dropped from the take: a rebuild that fails leaves
\* the outputs alone (finalizeScreenSession 1057-1065, 1141-1158), and one that
\* goes through has all that was in the video before, but for an encode that
\* fails.
Keeps(allowed) ==
  /\ IsFinal(outputs) => IsFinal(outputs')
  /\ "encode" \notin allowed /\ IsFinal(outputs) => outputs.has \subseteq outputs'.has

VideoKept == [][Sound' => Keeps(hit')]_vars

\* A stopped take never stays unsettled, although the re-open of a run that
\* missed chunks adds no job while its own is active: the recovery sweep queues
\* it (recoverScreenFinalize).  A sweep that looks again and again just while a
\* run ends may queue a settled take again, so it is "always again".
TakeSettles == []<>(session \in Settled \cup {"ACTIVE"})
=============================================================================
