--------------------------- MODULE TrackFinalize ---------------------------
(***************************************************************************)
(* One meeting track (a ParticipantRecording row) from its first chunk to  *)
(* its master file.  Four kinds of process touch the row:                  *)
(*                                                                         *)
(*   - requests to the API: a chunk is registered, a tab reports how many  *)
(*     chunks it recorded, a tab rejoins, the host stops the session;      *)
(*   - runs of the finalize job on a worker (BullMQ, one job id per track);*)
(*   - the recovery sweep of the API, and the chunk cleanup it ends with.  *)
(*                                                                         *)
(* A request is split at every await between two database calls, so what a *)
(* handler read may be stale when it writes.  The database, the object     *)
(* store and the queue are shared; each single query is atomic.            *)
(***************************************************************************)
EXTENDS Naturals, FiniteSets

CONSTANTS
  NumChunks,   \* chunks 0 .. NumChunks-1 may be uploaded to this track
  PartStarts,  \* the chunks that open a new container (a restarted recorder)
  Tabs,        \* browser tabs that report completion of this track
  Reports,     \* [Tabs -> 0..NumChunks]: the count each tab reports
  Rejoins,     \* requests of tabs that re-enter the session
  Host,        \* the request that stops the session
  Runs,        \* executions of the finalize job that may be alive at once
  Attempts,    \* attempts of a finalize job before BullMQ calls it failed
  MaxFaults,   \* how often each kind of fault may happen (a bound)
  None         \* SQL null / nobody

Chunks   == 0 .. NumChunks - 1
Requests == Chunks \cup Tabs \cup Rejoins \cup {Host}

(* What can go wrong: a worker dies mid-run; a run outlives its job lock;  *)
(* storage fails for a moment; an encode or upload fails; an API request   *)
(* dies or its error is swallowed; a query of a run that settles fails; an    *)
(* unconditional write of the sweep, a report or a rejoin rests on a read  *)
(* that another process has meanwhile made stale.                          *)
FaultKinds == {"crash", "stall", "storage", "encode", "api", "db",
               "sweepRace", "reportRace", "rejoinRace"}

Statuses   == {"UPLOADING", "UPLOADED", "PROCESSING", "READY", "FAILED"}
Counts     == 0 .. NumChunks
JobStates  == {"none", "queued", "active", "failed"}
ReqPhases  == {"idle", "put", "arrived", "cleaned?", "reopen", "enqueue",
               "report", "try", "flip", "kick", "rejoin", "done"}
RunPhases  == {"idle", "claim", "snapshot", "build", "download", "encode",
               "ready", "output", "fail", "leftover", "recount", "finish",
               "requeue"}

ASSUME CountsAssumption == NumChunks \in Nat \ {0} /\ Attempts \in Nat \ {0}
ASSUME TabsAssumption   == /\ Tabs \cap Chunks = {}
                           /\ Reports \in [Tabs -> Counts]
                           /\ PartStarts \subseteq Chunks
ASSUME RequestsAssumption == /\ Rejoins \cap (Chunks \cup Tabs) = {}
                             /\ Host \notin Chunks \cup Tabs \cup Rejoins
ASSUME NoneAssumption   == None \notin Nat /\ None \notin Runs
ASSUME FaultsAssumption == MaxFaults \in [FaultKinds -> Nat]

VARIABLES
  ended,       \* the session has left ACTIVE
  status,      \* ParticipantRecording.status
  isComplete,  \* ParticipantRecording.isComplete
  expected,    \* ParticipantRecording.expectedSegments
  segs,        \* the RecordingSegment rows, by sequence number
  cleaned,     \* those whose status is PROCESSED: their object is gone
  objects,     \* chunk objects in the bucket
  master,      \* chunks in the file mergedFileKey names; {} when it is null
  output,      \* status of the RAW FinalOutput row, "none" when absent
  job, owner, attempts, stalls,   \* the track's BullMQ job and who runs it
  pc, seen,    \* requests: where each is, and what it read
  rpc, claimed, parts, had, rerun,  \* runs: where, and their local variables
  sweep,       \* the recovery sweep: its phase and what it read
  cleaner,     \* the chunk cleanup: its phase and the rows it read
  faults       \* faults that may still happen

row      == <<status, isComplete, expected>>
store    == <<segs, cleaned, objects>>
result   == <<master, output>>
jobVars  == <<job, owner, attempts, stalls>>
reqVars  == <<pc, seen>>
runVars  == <<rpc, claimed, parts, had, rerun>>
sweepers == <<sweep, cleaner>>
vars == <<ended, row, store, result, jobVars, reqVars, runVars, sweepers, faults>>

Nothing == [status |-> "UPLOADING", isComplete |-> FALSE, expected |-> None]
TheRow  == [status |-> status, isComplete |-> isComplete, expected |-> expected]

TypeOK ==
  /\ ended \in BOOLEAN
  /\ status \in Statuses /\ isComplete \in BOOLEAN
  /\ expected \in Counts \cup {None}
  /\ segs \subseteq Chunks /\ cleaned \subseteq Chunks /\ objects \subseteq Chunks
  /\ master \subseteq Chunks /\ output \in {"none", "READY", "FAILED"}
  /\ job \in JobStates /\ owner \in Runs \cup {None}
  /\ attempts \in 0 .. Attempts /\ stalls \in {0, 1}
  /\ pc \in [Requests -> ReqPhases]
  /\ seen \in [Requests -> [status : Statuses, isComplete : BOOLEAN,
                            expected : Counts \cup {None}]]
  /\ rpc \in [Runs -> RunPhases]
  /\ claimed \in [Runs -> SUBSET Chunks] /\ parts \in [Runs -> SUBSET Chunks]
  /\ had \in [Runs -> BOOLEAN] /\ rerun \in [Runs -> BOOLEAN]
  /\ sweep \in [at : {"idle", "force", "kick"}, segs : SUBSET Chunks,
                expected : Counts \cup {None}]
  /\ cleaner \in [at : {"idle", "delete", "mark"}, segs : SUBSET Chunks]
  /\ faults \in [FaultKinds -> Nat]

IdleSweep   == [at |-> "idle", segs |-> {}, expected |-> None]
IdleCleaner == [at |-> "idle", segs |-> {}]

Init ==
  /\ ended = FALSE
  /\ status = "UPLOADING" /\ isComplete = FALSE /\ expected = None
  /\ segs = {} /\ cleaned = {} /\ objects = {}
  /\ master = {} /\ output = "none"
  /\ job = "none" /\ owner = None /\ attempts = 0 /\ stalls = 0
  /\ pc = [r \in Requests |-> "idle"] /\ seen = [r \in Requests |-> Nothing]
  /\ rpc = [w \in Runs |-> "idle"]
  /\ claimed = [w \in Runs |-> {}] /\ parts = [w \in Runs |-> {}]
  /\ had = [w \in Runs |-> FALSE] /\ rerun = [w \in Runs |-> FALSE]
  /\ sweep = IdleSweep /\ cleaner = IdleCleaner
  /\ faults = MaxFaults

-----------------------------------------------------------------------------
(* Helpers.                                                                *)

OrZero(n)     == IF n = None THEN 0 ELSE n
Larger(a, b)  == IF a < b THEN b ELSE a
Contiguous(n) == 0 .. (n - 1) \subseteq segs

\* One past the largest sequence number of a set of chunks, 0 for none.
ObservedExpected(S) ==
  IF S = {} THEN 0 ELSE (CHOOSE c \in S : \A d \in S : d <= c) + 1

\* K is what precedes the second container of S: all a failed encode salvages.
IsFirstPart(K, S) ==
  /\ K # {} /\ K \subseteq S
  /\ \A c \in K : \A d \in S \ K : c < d
  /\ \A c \in K \cap PartStarts : \A d \in S : c <= d
  /\ K # S => \E d \in (S \ K) \cap PartStarts : \A e \in S \ K : d <= e

Spend(kind) == faults[kind] > 0 /\ faults' = [faults EXCEPT ![kind] = @ - 1]

\* An unconditional write rests on a fresh read, or spends a race.
Unguarded(race, stale) == IF stale THEN Spend(race) ELSE UNCHANGED faults

Goto(r, phase) == pc' = [pc EXCEPT ![r] = phase]
\* A request that returns forgets what it read.
Return(r)      == Goto(r, "done") /\ seen' = [seen EXCEPT ![r] = Nothing]
Keep(r, phase) == Goto(r, phase) /\ seen' = [seen EXCEPT ![r] = TheRow]

\* add() with a job id: ignored while a job of that id waits or runs; a failed
\* one is removed first.
Enqueue ==
  IF job \in {"none", "failed"}
  THEN job' = "queued" /\ owner' = None /\ attempts' = 0 /\ stalls' = 0
  ELSE UNCHANGED jobVars

\* Mutants: the old master is not looked at; or every failure keeps READY.
FailAnyway(hadMaster) == status' = "FAILED" /\ output' = "FAILED"
KeepReady(hadMaster)  == status' = "READY" /\ UNCHANGED output

\* Keep a master the run knew of, else settle the track as failed.
FailTrack(hadMaster) ==
  IF hadMaster THEN status' = "READY" /\ UNCHANGED output
               ELSE status' = "FAILED" /\ output' = "FAILED"

\* Mutant: a claimed track whose job was given up on is left as it is.
NeverGiveUp ==
  LET queueIt == ended /\ (status = "UPLOADED" \/ (status = "PROCESSING" /\ job = "none"))
  IN  /\ UNCHANGED <<status, output>>
      /\ IF queueIt THEN Enqueue ELSE UNCHANGED jobVars

\* maybeFinalizeSession, for this track: queue an uploaded one; look into a
\* claimed one whose job is gone, or given up on.
MaybeFinalize ==
  LET queueIt == ended /\ \/ status = "UPLOADED"
                          \/ (status = "PROCESSING" /\ job = "none")
      giveUp  == ended /\ status = "PROCESSING" /\ job = "failed"
  IN  \/ queueIt /\ Enqueue /\ UNCHANGED <<status, output>>
      \/ giveUp  /\ FailTrack(master # {}) /\ UNCHANGED jobVars
      \/ ~queueIt /\ ~giveUp /\ UNCHANGED <<status, output, jobVars>>

-----------------------------------------------------------------------------
(* A chunk: PUT to the bucket, then registered through the API.            *)

PutChunk(c) ==
  /\ pc[c] = "idle" /\ Goto(c, "put")
  /\ objects' = objects \cup {c}
  /\ UNCHANGED <<ended, row, segs, cleaned, result, jobVars, seen, runVars, sweepers, faults>>

\* createSegment: the row and the counters, in one transaction.
RegisterChunk(c) ==
  /\ pc[c] = "put" /\ Goto(c, "arrived")
  /\ segs' = segs \cup {c}
  /\ UNCHANGED <<ended, row, cleaned, objects, result, jobVars, seen, runVars, sweepers, faults>>

\* onSegmentArrived reads the track.  A waiting or running finalize will find
\* the chunk by itself; a settled track has to be re-opened.
ChunkArrived(c) ==
  /\ pc[c] = "arrived"
  /\ \/ ~isComplete /\ Goto(c, "try") /\ UNCHANGED seen
     \/ isComplete /\ status \in {"READY", "FAILED"} /\ Keep(c, "cleaned?")
     \/ isComplete /\ status \notin {"READY", "FAILED"} /\ Return(c)
  /\ UNCHANGED <<ended, row, store, result, jobVars, runVars, sweepers, faults>>

CheckCleaned(c) ==
  /\ pc[c] = "cleaned?"
  /\ IF cleaned # {} THEN Return(c) ELSE Goto(c, "reopen") /\ UNCHANGED seen
  /\ UNCHANGED <<ended, row, store, result, jobVars, runVars, sweepers, faults>>

ReopenTrack(c) ==
  /\ pc[c] = "reopen"
  /\ \/ /\ status \in {"READY", "FAILED"}
        /\ status' = "UPLOADED"
        /\ expected' = Larger(OrZero(seen[c].expected), c + 1)
        /\ Goto(c, "enqueue") /\ UNCHANGED seen
     \/ /\ status \notin {"READY", "FAILED"}
        /\ Return(c) /\ UNCHANGED <<status, expected>>
  /\ UNCHANGED <<ended, isComplete, store, result, jobVars, runVars, sweepers, faults>>

EnqueueStraggler(c) ==
  /\ pc[c] = "enqueue" /\ Enqueue /\ Return(c)
  /\ UNCHANGED <<ended, row, store, result, runVars, sweepers, faults>>

-----------------------------------------------------------------------------
(* A tab reports how many chunks it recorded (/complete).                  *)

ReadForReport(t) ==
  /\ pc[t] = "idle" \/ (pc[t] = "report" /\ seen[t] # TheRow)
  /\ Keep(t, "report")
  /\ UNCHANGED <<ended, row, store, result, jobVars, runVars, sweepers, faults>>

NextExpected(read, t) == Larger(OrZero(read.expected), Reports[t])
Raised(read, t) == read.expected # None /\ NextExpected(read, t) # read.expected

\* Mutant: whatever the finalizer does with the track.
MoreToComeAnyway(read, t) == Raised(read, t) /\ read.isComplete

\* A track that was complete but is not claimed yet waits for more chunks.
MoreToCome(read, t) == Raised(read, t) /\ read.isComplete /\ read.status = "UPLOADED"

MarkRecordingComplete(t) ==
  LET read   == seen[t]
      reopen == MoreToCome(read, t)
  IN  /\ pc[t] = "report" /\ Goto(t, "try") /\ UNCHANGED seen
      /\ expected' = NextExpected(read, t)
      /\ status' = IF reopen THEN "UPLOADING" ELSE status
      /\ isComplete' = (isComplete /\ ~reopen)
      /\ Unguarded("reportRace", read # TheRow)
      /\ UNCHANGED <<ended, store, result, jobVars, runVars, sweepers>>

(* tryCompleteRecording, at the end of a report and of a chunk.            *)
TryComplete(r) ==
  /\ pc[r] = "try"
  /\ IF ~isComplete /\ expected # None /\ Contiguous(expected)
     THEN Keep(r, "flip") ELSE Return(r)
  /\ UNCHANGED <<ended, row, store, result, jobVars, runVars, sweepers, faults>>

FlipComplete(r) ==
  /\ pc[r] = "flip"
  /\ \/ /\ ~isComplete /\ isComplete' = TRUE
        /\ status' = IF seen[r].status = "UPLOADING" THEN "UPLOADED" ELSE status
        /\ Goto(r, "kick") /\ UNCHANGED seen
     \/ /\ isComplete /\ Return(r) /\ UNCHANGED <<isComplete, status>>
  /\ UNCHANGED <<ended, expected, store, result, jobVars, runVars, sweepers, faults>>

KickFinalize(r) ==
  /\ pc[r] = "kick" /\ MaybeFinalize /\ Return(r)
  /\ UNCHANGED <<ended, isComplete, expected, store, master, runVars, sweepers, faults>>

-----------------------------------------------------------------------------
(* The session: a tab that comes back continues its track while the session*)
(* is ACTIVE, and the host's stop opens the way to finalization.           *)

RejoinReads(r) ==
  /\ pc[r] = "idle" \/ (pc[r] = "rejoin" /\ (ended \/ seen[r] # TheRow))
  /\ IF ~ended /\ isComplete THEN Keep(r, "rejoin") ELSE Return(r)
  /\ UNCHANGED <<ended, row, store, result, jobVars, runVars, sweepers, faults>>

RejoinReopens(r) ==
  /\ pc[r] = "rejoin" /\ Unguarded("rejoinRace", ended \/ seen[r] # TheRow)
  /\ Return(r)
  /\ isComplete' = FALSE /\ status' = "UPLOADING" /\ expected' = None
  /\ UNCHANGED <<ended, store, result, jobVars, runVars, sweepers>>

StopSession ==
  /\ pc[Host] = "idle" /\ Goto(Host, "kick")
  /\ ended' = TRUE
  /\ UNCHANGED <<row, store, result, jobVars, seen, runVars, sweepers, faults>>

\* The API process dies, or an error after the commit is logged and dropped.
\* The client's retry of a chunk finds the row there and does nothing more.
RequestDies(r) ==
  /\ pc[r] \notin {"idle", "put", "done"} /\ Spend("api") /\ Return(r)
  /\ UNCHANGED <<ended, row, store, result, jobVars, runVars, sweepers>>

-----------------------------------------------------------------------------
(* The finalize job on a worker.                                           *)

At(w, phase)  == rpc[w] = phase
Step(w, phase) == rpc' = [rpc EXCEPT ![w] = phase]
Live(w)       == rpc[w] \notin {"idle", "requeue"}

EndRun(w) ==
  /\ Step(w, "idle")
  /\ claimed' = [claimed EXCEPT ![w] = {}] /\ parts' = [parts EXCEPT ![w] = {}]
  /\ had' = [had EXCEPT ![w] = FALSE] /\ rerun' = [rerun EXCEPT ![w] = FALSE]

PickUp(w) ==
  /\ job = "queued" /\ At(w, "idle") /\ Step(w, "claim")
  /\ job' = "active" /\ owner' = w
  /\ UNCHANGED <<ended, row, store, result, attempts, stalls, reqVars,
                 claimed, parts, had, rerun, sweepers, faults>>

\* The process that still runs the track gets its own stalled job again: the
\* inFlight set sends it away, and the job is done.
PickUpInFlight ==
  /\ job = "queued" /\ \E w \in Runs : Live(w) /\ ~At(w, "finish")
  /\ job' = "none"
  /\ UNCHANGED <<ended, row, store, result, owner, attempts, stalls, reqVars,
                 runVars, sweepers, faults>>

\* Take the track, also over from a run that died.
ClaimTrack(w) ==
  /\ At(w, "claim")
  /\ IF ended /\ status \in {"UPLOADED", "PROCESSING"}
     THEN status' = "PROCESSING" /\ Step(w, "snapshot")
     ELSE Step(w, "finish") /\ UNCHANGED status
  /\ UNCHANGED <<ended, isComplete, expected, store, result, jobVars, reqVars,
                 claimed, parts, had, rerun, sweepers, faults>>

Snapshot(w) ==
  /\ At(w, "snapshot") /\ Step(w, "build")
  /\ claimed' = [claimed EXCEPT ![w] = segs]
  /\ had' = [had EXCEPT ![w] = master # {}]
  /\ UNCHANGED <<ended, row, store, result, jobVars, reqVars, parts, rerun, sweepers, faults>>

\* An empty track waits a little for a late first chunk.
StartBuild(w) ==
  LET rows == IF claimed[w] = {} THEN segs ELSE claimed[w]
  IN  /\ At(w, "build")
      /\ parts' = [parts EXCEPT ![w] = rows]
      /\ \/ rows = {} /\ Step(w, "fail") /\ UNCHANGED status
         \/ rows # {} /\ Step(w, "download") /\ status' = "PROCESSING"
      /\ UNCHANGED <<ended, isComplete, expected, store, result, jobVars, reqVars,
                     claimed, had, rerun, sweepers, faults>>

\* Mutant: salvage also when that costs an existing master some chunks.
DownloadAnyway(w) ==
  LET found == parts[w] \cap objects
  IN  /\ At(w, "download")
      /\ parts' = [parts EXCEPT ![w] = found]
      /\ Step(w, IF found = {} THEN "fail" ELSE "encode")
      /\ UNCHANGED <<ended, row, store, result, jobVars, reqVars, claimed, had, rerun,
                     sweepers, faults>>

\* Salvage what is there, but never rebuild an existing master from less.
Download(w) ==
  LET found == parts[w] \cap objects
  IN  /\ At(w, "download")
      /\ parts' = [parts EXCEPT ![w] = found]
      /\ Step(w, IF found = {} \/ (had[w] /\ found # parts[w]) THEN "fail" ELSE "encode")
      /\ UNCHANGED <<ended, row, store, result, jobVars, reqVars, claimed, had, rerun,
                     sweepers, faults>>

\* A storage error: the track stays PROCESSING and the job is tried again.
StorageFails(w) ==
  /\ At(w, "download") /\ Spend("storage") /\ EndRun(w)
  /\ IF owner = w
     THEN /\ attempts' = attempts + 1
          /\ job' = IF attempts + 1 < Attempts THEN "queued" ELSE "failed"
          /\ owner' = None /\ UNCHANGED stalls
     ELSE UNCHANGED jobVars
  /\ UNCHANGED <<ended, row, store, result, reqVars, sweepers>>

Encode(w) ==
  /\ At(w, "encode") /\ Step(w, "ready")
  /\ UNCHANGED <<ended, row, store, result, jobVars, reqVars, claimed, parts, had,
                 rerun, sweepers, faults>>

\* The encode failed: the first container is remuxed, or (an upload failed)
\* nothing comes of this run.
EncodeFails(w) ==
  /\ At(w, "encode") /\ Spend("encode")
  /\ \/ /\ Step(w, "ready")
        /\ \E K \in SUBSET parts[w] : /\ IsFirstPart(K, parts[w])
                                      /\ parts' = [parts EXCEPT ![w] = K]
     \/ Step(w, "fail") /\ UNCHANGED parts
  /\ UNCHANGED <<ended, row, store, result, jobVars, reqVars, claimed, had, rerun, sweepers>>

WriteReady(w) ==
  /\ At(w, "ready") /\ Step(w, "output")
  /\ status' = "READY" /\ master' = parts[w]
  /\ UNCHANGED <<ended, isComplete, expected, store, output, jobVars, reqVars,
                 claimed, parts, had, rerun, sweepers, faults>>

\* Mutant: the output row is created, never updated.
WriteOutputOnce(w) ==
  /\ At(w, "output") /\ Step(w, "leftover")
  /\ output' = IF output = "none" THEN "READY" ELSE output
  /\ UNCHANGED <<ended, row, store, master, jobVars, reqVars, claimed, parts, had,
                 rerun, sweepers, faults>>

WriteOutput(w) ==
  /\ At(w, "output")
  /\ \/ output' = "READY" /\ Step(w, "leftover") /\ UNCHANGED faults
     \/ Spend("db") /\ Step(w, "fail") /\ UNCHANGED output
  /\ UNCHANGED <<ended, row, store, master, jobVars, reqVars, claimed, parts, had,
                 rerun, sweepers>>

\* failTrack swallows the error of its own update: the track stays PROCESSING.
RunFails(w) ==
  /\ At(w, "fail") /\ Step(w, "leftover")
  /\ \/ FailTrack(had[w]) /\ UNCHANGED faults
     \/ Spend("db") /\ UNCHANGED <<status, output>>
  /\ UNCHANGED <<ended, isComplete, expected, store, master, jobVars, reqVars,
                 claimed, parts, had, rerun, sweepers>>

\* Mutant: whatever the run left behind.
SettleAgain(w) ==
  /\ At(w, "leftover") /\ Step(w, "recount")
  /\ FailTrack(had[w])
  /\ UNCHANGED <<ended, isComplete, expected, store, master, jobVars, reqVars,
                 claimed, parts, had, rerun, sweepers, faults>>

\* A finished run never leaves its track PROCESSING.
CheckLeftover(w) ==
  /\ At(w, "leftover") /\ Step(w, "recount")
  /\ IF status = "PROCESSING" THEN FailTrack(had[w]) ELSE UNCHANGED <<status, output>>
  /\ UNCHANGED <<ended, isComplete, expected, store, master, jobVars, reqVars,
                 claimed, parts, had, rerun, sweepers, faults>>

\* Mutant: the run ends without counting again.
NoRecount(w) ==
  /\ At(w, "recount") /\ Step(w, "finish")
  /\ UNCHANGED <<ended, row, store, result, jobVars, reqVars, claimed, parts, had,
                 rerun, sweepers, faults>>

\* Chunks registered since the claim are not in this master: one more pass.
Recount(w) ==
  LET again == Cardinality(segs) > Cardinality(claimed[w]) /\ status \in {"READY", "FAILED"}
  IN  /\ At(w, "recount") /\ Step(w, "finish")
      /\ status' = IF again THEN "UPLOADED" ELSE status
      /\ rerun' = [rerun EXCEPT ![w] = again]
      /\ UNCHANGED <<ended, isComplete, expected, store, result, jobVars, reqVars,
                     claimed, parts, had, sweepers, faults>>

\* The job leaves the queue first; then its completed handler may add it again.
\* A run that lost its lock cannot complete the job.
FinishRun(w) ==
  /\ At(w, "finish")
  /\ IF owner = w
     THEN /\ job' = "none" /\ owner' = None /\ UNCHANGED <<attempts, stalls>>
          /\ IF rerun[w] THEN Step(w, "requeue") /\ UNCHANGED <<claimed, parts, had, rerun>>
                         ELSE EndRun(w)
     ELSE EndRun(w) /\ UNCHANGED jobVars
  /\ UNCHANGED <<ended, row, store, result, reqVars, sweepers, faults>>

RequeueRun(w) ==
  /\ At(w, "requeue") /\ Enqueue /\ EndRun(w)
  /\ UNCHANGED <<ended, row, store, result, reqVars, sweepers, faults>>

WorkerDies(w) ==
  /\ ~At(w, "idle") /\ Spend("crash") /\ EndRun(w)
  /\ UNCHANGED <<ended, row, store, result, jobVars, reqVars, sweepers>>

\* BullMQ takes back a job whose lock was not renewed: once.
ReleaseStalledJob ==
  /\ job' = (IF stalls = 0 THEN "queued" ELSE "failed")
  /\ stalls' = 1 /\ owner' = None /\ UNCHANGED attempts
  /\ UNCHANGED <<ended, row, store, result, reqVars, runVars, sweepers>>

StalledDead  == job = "active" /\ ~Live(owner) /\ ReleaseStalledJob /\ UNCHANGED faults
StalledAlive == job = "active" /\ Live(owner) /\ Spend("stall") /\ ReleaseStalledJob

-----------------------------------------------------------------------------
(* The recovery sweep.  A track nothing reached for ten minutes is forced  *)
(* complete; one that waits or was claimed is queued again.                *)

\* No chunk was registered so recently that its request is still at work.
Quiet == \A c \in Chunks : pc[c] \in {"idle", "put", "done"}

SweepStale == sweep.segs # segs \/ sweep.expected # expected

SweepReads ==
  /\ sweep.at = "idle" \/ (sweep.at = "force" /\ SweepStale)
  /\ ended /\ ~isComplete /\ Quiet
  /\ sweep' = [at |-> "force", segs |-> segs, expected |-> expected]
  /\ UNCHANGED <<ended, row, store, result, jobVars, reqVars, runVars, cleaner, faults>>

ForceComplete ==
  /\ sweep.at = "force"
  /\ sweep' = [IdleSweep EXCEPT !.at = "kick"]
  /\ IF isComplete THEN UNCHANGED <<row, faults>>
     ELSE /\ isComplete' = TRUE
          /\ expected' = Larger(OrZero(sweep.expected), ObservedExpected(sweep.segs))
          /\ status' = IF sweep.segs # {} THEN "UPLOADED" ELSE "FAILED"
          /\ Unguarded("sweepRace", SweepStale)
  /\ UNCHANGED <<ended, store, result, jobVars, reqVars, runVars, cleaner>>

SweepKicks ==
  /\ \/ sweep.at = "kick"
     \/ sweep.at = "idle" /\ ended /\ status \in {"UPLOADED", "PROCESSING"}
  /\ MaybeFinalize /\ sweep' = IdleSweep
  /\ UNCHANGED <<ended, isComplete, expected, store, master, reqVars, runVars,
                 cleaner, faults>>

(* The cleanup, a day after the last activity on a READY track.            *)
CleanupReads ==
  /\ cleaner.at = "idle" /\ status = "READY" /\ segs \ cleaned # {}
  /\ Quiet /\ \A w \in Runs : ~Live(w)
  /\ cleaner' = [at |-> "delete", segs |-> segs \ cleaned]
  /\ UNCHANGED <<ended, row, store, result, jobVars, reqVars, runVars, sweep, faults>>

\* The known objects, then everything under the track's chunk prefix.
DeleteChunks ==
  /\ cleaner.at = "delete" /\ cleaner' = [cleaner EXCEPT !.at = "mark"]
  /\ objects' = {}
  /\ UNCHANGED <<ended, row, segs, cleaned, result, jobVars, reqVars, runVars, sweep, faults>>

MarkProcessed ==
  /\ cleaner.at = "mark" /\ cleaner' = IdleCleaner
  /\ cleaned' = cleaned \cup cleaner.segs
  /\ UNCHANGED <<ended, row, segs, objects, result, jobVars, reqVars, runVars, sweep, faults>>

CleanupDies ==
  /\ cleaner.at # "idle" /\ Spend("api") /\ cleaner' = IdleCleaner
  /\ UNCHANGED <<ended, row, store, result, jobVars, reqVars, runVars, sweep>>

-----------------------------------------------------------------------------
ChunkSteps(c) ==
  \/ RegisterChunk(c) \/ ChunkArrived(c) \/ CheckCleaned(c) \/ ReopenTrack(c)
  \/ EnqueueStraggler(c)

Respond(r) == TryComplete(r) \/ FlipComplete(r) \/ KickFinalize(r)

RunSteps(w) ==
  \/ ClaimTrack(w) \/ Snapshot(w) \/ StartBuild(w) \/ Download(w) \/ Encode(w)
  \/ WriteReady(w) \/ WriteOutput(w) \/ RunFails(w) \/ CheckLeftover(w)
  \/ Recount(w) \/ FinishRun(w) \/ RequeueRun(w)

SweepSteps == SweepReads \/ ForceComplete \/ SweepKicks

Next ==
  \/ \E c \in Chunks : PutChunk(c) \/ ChunkSteps(c)
  \/ \E t \in Tabs : ReadForReport(t) \/ MarkRecordingComplete(t)
  \/ \E r \in Requests : Respond(r) \/ RequestDies(r)
  \/ \E r \in Rejoins : RejoinReads(r) \/ RejoinReopens(r)
  \/ StopSession
  \/ \E w \in Runs : \/ PickUp(w) \/ RunSteps(w)
                      \/ StorageFails(w) \/ EncodeFails(w) \/ WorkerDies(w)
  \/ PickUpInFlight \/ StalledDead \/ StalledAlive
  \/ SweepSteps
  \/ CleanupReads \/ DeleteChunks \/ MarkProcessed \/ CleanupDies

\* Requests the API has accepted run on; workers take and run jobs; BullMQ
\* checks for stalled jobs and the API sweeps on a timer.  Nobody has to upload,
\* to report, to rejoin or to stop.
Fairness ==
  /\ \A c \in Chunks : WF_vars(ChunkSteps(c) /\ pc[c] # "put")
  /\ \A t \in Tabs : WF_vars(pc[t] # "idle" /\ (ReadForReport(t) \/ MarkRecordingComplete(t)))
  /\ \A r \in Requests : WF_vars(Respond(r))
  /\ \A r \in Rejoins : WF_vars(pc[r] # "idle" /\ (RejoinReads(r) \/ RejoinReopens(r)))
  /\ \A w \in Runs : WF_vars(RunSteps(w))
  /\ WF_vars(\E w \in Runs : PickUp(w)) /\ WF_vars(StalledDead)
  /\ WF_vars(SweepSteps)

Spec     == Init /\ [][Next]_vars
FairSpec == Spec /\ Fairness

-----------------------------------------------------------------------------
(* What the track promises.                                                *)

\* A READY track has a master file: no path (a failed re-run, a leftover, the
\* sweep giving up on a job) settles a track as READY without one.
ReadyHasMaster == status = "READY" => master # {}

\* The job id keeps a track to one run at a time.
SingleRun == \A v, w \in Runs : Live(v) /\ Live(w) => v = w

\* A failed run never takes a master away: FAILED means there was none.
NoDowngrade == status = "FAILED" => master = {}

\* Nobody is at work, and the sweep has nothing to do.
AtRest ==
  /\ ended /\ isComplete /\ status \in {"READY", "FAILED"}
  /\ \A r \in Requests : pc[r] \in {"idle", "put", "done"}
  /\ \A w \in Runs : rpc[w] = "idle"
  /\ job \in {"none", "failed"} /\ sweep.at = "idle"

\* Every registered chunk ends up in the master (unless the cleanup has taken
\* the chunks away): none is silently ignored, however late it came.
NoChunkForgotten == AtRest /\ segs \subseteq objects => master = segs

\* A finished track can be downloaded: its output row is there.
ReadyHasOutput == AtRest /\ status = "READY" => output = "READY"

\* Re-runs only improve the master.
MasterNeverShrinks == [][master \subseteq master']_vars

\* A track that has been READY is not turned into a failed one.
NeverReadyToFailed == [][status = "READY" => status' # "FAILED"]_vars

\* A track the finalizer has claimed or settled is not put back to UPLOADING.
FinalizedStaysFinalized ==
  [][status' = "UPLOADING" => status \notin {"PROCESSING", "READY"}]_vars

\* Once the host has stopped, the track settles and stays settled.
EventuallySettled ==
  <>[](ended => isComplete /\ status \in {"READY", "FAILED"})

=============================================================================
