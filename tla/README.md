# A verification of Openside's recording system

Openside records meetings and screens: every browser uploads its own camera,
microphone and screen in chunks, and the server stitches the chunks of each
track into one master file. What the product promises is that no footage is
lost, that what is finished stays finished and that everything does finish. The
TLA+ modules here model the code that has to keep those promises, TLC checks
them on small instances, and TLAPS proves the most important facts for instances
of any size.

## 1. The system

Openside is one web application (`src/web`), one API (`src/core/src/index.ts`)
and two kinds of worker (`src/core/src/worker.ts`). They share PostgreSQL
(Prisma), Redis (BullMQ queues), an S3-compatible bucket and LiveKit rooms.
Several replicas of the API and several workers may run at once; nothing is
locked across an `await` except where a query carries its own condition. That
is the theme of nearly every module: a handler reads, awaits, and writes by id
what it concluded from the read.

| Component | State it keeps | Operations | Talks to | What is hard | What makes it correct | Module |
|---|---|---|---|---|---|---|
| Track upload and finalization (`recording-service`, `finalization-service`, `chunk-cleanup-service`, `queue`, `worker`) | `ParticipantRecording`, `RecordingSegment`, `FinalOutput`, chunk objects, the track's BullMQ job | register a chunk, report completion, rejoin, stop, finalize run, recovery sweep, cleanup | browser, bucket, queue, workers | late chunks against a finishing run, worker crashes, a job given to two workers, retries | every registered chunk is in the master; masters are never lost; a track settles | `TrackFinalize` |
| Space, recording lock, sessions (`space-service`, `recording-service`, `usage-service`, `livekit-webhook-service`) | `Space.status`, `Space.recordingStatus`, `RecordingSession.status` | start, stop, end by host / LiveKit / expiry, usage sweep, reaper, settle, first join | sockets, LiveKit, finalizer | ten writers of two rows, most of them by id alone | one take at a time, no leaked lock, no orphan session | `SpaceRecording` |
| Session settling (`finalization-service` 310-484) | session status over several tracks | count tracks and outputs, write READY, FAILED or PROCESSING | workers, clients | two counts, writes in the other order | a session with a usable track is READY | `SessionSettle` |
| Usage metering (`usage-service`, `setSpaceSessionPaused`) | `lastMeteredAt`, `meteredSeconds`, `pausedAt`, `pausedMs`, `UsagePeriod.secondsUsed` | meter, pause, resume, heartbeat, sweep | timers, hosts, browsers | two meters of one stretch, a pause between read and claim, a crash between claim and credit | never billed twice, never for a pause | `UsageMeter` |
| Queue, worker process, wake-up (`queue`, `worker`, `worker-wake`) | job states, `activeConsumers`, `drainPromise`, `wakeRequested` | add, drain, go quiet, wake, shut down | Redis, API | a wake while the worker closes | a queued job is picked up | `WorkerDrain`; the job's life cycle in `TrackFinalize` |
| Screen recorder (`screen-finalization-service`, `screen-recording-controller`) | a session and its tracks, outputs, one job per session | as for a track, keyed by session; preview, composite, chunk deletion, delayed stragglers | browser, queue | a re-open deduplicated against the job that runs; chunks deleted beside a straggler | a finished video is never dropped, nothing is forgotten | `ScreenTake` |
| PCM tracks (`finalization-service` 1396-1490) | the WAV of an audio track, the output rows of its video track | link, by whichever finishes last | two runs | both finish at once, either runs again | every row names the WAV | `PcmLink` |
| Audio timeline (`audio-timeline`) | runs of continuous capture, a writer's cursor | read, plan runs, place them | bucket, ffmpeg | lost chunks, suspensions, wrong timestamps | audio is heard whole and in its place | `AudioTimeline` |
| Participants and capacity (`participant-service`), presence (`livekit-webhook-service`) | `SpaceParticipant.isActive`, roles | join, leave, kick, promotion, webhooks, reconcile | LiveKit | the last slot, late and lost webhooks, the last controller leaves | never more than the cap, somebody can stop the take, ghosts leave | `Rooms` |
| Cloud egress (`egress-service`, `livekit-webhook-service`) | CLOUD outputs | start, stop, webhook, poll | LiveKit | a stale poll after a webhook, a stop before the start's row | a written backup becomes READY | `CloudEgress` |
| Download cache (`download-cache-service`, `download-service`) | a Redis sorted set, cached files | request, transcode, touch, expire | bucket | expiry against use, a new master on a cached key | masters stay, unused caches go | `DownloadCache` |
| Billing, entitlements, retention (`polar-service`, `entitlements-service`, `retention-service`) | plan, period end, processed deliveries | webhooks, lazy downgrade, sweep | Polar | lost, repeated and reordered deliveries, a lapse before the renewal arrives | PRO while and only while it is paid, recordings kept as promised | `Subscription` |
| Sockets, a tab that follows (`sockets/index.ts`, `recording-events`, `useRecordingManager`) | room membership, the tab's take | broadcast, replay on join, poll, countdown, capture, flush | browsers | a stop between read and join, a replay after a stop, a delayed poll | every tab records each take exactly while it lasts | `RecordingTab` |
| Browser uploader (`useChunkUploader`, `recordingDb`, `useRecordingManager`) | IndexedDB, the queue, sequence numbers, locks | route, buffer, upload, register, retry, adopt, purge | API, bucket | a closed tab, two tabs, two devices, a lost answer | no chunk is lost or overwritten | `ChunkUploader`, which implements `Delivery` |
| Camera recorder (`useLocalRecording`, `recorderCodecs`) | the current part, a chain of operations, failed codecs, retries | start, rotate, retry, pause, resume, stop | LiveKit's tracks, MediaRecorder | tracks, pauses and encoder errors that change while a part starts | exactly what should be recorded is | `LocalRecorder` |
| Maintenance timers (`maintenance.ts`) | `running`, `nextRunAt` | run due sweeps | all sweeps | - | sweeps keep running | fairness of the modules |
| Infra and self-host, UI, auth, profile, search, mail, comments, admin, routes, migrations | - | single-row reads and writes, rendering, I/O | - | - | - | not modelled |

`PROJECT.json` lists the same parts with their sources, and under `hazards`
every place of this code where an order of steps nobody tests can go wrong, with
the properties that watch it and what they leave out.

**How the modules are cut.** Five modules carry the core, `TrackFinalize`,
`SpaceRecording`, `UsageMeter`, `ScreenTake` and `ChunkUploader`, and each has a module of
proofs. Ten parts are small
protocols of two to four actors; their instances are a few hundred to a hundred
thousand states each. `ServicesMC` puts the ten side by side: they share no
variable, a behaviour picks one of them and runs only that, so checking the sum
checks each.

**What crosses the boundaries.** `SpaceRecording` and `SessionSettle` take of a
track only where it landed, which is what `TrackFinalize` decides; `ChunkUploader`
ends at the registration with which `TrackFinalize` begins; `RecordingTab` takes
the start and the stop of a take from a server that behaves as `SpaceRecording`
allows; `Subscription` hands `UsageMeter` its credit and `Rooms` its cap;
`WorkerDrain` ends where a job is taken, where the runs of the other modules
begin.

**History variables.** The code has races it does not handle. Where a model keeps
them, the race happens, and a history variable notes that it did: `raced`,
`races`, `hit`, `stale`, `overtaken`, `clobbered`, `astray` and their like. A property then says
precisely *up to which race* it holds ("while no stale write has happened, two
takes never run at once"), and a hazard's note says what the race costs. No
action reads a history variable. Only `TrackFinalize` holds three of its stale
writes back (see there).

## 2. TrackFinalize: one track, from its first chunk to its master

State and code:

- `status`, `isComplete`, `expected` are the columns of the
  `ParticipantRecording`; `master` is the set of chunks in the file
  `mergedFileKey` names (empty when it is null); `output` is the RAW
  `FinalOutput` row. `segs` are the `RecordingSegment` rows, `cleaned` those
  marked PROCESSED, `objects` the chunk objects in the bucket.
- `job`, `owner`, `attempts`, `stalls` are the track's BullMQ job. The job id is
  the track, so `Enqueue` (`enqueueFinalizeTrack`) does nothing while a job
  waits or runs and replaces a failed one. BullMQ itself is a library; what the
  model says of it is what `queue.ts` and `worker.ts` rely on (a lock that has to
  be renewed, one stalled recovery, a number of attempts).
- `pc`/`seen` are the API requests and what each has read; `rpc`, `claimed`,
  `parts`, `had`, `rerun` are the finalize runs and their local variables;
  `sweep` and `cleaner` are the recovery sweep and the chunk cleanup.

Every handler is split at the awaits between two queries, because there another
process may run. `RegisterChunk`, `ChunkArrived`, `CheckCleaned`, `ReopenTrack`,
`EnqueueStraggler` are `createSegment` and `onSegmentArrived`; `ReadForReport`,
`MarkRecordingComplete`, `TryComplete`, `FlipComplete`, `KickFinalize` are
`markRecordingComplete` and `tryCompleteRecording`; the run steps follow
`finalizeTrack` and `finalizeRecording` from the claim to the re-queue.

Data left out: the bytes of a chunk, ffmpeg, thumbnails, keys and error texts. A
chunk is its sequence number; a container boundary is membership in `PartStarts`,
which decides what the fallback of a failed encode can save.

**Faults and races.** What may go wrong is a budget, `MaxFaults`, per kind:
`crash` (a worker dies mid-run), `stall` (a run outlives its job lock),
`storage`, `encode`, `api` (a request dies after its commit), `db` (a settling
query of a run fails), and three races: `sweepRace`, `reportRace`, `rejoinRace`,
in which an unconditional write of the code rests on a read that another process
has meanwhile made stale. With such a budget at 0, as in every run, the write
waits until its read is fresh, as if the query had carried the condition. What
passes is therefore: *these promises hold except for the named races*; with the
budget at 1 TLC finds `NoChunkForgotten` or `FinalizedStaysFinalized` violated,
and likewise `NoChunkForgotten` with one crash and `MasterNeverShrinks` with a
failed encode in a re-run; section 10 lists them all. The hazards name the lines.

## 3. SpaceRecording: the recording lock of a space and its sessions

`space` and `lock` are `Space.status` and `Space.recordingStatus`; `session` is
the status of each `RecordingSession`, created by the start request of the same
name; `tracks` is what `TrackFinalize` leaves behind of a session: its tracks are
open, all failed, or some are ready. `at`, `list`, `target` are the processes
that stop sessions: stop requests, everything that ends a space
(`endSpace`, `handleRoomFinished`, `ensureSpaceFreshness`) and the usage sweep.
`settle` is `settleSessionStatus`, `reaped` the reaper of abandoned sessions.
`PROCESSING` is left out of the session's status: nothing here tells it from
STOPPED.

Four writes of the code go by id to a row that was read earlier; `raced` notes
which of them happened on a row that had changed: a second `stop`, the `reap`er's,
the `settle` that frees the lock of a space in which a later take records, and the
`join` that revives an ended space.

## 4. UsageMeter: what a take costs its owner

The seconds of one space take are metered by four callers: the client's heartbeat,
the usage sweep, every stop and every pause. `last`, `metered`, `pausedAt`,
`pausedFor` are `lastMeteredAt`, `meteredSeconds`, `pausedAt` and `pausedMs` of the
session, `used` is the period's `secondsUsed`; a tick is a second and the take
starts at 0. A caller reads the row (`BeatReads`, `MeterReads`), looks at the clock
and the space (`Looks`), claims the stretch with a query that asks for the
`lastMeteredAt` it read (`Claims`, or `Skips`), credits the period in a second query
(`Credits`), and then does what it came for (`After`): nothing, a stop because the
credit is spent, or its own write (`StopWrites`, `PauseWrites`). `ResumeWrites` moves
`lastMeteredAt` past the pause. A request may die anywhere (`Dies`), and a stop goes
on when its meter fails (`MeterFails`).

Three writes of this code can rest on a stale read; the variable `races` notes
each. `NeverOverbilled` is stated for behaviours in which none happened, because
each one alone breaks it: a meter that read the take before a pause claims part of
the pause (`pausedClaim`), a pause is dated before what the slow meter in front of
it has claimed (`slowPause`), or a resume puts `lastMeteredAt` back to what it read
and the stretch in between is credited again (`staleResume`) - against the comment
"the delta can never be credited twice" (`usage-service.ts:219`). The other
properties hold with all races.

## 5. ScreenTake: a take of the screen recorder

A screen take differs from a meeting in its unit: one job finalizes the whole
session. `session` is its status, `outputs` its FinalOutput rows seen as one value
(the preview, the two masters, the composite, what a failed encode could salvage,
and which chunks are in it), `status`, `isComplete`, `expected` the columns of its
tracks. `run` is the job's run with what it has read; it follows
`finalizeScreenSession` step by step: claim, mark, fetch, preview, build, publish
early, recount, composite, list and delete the raw chunks. `sweep` is
`recoverScreenFinalize`, `cleaner` the daily cleanup, `pc`/`seen` the requests
(a chunk, a report, the stop).

Two things make it intricate. A straggler re-opens the take and adds a *delayed*
job with the same id, which BullMQ ignores while the job runs, so that it is the
run's recount and the sweep that must find the chunk. And a run with a composite
deletes the raw chunks: a straggler beside it leaves a take that cannot be rebuilt,
which the run must not answer by dropping the finished video. `Happenings` names
what the code does not stand up to; `Sound` is its absence.

## 6. ChunkUploader and Delivery: from the recorder to the server

`Delivery` is what a participant may expect of a chunk: it is `held` by a browser
until the server has it (`stored`), what the server has it keeps, and it is `lost`
only after something the code names as a reason (`pardoned`): the user deleted the
take, the server refused it (403, 404, 410), the buffer's purge after a week, or
its only copy was in the memory of a tab that went away.

`ChunkUploader` is how the browser does it. Tabs of one or more browsers open,
ask for the track's row (`AskForRow`), number chunks from the answer and from
IndexedDB (`OpenRoute`), write each one (`Enqueue`), and upload it: `StartUpload`
takes the per-chunk Web Lock, `Put` sends the object, `Register` creates the row
and `Forget` deletes it from the buffer; `Drop`, `Retry` and `Refused` are the ways
`settle` and `classify` end an attempt. `ScanBuffer` and `AdoptOrphans` are
`resumeOrphans`: any tab uploads what a closed one left. An answer may be lost
after the PUT or the registration took effect.

`Promise == INSTANCE Delivery WITH fate <- ..., pardoned <- ...` maps each chunk to
where it is; `KeepsChunks`, that is `Promise!Spec`, is checked by TLC as a property of
the detailed specification: every step of the uploader is a step of `Delivery` or a
stutter. Two chunks that were given one number overwrite each other; the mapping
pardons those, and `NumberedOnce` says when that can happen at all: only after one
of the three races in `raced` (a chunk uploaded between the two counts, a take-over
by a second tab, a second device).

## 7. The small parts (ServicesMC)

| Module | State and actions | Property | Left out of the property |
|---|---|---|---|
| `WorkerDrain` | `process`, `drain`, `consuming`, `wakeRequested` are the worker's module variables; `job`, `call` are the jobs and what their wake call got. `Poll` to `LoopEnds` is `drainCycle`, `requestDrain`; `Shutdown`, `Exit`, `Sleep`, `Crash`, `Restart` the process | `AcknowledgedIsDrained`: a resting worker has done every job whose wake it answered; `JobsAreDone` | jobs stranded by a crash, until the sweep calls again |
| `Rooms` | `active` rows, `coHosts`, `inRoom` at LiveKit, `hooks` on their way (any order, lost), requests split where the advisory lock is not held | `CapRespected`, `SomebodyCanStop`, `GhostsLeave` | rows written without the lock on a stale read (`stale`); an absent host who demotes or kicks the last controller (`headless`) |
| `CloudEgress` | `egress` at LiveKit, `row` of each participant, the starts and the stop in the background, `asked`/`answer` of the poll | `BackupBecomesReady` | what LiveKit no longer lists (`forgotten`) |
| `SessionSettle` | per track `status`, `output`, `run`; per settler the `decision` it has read | `DownloadableIsReady` | a worker that dies before it settles (`nobody`), a FAILED written after a READY that was decided later (`overtaken`) |
| `PcmLink` | `camera`, `pcm` runs, `outputs` rows, `attached`, `seen` by either link | `WavIsAttached` | a worker's death, a failed camera (`failedRow`) |
| `RecordingTab` | `take`, `live`, `paused` on the server, `channel`, `replay`, `flight`, `polled` between, `tab` in the browser | `NeverAbandons`, `FollowsTake` | a start handled while an older take still begins (`slow`) |
| `Subscription` | `polar`'s truth, `sent`, `processed`, `handling` deliveries, `plan`, `periodEnd` of the row, the retention sweep | `PlanFollowsPolar`; `PaidKeepsRecordings` (violated) | the newest change not applied last, a lazy downgrade over a renewal (`clobbered`) |
| `DownloadCache` | `object` and `score` per key, `inUse` rows, `queued` transcodes, the sweep's `batch` and `spared` | `MasterKept`, `CachesExpire` | a sweep between a master's upload and its row (`caught`), a touch that failed (`untracked`) |
| `AudioTimeline` | `chunks` that were read, `run` being built, `runs`, the writer's `cursor`; `ReadSegment`, `PlanChunk`, `PlaceRun` are the three loops of `composePcmTimeline` | `AudioInPlace`: each chunk is heard whole, at its time, in step with the video, whatever up to `MaxGone` chunks are lost or unreadable | a wrong timestamp beside a break, which cannot be told; an output padded to `MaxLead` starts later than the video |
| `LocalRecorder` | `activeRef`, `pausedRef`, `partRef`, `fatalRetries` and their like are the hook's refs, `parts` its `RecorderPart`s, `chain` and `doing` the operations on `opChainRef`; `Replace` and `StartPart` are `replacePart` before and after its await | `RecordsExactly`: at rest the current part, and nothing else, records | a codec fallback after a pause or a stop (`astray`), a recorder that gave up (`gaveUp`) |

`RecordingTab` has a clock only where the code relies on one: the five seconds
after which a missed stop is believed (`useRecordingManager.ts:1728`) are as long as
the poll's period, so the answer that is used was asked for after the capture
began; and the next poll is not asked while an effect of the last is still due,
since React runs effects in milliseconds. The tab is a guest's: the host's own
start and stop requests change its state ahead of the broadcast and are not
modelled.

`LocalRecorder` is the camera's recorder (`useLocalRecording`) from the start of a
take to its stop or the page's end. Between two awaits a handler is one step; pauses,
first data and errors come at any time. Its instance has one camera and no stand-in
for it, so that the tracks come and go, three parts and two errors, with
`MaxRetries` 1 for three, so that the retries are used up.

In `AudioTimeline` a frame lasts one unit of time; the clock of a run is fitted only
when it lasts a minute, and a shorter one is copied as it is, which is the case that
is modelled. `Window` is 3 for five in the code, so that five chunks exceed it;
`MaxGone` is 1, because a break at each place is what matters for the runs (the
theorem has any number).

## 8. The runs

`CHECK_DEADLOCK FALSE` is set in every configuration: a track that is settled, a
space that has ended, a take that has stopped and a drained worker may rest for ever.

| Run | Instance | What it shows |
|---|---|---|
| `track_tabs` | 2 chunks, 2 tabs (one reports 0), 1 run, a storage error and two attempts | at rest every registered chunk is in the master (`NoChunkForgotten`), a READY track has its output (`ReadyHasOutput`), FAILED means there never was a master (`NoDowngrade`), a claimed or READY track is not put back to UPLOADING (`FinalizedStaysFinalized`) |
| `track_outage` | 2 chunks, 1 tab, 2 runs, 1 crash, 1 storage failure, fairness | `MasterNeverShrinks` (so no two runs overlap in a harmful way), `NeverReadyToFailed`, and after the stop the track settles for good (`EventuallySettled`) |
| `track_faults` | 1 chunk, a tab that rejoins, 2 runs, 1 each of stall, encode, db and api | `ReadyHasMaster` also when runs overlap and settle out of order |
| `space` | 2 starts, the space's end, 1 join, sweep, reaper, finalizer, all races, fairness | `OneActive`, `ActiveIsLocked`, `SettledStaysSettled` up to the stale writes; `LockNotLeaked`, `OrphansStopped` whatever races |
| `space_failed_take` | 3 starts, 1 stop | violates `OneTake`: settling a failed take frees the lock the running one holds |
| `meter_take` | the sweep, 1 host, lead 1, credit 2, 3 ticks, 1 crash, fairness | `NeverOverbilled`, `BooksAgree` (what was claimed is credited, but for what a crash cost), `OrphanIsFree`, `SpentTakeStops` |
| `screen_take` | a screen of 2 chunks, any count reported, 2 faults, 1 request at a time, fairness | `NothingForgotten`, `VideoKept`, `TakeSettles` |
| `screen_both` | a screen and a camera of 1 chunk each, the camera reported empty, 1 fault | `ReadyHasVideo` through the composite and its deletions |
| `capture` | 2 tabs of one browser, 1 chunk each, 1 hard event (closed tab, purge, deletion), 1 fault, fairness | `KeepsChunks` (the refinement of `Delivery`), `NumberedOnce`, `DrainedIsSafe`, `ChunksArrive` |
| `capture_refresh` | the same | violates `RefreshContinues`: a refreshed tab uses a number again |
| `services` | the ten parts of section 7, fairness | their fifteen properties |
| `plan_gap` | 1 subscription, 5 days, periods of 2, windows of 1 and 4 | violates `PaidKeepsRecordings` |

**Why these bounds are enough.** Two chunks are the smallest number for which
"all" and "some" differ, a late chunk can meet a run that has the other one, a gap
can exist and a fallback can lose a container. Two tabs disagree; two runs are what
a job that is given away needs. One fault of a kind already visits every place where
it can strike, and a retry after it; `screen_take` has two so that one can strike the
recovery from the other. Two starts are a take and the next one, or two that collide;
a third is needed only to show the collision the failed take makes possible. Three
ticks of the meter hold a stretch, a pause that takes effect after the lead and a
stretch after it, and all three races; heartbeats (`Beats`) add nothing but states
there and are covered by the proofs. Two tabs with a chunk each are a tab and its
successor, the queue that has a chunk and the one that adopts it; that a tab's own
chunks are numbered apart is arithmetic. In `services`, two jobs, two people with
one or two slots, two tracks, two takes and two keys are in each case one that is
in the way of the other; the periods and windows of the subscription are the smallest
that keep their order (demo window < period < PRO window); two errors of a recorder
are a start and a retry that fail, after which it has given up. Each property has a mutant
of the code in `PROJECT.json` that breaks it in the same instance, so the instance
contains the case the property is about.

**Fairness** is weak fairness of what has begun or runs on a timer, nothing else.

- `track_outage`: requests the API has accepted run on (an await returns or throws);
  some free worker takes a queued job; a live run goes on; the stalled-job check of
  BullMQ and the maintenance timer (`maintenance.ts`, every minute) keep running. No
  chunk has to be uploaded, no tab has to report, the host need not stop.
- `space`: the usage sweep runs on its timer, and a stop or an end that has begun
  goes on. A sweep takes one session a time; the next round finds the next one.
- `meter_take`: the sweep's timer and its queries go on; no heartbeat, no host and
  no clock has to.
- `screen_take`: requests, the pick-up, the run, the stalled check and the sweep.
- `capture`: the browser completes what was started (a lock is granted, a request is
  answered, a retry timer fires), and the participant opens the app again, which is
  what the code's recovery needs (`resumeOrphans` runs when a page is mounted).
- `services`: the worker's loop, its process and its queue; the reconcile and expiry
  sweeps; the background calls of an egress; a tab's timers, polls and effects. Each
  condition is stated over the variables of its own part (`WF_drainVars` and so on),
  so that a behaviour of one part owes nothing to another. `SessionSettle`,
  `PcmLink`, `Subscription`, `AudioTimeline` and `LocalRecorder` need none: their properties are safety.

## 9. Findings

- `OneTake` (`finalization-service.ts:475`): settling a session as FAILED resets the
  space's lock without asking who holds it; a second take can then start beside the
  running one, against `recording-service.ts:410-412`.
- `RefreshContinues` (`useRecordingManager.ts:583`): the server's count is read
  first, IndexedDB second, and the mount-time resume moves a chunk from the one to
  the other in between; the new tab uses its number again, against
  `useRecordingManager.ts:560-562`.
- `PaidKeepsRecordings` (`entitlements-service.ts:82`): between a period's end and the
  webhook of its renewal the retention sweep takes a paying user for DEMO, against
  `retention-service.ts:2-3`.

Two further divergences are not runs but show as history variables of `LocalRecorder`
without which `RecordsExactly` fails. A recorder that cannot start is retried until
`MAX_FATAL_RETRIES`, but `replacePart` refuses the last retry, because the counter has
already reached the limit (`useLocalRecording.ts:480` against 525), and so
`retryAfterFatal` is not called again and `onCombinedUnavailable` ("No recorder could be
started for the current tracks, even after retries", line 79) tells nobody
(`gaveUp`). And an encoder that fails before its first data is replaced by the next
codec's recorder even if the take was paused or the part stopped meanwhile
(`recorderCodecs.ts:220`), against "the recorders pause with it" (`useLocalRecording.ts:29`)
(`astray`).


## 10. What is proved

The theorems hold for any number of chunks, tabs, rejoins, runs, attempts and
fault budgets (`TrackFinalize_proofs`), for any number of sessions, requests
and ways to end (`SpaceRecording_proofs`), for any number of heartbeats and
hosts, any lead, credit and number of crashes (`UsageMeter_proofs`), and for any
tracks, people, keys, runs, moves, errors, losses and changes of the small parts
(`LocalRecorder_proofs`, `AudioTimeline_proofs`, `ServicesMC_proofs`), for
any number of tabs, browsers, chunks per tab, refusals and faults
(`ChunkUploader_proofs`), and for any tracks, chunks, requests in flight, attempts and
faults of a screen take (`ScreenTake_proofs`). The named modules rest only on the named assumptions about the
constants (`CountsAssumption`, `TabsAssumption`, `RequestsAssumption`, `NoneAssumption`,
`FaultsAssumption`; `ActorsAssumption`; `NumbersAssumption`, `ActorsAssumption`;
`UploaderAssumption`, `NoneAssumption`; `TracksAssumption`, `RequestsOfTake`,
`BoundsOfTake`), which TLC evaluates in every run.

| Theorem | Statement | Inductive invariant |
|---|---|---|
| `TypeCorrect` | `[]TypeOK` | `TypeOK` with `JobOK`: a queued job still has an attempt left, so counting a failure stays in range |
| `ReadyTrackHasMaster` | `[]ReadyHasMaster`, any faults | `MasterInv`: a run that remembers a master (`had`) is right about it, and a run that encodes or writes READY has at least one chunk |
| `OneRunPerTrack` | without `stall`, `[]SingleRun` | `LockInv`: whoever is at work is the owner of the active job |
| `FailureKeepsMaster` | without `stall`, `db` and `sweepRace`, `[]NoDowngrade` | `SettleInv`: what is claimed, found or built is registered; a run that will settle the track knows whether there is a master; past the settling the track is not PROCESSING |
| `ReadyTrackStaysUsable` | the same, `NeverReadyToFailed` | from `SettleInv`, since a master is only ever replaced |
| `ReRunsKeepChunks` | without `stall` and `encode`, `MasterNeverShrinks` | `CoverInv`: what the one run is about to upload covers the master |
| `ClaimedTrackStaysClaimed` | without `rejoinRace` and `reportRace`, `FinalizedStaysFinalized` | `EndedInv`: before the session ends the track is UPLOADING or UPLOADED, no sweep looks at it and no run is past its claim |
| `FinishedTrackHasOutput` | without `stall`, `db` and `crash`, `[]ReadyHasOutput` | `OutputInv`, with `SettleInv`: once there is a master the output row is READY, or the one run is at its write |
| `EveryChunkIsInTheMaster` | with fewer `storage` errors than `Attempts` and no other fault, `[]NoChunkForgotten` | `ChunkInv`, with `OnlyStorage` (a job has more attempts left than storage has errors): what has arrived is registered or on its way, what was opened or built covers what was there at the claim, and whatever came later is owed by a job that will run |
| `SpaceTypeCorrect` | `[]TypeOK` | itself |
| `LockNeverLeaks` | `[]LockNotLeaked`, any races | `LockInv`: a session exists only after its claim, what a stopper holds exists, what is settled is not ACTIVE |
| `OneTakeAtATime`, `TakeHoldsLock` | `[]OneActive`, `[]ActiveIsLocked` | `TakeInv`: while no stale write has happened, `LockInv` and no take in a scheduled space |
| `SettledSessionStays` | `SettledStaysSettled`: once a session is READY or FAILED, no step leaves it otherwise unless a stop wrote on a stale read | `LockInv`, and lemma `NotRaced`: a write that leaves its kind of race unnoted finds the state it was decided on |
| `MeterTypeCorrect` | `[]TypeOK` | with `Resuming`: a resume has read a paused take |
| `TakeNeverOverbilled` | `[]NeverOverbilled` | `MeterInv`: while `races` is empty, `last` is the metered plus the paused time, not ahead of the clock, and during a pause at least `Lead` before it; no caller's time is ahead of the clock, no effect of a pause more than `Lead` ahead |
| `BooksAlwaysAgree` | `[]BooksAgree` | `Ledger`: what the session has claimed is what the owner was credited, what crashes lost and what is owed by the callers at their credit. The sum over the callers is a list with running totals; that a list's total does not depend on what a step leaves alone is shown at the first place where two lists would differ |
| `OrphanNotCharged` | `OrphanIsFree`, any races | `Times`: who saw the space LIVE noted a time before its end |
| `WavReachesOutputs` | `[]WavIsAttached` | `LinkInv`: while a row lacks the WAV, the camera's run has yet to read, or has seen the WAV, or the PCM run is at its link |
| `SessionBecomesReady` | `[]DownloadableIsReady`, if no track is called as the settler of `maybeFinalizeSession` | `SettleInv`: once there is an output, somebody counts or is about to write READY, or READY is written and nobody holds an older FAILED, or one was overtaken |
| `SlotsStayCapped` | caps are naturals: `[]CapRespected` | `CapInv`: with the rows finite, whoever takes a slot counts all of them, and whoever does not is not counted |
| `ControllerStays` | `[]SomebodyCanStop` | `ControlInv`: the same also for an empty room, so that the first one to come back need not be a controller |
| `MasterSurvivesExpiry` | `[]MasterKept` | `CacheInv`: past the sweep's look at the rows, a master it did not spare is caught, and what it deletes is of its batch |
| `PlanIsPaidFor` | the period is an integer: `[]PlanFollowsPolar` | `BillingInv`: the last event is what Polar knows; the row is what that event says, if it was applied last, but that a PRO whose period is over may be downgraded |
| `RecordsOnlyTheTake` | `MaxRetries` is a natural: `[]RecordsExactly` | `PartsInv`, `FailInv`, `CurrentInv`: all parts but the current one were told to stop; if the current one is dead or its recorder failed, an operation, a timer or a replacement under way deals with it, or its retries are used up |
| `AudioStaysInPlace` | `Sizes`: bounds are naturals, `Window` is at least 3: `[]AudioInPlace` | `AudioInv`: the chunks read so far are segments of one capture, in order; the offsets of the run being built are within `Jump` of each other, but for at most one that a wrong timestamp moved; so the median of the last `Window` is one of the others, a run starts within `Jump` of where its audio was captured, and two runs never overlap by more than that |
| `AcknowledgedJobsDrained` | `[]AcknowledgedIsDrained` | `DrainInv`: past the last look at the wake, or at rest, every acknowledged job is done unless a wake waits; a process at rest has no wake waiting |
| `TakesNotAbandoned` | `[]NeverAbandons` | `FollowInv`: every broadcast under way, the replay, the answer in flight and the one polled tell of a take that was, and a take told to be over is over |
| `UploaderTypeCorrect` | `[]TypeOK` | `TypeInv`: with it the numbers in use stay below the bound, a tab's route fits its rows, and whatever names a chunk in a buffer, a queue or the store names one that was recorded, under its number |
| `UploaderKeepsChunks` | `KeepsChunks`: `ChunkUploader` implements `Delivery` | `KeptInv`: what a queue calls sent is stored; a chunk that is neither pardoned nor under another's number is on the server, in its tab's memory or in its browser's buffer. Every step then moves chunks the way `Delivery` allows (lemma `KeepsStep`) |
| `UploaderDrains` | `[]DrainedIsSafe` | `Covered`: each chunk of an open tab is excused, delivered, being saved, queued or set aside |
| `UploaderNumbersOnce` | `[]NumberedOnce` | `NumberInv`: while no tab started from a stale number, chunks have different numbers unless one of them is pardoned, one tab at a time adds chunks, and it numbers them past every other tab's, but for chunks that are lost for a reason |
| `TakeTypeCorrect` | `[]TypeOK` | `TypeInv`, in `TakeInv`: with it a job that is tried again has attempts left |
| `ReadyTakeHasVideo` | `[]ReadyHasVideo`, any faults | `TakeInv` (`Completed`, `JobHeld`, `Registered`, `Finished`): a take is finalized only once all its tracks are complete, what is in a video or a run was registered, a finished video has something in it, a READY take has one, and a run that may put its preview up knows whether there is one |
| `FinishedVideoStays` | `VideoKept` | with it `SoundInv` (`GoneInv`, `Waits`, `Carried`): once chunks are deleted the take is READY, its tracks have settled and nobody re-opens it; a track waits in a settled take only while somebody is about to re-open it; and what a run has fetched or built covers what it claimed, the video before included, unless an encode failed |
| `NoChunkOfTakeForgotten` | `[]NothingForgotten` | with both `OwedInv`: each registered chunk that came in time is in the video, or in what the one run carries to it, or owed by a job, a request or a sweep that will look again |

`ServicesMC_proofs` states ten of them for the sum of the parts, which is what
the run `services` checks: a step of the sum is a step of one part and leaves the
others alone, so what is inductive in a part is inductive in the sum. It takes the
invariants of `LocalRecorder` and `AudioTimeline` from their proof modules; those of the
other parts, which are shorter, it holds itself.

`AudioTimeline` was changed so that it could be reasoned about. The median is now given
by what it is (`Nth`: the value with fewer than `k` smaller ones and at least `k` not
greater) instead of by sorting; that there is one is shown by taking the least element
of a set of numbers (`Least`), which is the only induction over data here: the library's
induction theorems take an operator as a parameter, but `WFMin` takes a set. From it
follows what the code relies on: a median is within the bounds of all but a minority of
the values. With one wrong timestamp that minority is one, so a window of three offsets
suffices; the code has five (`BASELINE_WINDOW`). The first attempt also found that the
property said too much: the output starts with the video only if the first run is not
placed later than `MaxLead` allows, and the run's start, not its first chunk's, decides.
Any number of chunks may now be lost (`MaxGone`); suspensions stay one, because several
that are each below `Jump` add up beyond it, and so does the wrong timestamp, because
two can be a majority of three.

The proof of `RecordsOnlyTheTake` changed the model. `gaveUp` used to be noted only when a
replacement was refused; the invariant could not be shown, and with one retry TLC found
why: the replacement of a part that has just failed may itself fail to start, when the
old part has used up the retries. The history now notes every refusal, and the run
`services` has one retry and two errors, so that it happens there.

Hypotheses and counterexamples. A hypothesis is about the budget of a kind of fault; the
other budgets stay arbitrary. TLC refutes each property with each kind that its theorem
about `TrackFinalize` excludes, on instances of one to three chunks, two runs, two
rejoins and two tabs:

| Property | Refuted by one fault of the kind alone | Refuted beside another |
|---|---|---|
| `SingleRun` | `stall` | |
| `NoDowngrade` | `stall`, `db`, `sweepRace` (a sweep that read no chunk, and a re-opened track) | |
| `NeverReadyToFailed` | `stall`, `db` | `sweepRace` after a `rejoinRace` |
| `MasterNeverShrinks` | `stall`, `encode` | |
| `FinalizedStaysFinalized` | `rejoinRace`, `reportRace` | |
| `ReadyHasOutput` | `crash` | `db` twice, `stall` with `encode` |
| `NoChunkForgotten` | `encode`, `api`, `crash`, `stall`, `db`, and each of the three races | `storage`, as often as a job has attempts |

The counterexamples to `NoChunkForgotten` with `stall` and `db` take three chunks and
share a cause: a re-opened track goes back to UPLOADING when a report raises its count,
a run that settles late writes READY or FAILED over it, and when the last chunk then
completes it, `tryCompleteRecording` leaves a status that is not UPLOADING as it is, so
that nobody queues the track again. `rejoinRace` needs two tabs and ends the same way.
For the `settle` race of `SpaceRecording` the run `space_failed_take` is the
counterexample.

Only model-checked: all liveness properties, which are beyond the prover. Every
invariant and every action property of a passing run is a theorem.

## 11. Plan

The modules of the plan are done. What is left:

1. `TrackFinalize`'s three races as history variables, as in the other modules.
2. `SpaceRecording`: pause and resume, `deleteSpace`. `UsageMeter`: the pause of a screen
   take, the change of the billing month, `reconcileRecordedSeconds`.
3. The recorders of shared screens and of the screen recorder, beside `LocalRecorder`; the
   host's own tab in `RecordingTab`, with its optimistic start and stop.
4. The purge cascade (`retention-service`, `deleteSpaceRecordingSession`) against late
   writers, and the clock fit of long runs in `AudioTimeline`.

## 12. Not modelled

More than half of the repository's lines are the user interface: React components,
dialogs, tables and their local state (`src/web/src/components`, `pages`), which
render what the API says and decide nothing about a recording. Authentication,
profiles, search, comments, e-mail, the admin pages, routes and migrations read and
write one row in one query. The browser's media stack, ffmpeg, the wire formats and
retries inside a single query are outside every model. Deleting a track or a session
while it is finalized is modelled only for the uploader (`DeleteRecording`). The time a
sweep's thresholds wait (two and ten minutes, a day) is abstracted: the models let a
sweep act as soon as its condition could hold, provided no request of a chunk is still
at work (`Quiet`), which is what the thresholds are for. Chat, names, time sync and share
viewers on the sockets, and the infrastructure stamps of self-hosted spaces (one write
when a session starts, read afterwards), carry no protocol of several steps.
