-------------------------- MODULE ScreenTake_proofs --------------------------
(***************************************************************************)
(* Theorems about ScreenTake, for any chunks, reports, attempts, faults and *)
(* requests in flight.  The inductive invariant comes in three parts:       *)
(*                                                                         *)
(*   - TakeInv holds whatever goes wrong: a READY take has a video;         *)
(*   - SoundInv, as long as nothing goes wrong that the code does not stand *)
(*     up to: chunks are deleted only of a take that is finished, and what  *)
(*     a run claimed is in what it publishes, so that a video is replaced   *)
(*     only by one that has as much;                                        *)
(*   - OwedInv, without failed encodes too: a chunk that is missing from    *)
(*     the video of a settled take has somebody who is still to see it.     *)
(***************************************************************************)
EXTENDS ScreenTake, WellFoundedInduction, TLAPS

-----------------------------------------------------------------------------
(* The operators the handlers are built from.                              *)

LEMMA ChunkShape ==
  ASSUME NEW c \in Chunks
  PROVE  TrackOf(c) \in Tracks /\ c[2] \in 1 .. Last[TrackOf(c)]
<1>1. PICK t \in Tracks : c \in {t} \X (1 .. Last[t]) BY DEF Chunks
<1>2. TrackOf(c) = t /\ c[2] \in 1 .. Last[t] BY <1>1 DEF TrackOf
<1> QED BY <1>2

LEMMA CountIsAny ==
  ASSUME NEW t \in Tracks, NEW n \in Counts(t)
  PROVE  n \in AnyCount
BY DEF AnyCount

\* A set of numbers below a bound has a largest one.
LEMMA Largest ==
  ASSUME NEW n \in Nat, NEW S \in SUBSET (1 .. n), S # {}
  PROVE  \E i \in S : \A j \in S : j <= i
<1> DEFINE T == {n - i : i \in S}
<1>1. T \subseteq Nat /\ T # {}
  <2>1. \A i \in S : n - i \in Nat OBVIOUS
  <2> QED BY <2>1
<1>2. \E x \in T : \A y \in T : ~ (<<y, x>> \in OpToRel(<, Nat))
  BY <1>1, NatLessThanWellFounded, WFMin, Zenon
<1>3. PICK x \in T : \A y \in T : ~(y < x)
  BY <1>1, <1>2 DEF OpToRel
<1>4. PICK i \in S : x = n - i OBVIOUS
<1>5. ASSUME NEW j \in S PROVE j <= i
  <2>1. ~(n - j < n - i) BY <1>3, <1>4
  <2> QED BY <2>1
<1> QED BY <1>5

\* The chunks of one track have a last one and a first one.
LEMMA LastChunk ==
  ASSUME NEW t \in Tracks, NEW S \in SUBSET ChunksOf(Chunks, t), S # {}
  PROVE  \E c \in S : \A d \in S : d[2] <= c[2]
<1> DEFINE N == {c[2] : c \in S}
<1>1. \A c \in S : c[2] \in 1 .. Last[t] BY ChunkShape DEF ChunksOf
<1>2. N \in SUBSET (1 .. Last[t]) /\ N # {} BY <1>1
<1>3. Last[t] \in Nat BY TracksAssumption
<1>4. PICK i \in N : \A j \in N : j <= i BY <1>2, <1>3, Largest
<1>5. PICK c \in S : i = c[2] BY <1>4
<1> QED BY <1>4, <1>5

LEMMA FirstChunk ==
  ASSUME NEW t \in Tracks, NEW S \in SUBSET ChunksOf(Chunks, t), S # {}
  PROVE  \E c \in S : \A d \in S : c[2] <= d[2]
<1> DEFINE N == {Last[t] + 1 - c[2] : c \in S}
<1>1. Last[t] \in Nat BY TracksAssumption
<1>2. \A c \in S : c[2] \in 1 .. Last[t] BY ChunkShape DEF ChunksOf
<1>3. N \in SUBSET (1 .. Last[t]) /\ N # {}
  <2>1. \A c \in S : Last[t] + 1 - c[2] \in 1 .. Last[t] BY <1>1, <1>2
  <2> QED BY <2>1
<1>4. PICK i \in N : \A j \in N : j <= i BY <1>1, <1>3, Largest
<1>5. PICK c \in S : i = Last[t] + 1 - c[2] BY <1>4
<1>6. ASSUME NEW d \in S PROVE c[2] <= d[2]
  <2>1. Last[t] + 1 - d[2] <= Last[t] + 1 - c[2] BY <1>4, <1>5
  <2> QED BY <1>1, <1>2, <2>1
<1> QED BY <1>6

LEMMA LargerCounts ==
  ASSUME NEW t \in Tracks, NEW m \in AnyCount, NEW n \in Counts(t)
  PROVE  Larger(OrZero(m), n) \in AnyCount
<1>1. CASE m = None
  <2>1. OrZero(m) = 0 BY <1>1 DEF OrZero
  <2>2. Larger(OrZero(m), n) \in Counts(t)
    BY <2>1, TracksAssumption DEF Larger, Counts
  <2> QED BY <2>2, CountIsAny
<1>2. CASE m # None
  <2>1. OrZero(m) = m BY <1>2 DEF OrZero
  <2>2. Larger(OrZero(m), n) \in {m, n} BY <2>1 DEF Larger
  <2> QED BY <2>2, CountIsAny
<1> QED BY <1>1, <1>2

LEMMA ObservedIsCount ==
  ASSUME NEW t \in Tracks, NEW S \in SUBSET ChunksOf(Chunks, t)
  PROVE  Observed(S) \in Counts(t)
<1>0. Last[t] \in Nat BY TracksAssumption
<1>1. CASE S = {} BY <1>0, <1>1 DEF Observed, Counts
<1>2. CASE S # {}
  <2> DEFINE top == CHOOSE c \in S : \A d \in S : d[2] <= c[2]
  <2>1. top \in S BY <1>2, LastChunk
  <2>2. top[2] \in 1 .. Last[t] BY <2>1, ChunkShape DEF ChunksOf
  <2>3. top[2] \in Counts(t) BY <1>0, <2>2 DEF Counts
  <2> QED BY <1>2, <2>3 DEF Observed
<1> QED BY <1>1, <1>2

-----------------------------------------------------------------------------
(* Type correctness.                                                       *)

\* What the sweep forces complete is a track, with the chunks it saw of it.
TypeInv ==
  /\ TypeOK
  /\ sweep.at = "force" => sweep.track \in Tracks /\ sweep.segs \subseteq ChunksOf(Chunks, sweep.track)

LEMMA TypeInit == Init => TypeInv
<1> SUFFICES ASSUME Init PROVE TypeInv OBVIOUS
<1> USE DEF Init
<1>1. None \in AnyCount /\ "UPLOADING" \in TrackStatuses BY DEF AnyCount, TrackStatuses
<1>2. expected \in [Tracks -> AnyCount] /\ seen \in [Requests -> [status : TrackStatuses, expected : AnyCount]]
  BY <1>1 DEF Nothing
<1>3. job \in [state : {"none", "queued", "active", "failed"},
               tries : 0 .. (Attempts - 1), stalls : {0, 1}]
  BY BoundsOfTake DEF NoJob
<1>4. pc \in [Requests -> ReqPhases] BY DEF ReqPhases
<1>5. run \in [at : RunPhases, snap : SUBSET Chunks, todo : SUBSET Tracks,
               got : [Tracks -> SUBSET Chunks], hadFinal : BOOLEAN,
               out : [kind : OutputKinds, has : SUBSET Chunks]]
  BY DEF IdleRun, NoChunks, RunPhases, OutputKinds
<1>6. sweep \in [at : {"idle", "force", "kick", "enqueue"},
                 track : Tracks \cup {None}, segs : SUBSET Chunks, expected : AnyCount]
  BY <1>1 DEF IdleSweep
<1>7. cleaner \in [at : {"idle", "delete", "processed"},
                   track : Tracks \cup {None}, segs : SUBSET Chunks]
  BY DEF IdleCleaner
<1>8. faults \in 0 .. MaxFaults BY BoundsOfTake
<1>9. sweep.at # "force" BY DEF IdleSweep
<1> QED BY <1>1, <1>2, <1>3, <1>4, <1>5, <1>6, <1>7, <1>8, <1>9
        DEF TypeInv, TypeOK, SessionStatuses, OutputKinds, TrackStatuses

LEMMA RequestIsOf ==
  ASSUME NEW r \in Requests, r # Host
  PROVE  TrackFor(r) \in Tracks
BY ChunkShape DEF Requests, TrackFor

LEMMA KeepTypes ==
  ASSUME TypeOK, NEW r \in Requests, NEW t \in Tracks, NEW phase \in ReqPhases,
         Keep(r, t, phase)
  PROVE  /\ pc' \in [Requests -> ReqPhases]
         /\ seen' \in [Requests -> [status : TrackStatuses, expected : AnyCount]]
<1>1. status[t] \in TrackStatuses /\ expected[t] \in AnyCount BY DEF TypeOK
<1> QED BY <1>1 DEF Keep, Goto, TypeOK

LEMMA ReturnTypes ==
  ASSUME TypeOK, NEW r \in Requests, Return(r)
  PROVE  /\ pc' \in [Requests -> ReqPhases]
         /\ seen' \in [Requests -> [status : TrackStatuses, expected : AnyCount]]
<1>1. Nothing \in [status : TrackStatuses, expected : AnyCount]
  BY DEF Nothing, TrackStatuses, AnyCount
<1>2. "done" \in ReqPhases BY DEF ReqPhases
<1> QED BY <1>1, <1>2 DEF Return, Goto, TypeOK

LEMMA GotoTypes ==
  ASSUME TypeOK, NEW r \in Requests, NEW phase \in ReqPhases, Goto(r, phase)
  PROVE  pc' \in [Requests -> ReqPhases]
BY DEF Goto, TypeOK

LEMMA FaultTypes ==
  ASSUME TypeOK, NEW what \in SUBSET Happenings, Fault(what)
  PROVE  faults' \in 0 .. MaxFaults /\ hit' \subseteq Happenings
BY BoundsOfTake DEF TypeOK, Fault, Happened

LEMMA NoteTypes ==
  ASSUME TypeOK, NEW race \in BOOLEAN, Note(race)
  PROVE  faults' \in 0 .. MaxFaults /\ hit' \subseteq Happenings
BY DEF TypeOK, Note, Happened, Happenings

LEMMA AddTypes ==
  ASSUME TypeOK, Add
  PROVE  job' \in [state : {"none", "queued", "active", "failed"},
                   tries : 0 .. (Attempts - 1), stalls : {0, 1}]
BY BoundsOfTake DEF TypeOK, Add, NoJob

\* A job that is tried again has failed less often than it may.
LEMMA RetryTypes ==
  ASSUME TypeOK, ~Final, job' = [job EXCEPT !.state = "queued", !.tries = @ + 1]
  PROVE  job' \in [state : {"none", "queued", "active", "failed"},
                   tries : 0 .. (Attempts - 1), stalls : {0, 1}]
<1>1. job.tries \in 0 .. (Attempts - 1) /\ Attempts \in Nat BY BoundsOfTake DEF TypeOK
<1>2. job.tries + 1 \in 0 .. (Attempts - 1) BY <1>1 DEF Final
<1> QED BY <1>2 DEF TypeOK

LEMMA NoJobTypes ==
  NoJob \in [state : {"none", "queued", "active", "failed"},
             tries : 0 .. (Attempts - 1), stalls : {0, 1}]
BY BoundsOfTake DEF NoJob

LEMMA IdleRunTypes ==
  IdleRun \in [at : RunPhases, snap : SUBSET Chunks, todo : SUBSET Tracks,
               got : [Tracks -> SUBSET Chunks], hadFinal : BOOLEAN,
               out : [kind : OutputKinds, has : SUBSET Chunks]]
BY DEF IdleRun, NoChunks, RunPhases, OutputKinds

LEMMA StepTypes ==
  ASSUME TypeOK, NEW phase \in RunPhases, Step(phase)
  PROVE  run' \in [at : RunPhases, snap : SUBSET Chunks, todo : SUBSET Tracks,
                   got : [Tracks -> SUBSET Chunks], hadFinal : BOOLEAN,
                   out : [kind : OutputKinds, has : SUBSET Chunks]]
BY DEF Step, TypeOK

LEMMA AfterFetchTypes ==
  ASSUME TypeOK, NEW t \in Tracks, NEW got \in SUBSET Chunks, AfterFetch(t, got)
  PROVE  run' \in [at : RunPhases, snap : SUBSET Chunks, todo : SUBSET Tracks,
                   got : [Tracks -> SUBSET Chunks], hadFinal : BOOLEAN,
                   out : [kind : OutputKinds, has : SUBSET Chunks]]
<1>1. PICK phase \in {"preview", "build", "fetch"} :
        run' = [run EXCEPT !.todo = @ \ {t}, !.got[t] = got, !.at = phase]
  BY DEF AfterFetch
<1> QED BY <1>1 DEF TypeOK, RunPhases

\* A step of a request, which leaves the run and the sweeps alone.
LEMMA RequestTypes ==
  ASSUME TypeInv, NEW r \in Requests,
         \/ RequestStep(r)
         \/ RequestDies(r)
         \/ r \in Chunks /\ RegisterChunk(r)
         \/ r \in Tracks /\ ReadForReport(r)
         \/ r = Host /\ StopReads
  PROVE  TypeInv'
<1> USE DEF TypeInv, rows, uploads, store, reqVars, others, world
<1> TypeOK OBVIOUS
<1>p. /\ "arrived" \in ReqPhases /\ "cleaned?" \in ReqPhases /\ "reopen" \in ReqPhases
      /\ "session" \in ReqPhases /\ "report" \in ReqPhases /\ "try" \in ReqPhases
      /\ "flip" \in ReqPhases /\ "stop" \in ReqPhases /\ "kick" \in ReqPhases
      /\ "enqueue" \in ReqPhases
  BY DEF ReqPhases
<1>h. {"api"} \subseteq Happenings /\ {"race"} \subseteq Happenings
      /\ {"sibling"} \subseteq Happenings
  BY DEF Happenings
<1>1. CASE r \in Chunks /\ RegisterChunk(r)
  <2>1. pc' \in [Requests -> ReqPhases] BY <1>1, <1>p, GotoTypes DEF RegisterChunk
  <2>2. faults' \in 0 .. MaxFaults /\ hit' \subseteq Happenings
    <3>1. PICK race \in BOOLEAN : Note(race)
      <4>1. Note(Deleting) BY <1>1 DEF RegisterChunk
      <4>2. CASE Deleting BY <4>1, <4>2 DEF Note
      <4>3. CASE ~Deleting BY <4>1, <4>3 DEF Note
      <4> QED BY <4>2, <4>3
    <3> QED BY <3>1, NoteTypes
  <2> QED BY <1>1, <2>1, <2>2 DEF RegisterChunk, TypeOK
<1>2. CASE r \in Chunks /\ ChunkArrived(r)
  <2>1. TrackOf(r) \in Tracks BY <1>2, ChunkShape
  <2>2. pc' \in [Requests -> ReqPhases]
        /\ seen' \in [Requests -> [status : TrackStatuses, expected : AnyCount]]
    <3>1. CASE Goto(r, "try") /\ UNCHANGED seen BY <3>1, <1>p, GotoTypes DEF TypeOK
    <3>2. CASE Keep(r, TrackOf(r), "cleaned?") BY <3>2, <2>1, <1>p, KeepTypes
    <3>3. CASE Return(r) BY <3>3, ReturnTypes
    <3> QED BY <1>2, <3>1, <3>2, <3>3 DEF ChunkArrived
  <2> QED BY <1>2, <2>2 DEF ChunkArrived, TypeOK
<1>3. CASE CheckCleaned(r)
  <2>1. pc' \in [Requests -> ReqPhases]
        /\ seen' \in [Requests -> [status : TrackStatuses, expected : AnyCount]]
    <3>1. CASE Goto(r, "reopen") /\ UNCHANGED seen BY <3>1, <1>p, GotoTypes DEF TypeOK
    <3>2. CASE Return(r) BY <3>2, ReturnTypes
    <3> QED BY <1>3, <3>1, <3>2 DEF CheckCleaned
  <2> QED BY <1>3, <2>1 DEF CheckCleaned, TypeOK
<1>4. CASE r \in Chunks /\ ReopenTrack(r)
  <2>1. TrackOf(r) \in Tracks /\ r[2] \in 1 .. Last[TrackOf(r)] BY <1>4, ChunkShape
  <2>2. r[2] \in Counts(TrackOf(r)) BY <2>1, TracksAssumption DEF Counts
  <2>3. CASE status[TrackOf(r)] \in {"READY", "FAILED"}
    <3>1. pc' \in [Requests -> ReqPhases] BY <1>4, <2>3, <1>p, GotoTypes DEF ReopenTrack
    <3>2. seen[r].expected \in AnyCount BY DEF TypeOK
    <3>3. Larger(OrZero(seen[r].expected), r[2]) \in AnyCount BY <2>1, <2>2, <3>2, LargerCounts
    <3>4. faults' \in 0 .. MaxFaults /\ hit' \subseteq Happenings
      <4>1. hit' = hit \cup ((IF Deleting THEN {"race"} ELSE {})
                   \cup (IF cleaned \ ChunksOf(cleaned, TrackOf(r)) # {} THEN {"sibling"} ELSE {}))
            /\ UNCHANGED faults
        BY <1>4, <2>3 DEF ReopenTrack, Happened
      <4>2. hit' \subseteq hit \cup {"race", "sibling"} BY <4>1
      <4> QED BY <4>1, <4>2, <1>h DEF TypeOK
    <3>5. status' \in [Tracks -> TrackStatuses]
      BY <1>4, <2>3, <2>1 DEF ReopenTrack, TypeOK, TrackStatuses
    <3>6. expected' \in [Tracks -> AnyCount]
      BY <1>4, <2>3, <2>1, <3>3 DEF ReopenTrack, TypeOK
    <3> QED BY <1>4, <2>3, <3>1, <3>4, <3>5, <3>6 DEF ReopenTrack, TypeOK
  <2>4. CASE status[TrackOf(r)] \notin {"READY", "FAILED"}
    <3>1. Return(r) /\ UNCHANGED <<session, outputs, rows, store, job, run, others, world>>
      BY <1>4, <2>4 DEF ReopenTrack
    <3> QED BY <3>1, ReturnTypes DEF TypeOK
  <2> QED BY <2>3, <2>4
<1>5. CASE ReopenSession(r)
  <2>1. pc' \in [Requests -> ReqPhases]
        /\ seen' \in [Requests -> [status : TrackStatuses, expected : AnyCount]]
    <3>1. CASE Goto(r, "enqueue") /\ UNCHANGED seen BY <3>1, <1>p, GotoTypes DEF TypeOK
    <3>2. CASE Return(r) BY <3>2, ReturnTypes
    <3> QED BY <1>5, <3>1, <3>2 DEF ReopenSession
  <2>2. session' \in {session, "STOPPED"} BY <1>5 DEF ReopenSession
  <2> QED BY <1>5, <2>1, <2>2 DEF ReopenSession, TypeOK, SessionStatuses
<1>6. CASE r \in Tracks /\ ReadForReport(r)
  BY <1>6, <1>p, KeepTypes DEF ReadForReport, TypeOK
<1>7. CASE r \in Tracks /\ MarkRecordingComplete(r)
  <2>1. pc' \in [Requests -> ReqPhases] BY <1>7, <1>p, GotoTypes DEF MarkRecordingComplete
  <2>2. PICK n \in Reports[r] :
          expected' = [expected EXCEPT ![r] = Larger(OrZero(seen[r].expected), n)]
    BY <1>7 DEF MarkRecordingComplete
  <2>3. n \in Counts(r) BY <1>7, TracksAssumption
  <2>4. seen[r].expected \in AnyCount BY DEF TypeOK
  <2>5. expected' \in [Tracks -> AnyCount]
    BY <1>7, <2>2, <2>3, <2>4, LargerCounts DEF TypeOK
  <2> QED BY <1>7, <2>1, <2>5 DEF MarkRecordingComplete, TypeOK
<1>8. CASE r # Host /\ TryComplete(r)
  <2>1. TrackFor(r) \in Tracks BY <1>8, RequestIsOf
  <2>2. pc' \in [Requests -> ReqPhases]
        /\ seen' \in [Requests -> [status : TrackStatuses, expected : AnyCount]]
    <3>1. CASE Keep(r, TrackFor(r), "flip") BY <3>1, <2>1, <1>p, KeepTypes
    <3>2. CASE Return(r) BY <3>2, ReturnTypes
    <3> QED BY <1>8, <3>1, <3>2 DEF TryComplete
  <2> QED BY <1>8, <2>2 DEF TryComplete, TypeOK
<1>9. CASE r # Host /\ FlipComplete(r)
  <2>1. TrackFor(r) \in Tracks BY <1>9, RequestIsOf
  <2>2. pc' \in [Requests -> ReqPhases]
        /\ seen' \in [Requests -> [status : TrackStatuses, expected : AnyCount]]
    <3>1. CASE Goto(r, "kick") /\ UNCHANGED seen BY <3>1, <1>p, GotoTypes DEF TypeOK
    <3>2. CASE Return(r) BY <3>2, ReturnTypes
    <3> QED BY <1>9, <3>1, <3>2 DEF FlipComplete
  <2>3. isComplete' \in [Tracks -> BOOLEAN]
    BY <1>9, <2>1 DEF FlipComplete, TypeOK
  <2>4. status' \in [Tracks -> TrackStatuses]
    BY <1>9, <2>1 DEF FlipComplete, TypeOK, TrackStatuses
  <2> QED BY <1>9, <2>2, <2>3, <2>4 DEF FlipComplete, TypeOK
<1>10. CASE r = Host /\ StopReads
  <2>1. pc' \in [Requests -> ReqPhases] BY <1>10, <1>p, GotoTypes DEF StopReads
  <2> QED BY <1>10, <2>1 DEF StopReads, TypeOK
<1>11. CASE r = Host /\ StopWrites
  <2>1. pc' \in [Requests -> ReqPhases] BY <1>11, <1>p, GotoTypes DEF StopWrites
  <2> QED BY <1>11, <2>1 DEF StopWrites, TypeOK, SessionStatuses
<1>12. CASE MaybeFinalize(r)
  <2>1. pc' \in [Requests -> ReqPhases]
        /\ seen' \in [Requests -> [status : TrackStatuses, expected : AnyCount]]
    <3>1. CASE Goto(r, "enqueue") /\ UNCHANGED seen BY <3>1, <1>p, GotoTypes DEF TypeOK
    <3>2. CASE Return(r) BY <3>2, ReturnTypes
    <3> QED BY <1>12, <3>1, <3>2 DEF MaybeFinalize
  <2> QED BY <1>12, <2>1 DEF MaybeFinalize, TypeOK
<1>13. CASE EnqueueFinalize(r)
  BY <1>13, AddTypes, ReturnTypes DEF EnqueueFinalize, TypeOK
<1>14. CASE RequestDies(r)
  <2>1. faults' \in 0 .. MaxFaults /\ hit' \subseteq Happenings
    BY <1>14, <1>h, FaultTypes DEF RequestDies
  <2> QED BY <1>14, <2>1, ReturnTypes DEF RequestDies, TypeOK
<1> QED BY <1>1, <1>2, <1>3, <1>4, <1>5, <1>6, <1>7, <1>8, <1>9, <1>10, <1>11, <1>12,
           <1>13, <1>14 DEF RequestStep

\* What a run puts together are chunks.
LEMMA MastersTypes ==
  ASSUME TypeOK, NEW salvaged \in SUBSET Tracks
  PROVE  /\ Masters(run.got, salvaged) \in [Tracks -> SUBSET Chunks]
         /\ \A t \in Tracks : Masters(run.got, salvaged)[t] \subseteq run.got[t]
BY DEF TypeOK, Masters

\* A step of the run or of its job, which leaves the requests and the sweeps alone.
LEMMA RunTypes ==
  ASSUME TypeInv, PickUp \/ RunStep \/ BuildFails \/ RunFails \/ WorkerDies \/ JobStalled
  PROVE  TypeInv'
<1> USE DEF TypeInv, rows, uploads, store, reqVars, others, world
<1> TypeOK OBVIOUS
<1> DEFINE Runs == [at : RunPhases, snap : SUBSET Chunks, todo : SUBSET Tracks,
                    got : [Tracks -> SUBSET Chunks], hadFinal : BOOLEAN,
                    out : [kind : OutputKinds, has : SUBSET Chunks]]
           Jobs == [state : {"none", "queued", "active", "failed"},
                    tries : 0 .. (Attempts - 1), stalls : {0, 1}]
<1>p. \A phase \in {"idle", "claim", "mark", "fetch", "preview", "build", "settle",
                    "ready", "recount", "reopen", "enqueue", "list", "delete",
                    "processed", "finish"} : phase \in RunPhases
  BY DEF RunPhases
<1>k. "none" \in OutputKinds /\ "preview" \in OutputKinds /\ "both" \in OutputKinds
      /\ "separate" \in OutputKinds /\ "salvage" \in OutputKinds
  BY DEF OutputKinds
<1>h. {"encode"} \subseteq Happenings /\ OnLast \subseteq Happenings
      /\ {"unchecked"} \subseteq Happenings /\ {"givenUp"} \subseteq Happenings
  BY DEF Happenings, OnLast
<1>s. \A s \in {"PROCESSING", "READY", "FAILED"} : s \in TrackStatuses /\ s \in SessionStatuses
  BY DEF TrackStatuses, SessionStatuses
<1>r. run \in Runs /\ job \in Jobs BY DEF TypeOK
<1>d. JobDone => job' \in Jobs /\ run' \in Runs
  BY NoJobTypes, IdleRunTypes DEF JobDone
<1>n. ASSUME NEW race, Note(race) PROVE faults' \in 0 .. MaxFaults /\ hit' \subseteq Happenings
  <2>1. Note(TRUE) \/ Note(FALSE) BY <1>n DEF Note
  <2> QED BY <2>1, NoteTypes
<1>1. CASE PickUp
  <2>1. run' \in Runs BY <1>1, <1>p, StepTypes DEF PickUp
  <2>2. job' \in Jobs BY <1>1, <1>r DEF PickUp
  <2> QED BY <1>1, <2>1, <2>2 DEF PickUp, TypeOK
<1>2. CASE Claim
  <2>1. run' \in Runs /\ job' \in Jobs
    <3>1. CASE JobDone BY <3>1, <1>d
    <3>2. CASE /\ UNCHANGED job
               /\ run' = [run EXCEPT !.at = "mark", !.snap = segs, !.todo = Tracks,
                                     !.hadFinal = IsFinal(outputs)]
      <4>1. segs \in SUBSET Chunks /\ IsFinal(outputs) \in BOOLEAN BY DEF TypeOK, IsFinal
      <4> QED BY <3>2, <4>1, <1>r, <1>p
    <3> QED BY <1>2, <3>1, <3>2 DEF Claim
  <2> QED BY <1>2, <2>1 DEF Claim, TypeOK
<1>3. CASE MarkProcessing
  BY <1>3, <1>p, <1>s, StepTypes DEF MarkProcessing, TypeOK
<1>4. CASE PutPreview
  <2>1. PICK phase \in {"build", "fetch"} : run' = [run EXCEPT !.at = phase, !.hadFinal = FALSE]
    BY <1>4 DEF PutPreview
  <2>2. run' \in Runs BY <2>1, <1>r, <1>p
  <2>3. run.got[Primary] \in SUBSET Chunks
    BY <1>r, TracksAssumption DEF Primary
  <2>4. outputs' \in [kind : OutputKinds, has : SUBSET Chunks]
    BY <1>4, <2>3, <1>k DEF PutPreview, TypeOK
  <2> QED BY <1>4, <2>2, <2>4 DEF PutPreview, TypeOK
<1>5. CASE BuildMasters
  <2>1. PICK salvaged \in SUBSET Tracks, together \in BOOLEAN :
          LET got  == Masters(run.got, salvaged)
              made == {t \in Tracks : got[t] # {}}
              both == together /\ salvaged = {} /\ made = {Screen, Camera}
          IN  /\ IF salvaged = {} /\ (both \/ made # {Screen, Camera})
                 THEN UNCHANGED world ELSE Fault({"encode"})
              /\ run' = [run EXCEPT !.at = IF made = {} THEN "ready" ELSE "settle",
                                    !.todo = made, !.got = NoChunks,
                                    !.out = [kind |-> IF both THEN "both" ELSE "separate",
                                             has |-> UNION {got[t] : t \in Tracks}]]
    BY <1>5 DEF BuildMasters
  <2> DEFINE got  == Masters(run.got, salvaged)
             made == {t \in Tracks : got[t] # {}}
             has  == UNION {got[t] : t \in Tracks}
  <2>2. UNCHANGED world \/ Fault({"encode"}) BY <2>1
  <2>3. faults' \in 0 .. MaxFaults /\ hit' \subseteq Happenings
    BY <2>2, <1>h, FaultTypes DEF TypeOK
  <2>4. PICK phase \in {"ready", "settle"}, kind \in {"both", "separate"} :
          run' = [run EXCEPT !.at = phase, !.todo = made, !.got = NoChunks,
                             !.out = [kind |-> kind, has |-> has]]
    BY <2>1
  <2>5. has \in SUBSET Chunks
    <3>1. \A t \in Tracks : got[t] \subseteq Chunks BY MastersTypes
    <3> QED BY <3>1
  <2>6. NoChunks \in [Tracks -> SUBSET Chunks] BY DEF NoChunks
  <2>7. [kind |-> kind, has |-> has] \in [kind : OutputKinds, has : SUBSET Chunks]
    BY <2>5, <1>k
  <2> HIDE DEF has, got
  <2>8. run' \in Runs BY <2>4, <2>6, <2>7, <1>r, <1>p
  <2> QED BY <1>5, <2>3, <2>8 DEF BuildMasters, TypeOK
<1>6. CASE PublishTake
  <2>1. CASE run.out.has = {}
    <3>1. /\ session' = "FAILED" /\ outputs' = [kind |-> "none", has |-> {}] /\ JobDone
          /\ Note(segs # run.snap)
          /\ UNCHANGED <<rows, store, reqVars, others>>
      BY <1>6, <2>1 DEF PublishTake
    <3>2. job' \in Jobs /\ run' \in Runs BY <3>1, <1>d
    <3>3. faults' \in 0 .. MaxFaults /\ hit' \subseteq Happenings BY <3>1, <1>n
    <3> QED BY <3>1, <3>2, <3>3, <1>s, <1>k DEF TypeOK
  <2>2. CASE run.out.has # {}
    BY <1>6, <2>2, <1>p, <1>s, <1>r, StepTypes DEF PublishTake, TypeOK
  <2> QED BY <2>1, <2>2
<1>7. CASE \E t \in Tracks : FetchNothing(t)
  <2>1. PICK t \in Tracks : FetchNothing(t) BY <1>7
  <2>2. run' \in Runs BY <2>1, AfterFetchTypes DEF FetchNothing
  <2>3. status' \in [Tracks -> TrackStatuses] BY <2>1, <1>s DEF FetchNothing, TypeOK
  <2> QED BY <2>1, <2>2, <2>3 DEF FetchNothing, TypeOK
<1>8. CASE \E t \in Tracks : FetchTrack(t)
  <2>1. PICK t \in Tracks : FetchTrack(t) BY <1>8
  <2>2. ToFetch(t) \cap objects \in SUBSET Chunks BY DEF TypeOK
  <2>3. run' \in Runs BY <2>1, <2>2, AfterFetchTypes DEF FetchTrack
  <2>4. status' \in [Tracks -> TrackStatuses] BY <2>1, <1>s DEF FetchTrack, TypeOK
  <2> QED BY <2>1, <2>3, <2>4 DEF FetchTrack, TypeOK
<1>9. CASE \E t \in Tracks : FetchFails(t)
  <2>1. PICK t \in Tracks : FetchFails(t) BY <1>9
  <2>2. faults' \in 0 .. MaxFaults /\ hit' \subseteq Happenings
    <3>1. UNCHANGED world \/ Fault(OnLast) BY <2>1 DEF FetchFails
    <3> QED BY <3>1, <1>h, FaultTypes DEF TypeOK
  <2>3. status' \in [Tracks -> TrackStatuses] BY <2>1, <1>s DEF FetchFails, TypeOK
  <2>4. CASE Final
    <3>1. run' \in Runs BY <2>1, <2>4, AfterFetchTypes DEF FetchFails
    <3> QED BY <2>1, <2>2, <2>3, <2>4, <3>1 DEF FetchFails, TypeOK
  <2>5. CASE ~Final
    <3>1. job' \in Jobs BY <2>1, <2>5, RetryTypes DEF FetchFails
    <3>2. run' \in Runs BY <2>1, <2>5, IdleRunTypes DEF FetchFails
    <3> QED BY <2>1, <2>2, <2>3, <2>5, <3>1, <3>2 DEF FetchFails, TypeOK
  <2> QED BY <2>4, <2>5
<1>10. CASE \E t \in Tracks : SettleTrack(t)
  <2>1. PICK t \in Tracks : SettleTrack(t) BY <1>10
  <2>2. PICK phase \in {"ready", "settle"} :
          run' = [run EXCEPT !.todo = @ \ {t}, !.at = phase]
    BY <2>1 DEF SettleTrack
  <2>3. run' \in Runs BY <2>2, <1>r, <1>p
  <2>4. status' \in [Tracks -> TrackStatuses] BY <2>1, <1>s DEF SettleTrack, TypeOK
  <2> QED BY <2>1, <2>3, <2>4 DEF SettleTrack, TypeOK
<1>11. CASE Recount
  <2>1. PICK phase \in {"reopen", "list", "finish"} : Step(phase) BY <1>11 DEF Recount
  <2>2. run' \in Runs BY <2>1, <1>p, StepTypes
  <2>3. faults' \in 0 .. MaxFaults /\ hit' \subseteq Happenings BY <1>11, <1>n DEF Recount
  <2> QED BY <1>11, <2>2, <2>3 DEF Recount, TypeOK
<1>12. CASE ReopenMissed
  <2>1. PICK phase \in {"enqueue", "finish"} : Step(phase) BY <1>12 DEF ReopenMissed
  <2>2. run' \in Runs BY <2>1, <1>p, StepTypes
  <2>3. session' \in {session, "STOPPED"} BY <1>12 DEF ReopenMissed
  <2> QED BY <1>12, <2>2, <2>3 DEF ReopenMissed, TypeOK, SessionStatuses
<1>13. CASE EnqueueMissed
  BY <1>13, <1>p, StepTypes, AddTypes DEF EnqueueMissed, TypeOK
<1>14. CASE ListChunks
  <2>1. segs \ cleaned \in SUBSET Chunks BY DEF TypeOK
  <2>2. run' \in Runs BY <1>14, <2>1, <1>r, <1>p DEF ListChunks
  <2> QED BY <1>14, <2>2 DEF ListChunks, TypeOK
<1>15. CASE DeleteChunks
  <2>1. run' \in Runs BY <1>15, <1>p, StepTypes DEF DeleteChunks
  <2>2. objects' \subseteq Chunks BY <1>15 DEF DeleteChunks, TypeOK
  <2> QED BY <1>15, <2>1, <2>2 DEF DeleteChunks, TypeOK
<1>16. CASE MarkCleaned
  <2>1. run' \in Runs BY <1>16, <1>p, StepTypes DEF MarkCleaned
  <2>2. cleaned' \subseteq Chunks BY <1>16, <1>r DEF MarkCleaned, TypeOK
  <2>3. faults' \in 0 .. MaxFaults /\ hit' \subseteq Happenings BY <1>16, <1>n DEF MarkCleaned
  <2> QED BY <1>16, <2>1, <2>2, <2>3 DEF MarkCleaned, TypeOK
<1>17. CASE FinishJob BY <1>17, <1>d DEF FinishJob, TypeOK
<1>18. CASE BuildFails
  <2>1. run.got[Primary] \in SUBSET Chunks BY <1>r, TracksAssumption DEF Primary
  <2>2. NoChunks \in [Tracks -> SUBSET Chunks] BY DEF NoChunks
  <2>3. run' \in Runs BY <1>18, <2>1, <2>2, <1>r, <1>p, <1>k DEF BuildFails
  <2>4. status' \in [Tracks -> TrackStatuses] BY <1>18, <1>s DEF BuildFails, TypeOK
  <2>5. faults' \in 0 .. MaxFaults /\ hit' \subseteq Happenings
    BY <1>18, <1>h, FaultTypes DEF BuildFails
  <2> QED BY <1>18, <2>3, <2>4, <2>5 DEF BuildFails, TypeOK
<1>19. CASE RunFails
  <2>1. faults' \in 0 .. MaxFaults /\ hit' \subseteq Happenings
    BY <1>19, <1>h, FaultTypes DEF RunFails
  <2>2. run' \in Runs BY <1>19, IdleRunTypes DEF RunFails
  <2>3. CASE Final
    <3>1. status' \in [Tracks -> TrackStatuses]
      BY <1>19, <2>3, <1>s DEF RunFails, TypeOK
    <3> QED BY <1>19, <2>1, <2>2, <2>3, <3>1, <1>s, NoJobTypes DEF RunFails, TypeOK
  <2>4. CASE ~Final
    <3>1. job' \in Jobs BY <1>19, <2>4, RetryTypes DEF RunFails
    <3> QED BY <1>19, <2>1, <2>2, <2>4, <3>1 DEF RunFails, TypeOK
  <2> QED BY <2>3, <2>4
<1>20. CASE WorkerDies
  <2>1. Fault({"unchecked"}) \/ Fault({}) BY <1>20 DEF WorkerDies
  <2>2. faults' \in 0 .. MaxFaults /\ hit' \subseteq Happenings
    BY <2>1, <1>h, FaultTypes
  <2> QED BY <1>20, <2>2, IdleRunTypes DEF WorkerDies, TypeOK
<1>21. CASE JobStalled
  <2>1. PICK s \in {"queued", "failed"} : job' = [job EXCEPT !.state = s, !.stalls = 1]
    BY <1>21 DEF JobStalled
  <2>2. job' \in Jobs BY <2>1, <1>r
  <2>3. hit' \subseteq hit \cup {"givenUp"} BY <1>21 DEF JobStalled, Happened
  <2> QED BY <1>21, <2>2, <2>3, <1>h DEF JobStalled, TypeOK
<1> QED BY <1>1, <1>2, <1>3, <1>4, <1>5, <1>6, <1>7, <1>8, <1>9, <1>10, <1>11, <1>12,
           <1>13, <1>14, <1>15, <1>16, <1>17, <1>18, <1>19, <1>20, <1>21 DEF RunStep

\* A step of the recovery sweep or of the daily cleanup.
LEMMA SweepTypes ==
  ASSUME TypeInv, ReapTake \/ SweepStep \/ CleanerStep
  PROVE  TypeInv'
<1> USE DEF TypeInv, rows, uploads, store, reqVars, others, world
<1> TypeOK OBVIOUS
<1> DEFINE Sweeps == [at : {"idle", "force", "kick", "enqueue"},
                      track : Tracks \cup {None}, segs : SUBSET Chunks, expected : AnyCount]
           Cleaners == [at : {"idle", "delete", "processed"},
                        track : Tracks \cup {None}, segs : SUBSET Chunks]
<1>i. /\ \A phase \in {"idle", "kick", "enqueue"} : [IdleSweep EXCEPT !.at = phase] \in Sweeps
      /\ IdleSweep \in Sweeps /\ IdleCleaner \in Cleaners /\ IdleSweep.at = "idle"
  BY DEF IdleSweep, IdleCleaner, AnyCount
<1>1. CASE ReapTake BY <1>1 DEF ReapTake, TypeOK, SessionStatuses
<1>2. CASE \E t \in Tracks : ForceReads(t)
  <2>1. PICK t \in Tracks : ForceReads(t) BY <1>2
  <2>2. ChunksOf(segs, t) \in SUBSET ChunksOf(Chunks, t) /\ ChunksOf(segs, t) \in SUBSET Chunks
    BY DEF TypeOK, ChunksOf
  <2>3. expected[t] \in AnyCount BY DEF TypeOK
  <2>4. sweep' = [at |-> "force", track |-> t, segs |-> ChunksOf(segs, t), expected |-> expected[t]]
    BY <2>1 DEF ForceReads
  <2>5. sweep' \in Sweeps /\ sweep'.track = t /\ sweep'.segs = ChunksOf(segs, t)
    BY <2>2, <2>3, <2>4
  <2> QED BY <2>1, <2>2, <2>5 DEF ForceReads, TypeOK
<1>3. CASE ForceCompletes
  <2>1. sweep.track \in Tracks /\ sweep.segs \in SUBSET ChunksOf(Chunks, sweep.track)
    BY <1>3 DEF ForceCompletes
  <2>2. sweep' \in Sweeps /\ sweep'.at = "kick"
    <3>1. sweep' = [IdleSweep EXCEPT !.at = "kick"] BY <1>3 DEF ForceCompletes
    <3> QED BY <3>1, <1>i DEF IdleSweep
  <2>3. Observed(sweep.segs) \in Counts(sweep.track) BY <2>1, ObservedIsCount
  <2>4. sweep.expected \in AnyCount BY DEF TypeOK
  <2>5. Larger(OrZero(sweep.expected), Observed(sweep.segs)) \in AnyCount
    BY <2>1, <2>3, <2>4, LargerCounts
  <2>6. expected' \in [Tracks -> AnyCount] BY <1>3, <2>1, <2>5 DEF ForceCompletes, TypeOK
  <2>7. isComplete' \in [Tracks -> BOOLEAN] BY <1>3, <2>1 DEF ForceCompletes, TypeOK
  <2>8. status' \in [Tracks -> TrackStatuses]
    BY <1>3, <2>1 DEF ForceCompletes, TypeOK, TrackStatuses
  <2> QED BY <1>3, <2>2, <2>6, <2>7, <2>8 DEF ForceCompletes, TypeOK
<1>4. CASE SweepMaybeFinalizes
  <2>1. PICK phase \in {"idle", "enqueue"} : sweep' = [IdleSweep EXCEPT !.at = phase]
    BY <1>4 DEF SweepMaybeFinalizes
  <2>2. sweep' \in Sweeps /\ sweep'.at # "force" BY <2>1, <1>i DEF IdleSweep
  <2> QED BY <1>4, <2>2 DEF SweepMaybeFinalizes, TypeOK
<1>5. CASE RecoverTake
  <2>1. sweep' \in Sweeps /\ sweep'.at # "force"
    <3>1. CASE sweep' = [IdleSweep EXCEPT !.at = "enqueue"] BY <3>1, <1>i DEF IdleSweep
    <3>2. CASE UNCHANGED sweep BY <1>5, <3>2 DEF RecoverTake, TypeOK
    <3> QED BY <1>5, <3>1, <3>2 DEF RecoverTake
  <2>2. session' \in {session, "FAILED"} BY <1>5 DEF RecoverTake
  <2> QED BY <1>5, <2>1, <2>2 DEF RecoverTake, TypeOK, SessionStatuses
<1>6. CASE SweepEnqueues BY <1>6, <1>i, AddTypes DEF SweepEnqueues, TypeOK
<1>7. CASE \E t \in Tracks : CleanerLists(t)
  <2>1. PICK t \in Tracks : CleanerLists(t) BY <1>7
  <2>2. ChunksOf(segs \ cleaned, t) \in SUBSET Chunks BY DEF TypeOK, ChunksOf
  <2>3. cleaner' \in Cleaners BY <2>1, <2>2 DEF CleanerLists
  <2> QED BY <2>1, <2>3 DEF CleanerLists, TypeOK
<1>8. CASE CleanerDeletes
  <2>1. cleaner' \in Cleaners BY <1>8 DEF CleanerDeletes, TypeOK
  <2>2. objects' \subseteq Chunks BY <1>8 DEF CleanerDeletes, TypeOK
  <2> QED BY <1>8, <2>1, <2>2 DEF CleanerDeletes, TypeOK
<1>9. CASE CleanerMarks
  <2>1. cleaned' \subseteq Chunks BY <1>9 DEF CleanerMarks, TypeOK
  <2>2. Note(TRUE) \/ Note(FALSE) BY <1>9 DEF CleanerMarks, Note
  <2>3. faults' \in 0 .. MaxFaults /\ hit' \subseteq Happenings BY <2>2, NoteTypes
  <2> QED BY <1>9, <1>i, <2>1, <2>3 DEF CleanerMarks, TypeOK
<1> QED BY <1>1, <1>2, <1>3, <1>4, <1>5, <1>6, <1>7, <1>8, <1>9 DEF SweepStep, CleanerStep

\* A step is one of a request, of the run, or of a sweep.
LEMMA StepKinds ==
  ASSUME Next
  PROVE  \/ \E r \in Requests : \/ RequestStep(r)
                                \/ RequestDies(r)
                                \/ r \in Chunks /\ RegisterChunk(r)
                                \/ r \in Tracks /\ ReadForReport(r)
                                \/ r = Host /\ StopReads
         \/ PickUp \/ RunStep \/ BuildFails \/ RunFails \/ WorkerDies \/ JobStalled
         \/ ReapTake \/ SweepStep \/ CleanerStep
BY Zenon DEF Next, Requests

LEMMA TypeStep == TypeInv /\ [Next]_vars => TypeInv'
<1> SUFFICES ASSUME TypeInv, [Next]_vars PROVE TypeInv' OBVIOUS
<1>1. CASE UNCHANGED vars
  BY <1>1 DEF vars, rows, uploads, store, reqVars, others, world, TypeInv, TypeOK
<1>2. CASE Next BY <1>2, StepKinds, RequestTypes, RunTypes, SweepTypes
<1> QED BY <1>1, <1>2

\* Every variable of a take keeps its type, however many chunks, attempts and
\* faults there are.
THEOREM TakeTypeCorrect == Untimed => []TypeOK
<1>1. TypeInv => TypeOK BY DEF TypeInv
<1> QED BY <1>1, TypeInit, TypeStep, PTL DEF Untimed

-----------------------------------------------------------------------------
(* What holds of a take whatever goes wrong.                               *)

\* The take is being finalized, or was.
Begun == \/ job.state # "none" \/ session \in {"PROCESSING", "READY", "FAILED"}
         \/ sweep.at = "enqueue" \/ \E r \in Requests : pc[r] = "enqueue"

\* Then it was stopped and all its tracks are complete; a track waits for chunks
\* until it is; and the host's stop finds the take it read.
Completed ==
  /\ Begun => session # "ACTIVE" /\ \A t \in Tracks : isComplete[t]
  /\ \A t \in Tracks : ~isComplete[t] <=> status[t] = "UPLOADING"
  /\ \A r \in Requests : pc[r] = "flip" => seen[r].status = "UPLOADING"
  /\ pc[Host] = "stop" => session = "ACTIVE"

\* A run holds the job, and a job is given up on for a reason.
JobHeld ==
  /\ run.at # "idle" => job.state = "active"
  /\ job.state = "failed" => "givenUp" \in hit

Basics == TypeInv /\ Completed /\ JobHeld

LEMMA BasicsInit == Init => Basics
<1> SUFFICES ASSUME Init PROVE Completed /\ JobHeld BY TypeInit DEF Basics
<1>1. ~Begun BY DEF Init, Begun, NoJob, IdleSweep
<1>2. Host \in Requests BY DEF Requests
<1> QED BY <1>1, <1>2 DEF Init, Completed, JobHeld, IdleRun, NoJob

\* Requests: whoever enqueues has seen a stopped take whose tracks are complete.
LEMMA RequestBasics ==
  ASSUME Basics, NEW r \in Requests,
         \/ RequestStep(r)
         \/ RequestDies(r)
         \/ r \in Chunks /\ RegisterChunk(r)
         \/ r \in Tracks /\ ReadForReport(r)
         \/ r = Host /\ StopReads
  PROVE  Completed' /\ JobHeld'
<1> USE DEF rows, uploads, store, reqVars, others, world, Goto, Return, Keep
<1> TypeInv /\ TypeOK /\ Completed /\ JobHeld BY DEF Basics, TypeInv
<1>t. /\ pc \in [Requests -> ReqPhases] /\ Host \in Requests
      /\ seen \in [Requests -> [status : TrackStatuses, expected : AnyCount]]
      /\ status \in [Tracks -> TrackStatuses] /\ isComplete \in [Tracks -> BOOLEAN]
  BY DEF TypeOK, Requests
<1>q. Chunks \subseteq Requests /\ Tracks \subseteq Requests /\ Host \notin Chunks /\ Host \notin Tracks
  BY RequestsOfTake DEF Requests
\* A step that starts nothing, completes nothing and stops nothing.
<1>f. ASSUME UNCHANGED <<session, isComplete, status, job, run, sweep>>, hit \subseteq hit',
             NEW phase \in ReqPhases \ {"enqueue", "flip", "stop"},
             pc' = [pc EXCEPT ![r] = phase],
             \A q \in Requests \ {r} : seen'[q] = seen[q]
      PROVE  Completed' /\ JobHeld'
  <2>1. Begun' => Begun BY <1>f, <1>t DEF Begun
  <2>2. \A q \in Requests : pc'[q] = "flip" => seen'[q].status = "UPLOADING"
    BY <1>f, <1>t DEF Completed
  <2>3. pc'[Host] = "stop" => pc[Host] = "stop" BY <1>f, <1>t
  <2> QED BY <1>f, <2>1, <2>2, <2>3 DEF Completed, JobHeld
<1>p. ReqPhases \ {"enqueue", "flip", "stop"} =
        {"idle", "arrived", "cleaned?", "reopen", "session", "report", "try", "kick", "done"}
  BY DEF ReqPhases
<1>s. \A x : \A q \in Requests \ {r} : [seen EXCEPT ![r] = x][q] = seen[q] BY <1>t
<1>1. CASE r \in Chunks /\ RegisterChunk(r)
  BY <1>1, <1>f, <1>p DEF RegisterChunk, Note, Happened
<1>2. CASE r \in Chunks /\ ChunkArrived(r)
  <2>1. PICK phase \in {"try", "cleaned?", "done"} : pc' = [pc EXCEPT ![r] = phase]
    BY <1>2 DEF ChunkArrived
  <2>2. \E x : seen' = seen \/ seen' = [seen EXCEPT ![r] = x] BY <1>2, Zenon DEF ChunkArrived
  <2>3. \A q \in Requests \ {r} : seen'[q] = seen[q] BY <2>2, <1>s
  <2> QED BY <1>2, <2>1, <2>3, <1>f, <1>p DEF ChunkArrived
<1>3. CASE r \in Chunks /\ CheckCleaned(r)
  <2>1. PICK phase \in {"reopen", "done"} : pc' = [pc EXCEPT ![r] = phase]
    BY <1>3 DEF CheckCleaned
  <2>2. \A q \in Requests \ {r} : seen'[q] = seen[q] BY <1>3, <1>s DEF CheckCleaned
  <2> QED BY <1>3, <2>1, <2>2, <1>f, <1>p DEF CheckCleaned
<1>4. CASE r \in Chunks /\ ReopenTrack(r)
  <2>0. TrackOf(r) \in Tracks BY <1>4, ChunkShape
  <2>1. CASE status[TrackOf(r)] \notin {"READY", "FAILED"}
    <3>1. Return(r) /\ UNCHANGED <<session, outputs, rows, store, job, run, others, world>>
      BY <1>4, <2>1 DEF ReopenTrack
    <3> QED BY <3>1, <1>s, <1>f, <1>p
  <2>2. CASE status[TrackOf(r)] \in {"READY", "FAILED"}
    <3>1. /\ pc' = [pc EXCEPT ![r] = "session"] /\ hit \subseteq hit'
          /\ status' = [status EXCEPT ![TrackOf(r)] = "UPLOADED"]
          /\ UNCHANGED <<session, isComplete, seen, job, run, sweep>>
      BY <1>4, <2>2 DEF ReopenTrack, Happened
    <3>2. Begun' => Begun BY <3>1, <1>t DEF Begun
    <3>3. \A t \in Tracks : ~isComplete'[t] <=> status'[t] = "UPLOADING"
      BY <3>1, <2>0, <2>2, <1>t DEF Completed
    <3>4. \A q \in Requests : pc'[q] = "flip" => pc[q] = "flip" BY <3>1, <1>t
    <3>5. pc'[Host] = "stop" => pc[Host] = "stop" BY <3>1, <1>t
    <3> QED BY <3>1, <3>2, <3>3, <3>4, <3>5 DEF Completed, JobHeld
  <2> QED BY <2>1, <2>2
<1>5. CASE r \in Chunks /\ ReopenSession(r)
  <2>1. CASE session \in {"READY", "FAILED", "PROCESSING"}
    <3>1. /\ session' = "STOPPED" /\ pc' = [pc EXCEPT ![r] = "enqueue"]
          /\ UNCHANGED <<isComplete, status, seen, job, run, sweep, hit>>
      BY <1>5, <2>1 DEF ReopenSession
    <3>2. Begun BY <2>1 DEF Begun
    <3>3. \A q \in Requests : pc'[q] = "flip" => pc[q] = "flip" BY <3>1, <1>t
    <3>4. pc'[Host] # "stop" BY <2>1, <3>1, <1>t DEF Completed
    <3> QED BY <3>1, <3>2, <3>3, <3>4 DEF Completed, JobHeld
  <2>2. CASE session \notin {"READY", "FAILED", "PROCESSING"}
    <3>1. Return(r) /\ UNCHANGED <<session, outputs, rows, store, job, run, others, world>>
      BY <1>5, <2>2 DEF ReopenSession
    <3> QED BY <3>1, <1>s, <1>f, <1>p
  <2> QED BY <2>1, <2>2
<1>6. CASE r \in Tracks /\ ReadForReport(r)
  BY <1>6, <1>s, <1>f, <1>p DEF ReadForReport
<1>7. CASE r \in Tracks /\ MarkRecordingComplete(r)
  BY <1>7, <1>f, <1>p DEF MarkRecordingComplete
<1>8. CASE r # Host /\ TryComplete(r)
  <2>0. TrackFor(r) \in Tracks BY <1>8, RequestIsOf
  <2>1. CASE Keep(r, TrackFor(r), "flip") /\ ~isComplete[TrackFor(r)]
    <3>1. /\ pc' = [pc EXCEPT ![r] = "flip"]
          /\ seen' = [seen EXCEPT ![r] = [status |-> status[TrackFor(r)],
                                          expected |-> expected[TrackFor(r)]]]
          /\ UNCHANGED <<session, isComplete, status, job, run, sweep, hit>>
      BY <1>8, <2>1 DEF TryComplete
    <3>2. Begun' => Begun BY <3>1, <1>t DEF Begun
    <3>3. seen'[r].status = "UPLOADING" BY <3>1, <2>0, <2>1, <1>t DEF Completed
    <3>4. \A q \in Requests : pc'[q] = "flip" => seen'[q].status = "UPLOADING"
      BY <3>1, <3>3, <1>t DEF Completed
    <3>5. pc'[Host] = "stop" => pc[Host] = "stop" BY <3>1, <1>t
    <3> QED BY <3>1, <3>2, <3>4, <3>5 DEF Completed, JobHeld
  <2>2. CASE Return(r) BY <1>8, <2>2, <1>s, <1>f, <1>p DEF TryComplete
  <2> QED BY <1>8, <2>1, <2>2 DEF TryComplete
<1>9. CASE r # Host /\ FlipComplete(r)
  <2>0. TrackFor(r) \in Tracks BY <1>9, RequestIsOf
  <2>1. CASE isComplete[TrackFor(r)]
    <3>1. Return(r) /\ UNCHANGED <<session, isComplete, status, job, run, others, world>>
      BY <1>9, <2>1 DEF FlipComplete
    <3> QED BY <3>1, <1>s, <1>f, <1>p
  <2>2. CASE ~isComplete[TrackFor(r)]
    <3>0. seen[r].status = "UPLOADING" BY <1>9 DEF FlipComplete, Completed
    <3>1. /\ pc' = [pc EXCEPT ![r] = "kick"]
          /\ isComplete' = [isComplete EXCEPT ![TrackFor(r)] = TRUE]
          /\ status' = [status EXCEPT ![TrackFor(r)] = "UPLOADED"]
          /\ UNCHANGED <<session, seen, job, run, sweep, hit>>
      BY <1>9, <2>2, <3>0 DEF FlipComplete
    <3>2. Begun' => Begun BY <3>1, <1>t DEF Begun
    <3>3. \A t \in Tracks : isComplete[t] => isComplete'[t] BY <3>1, <1>t
    <3>4. \A t \in Tracks : ~isComplete'[t] <=> status'[t] = "UPLOADING"
      <4>1. ASSUME NEW t \in Tracks PROVE ~isComplete'[t] <=> status'[t] = "UPLOADING"
        <5>1. CASE t = TrackFor(r) BY <5>1, <3>1, <1>t
        <5>2. CASE t # TrackFor(r) BY <5>2, <3>1, <1>t DEF Completed
        <5> QED BY <5>1, <5>2
      <4> QED BY <4>1
    <3>5. \A q \in Requests : pc'[q] = "flip" => pc[q] = "flip" BY <3>1, <1>t
    <3>6. pc'[Host] = "stop" => pc[Host] = "stop" BY <3>1, <1>t
    <3> QED BY <3>1, <3>2, <3>3, <3>4, <3>5, <3>6 DEF Completed, JobHeld
  <2> QED BY <2>1, <2>2
<1>10. CASE r = Host /\ StopReads
  <2>1. /\ pc' = [pc EXCEPT ![Host] = "stop"] /\ session = "ACTIVE"
        /\ UNCHANGED <<session, isComplete, status, seen, job, run, sweep, hit>>
    BY <1>10 DEF StopReads
  <2>2. Begun' => Begun BY <2>1, <1>t DEF Begun
  <2>3. \A q \in Requests : pc'[q] = "flip" => pc[q] = "flip" BY <2>1, <1>t
  <2> QED BY <2>1, <2>2, <2>3 DEF Completed, JobHeld
<1>11. CASE r = Host /\ StopWrites
  <2>1. /\ pc' = [pc EXCEPT ![Host] = "kick"] /\ session' = "STOPPED" /\ pc[Host] = "stop"
        /\ UNCHANGED <<isComplete, status, seen, job, run, sweep, hit>>
    BY <1>11 DEF StopWrites
  <2>2. ~Begun BY <2>1 DEF Completed
  <2>3. ~Begun' BY <2>1, <2>2, <1>t DEF Begun
  <2>4. \A q \in Requests : pc'[q] = "flip" => pc[q] = "flip" BY <2>1, <1>t
  <2>5. pc'[Host] # "stop" BY <2>1, <1>t
  <2> QED BY <2>1, <2>3, <2>4, <2>5 DEF Completed, JobHeld
<1>12. CASE MaybeFinalize(r)
  <2>1. CASE AllComplete
    <3>1. /\ pc' = [pc EXCEPT ![r] = "enqueue"]
          /\ UNCHANGED <<session, isComplete, status, seen, job, run, sweep, hit>>
      BY <1>12, <2>1 DEF MaybeFinalize
    <3>2. \A q \in Requests : pc'[q] = "flip" => pc[q] = "flip" BY <3>1, <1>t
    <3>3. pc'[Host] = "stop" => pc[Host] = "stop" BY <3>1, <1>t
    <3> QED BY <2>1, <3>1, <3>2, <3>3 DEF Completed, JobHeld, AllComplete
  <2>2. CASE ~AllComplete
    <3>1. Return(r) /\ UNCHANGED <<session, outputs, rows, store, job, run, others, world>>
      BY <1>12, <2>2 DEF MaybeFinalize
    <3> QED BY <3>1, <1>s, <1>f, <1>p
  <2> QED BY <2>1, <2>2
<1>13. CASE EnqueueFinalize(r)
  <2>1. /\ pc' = [pc EXCEPT ![r] = "done"] /\ pc[r] = "enqueue"
        /\ seen' = [seen EXCEPT ![r] = Nothing]
        /\ UNCHANGED <<session, isComplete, status, run, sweep, hit>>
    BY <1>13 DEF EnqueueFinalize
  <2>2. Begun BY <2>1 DEF Begun
  <2>3. \A q \in Requests : pc'[q] = "flip" => pc[q] = "flip" /\ seen'[q] = seen[q]
    BY <2>1, <1>t
  <2>4. pc'[Host] = "stop" => pc[Host] = "stop" BY <2>1, <1>t
  <2>5. (job.state = "active" => job' = job) /\ (job'.state = "failed" => job.state = "failed")
    BY <1>13 DEF EnqueueFinalize, Add, NoJob
  <2> QED BY <2>1, <2>2, <2>3, <2>4, <2>5 DEF Completed, JobHeld
<1>14. CASE RequestDies(r)
  BY <1>14, <1>s, <1>f, <1>p DEF RequestDies, Fault, Happened
<1> QED BY <1>1, <1>2, <1>3, <1>4, <1>5, <1>6, <1>7, <1>8, <1>9, <1>10, <1>11, <1>12,
           <1>13, <1>14 DEF RequestStep

\* The run: while there is a job every track is complete, and stays so.
LEMMA RunBasics ==
  ASSUME Basics, PickUp \/ RunStep \/ BuildFails \/ RunFails \/ WorkerDies \/ JobStalled
  PROVE  Completed' /\ JobHeld'
<1> USE DEF rows, uploads, store, reqVars, others, world
<1> TypeInv /\ TypeOK /\ Completed /\ JobHeld BY DEF Basics, TypeInv
<1>t. /\ status \in [Tracks -> TrackStatuses] /\ isComplete \in [Tracks -> BOOLEAN]
      /\ run \in [at : RunPhases, snap : SUBSET Chunks, todo : SUBSET Tracks,
                  got : [Tracks -> SUBSET Chunks], hadFinal : BOOLEAN,
                  out : [kind : OutputKinds, has : SUBSET Chunks]]
      /\ job \in [state : {"none", "queued", "active", "failed"},
                  tries : 0 .. (Attempts - 1), stalls : {0, 1}]
  BY DEF TypeOK
<1>b. Begun
  <2>1. job.state \in {"queued", "active"}
    BY DEF JobHeld, PickUp, RunStep, Claim, MarkProcessing, FetchNothing, FetchTrack, FetchFails,
           PutPreview, BuildMasters, BuildFails, SettleTrack, PublishTake, Recount, ReopenMissed,
           EnqueueMissed, ListChunks, DeleteChunks, MarkCleaned, FinishJob, RunFails,
           WorkerDies, JobStalled
  <2> QED BY <2>1 DEF Begun
<1>c. session # "ACTIVE" /\ \A t \in Tracks : isComplete[t] /\ status[t] # "UPLOADING"
  BY <1>b DEF Completed
\* What a step of the run has to say for itself.
<1>f. ASSUME UNCHANGED <<isComplete, reqVars, sweep>>, session' # "ACTIVE",
             \A t \in Tracks : status'[t] # "UPLOADING"
      PROVE  Completed'
  <2>1. pc[Host] # "stop" BY <1>b DEF Completed
  <2> QED BY <1>f, <1>c, <2>1 DEF Completed
<1>d. ASSUME job' = NoJob, run' = IdleRun PROVE JobHeld'
  BY <1>d DEF JobHeld, NoJob, IdleRun
<1>e. ASSUME run.at # "idle", UNCHANGED job PROVE JobHeld'
  BY <1>e DEF JobHeld
<1>r. ASSUME job' = [job EXCEPT !.state = "queued", !.tries = @ + 1], run' = IdleRun PROVE JobHeld'
  BY <1>r, <1>t DEF JobHeld, IdleRun
<1>1. CASE PickUp
  <2>1. job'.state = "active" BY <1>1, <1>t DEF PickUp
  <2>2. Completed' BY <1>1, <1>c, <1>f DEF PickUp
  <2> QED BY <2>1, <2>2 DEF JobHeld
<1>2. CASE Claim
  <2>1. Completed' BY <1>2, <1>c, <1>f DEF Claim
  <2>2. JobHeld'
    <3>1. CASE JobDone BY <3>1, <1>d DEF JobDone
    <3>2. CASE UNCHANGED job BY <3>2, <1>2, <1>e DEF Claim
    <3> QED BY <1>2, <3>1, <3>2 DEF Claim
  <2> QED BY <2>1, <2>2
<1>3. CASE MarkProcessing BY <1>3, <1>c, <1>e, <1>f DEF MarkProcessing
<1>4. CASE PutPreview BY <1>4, <1>c, <1>e, <1>f DEF PutPreview
<1>5. CASE BuildMasters
  <2>1. run.at = "build" /\ UNCHANGED <<session, rows, job, reqVars, others>>
    BY <1>5 DEF BuildMasters
  <2> QED BY <2>1, <1>c, <1>e, <1>f
<1>6. CASE PublishTake
  <2>1. Completed' BY <1>6, <1>c, <1>f DEF PublishTake
  <2>2. JobHeld'
    <3>1. CASE JobDone BY <3>1, <1>d DEF JobDone
    <3>2. CASE UNCHANGED job BY <3>2, <1>6, <1>e DEF PublishTake
    <3> QED BY <1>6, <3>1, <3>2 DEF PublishTake
  <2> QED BY <2>1, <2>2
<1>7. CASE \E t \in Tracks : FetchNothing(t)
  <2>1. PICK t \in Tracks : FetchNothing(t) BY <1>7
  <2>2. \A u \in Tracks : status'[u] # "UPLOADING" BY <2>1, <1>c, <1>t DEF FetchNothing
  <2> QED BY <2>1, <2>2, <1>c, <1>e, <1>f DEF FetchNothing
<1>8. CASE \E t \in Tracks : FetchTrack(t)
  <2>1. PICK t \in Tracks : FetchTrack(t) BY <1>8
  <2>2. \A u \in Tracks : status'[u] # "UPLOADING" BY <2>1, <1>c, <1>t DEF FetchTrack
  <2> QED BY <2>1, <2>2, <1>c, <1>e, <1>f DEF FetchTrack
<1>9. CASE \E t \in Tracks : FetchFails(t)
  <2>1. PICK t \in Tracks : FetchFails(t) BY <1>9
  <2>2. \A u \in Tracks : status'[u] # "UPLOADING" BY <2>1, <1>c, <1>t DEF FetchFails
  <2>3. Completed' BY <2>1, <2>2, <1>c, <1>f DEF FetchFails
  <2>4. CASE Final
    <3>1. run.at = "fetch" /\ UNCHANGED job BY <2>1, <2>4 DEF FetchFails
    <3> QED BY <2>3, <3>1, <1>e
  <2>5. CASE ~Final
    <3>1. job' = [job EXCEPT !.state = "queued", !.tries = @ + 1] /\ run' = IdleRun
      BY <2>1, <2>5 DEF FetchFails
    <3> QED BY <2>3, <3>1, <1>r
  <2> QED BY <2>4, <2>5
<1>10. CASE \E t \in Tracks : SettleTrack(t)
  <2>1. PICK t \in Tracks : SettleTrack(t) BY <1>10
  <2>2. \A u \in Tracks : status'[u] # "UPLOADING" BY <2>1, <1>c, <1>t DEF SettleTrack
  <2> QED BY <2>1, <2>2, <1>c, <1>e, <1>f DEF SettleTrack
<1>11. CASE Recount BY <1>11, <1>c, <1>e, <1>f DEF Recount
<1>12. CASE ReopenMissed BY <1>12, <1>c, <1>e, <1>f DEF ReopenMissed
<1>13. CASE EnqueueMissed
  <2>1. job.state = "active" BY <1>13 DEF EnqueueMissed, JobHeld
  <2>2. UNCHANGED job BY <1>13, <2>1 DEF EnqueueMissed, Add
  <2> QED BY <1>13, <2>2, <1>c, <1>e, <1>f DEF EnqueueMissed
<1>14. CASE ListChunks BY <1>14, <1>c, <1>e, <1>f DEF ListChunks
<1>15. CASE DeleteChunks BY <1>15, <1>c, <1>e, <1>f DEF DeleteChunks
<1>16. CASE MarkCleaned BY <1>16, <1>c, <1>e, <1>f DEF MarkCleaned
<1>17. CASE FinishJob BY <1>17, <1>c, <1>d, <1>f DEF FinishJob, JobDone
<1>18. CASE BuildFails
  <2>1. \A u \in Tracks : status'[u] # "UPLOADING" BY <1>18, <1>c, <1>t DEF BuildFails
  <2> QED BY <1>18, <2>1, <1>c, <1>e, <1>f DEF BuildFails
<1>19. CASE RunFails
  <2>1. CASE Final
    <3>1. \A u \in Tracks : status'[u] # "UPLOADING" BY <1>19, <2>1, <1>c, <1>t DEF RunFails
    <3> QED BY <1>19, <2>1, <3>1, <1>d, <1>f DEF RunFails
  <2>2. CASE ~Final BY <1>19, <2>2, <1>c, <1>r, <1>f DEF RunFails
  <2> QED BY <2>1, <2>2
<1>20. CASE WorkerDies
  <2>1. Completed' BY <1>20, <1>c, <1>f DEF WorkerDies
  <2>2. JobHeld' BY <1>20 DEF WorkerDies, JobHeld, IdleRun, Fault, Happened
  <2> QED BY <2>1, <2>2
<1>21. CASE JobStalled
  <2>1. Completed' BY <1>21, <1>c, <1>f DEF JobStalled
  <2>2. CASE job.stalls = 0
    <3>1. job'.state = "queued" /\ run.at = "idle" /\ UNCHANGED run BY <1>21, <2>2, <1>t DEF JobStalled
    <3> QED BY <2>1, <3>1 DEF JobHeld
  <2>3. CASE job.stalls # 0
    <3>1. "givenUp" \in hit' /\ run.at = "idle" /\ UNCHANGED run
      BY <1>21, <2>3 DEF JobStalled, Happened
    <3> QED BY <2>1, <3>1 DEF JobHeld
  <2> QED BY <2>2, <2>3
<1> QED BY <1>1, <1>2, <1>3, <1>4, <1>5, <1>6, <1>7, <1>8, <1>9, <1>10, <1>11, <1>12,
           <1>13, <1>14, <1>15, <1>16, <1>17, <1>18, <1>19, <1>20, <1>21 DEF RunStep

\* The sweeps: only a stopped take is queued, and only once it is complete.
LEMMA SweepBasics ==
  ASSUME Basics, ReapTake \/ SweepStep \/ CleanerStep
  PROVE  Completed' /\ JobHeld'
<1> USE DEF rows, uploads, store, reqVars, others, world
<1> TypeInv /\ TypeOK /\ Completed /\ JobHeld BY DEF Basics, TypeInv
<1>t. status \in [Tracks -> TrackStatuses] /\ isComplete \in [Tracks -> BOOLEAN]
  BY DEF TypeOK
<1>f. ASSUME UNCHANGED <<session, rows, job, reqVars, run>>, hit \subseteq hit',
             sweep'.at = "enqueue" => sweep.at = "enqueue" \/ AllComplete
      PROVE  Completed' /\ JobHeld'
  <2>1. Begun' => Begun \/ AllComplete BY <1>f DEF Begun
  <2> QED BY <1>f, <2>1 DEF Completed, JobHeld, AllComplete
<1>1. CASE ReapTake
  <2>1. ~Begun BY <1>1 DEF ReapTake, Completed
  <2>2. ~Begun' BY <1>1, <2>1 DEF ReapTake, Begun
  <2> QED BY <1>1, <2>2 DEF ReapTake, Completed, JobHeld
<1>2. CASE \E t \in Tracks : ForceReads(t) BY <1>2, <1>f DEF ForceReads
<1>3. CASE ForceCompletes
  <2>0. sweep.track \in Tracks BY <1>3 DEF ForceCompletes, TypeInv
  <2>1. sweep'.at # "enqueue" BY <1>3 DEF ForceCompletes, IdleSweep
  <2>2. CASE isComplete[sweep.track]
    <3>1. UNCHANGED <<session, rows, job, reqVars, run, hit>> BY <1>3, <2>2 DEF ForceCompletes
    <3> QED BY <3>1, <2>1, <1>f
  <2>3. CASE ~isComplete[sweep.track]
    <3>1. PICK s \in {"FAILED", "UPLOADED"} :
            /\ isComplete' = [isComplete EXCEPT ![sweep.track] = TRUE]
            /\ status' = [status EXCEPT ![sweep.track] = s]
            /\ UNCHANGED <<session, job, reqVars, run, hit>>
      BY <1>3, <2>3 DEF ForceCompletes
    <3>2. Begun' => Begun BY <3>1, <2>1 DEF Begun
    <3>3. \A t \in Tracks : isComplete[t] => isComplete'[t] BY <3>1, <1>t
    <3>4. \A t \in Tracks : ~isComplete'[t] <=> status'[t] = "UPLOADING"
      <4>1. ASSUME NEW t \in Tracks PROVE ~isComplete'[t] <=> status'[t] = "UPLOADING"
        <5>1. CASE t = sweep.track BY <5>1, <3>1, <1>t
        <5>2. CASE t # sweep.track BY <5>2, <3>1, <1>t DEF Completed
        <5> QED BY <5>1, <5>2
      <4> QED BY <4>1
    <3> QED BY <3>1, <3>2, <3>3, <3>4 DEF Completed, JobHeld
  <2> QED BY <2>2, <2>3
<1>4. CASE SweepMaybeFinalizes
  <2>1. sweep'.at = "enqueue" => AllComplete BY <1>4 DEF SweepMaybeFinalizes, IdleSweep
  <2> QED BY <1>4, <2>1, <1>f DEF SweepMaybeFinalizes
<1>5. CASE RecoverTake
  <2>0. session # "ACTIVE" /\ (\A t \in Tracks : isComplete[t]) BY <1>5 DEF RecoverTake
  <2>1. session' # "ACTIVE" /\ UNCHANGED <<rows, job, reqVars, run, hit>>
    BY <1>5, <2>0 DEF RecoverTake
  <2>2. pc[Host] # "stop" BY <2>0 DEF Completed
  <2> QED BY <2>0, <2>1, <2>2 DEF Completed, JobHeld
<1>6. CASE SweepEnqueues
  <2>1. sweep.at = "enqueue" /\ UNCHANGED <<session, rows, reqVars, run, hit>> /\ Add
    BY <1>6 DEF SweepEnqueues
  <2>2. Begun BY <2>1 DEF Begun
  <2>3. (job.state = "active" => job' = job) /\ (job'.state = "failed" => job.state = "failed")
    BY <2>1 DEF Add, NoJob
  <2> QED BY <2>1, <2>2, <2>3 DEF Completed, JobHeld
<1>7. CASE \E t \in Tracks : CleanerLists(t) BY <1>7, <1>f DEF CleanerLists
<1>8. CASE CleanerDeletes BY <1>8, <1>f DEF CleanerDeletes
<1>9. CASE CleanerMarks BY <1>9, <1>f DEF CleanerMarks, Note, Happened
<1> QED BY <1>1, <1>2, <1>3, <1>4, <1>5, <1>6, <1>7, <1>8, <1>9 DEF SweepStep, CleanerStep

LEMMA BasicsStep == Basics /\ [Next]_vars => Basics'
<1> SUFFICES ASSUME Basics, [Next]_vars PROVE Completed' /\ JobHeld'
  BY TypeStep DEF Basics
<1>1. CASE UNCHANGED vars
  BY <1>1 DEF vars, rows, uploads, store, reqVars, others, world, Basics, Completed, Begun, JobHeld
<1>2. CASE Next BY <1>2, StepKinds, RequestBasics, RunBasics, SweepBasics
<1> QED BY <1>1, <1>2

\* What any step of a request leaves alone, and what it may do to the rest.
LEMMA RequestFrame ==
  ASSUME Basics, NEW r \in Requests,
         \/ RequestStep(r)
         \/ RequestDies(r)
         \/ r \in Chunks /\ RegisterChunk(r)
         \/ r \in Tracks /\ ReadForReport(r)
         \/ r = Host /\ StopReads
  PROVE  /\ UNCHANGED <<outputs, run, cleaned, sweep, cleaner>>
         /\ segs \subseteq segs' /\ hit \subseteq hit'
         /\ session' \in {session, "STOPPED"}
         /\ \A t \in Tracks : status'[t] \in {status[t], "UPLOADED"}
         /\ \E phase \in ReqPhases : pc' = [pc EXCEPT ![r] = phase]
         /\ r \in Chunks => r \in segs' \/ pc[r] # "idle"
<1> USE DEF rows, uploads, store, reqVars, others, world, Goto, Return, Keep
<1> TypeInv /\ TypeOK /\ Completed BY DEF Basics, TypeInv
<1>t. /\ status \in [Tracks -> TrackStatuses] /\ Host \notin Chunks /\ Tracks \cap Chunks = {}
  BY RequestsOfTake DEF TypeOK
<1>p. /\ "arrived" \in ReqPhases /\ "cleaned?" \in ReqPhases /\ "reopen" \in ReqPhases
      /\ "session" \in ReqPhases /\ "report" \in ReqPhases /\ "try" \in ReqPhases
      /\ "flip" \in ReqPhases /\ "stop" \in ReqPhases /\ "kick" \in ReqPhases
      /\ "enqueue" \in ReqPhases /\ "done" \in ReqPhases
  BY DEF ReqPhases
<1>1. CASE r \in Chunks /\ RegisterChunk(r)
  BY <1>1, <1>p DEF RegisterChunk, Note, Happened
<1>2. CASE r \in Chunks /\ ChunkArrived(r) BY <1>2, <1>p DEF ChunkArrived
<1>3. CASE r \in Chunks /\ CheckCleaned(r) BY <1>3, <1>p DEF CheckCleaned
<1>4. CASE r \in Chunks /\ ReopenTrack(r)
  <2>1. TrackOf(r) \in Tracks BY <1>4, ChunkShape
  <2>2. \A t \in Tracks : status'[t] \in {status[t], "UPLOADED"}
    BY <1>4, <2>1, <1>t DEF ReopenTrack
  <2> QED BY <1>4, <2>2, <1>p DEF ReopenTrack, Happened
<1>5. CASE r \in Chunks /\ ReopenSession(r) BY <1>5, <1>p DEF ReopenSession
<1>6. CASE r \in Tracks /\ ReadForReport(r) BY <1>6, <1>p, <1>t DEF ReadForReport
<1>7. CASE r \in Tracks /\ MarkRecordingComplete(r)
  BY <1>7, <1>p, <1>t DEF MarkRecordingComplete
<1>8. CASE r # Host /\ TryComplete(r) BY <1>8, <1>p DEF TryComplete
<1>9. CASE r # Host /\ FlipComplete(r)
  <2>1. TrackFor(r) \in Tracks BY <1>9, RequestIsOf
  <2>2. CASE ~isComplete[TrackFor(r)]
    <3>1. status' = [status EXCEPT ![TrackFor(r)] =
                       IF seen[r].status = "UPLOADING" THEN "UPLOADED" ELSE @]
      BY <1>9, <2>2 DEF FlipComplete
    <3>2. \A t \in Tracks : status'[t] \in {status[t], "UPLOADED"} BY <3>1, <2>1, <1>t
    <3> QED BY <1>9, <2>2, <3>2, <1>p DEF FlipComplete
  <2>3. CASE isComplete[TrackFor(r)] BY <1>9, <2>3, <1>p DEF FlipComplete
  <2> QED BY <2>2, <2>3
<1>10. CASE r = Host /\ StopReads BY <1>10, <1>p, <1>t DEF StopReads
<1>11. CASE r = Host /\ StopWrites BY <1>11, <1>p, <1>t DEF StopWrites
<1>12. CASE MaybeFinalize(r) BY <1>12, <1>p DEF MaybeFinalize
<1>13. CASE EnqueueFinalize(r) BY <1>13, <1>p DEF EnqueueFinalize
<1>14. CASE RequestDies(r) BY <1>14, <1>p DEF RequestDies, Fault, Happened
<1> QED BY <1>1, <1>2, <1>3, <1>4, <1>5, <1>6, <1>7, <1>8, <1>9, <1>10, <1>11, <1>12,
           <1>13, <1>14 DEF RequestStep

\* The same of a step of the sweeps: a take they fail has no job at work, and a
\* track they complete was uploading.
LEMMA SweepFrame ==
  ASSUME Basics, ReapTake \/ SweepStep \/ CleanerStep
  PROVE  /\ UNCHANGED <<outputs, run, uploads, reqVars>>
         /\ cleaned \subseteq cleaned' /\ hit \subseteq hit'
         /\ \/ session' = session
            \/ session = "ACTIVE" /\ session' = "STOPPED"
            \/ session' = "FAILED" /\ job.state = "failed" /\ "givenUp" \in hit
         /\ \A t \in Tracks : \/ status'[t] = status[t]
                              \/ status[t] = "UPLOADING" /\ status'[t] \in {"UPLOADED", "FAILED"}
<1> USE DEF rows, uploads, store, reqVars, others, world
<1> TypeInv /\ TypeOK /\ Completed /\ JobHeld BY DEF Basics, TypeInv
<1>1. CASE ReapTake BY <1>1 DEF ReapTake
<1>2. CASE \E t \in Tracks : ForceReads(t) BY <1>2 DEF ForceReads
<1>3. CASE ForceCompletes
  <2>1. sweep.track \in Tracks BY <1>3 DEF ForceCompletes, TypeInv
  <2>2. CASE isComplete[sweep.track] BY <1>3, <2>2 DEF ForceCompletes
  <2>3. CASE ~isComplete[sweep.track]
    <3>1. status[sweep.track] = "UPLOADING" BY <2>1, <2>3 DEF Completed
    <3>2. PICK s \in {"FAILED", "UPLOADED"} : status' = [status EXCEPT ![sweep.track] = s]
      BY <1>3, <2>3 DEF ForceCompletes
    <3>3. \A t \in Tracks : \/ status'[t] = status[t]
                            \/ status[t] = "UPLOADING" /\ status'[t] \in {"UPLOADED", "FAILED"}
      BY <2>1, <3>1, <3>2 DEF TypeOK
    <3> QED BY <1>3, <3>3 DEF ForceCompletes
  <2> QED BY <2>2, <2>3
<1>4. CASE SweepMaybeFinalizes BY <1>4 DEF SweepMaybeFinalizes
<1>5. CASE RecoverTake BY <1>5 DEF RecoverTake, JobHeld
<1>6. CASE SweepEnqueues BY <1>6 DEF SweepEnqueues
<1>7. CASE \E t \in Tracks : CleanerLists(t) BY <1>7 DEF CleanerLists
<1>8. CASE CleanerDeletes BY <1>8 DEF CleanerDeletes
<1>9. CASE CleanerMarks BY <1>9 DEF CleanerMarks, Note, Happened
<1> QED BY <1>1, <1>2, <1>3, <1>4, <1>5, <1>6, <1>7, <1>8, <1>9 DEF SweepStep, CleanerStep

-----------------------------------------------------------------------------
(* A finished take has a video.                                            *)

Building == {"fetch", "preview", "build", "settle", "ready"}

\* What is in a video, in a run or at a request was registered.
Registered ==
  /\ \A c \in Chunks : pc[c] # "idle" => c \in segs
  /\ outputs.has \subseteq segs /\ run.snap \subseteq segs /\ run.out.has \subseteq segs
  /\ \A t \in Tracks : run.got[t] \subseteq ChunksOf(segs, t)
  /\ \A t \in Tracks : status[t] \in {"PROCESSING", "READY"} => ChunksOf(segs, t) # {}
  /\ run.at = "settle" => \A t \in run.todo : ChunksOf(segs, t) # {}

\* A finished video has something in it, a READY take has one, and a run that
\* may put its preview up knows whether there is one.
Finished ==
  /\ IsFinal(outputs) => outputs.has # {}
  /\ session = "READY" => IsFinal(outputs)
  /\ run.at \in {"settle", "ready", "recount"} => IsFinal(run.out)
  /\ run.at \in {"mark", "preview"} \/ (run.at = "fetch" /\ run.todo = Tracks)
       => run.hadFinal = IsFinal(outputs)
  /\ run.at = "preview" => run.todo # Tracks
  /\ run.at = "build" => run.todo = {}
  /\ run.at = "recount" => outputs = run.out
  /\ run.at \in Building => session \in {"PROCESSING", "STOPPED"}
  /\ run.at = "mark" => run.todo = Tracks /\ session \in {"PROCESSING", "STOPPED", "FAILED"}

TakeInv == Basics /\ Registered /\ Finished

LEMMA TakeInit == Init => TakeInv
<1> SUFFICES ASSUME Init PROVE Registered /\ Finished BY BasicsInit DEF TakeInv
<1>1. Chunks \subseteq Requests BY DEF Requests
<1>2. Registered BY <1>1 DEF Init, Registered, IdleRun, NoChunks
<1>3. Finished BY DEF Init, Finished, IdleRun, IsFinal, Building
<1> QED BY <1>2, <1>3

LEMMA RequestTake ==
  ASSUME TakeInv, NEW r \in Requests,
         \/ RequestStep(r)
         \/ RequestDies(r)
         \/ r \in Chunks /\ RegisterChunk(r)
         \/ r \in Tracks /\ ReadForReport(r)
         \/ r = Host /\ StopReads
  PROVE  Registered' /\ Finished'
<1> Basics /\ Registered /\ Finished BY DEF TakeInv
<1>1. /\ UNCHANGED <<outputs, run, cleaned, sweep, cleaner>>
      /\ segs \subseteq segs' /\ hit \subseteq hit'
      /\ session' \in {session, "STOPPED"}
      /\ \A t \in Tracks : status'[t] \in {status[t], "UPLOADED"}
      /\ \E phase \in ReqPhases : pc' = [pc EXCEPT ![r] = phase]
      /\ r \in Chunks => r \in segs' \/ pc[r] # "idle"
  BY RequestFrame
<1>2. \A c \in Chunks : pc'[c] # "idle" => c \in segs'
  <2>1. ASSUME NEW c \in Chunks, pc'[c] # "idle" PROVE c \in segs'
    <3>0. c \in Requests /\ pc \in [Requests -> ReqPhases] BY DEF Requests, Basics, TypeInv, TypeOK
    <3>1. CASE c = r BY <3>1, <1>1 DEF Registered
    <3>2. CASE c # r
      <4>1. pc'[c] = pc[c] BY <3>0, <3>2, <1>1
      <4> QED BY <4>1, <2>1, <1>1 DEF Registered
    <3> QED BY <3>1, <3>2
  <2> QED BY <2>1
<1>3. \A t \in Tracks : ChunksOf(segs, t) \subseteq ChunksOf(segs', t) BY <1>1 DEF ChunksOf
<1>4. Registered'
  <2>1. /\ outputs'.has \subseteq segs' /\ run'.snap \subseteq segs' /\ run'.out.has \subseteq segs'
        /\ \A t \in Tracks : run'.got[t] \subseteq ChunksOf(segs', t)
    BY <1>1, <1>3 DEF Registered
  <2>2. \A t \in Tracks : status'[t] \in {"PROCESSING", "READY"} => ChunksOf(segs', t) # {}
    <3>1. ASSUME NEW t \in Tracks, status'[t] \in {"PROCESSING", "READY"}
          PROVE  ChunksOf(segs', t) # {}
      <4>1. status[t] \in {"PROCESSING", "READY"} BY <1>1, <3>1
      <4>2. ChunksOf(segs, t) # {} BY <4>1 DEF Registered
      <4> QED BY <1>3, <4>2
    <3> QED BY <3>1
  <2>3. run'.at = "settle" => \A t \in run'.todo : ChunksOf(segs', t) # {}
    <3>1. ASSUME run'.at = "settle", NEW t \in run'.todo PROVE ChunksOf(segs', t) # {}
      <4>1. ChunksOf(segs, t) # {} BY <1>1, <3>1 DEF Registered
      <4> QED BY <1>1, <4>1 DEF ChunksOf
    <3> QED BY <3>1
  <2> QED BY <1>2, <2>1, <2>2, <2>3 DEF Registered
<1>5. Finished' BY <1>1 DEF Finished, IsFinal
<1> QED BY <1>4, <1>5

LEMMA SweepTake ==
  ASSUME TakeInv, ReapTake \/ SweepStep \/ CleanerStep
  PROVE  Registered' /\ Finished'
<1> Basics /\ Registered /\ Finished /\ JobHeld BY DEF TakeInv, Basics
<1>1. /\ UNCHANGED <<outputs, run, uploads, reqVars>>
      /\ \/ session' = session
         \/ session = "ACTIVE" /\ session' = "STOPPED"
         \/ session' = "FAILED" /\ job.state = "failed"
      /\ \A t \in Tracks : \/ status'[t] = status[t]
                           \/ status[t] = "UPLOADING" /\ status'[t] \in {"UPLOADED", "FAILED"}
  BY SweepFrame
<1>2. UNCHANGED <<outputs, run, segs, pc>> BY <1>1 DEF uploads, reqVars
<1>3. Registered' BY <1>1, <1>2 DEF Registered, ChunksOf
<1>4. CASE session' = "FAILED" /\ job.state = "failed"
  <2>1. run.at = "idle" BY <1>4 DEF JobHeld
  <2> QED BY <1>2, <1>3, <1>4, <2>1 DEF Finished, IsFinal, Building
<1>5. CASE session' # "FAILED" \/ session' = session
  <2>1. session' = session \/ session' = "STOPPED" BY <1>1, <1>5
  <2> QED BY <1>2, <1>3, <2>1 DEF Finished, IsFinal
<1> QED BY <1>1, <1>4, <1>5

\* Which parts of a run a step leaves as they are.
LEMMA StepFields ==
  ASSUME TypeOK, NEW phase \in RunPhases, Step(phase)
  PROVE  /\ run'.at = phase /\ run'.snap = run.snap /\ run'.todo = run.todo
         /\ run'.got = run.got /\ run'.hadFinal = run.hadFinal /\ run'.out = run.out
BY DEF Step, TypeOK

LEMMA AfterFetchFields ==
  ASSUME TypeOK, NEW t \in Tracks, NEW got \in SUBSET Chunks, AfterFetch(t, got)
  PROVE  /\ run'.at \in {"preview", "build", "fetch"}
         /\ run'.at = "preview" <=> run.todo = Tracks
         /\ run'.snap = run.snap /\ run'.todo = run.todo \ {t}
         /\ run'.got = [run.got EXCEPT ![t] = got]
         /\ run'.hadFinal = run.hadFinal /\ run'.out = run.out
<1> DEFINE phase == IF run.todo = Tracks THEN "preview"
                    ELSE IF run.todo = {t} THEN "build" ELSE "fetch"
<1>1. run' = [run EXCEPT !.todo = @ \ {t}, !.got[t] = got, !.at = phase] BY DEF AfterFetch
<1>2. phase \in {"preview", "build", "fetch"} /\ (phase = "preview" <=> run.todo = Tracks)
  OBVIOUS
<1> HIDE DEF phase
<1> QED BY <1>1, <1>2 DEF TypeOK

LEMMA BuildFields ==
  ASSUME TypeOK, BuildMasters
  PROVE  /\ run'.at \in {"ready", "settle"} /\ run'.snap = run.snap
         /\ \E salvaged \in SUBSET Tracks :
              LET got == Masters(run.got, salvaged)
              IN  /\ run'.todo = {t \in Tracks : got[t] # {}}
                  /\ run'.out.has = UNION {got[t] : t \in Tracks}
                  /\ run'.at = "ready" => run'.todo = {}
                  /\ salvaged # {} => "encode" \in hit'
<1>t. run \in [at : RunPhases, snap : SUBSET Chunks, todo : SUBSET Tracks,
               got : [Tracks -> SUBSET Chunks], hadFinal : BOOLEAN,
               out : [kind : OutputKinds, has : SUBSET Chunks]]
  BY DEF TypeOK
<1>1. PICK salvaged \in SUBSET Tracks, together \in BOOLEAN :
        LET got  == Masters(run.got, salvaged)
            made == {t \in Tracks : got[t] # {}}
            both == together /\ salvaged = {} /\ made = {Screen, Camera}
        IN  /\ IF salvaged = {} /\ (both \/ made # {Screen, Camera})
               THEN UNCHANGED world ELSE Fault({"encode"})
            /\ run' = [run EXCEPT !.at = IF made = {} THEN "ready" ELSE "settle",
                                  !.todo = made, !.got = NoChunks,
                                  !.out = [kind |-> IF both THEN "both" ELSE "separate",
                                           has |-> UNION {got[t] : t \in Tracks}]]
  BY DEF BuildMasters
<1> DEFINE got  == Masters(run.got, salvaged)
           made == {t \in Tracks : got[t] # {}}
           has  == UNION {got[t] : t \in Tracks}
<1>2. PICK phase \in {"ready", "settle"}, kind \in {"both", "separate"} :
        /\ run' = [run EXCEPT !.at = phase, !.todo = made, !.got = NoChunks,
                              !.out = [kind |-> kind, has |-> has]]
        /\ phase = "ready" => made = {}
  BY <1>1
<1>3. salvaged # {} => "encode" \in hit' BY <1>1 DEF Fault, Happened
<1> HIDE DEF got, made, has
<1>4. run'.at = phase /\ run'.snap = run.snap /\ run'.todo = made /\ run'.out.has = has
  BY <1>2, <1>t
<1> USE DEF got, made, has
<1> QED BY <1>2, <1>3, <1>4

LEMMA RunTake ==
  ASSUME TakeInv, PickUp \/ RunStep \/ BuildFails \/ RunFails \/ WorkerDies \/ JobStalled
  PROVE  Registered' /\ Finished'
<1> USE DEF rows, uploads, store, reqVars, others, world
<1> Basics /\ Registered /\ Finished /\ JobHeld /\ TypeInv /\ TypeOK
  BY DEF TakeInv, Basics, TypeInv
<1>t. /\ status \in [Tracks -> TrackStatuses]
      /\ run \in [at : RunPhases, snap : SUBSET Chunks, todo : SUBSET Tracks,
                  got : [Tracks -> SUBSET Chunks], hadFinal : BOOLEAN,
                  out : [kind : OutputKinds, has : SUBSET Chunks]]
      /\ outputs \in [kind : OutputKinds, has : SUBSET Chunks]
      /\ Tracks # {}
  BY TracksAssumption DEF TypeOK
<1>p. \A phase \in {"idle", "claim", "mark", "fetch", "preview", "build", "settle",
                    "ready", "recount", "reopen", "enqueue", "list", "delete",
                    "processed", "finish"} : phase \in RunPhases
  BY DEF RunPhases
\* What a step of the run has to say for itself.
<1>f. ASSUME UNCHANGED <<segs, pc>>,
             outputs'.has \subseteq segs, run'.snap \subseteq segs, run'.out.has \subseteq segs,
             \A t \in Tracks : run'.got[t] \subseteq ChunksOf(segs, t),
             \A t \in Tracks : status'[t] \in {status[t], "FAILED"} \/ ChunksOf(segs, t) # {},
             run'.at = "settle" => \A t \in run'.todo : ChunksOf(segs, t) # {}
      PROVE  Registered'
  <2>1. \A t \in Tracks : status'[t] \in {"PROCESSING", "READY"} => ChunksOf(segs, t) # {}
    BY <1>f DEF Registered
  <2> QED BY <1>f, <2>1 DEF Registered
\* A run that is over, and what it leaves.
<1>i. ASSUME run' = IdleRun
      PROVE  /\ run'.at = "idle" /\ run'.snap = {} /\ run'.out.has = {}
             /\ \A t \in Tracks : run'.got[t] = {}
  BY <1>i DEF IdleRun, NoChunks
<1>j. ASSUME run' = IdleRun, UNCHANGED outputs, session' = "READY" => session = "READY"
      PROVE  Finished'
  BY <1>i, <1>j DEF Finished, IsFinal, Building
<1>1. CASE PickUp
  <2>1. Step("claim") /\ UNCHANGED <<session, outputs, rows, store, reqVars>> BY <1>1 DEF PickUp
  <2>2. Registered' BY <2>1, <1>f, <1>p, StepFields DEF Registered
  <2>3. Finished' BY <2>1, <1>p, StepFields DEF Finished, IsFinal, Building
  <2> QED BY <2>2, <2>3
<1>2. CASE Claim
  <2>0. UNCHANGED <<session, outputs, rows, store, reqVars>> BY <1>2 DEF Claim
  <2>1. CASE session \in {"STOPPED", "PROCESSING", "FAILED"}
    <3>1. run' = [run EXCEPT !.at = "mark", !.snap = segs, !.todo = Tracks,
                             !.hadFinal = IsFinal(outputs)]
      BY <1>2, <2>1 DEF Claim
    <3>2. /\ run'.at = "mark" /\ run'.snap = segs /\ run'.todo = Tracks /\ run'.got = run.got
          /\ run'.hadFinal = IsFinal(outputs) /\ run'.out = run.out
      BY <3>1, <1>t
    <3>3. Registered' BY <2>0, <3>2, <1>f DEF Registered
    <3>4. Finished' BY <2>0, <2>1, <3>2 DEF Finished, IsFinal, Building
    <3> QED BY <3>3, <3>4
  <2>2. CASE session \notin {"STOPPED", "PROCESSING", "FAILED"}
    <3>1. run' = IdleRun BY <1>2, <2>2 DEF Claim, JobDone
    <3>2. Registered' BY <2>0, <3>1, <1>i, <1>f DEF Registered
    <3> QED BY <2>0, <3>1, <3>2, <1>j
  <2> QED BY <2>1, <2>2
<1>3. CASE MarkProcessing
  <2>1. /\ run.at = "mark" /\ Step("fetch") /\ session' = "PROCESSING"
        /\ UNCHANGED <<outputs, rows, store, reqVars>>
    BY <1>3 DEF MarkProcessing
  <2>2. Registered' BY <2>1, <1>f, <1>p, StepFields DEF Registered
  <2>3. Finished' BY <2>1, <1>p, StepFields DEF Finished, IsFinal, Building
  <2> QED BY <2>2, <2>3
<1>4. CASE PutPreview
  <2>1. PICK phase \in {"build", "fetch"} : run' = [run EXCEPT !.at = phase, !.hadFinal = FALSE]
    BY <1>4 DEF PutPreview
  <2>2. /\ run'.at = phase /\ run'.snap = run.snap /\ run'.todo = run.todo
        /\ run'.got = run.got /\ run'.hadFinal = FALSE /\ run'.out = run.out
    BY <2>1, <1>t
  <2>3. run.at = "preview" /\ UNCHANGED <<session, rows, store, reqVars>> BY <1>4 DEF PutPreview
  <2>4. Primary \in Tracks BY TracksAssumption DEF Primary
  <2>5. run.got[Primary] \subseteq segs BY <2>4 DEF Registered, ChunksOf
  <2>6. \/ outputs' = outputs
        \/ outputs' = [kind |-> "preview", has |-> run.got[Primary]] /\ ~run.hadFinal
    BY <1>4 DEF PutPreview
  <2>7. Registered' BY <2>2, <2>3, <2>5, <2>6, <1>f DEF Registered
  <2>8. IsFinal(outputs)' => outputs' = outputs BY <2>6 DEF IsFinal
  <2>9. session \in {"PROCESSING", "STOPPED"} BY <2>3 DEF Finished, Building
  <2>10. phase = "build" => run.todo = {}
    <3>1. phase = IF run.todo = {} THEN "build" ELSE "fetch"
      <4>1. run' = [run EXCEPT !.at = IF run.todo = {} THEN "build" ELSE "fetch", !.hadFinal = FALSE]
        BY <1>4 DEF PutPreview
      <4>2. CASE run.todo = {} BY <4>1, <4>2, <2>2, <1>t
      <4>3. CASE run.todo # {} BY <4>1, <4>3, <2>2, <1>t
      <4> QED BY <4>2, <4>3
    <3> QED BY <3>1
  <2>11. run.todo # Tracks BY <2>3 DEF Finished
  <2>12. Finished'
    <3>1. IsFinal(outputs)' => outputs'.has # {} BY <2>8 DEF Finished, IsFinal
    <3>2. session' # "READY" BY <2>3, <2>9
    <3> QED BY <2>2, <2>3, <2>9, <2>10, <2>11, <3>1, <3>2 DEF Finished, Building
  <2> QED BY <2>7, <2>12
<1>5. CASE BuildMasters
  <2>0. run.at = "build" /\ UNCHANGED <<session, outputs, rows, store, reqVars>>
    BY <1>5 DEF BuildMasters
  <2>1. PICK salvaged \in SUBSET Tracks, together \in BOOLEAN :
          LET got  == Masters(run.got, salvaged)
              made == {t \in Tracks : got[t] # {}}
              both == together /\ salvaged = {} /\ made = {Screen, Camera}
          IN  run' = [run EXCEPT !.at = IF made = {} THEN "ready" ELSE "settle",
                                 !.todo = made, !.got = NoChunks,
                                 !.out = [kind |-> IF both THEN "both" ELSE "separate",
                                          has |-> UNION {got[t] : t \in Tracks}]]
    BY <1>5 DEF BuildMasters
  <2> DEFINE got  == Masters(run.got, salvaged)
             made == {t \in Tracks : got[t] # {}}
             has  == UNION {got[t] : t \in Tracks}
  <2>2. PICK phase \in {"ready", "settle"}, kind \in {"both", "separate"} :
          run' = [run EXCEPT !.at = phase, !.todo = made, !.got = NoChunks,
                             !.out = [kind |-> kind, has |-> has]]
    BY <2>1
  <2>3. \A t \in Tracks : got[t] \subseteq ChunksOf(segs, t)
    BY MastersTypes DEF Registered
  <2>4. has \subseteq segs BY <2>3 DEF ChunksOf
  <2>5. \A t \in made : ChunksOf(segs, t) # {} BY <2>3
  <2> HIDE DEF has, got, made
  <2>6. /\ run'.at = phase /\ run'.snap = run.snap /\ run'.todo = made /\ run'.got = NoChunks
        /\ run'.hadFinal = run.hadFinal /\ run'.out = [kind |-> kind, has |-> has]
    BY <2>2, <1>t
  <2>7. \A t \in Tracks : run'.got[t] = {} BY <2>6 DEF NoChunks
  <2>8. Registered' BY <2>0, <2>4, <2>5, <2>6, <2>7, <1>f DEF Registered
  <2>9. IsFinal(run'.out) BY <2>6 DEF IsFinal
  <2>10. Finished' BY <2>0, <2>6, <2>9 DEF Finished, IsFinal, Building
  <2> QED BY <2>8, <2>10
<1>6. CASE PublishTake
  <2>0. run.at = "ready" /\ UNCHANGED <<rows, store, reqVars>> BY <1>6 DEF PublishTake
  <2>1. CASE run.out.has = {}
    <3>1. session' = "FAILED" /\ outputs' = [kind |-> "none", has |-> {}] /\ run' = IdleRun
      BY <1>6, <2>1 DEF PublishTake, JobDone
    <3>2. Registered' BY <2>0, <3>1, <1>i, <1>f DEF Registered
    <3>3. Finished' BY <3>1, <1>i DEF Finished, IsFinal, Building
    <3> QED BY <3>2, <3>3
  <2>2. CASE run.out.has # {}
    <3>1. session' = "READY" /\ outputs' = run.out /\ Step("recount")
      BY <1>6, <2>2 DEF PublishTake
    <3>2. Registered' BY <2>0, <3>1, <1>p, <1>f, StepFields DEF Registered
    <3>3. IsFinal(run.out) BY <2>0 DEF Finished
    <3>4. Finished' BY <2>2, <3>1, <3>3, <1>p, StepFields DEF Finished, IsFinal, Building
    <3> QED BY <3>2, <3>4
  <2> QED BY <2>1, <2>2
<1>7. CASE \E t \in Tracks : FetchNothing(t) \/ FetchTrack(t) \/ FetchFails(t)
  <2>1. PICK t \in Tracks : FetchNothing(t) \/ FetchTrack(t) \/ FetchFails(t) BY <1>7
  <2>2. run.at = "fetch" /\ UNCHANGED <<session, outputs, store, reqVars>>
    <3>1. CASE FetchNothing(t) BY <3>1 DEF FetchNothing
    <3>2. CASE FetchTrack(t) BY <3>2 DEF FetchTrack
    <3>3. CASE FetchFails(t) BY <3>3 DEF FetchFails
    <3> QED BY <2>1, <3>1, <3>2, <3>3
  <2>3. \A u \in Tracks : status'[u] \in {status[u], "FAILED"} \/ ChunksOf(segs, u) # {}
    <3>1. CASE FetchNothing(t) BY <3>1, <1>t DEF FetchNothing
    <3>2. CASE FetchTrack(t)
      <4>1. ChunksOf(segs, t) # {} BY <3>2 DEF FetchTrack, ToFetch, Registered, ChunksOf
      <4> QED BY <3>2, <4>1, <1>t DEF FetchTrack
    <3>3. CASE FetchFails(t)
      <4>1. ChunksOf(segs, t) # {} BY <3>3 DEF FetchFails, ToFetch, Registered, ChunksOf
      <4> QED BY <3>3, <4>1, <1>t DEF FetchFails
    <3> QED BY <2>1, <3>1, <3>2, <3>3
  <2>4. CASE run' = IdleRun
    <3>1. Registered' BY <2>2, <2>3, <2>4, <1>i, <1>f DEF Registered
    <3> QED BY <2>2, <2>4, <3>1, <1>j
  <2>5. CASE \E got \in SUBSET ChunksOf(segs, t) : AfterFetch(t, got)
    <3>1. PICK got \in SUBSET ChunksOf(segs, t) : AfterFetch(t, got) BY <2>5
    <3>2. got \in SUBSET Chunks BY DEF ChunksOf, TypeOK
    <3>3. /\ run'.at \in {"preview", "build", "fetch"}
          /\ run'.at = "preview" <=> run.todo = Tracks
          /\ run'.snap = run.snap /\ run'.todo = run.todo \ {t}
          /\ run'.got = [run.got EXCEPT ![t] = got]
          /\ run'.hadFinal = run.hadFinal /\ run'.out = run.out
      BY <3>1, <3>2, AfterFetchFields
    <3>4. run'.at = "build" => run.todo = {t}
      <4>1. run' = [run EXCEPT !.todo = @ \ {t}, !.got[t] = got,
                     !.at = IF run.todo = Tracks THEN "preview"
                            ELSE IF run.todo = {t} THEN "build" ELSE "fetch"]
        BY <3>1 DEF AfterFetch
      <4>2. ASSUME run.todo # {t} PROVE run'.at # "build"
        <5>1. PICK phase \in {"preview", "fetch"} :
                run' = [run EXCEPT !.todo = @ \ {t}, !.got[t] = got, !.at = phase]
          BY <4>1, <4>2
        <5> QED BY <5>1, <1>t
      <4> QED BY <4>2
    <3>5. t \notin run'.todo /\ run'.todo # Tracks BY <3>3
    <3>6. \A u \in Tracks : run'.got[u] \subseteq ChunksOf(segs, u)
      BY <3>3, <1>t DEF Registered
    <3>7. Registered' BY <2>2, <2>3, <3>3, <3>6, <1>f DEF Registered
    <3>8. Finished'
      <4>1. run'.at = "preview" => run'.hadFinal = IsFinal(outputs)'
        BY <2>2, <3>3 DEF Finished, IsFinal
      <4>2. run'.at = "build" => run'.todo = {} BY <3>3, <3>4
      <4> QED BY <2>2, <3>3, <3>5, <4>1, <4>2 DEF Finished, IsFinal, Building
    <3> QED BY <3>7, <3>8
  <2>6. run' = IdleRun \/ \E got \in SUBSET ChunksOf(segs, t) : AfterFetch(t, got)
    <3>1. CASE FetchNothing(t) BY <3>1 DEF FetchNothing
    <3>2. CASE FetchTrack(t)
      <4>1. ToFetch(t) \cap objects \subseteq ChunksOf(segs, t)
        BY DEF ToFetch, Registered, ChunksOf
      <4> QED BY <3>2, <4>1 DEF FetchTrack
    <3>3. CASE FetchFails(t) BY <3>3 DEF FetchFails
    <3> QED BY <2>1, <3>1, <3>2, <3>3
  <2> QED BY <2>4, <2>5, <2>6
<1>8. CASE \E t \in Tracks : SettleTrack(t)
  <2>1. PICK t \in Tracks : SettleTrack(t) BY <1>8
  <2>2. PICK phase \in {"ready", "settle"} :
          run' = [run EXCEPT !.todo = @ \ {t}, !.at = phase]
    BY <2>1 DEF SettleTrack
  <2>3. /\ run'.at = phase /\ run'.snap = run.snap /\ run'.todo = run.todo \ {t}
        /\ run'.got = run.got /\ run'.hadFinal = run.hadFinal /\ run'.out = run.out
    BY <2>2, <1>t
  <2>4. /\ run.at = "settle" /\ t \in run.todo /\ status' = [status EXCEPT ![t] = "READY"]
        /\ UNCHANGED <<session, outputs, store, reqVars>>
    BY <2>1 DEF SettleTrack, Turn
  <2>5. ChunksOf(segs, t) # {} BY <2>4 DEF Registered
  <2>6. \A u \in Tracks : status'[u] \in {status[u], "FAILED"} \/ ChunksOf(segs, u) # {}
    BY <2>4, <2>5, <1>t
  <2>7. Registered' BY <2>3, <2>4, <2>6, <1>f DEF Registered
  <2>8. Finished' BY <2>3, <2>4 DEF Finished, IsFinal, Building
  <2> QED BY <2>7, <2>8
<1>9. CASE Recount
  <2>1. PICK phase \in {"reopen", "list", "finish"} : Step(phase) BY <1>9 DEF Recount
  <2>2. UNCHANGED <<session, outputs, rows, store, reqVars>> BY <1>9 DEF Recount
  <2>3. Registered' BY <2>1, <2>2, <1>f, <1>p, StepFields DEF Registered
  <2>4. Finished' BY <2>1, <2>2, <1>p, StepFields DEF Finished, IsFinal, Building
  <2> QED BY <2>3, <2>4
<1>10. CASE ReopenMissed
  <2>1. PICK phase \in {"enqueue", "finish"} : Step(phase) BY <1>10 DEF ReopenMissed
  <2>2. UNCHANGED <<outputs, rows, store, reqVars>> /\ session' \in {session, "STOPPED"}
    BY <1>10 DEF ReopenMissed
  <2>3. Registered' BY <2>1, <2>2, <1>f, <1>p, StepFields DEF Registered
  <2>4. Finished' BY <2>1, <2>2, <1>p, StepFields DEF Finished, IsFinal, Building
  <2> QED BY <2>3, <2>4
<1>11. CASE EnqueueMissed \/ DeleteChunks \/ MarkCleaned
  <2>1. PICK phase \in {"finish", "processed"} : Step(phase)
    BY <1>11 DEF EnqueueMissed, DeleteChunks, MarkCleaned
  <2>2. UNCHANGED <<session, outputs, rows, uploads, reqVars>>
    BY <1>11 DEF EnqueueMissed, DeleteChunks, MarkCleaned
  <2>3. Registered' BY <2>1, <2>2, <1>f, <1>p, StepFields DEF Registered
  <2>4. Finished' BY <2>1, <2>2, <1>p, StepFields DEF Finished, IsFinal, Building
  <2> QED BY <2>3, <2>4
<1>12. CASE ListChunks
  <2>1. run' = [run EXCEPT !.at = "delete", !.snap = segs \ cleaned]
        /\ UNCHANGED <<session, outputs, rows, store, reqVars>>
    BY <1>12 DEF ListChunks
  <2>2. /\ run'.at = "delete" /\ run'.snap = segs \ cleaned /\ run'.todo = run.todo
        /\ run'.got = run.got /\ run'.out = run.out
    BY <2>1, <1>t
  <2>3. Registered' BY <2>1, <2>2, <1>f DEF Registered
  <2>4. Finished' BY <2>1, <2>2 DEF Finished, IsFinal, Building
  <2> QED BY <2>3, <2>4
<1>13. CASE FinishJob \/ WorkerDies
  <2>1. run' = IdleRun /\ UNCHANGED <<session, outputs, rows, store, reqVars>>
    BY <1>13 DEF FinishJob, JobDone, WorkerDies
  <2>2. Registered' BY <2>1, <1>i, <1>f DEF Registered
  <2> QED BY <2>1, <2>2, <1>j
<1>14. CASE BuildFails
  <2>1. /\ run.at = "build" /\ UNCHANGED <<session, outputs, store, reqVars>>
        /\ run' = [run EXCEPT !.at = "ready", !.got = NoChunks,
                              !.out = [kind |-> "salvage", has |-> run.got[Primary]]]
        /\ status' = [t \in Tracks |-> IF run.got[t] # {} THEN "FAILED" ELSE status[t]]
    BY <1>14 DEF BuildFails
  <2>2. Primary \in Tracks BY TracksAssumption DEF Primary
  <2>3. run.got[Primary] \subseteq segs BY <2>2 DEF Registered, ChunksOf
  <2>4. /\ run'.at = "ready" /\ run'.snap = run.snap /\ run'.got = NoChunks
        /\ run'.out = [kind |-> "salvage", has |-> run.got[Primary]]
    BY <2>1, <1>t
  <2>5. \A t \in Tracks : run'.got[t] = {} BY <2>4 DEF NoChunks
  <2>6. Registered' BY <2>1, <2>3, <2>4, <2>5, <1>f DEF Registered
  <2>7. IsFinal(run'.out) BY <2>4 DEF IsFinal
  <2>8. Finished' BY <2>1, <2>4, <2>7 DEF Finished, IsFinal, Building
  <2> QED BY <2>6, <2>8
<1>15. CASE RunFails
  <2>1. /\ run' = IdleRun /\ UNCHANGED <<outputs, store, reqVars>>
        /\ session' \in {session, "FAILED"}
        /\ \A t \in Tracks : status'[t] \in {status[t], "FAILED"}
    BY <1>15, <1>t DEF RunFails
  <2>2. Registered' BY <2>1, <1>i, <1>f DEF Registered
  <2> QED BY <2>1, <2>2, <1>j
<1>16. CASE JobStalled
  <2>1. UNCHANGED <<session, outputs, rows, store, reqVars, run>> BY <1>16 DEF JobStalled
  <2>2. Registered' BY <2>1, <1>f DEF Registered
  <2>3. Finished' BY <2>1 DEF Finished, IsFinal
  <2> QED BY <2>2, <2>3
<1> QED BY <1>1, <1>2, <1>3, <1>4, <1>5, <1>6, <1>7, <1>8, <1>9, <1>10, <1>11, <1>12,
           <1>13, <1>14, <1>15, <1>16 DEF RunStep

LEMMA TakeStep == TakeInv /\ [Next]_vars => TakeInv'
<1> SUFFICES ASSUME TakeInv, [Next]_vars PROVE Registered' /\ Finished'
  BY BasicsStep DEF TakeInv
<1>1. CASE UNCHANGED vars
  BY <1>1 DEF vars, rows, uploads, store, reqVars, others, world, TakeInv, Registered, Finished,
              ChunksOf, IsFinal
<1>2. CASE Next BY <1>2, StepKinds, RequestTake, RunTake, SweepTake
<1> QED BY <1>1, <1>2

\* However its chunks come, its runs fail and its writers overtake each other, a
\* take that is READY has a video that is not the preview, with something in it
\* (finalizeScreenSession).
THEOREM ReadyTakeHasVideo == Untimed => []ReadyHasVideo
<1>1. TakeInv => ReadyHasVideo BY DEF TakeInv, Finished, ReadyHasVideo
<1> QED BY <1>1, TakeInit, TakeStep, PTL DEF Untimed

-----------------------------------------------------------------------------
(* While nothing has happened that the code does not stand up to: chunks go *)
(* only from a finished take, and what a run claimed ends up in its video.  *)

Gone == cleaned # {} \/ Deleting

ReopeningSession == \E c \in Chunks : pc[c] = "session"

\* Chunks go only when the take is READY, and nobody builds or re-opens it.
GoneInv ==
  /\ Gone => /\ session = "READY"
             /\ run.at \in {"idle", "claim", "list", "delete", "processed", "finish"}
             /\ ~ReopeningSession
             /\ \A t \in Tracks : status[t] \in Settled
  /\ \A c \in Chunks : pc[c] = "reopen" => ChunksOf(cleaned, TrackOf(c)) = {}

\* A track waits in a settled take only while somebody is about to re-open it.
Waits ==
  /\ session \in Settled => \/ \A t \in Tracks : status[t] \in Settled
                            \/ ReopeningSession \/ run.at \in {"recount", "reopen"}
  /\ session = "FAILED" => \A t \in Tracks : status[t] # "READY"

Fetched(t) == t \notin run.todo

\* What the run has of the chunks it claimed, and where its tracks are.
Carried ==
  /\ run.at \in {"fetch", "preview", "build"} => \A t \in Tracks : Fetched(t) =>
       /\ ChunksOf(run.snap, t) \subseteq run.got[t]
       /\ status[t] = "PROCESSING" => run.got[t] # {}
       /\ status[t] = "UPLOADED" => ChunksOf(segs, t) # {}
  /\ run.at \in {"settle", "ready", "recount"} =>
       /\ run.out.has = {} => run.snap = {}
       /\ "encode" \notin hit => run.snap \subseteq run.out.has
       /\ \A t \in Tracks : status[t] = "UPLOADED" => ChunksOf(segs, t) # {}
  /\ run.at = "settle" => \A t \in Tracks : status[t] = "PROCESSING" => ~Fetched(t)
  /\ run.at \in {"ready", "recount"} => \A t \in Tracks : status[t] # "PROCESSING"
  /\ run.at \in Building \cup {"mark"} /\ IsFinal(outputs) => outputs.has \subseteq run.snap

SoundInv == Sound => GoneInv /\ Waits /\ Carried

LEMMA SoundInit == Init => SoundInv
<1> SUFFICES ASSUME Init PROVE GoneInv /\ Waits /\ Carried BY DEF SoundInv
<1>0. \A c \in Chunks : pc[c] = "idle" BY DEF Init, Requests
<1>1. ~Gone BY DEF Init, Gone, Deleting, IdleRun, IdleCleaner
<1>2. GoneInv BY <1>0, <1>1 DEF GoneInv
<1>3. Waits BY DEF Init, Waits, Settled
<1>4. Carried BY DEF Init, Carried, IdleRun, Building
<1> QED BY <1>2, <1>3, <1>4

\* A step of a sound take noted nothing that matters.
LEMMA StaysSound ==
  ASSUME Sound', hit \subseteq hit'
  PROVE  Sound /\ \A what \in {"race", "sibling", "unchecked", "api", "givenUp"} : what \notin hit'
BY DEF Sound

LEMMA NotRaced ==
  ASSUME Sound', NEW race, Note(race)
  PROVE  ~race
<1>1. "race" \notin hit' BY DEF Sound
<1>2. race => hit' = hit \cup {"race"} BY DEF Note, Happened
<1> QED BY <1>1, <1>2

\* A request that re-opens a track that had settled.
Reopens(r) ==
  r \in Chunks /\ ReopenTrack(r) /\ status[TrackOf(r)] \in Settled

\* How requests move between the states that matter to a settled take.
LEMMA RequestMoves ==
  ASSUME Basics, NEW r \in Requests,
         \/ RequestStep(r)
         \/ RequestDies(r)
         \/ r \in Chunks /\ RegisterChunk(r)
         \/ r \in Tracks /\ ReadForReport(r)
         \/ r = Host /\ StopReads
  PROVE  /\ session' # session => session = "ACTIVE" \/ (r \in Chunks /\ pc[r] = "session")
         /\ r \in Chunks /\ pc[r] = "session" => session' \notin Settled \/ "api" \in hit'
         /\ r \in Chunks /\ pc'[r] = "reopen" => ChunksOf(cleaned, TrackOf(r)) = {}
         /\ r \in Chunks /\ pc'[r] = "session" => Reopens(r)
         /\ \A t \in Tracks : status'[t] = status[t] \/ ~isComplete[t]
                              \/ (Reopens(r) /\ t = TrackOf(r) /\ status'[t] = "UPLOADED")
         /\ (r \in Chunks /\ RegisterChunk(r)) \/ UNCHANGED <<uploads, objects>>
<1> USE DEF rows, uploads, store, reqVars, others, world, Goto, Return, Keep
<1> TypeInv /\ TypeOK /\ Completed BY DEF Basics, TypeInv
<1>t. /\ status \in [Tracks -> TrackStatuses] /\ Host \notin Chunks /\ Tracks \cap Chunks = {}
      /\ pc \in [Requests -> ReqPhases]
  BY RequestsOfTake DEF TypeOK
<1>1. CASE r \in Chunks /\ RegisterChunk(r) BY <1>1, <1>t DEF RegisterChunk
<1>2. CASE r \in Chunks /\ ChunkArrived(r) BY <1>2, <1>t DEF ChunkArrived
<1>3. CASE r \in Chunks /\ CheckCleaned(r) BY <1>3, <1>t DEF CheckCleaned
<1>4. CASE r \in Chunks /\ ReopenTrack(r)
  <2>0. TrackOf(r) \in Tracks /\ pc[r] = "reopen" BY <1>4, ChunkShape DEF ReopenTrack
  <2>1. CASE status[TrackOf(r)] \in Settled
    <3>1. /\ Reopens(r) /\ pc' = [pc EXCEPT ![r] = "session"]
          /\ status' = [status EXCEPT ![TrackOf(r)] = "UPLOADED"]
          /\ UNCHANGED <<session, uploads, objects>>
      BY <1>4, <2>1 DEF ReopenTrack, Reopens, Settled
    <3>2. \A t \in Tracks : \/ status'[t] = status[t]
                            \/ t = TrackOf(r) /\ status'[t] = "UPLOADED"
      BY <3>1, <2>0, <1>t
    <3> QED BY <2>0, <3>1, <3>2, <1>t
  <2>2. CASE status[TrackOf(r)] \notin Settled
    <3>1. pc' = [pc EXCEPT ![r] = "done"] /\ UNCHANGED <<session, status, uploads, objects>>
      BY <1>4, <2>2 DEF ReopenTrack, Settled
    <3> QED BY <2>0, <3>1, <1>t
  <2> QED BY <2>1, <2>2
<1>5. CASE r \in Chunks /\ ReopenSession(r) BY <1>5, <1>t DEF ReopenSession, Settled
<1>6. CASE r \in Tracks /\ ReadForReport(r) BY <1>6, <1>t DEF ReadForReport
<1>7. CASE r \in Tracks /\ MarkRecordingComplete(r) BY <1>7, <1>t DEF MarkRecordingComplete
<1>8. CASE r # Host /\ TryComplete(r) BY <1>8, <1>t DEF TryComplete
<1>9. CASE r # Host /\ FlipComplete(r)
  <2>0. TrackFor(r) \in Tracks BY <1>9, RequestIsOf
  <2>1. \A t \in Tracks : status'[t] = status[t] \/ ~isComplete[t]
    <3>1. CASE isComplete[TrackFor(r)] BY <1>9, <3>1 DEF FlipComplete
    <3>2. CASE ~isComplete[TrackFor(r)]
      <4>1. \E s : status' = [status EXCEPT ![TrackFor(r)] = s] BY <1>9, <3>2 DEF FlipComplete
      <4> QED BY <4>1, <3>2, <2>0, <1>t
    <3> QED BY <3>1, <3>2
  <2>2. PICK phase \in {"kick", "done"} : pc' = [pc EXCEPT ![r] = phase]
    BY <1>9 DEF FlipComplete
  <2>3. pc[r] = "flip" /\ UNCHANGED <<session, uploads, objects>> BY <1>9 DEF FlipComplete
  <2> QED BY <2>1, <2>2, <2>3, <1>t
<1>10. CASE r = Host /\ StopReads BY <1>10, <1>t DEF StopReads
<1>11. CASE r = Host /\ StopWrites BY <1>11, <1>t DEF StopWrites, Completed
<1>12. CASE MaybeFinalize(r) BY <1>12, <1>t DEF MaybeFinalize
<1>13. CASE EnqueueFinalize(r) BY <1>13, <1>t DEF EnqueueFinalize
<1>14. CASE RequestDies(r) BY <1>14, <1>t DEF RequestDies, Fault, Happened
<1> QED BY <1>1, <1>2, <1>3, <1>4, <1>5, <1>6, <1>7, <1>8, <1>9, <1>10, <1>11, <1>12,
           <1>13, <1>14 DEF RequestStep

\* Nobody re-opens a track once chunks are gone.
LEMMA NoReopenWhenGone ==
  ASSUME GoneInv, Gone, NEW r, Reopens(r), Sound'
  PROVE  FALSE
<1>1. /\ pc[r] = "reopen" /\ r \in Chunks
      /\ hit' = hit \cup ((IF Deleting THEN {"race"} ELSE {})
                  \cup (IF cleaned \ ChunksOf(cleaned, TrackOf(r)) # {} THEN {"sibling"} ELSE {}))
  BY DEF Reopens, ReopenTrack, Happened, Settled
<1>2. ChunksOf(cleaned, TrackOf(r)) = {} BY <1>1 DEF GoneInv
<1>3. CASE Deleting
  <2>1. "race" \in hit' BY <1>1, <1>3
  <2> QED BY <2>1 DEF Sound
<1>4. CASE cleaned # {}
  <2>1. "sibling" \in hit' BY <1>1, <1>2, <1>4
  <2> QED BY <2>1 DEF Sound
<1> QED BY <1>3, <1>4 DEF Gone

LEMMA RequestSound ==
  ASSUME TakeInv, TakeInv', GoneInv, Waits, Carried, Sound', NEW r \in Requests,
         \/ RequestStep(r)
         \/ RequestDies(r)
         \/ r \in Chunks /\ RegisterChunk(r)
         \/ r \in Tracks /\ ReadForReport(r)
         \/ r = Host /\ StopReads
  PROVE  GoneInv' /\ Waits' /\ Carried'
<1> Basics /\ Registered /\ Finished /\ Completed /\ TypeOK
  BY DEF TakeInv, Basics, TypeInv
<1>f. /\ UNCHANGED <<outputs, run, cleaned, sweep, cleaner>>
      /\ segs \subseteq segs' /\ hit \subseteq hit'
      /\ session' \in {session, "STOPPED"}
      /\ \A t \in Tracks : status'[t] \in {status[t], "UPLOADED"}
      /\ \E phase \in ReqPhases : pc' = [pc EXCEPT ![r] = phase]
  BY RequestFrame
<1>m. /\ session' # session => session = "ACTIVE" \/ (r \in Chunks /\ pc[r] = "session")
      /\ r \in Chunks /\ pc[r] = "session" => session' \notin Settled \/ "api" \in hit'
      /\ r \in Chunks /\ pc'[r] = "reopen" => ChunksOf(cleaned, TrackOf(r)) = {}
      /\ r \in Chunks /\ pc'[r] = "session" => Reopens(r)
      /\ \A t \in Tracks : status'[t] = status[t] \/ ~isComplete[t]
                           \/ (Reopens(r) /\ t = TrackOf(r) /\ status'[t] = "UPLOADED")
      /\ (r \in Chunks /\ RegisterChunk(r)) \/ UNCHANGED <<uploads, objects>>
  BY RequestMoves
<1>o. \A c \in Chunks : c # r => pc'[c] = pc[c]
  BY <1>f DEF TypeOK, Requests
<1>n. "api" \notin hit' BY DEF Sound
<1>b. session \in Settled \/ run.at # "idle" => \A t \in Tracks : isComplete[t]
  BY DEF Basics, JobHeld, Completed, Begun, Settled
<1>g. Gone' => Gone
  <2>1. CASE r \in Chunks /\ RegisterChunk(r)
    BY <1>f, <2>1 DEF RegisterChunk, Gone, Deleting
  <2>2. CASE UNCHANGED <<uploads, objects>>
    BY <1>f, <2>2 DEF uploads, Gone, Deleting
  <2> QED BY <1>m, <2>1, <2>2
<1>1. GoneInv'
  <2>1. ASSUME Gone'
        PROVE  /\ session' = "READY"
               /\ run'.at \in {"idle", "claim", "list", "delete", "processed", "finish"}
               /\ ~ReopeningSession'
               /\ \A t \in Tracks : status'[t] \in Settled
    <3>1. Gone /\ ~Reopens(r) BY <2>1, <1>g, NoReopenWhenGone
    <3>2. /\ session = "READY" /\ ~ReopeningSession
          /\ run.at \in {"idle", "claim", "list", "delete", "processed", "finish"}
          /\ \A t \in Tracks : status[t] \in Settled
      BY <3>1 DEF GoneInv
    <3>3. session' = "READY" BY <1>m, <3>2 DEF ReopeningSession
    <3>4. ~ReopeningSession' BY <1>m, <1>o, <3>1, <3>2 DEF ReopeningSession
    <3>5. \A t \in Tracks : status'[t] \in Settled BY <1>m, <1>b, <3>1, <3>2 DEF Settled
    <3> QED BY <1>f, <3>2, <3>3, <3>4, <3>5
  <2>2. \A c \in Chunks : pc'[c] = "reopen" => ChunksOf(cleaned', TrackOf(c)) = {}
    BY <1>f, <1>m, <1>o DEF GoneInv
  <2> QED BY <2>1, <2>2 DEF GoneInv
<1>2. Waits'
  <2>1. ASSUME session' \in Settled
        PROVE  \/ \A t \in Tracks : status'[t] \in Settled
               \/ ReopeningSession' \/ run'.at \in {"recount", "reopen"}
    <3>1. session = session' BY <1>f, <2>1 DEF Settled
    <3>2. ~(r \in Chunks /\ pc[r] = "session") BY <2>1, <1>m, <1>n
    <3>3. CASE Reopens(r)
      <4>1. pc'[r] = "session" /\ r \in Chunks
        BY <3>3 DEF Reopens, ReopenTrack, Settled, Goto, TypeOK
      <4> QED BY <4>1 DEF ReopeningSession
    <3>4. CASE ~Reopens(r)
      <4>1. \A t \in Tracks : status'[t] = status[t] BY <1>m, <1>b, <3>1, <3>4, <2>1
      <4>2. ReopeningSession => ReopeningSession' BY <1>o, <3>2 DEF ReopeningSession
      <4> QED BY <4>1, <4>2, <3>1, <2>1, <1>f DEF Waits
    <3> QED BY <3>3, <3>4
  <2>2. session' = "FAILED" => \A t \in Tracks : status'[t] # "READY"
    BY <1>f DEF Waits
  <2> QED BY <2>1, <2>2 DEF Waits
<1>3. Carried'
  <2>1. \A t \in Tracks : ChunksOf(segs, t) \subseteq ChunksOf(segs', t) BY <1>f DEF ChunksOf
  <2>2. ASSUME run.at # "idle", NEW t \in Tracks, status'[t] = "UPLOADED"
        PROVE  status[t] = "UPLOADED" \/ ChunksOf(segs', t) # {}
    <3>1. CASE Reopens(r) /\ t = TrackOf(r)
      <4>1. pc[r] # "idle" /\ r \in Chunks BY <3>1 DEF Reopens, ReopenTrack
      <4>2. r \in segs' BY <4>1, <1>f DEF Registered
      <4> QED BY <4>2, <3>1 DEF ChunksOf
    <3>2. CASE status'[t] = status[t] BY <3>2, <2>2
    <3> QED BY <1>b, <1>m, <2>2, <3>1, <3>2
  <2>3. \A t \in Tracks : status'[t] = "PROCESSING" => status[t] = "PROCESSING" BY <1>f
  <2>4. run'.at \in {"fetch", "preview", "build"} => \A t \in Tracks : Fetched(t)' =>
          /\ ChunksOf(run'.snap, t) \subseteq run'.got[t]
          /\ status'[t] = "PROCESSING" => run'.got[t] # {}
          /\ status'[t] = "UPLOADED" => ChunksOf(segs', t) # {}
    <3>1. ASSUME run.at \in {"fetch", "preview", "build"}, NEW t \in Tracks, Fetched(t)
          PROVE  /\ ChunksOf(run.snap, t) \subseteq run.got[t]
                 /\ status'[t] = "PROCESSING" => run.got[t] # {}
                 /\ status'[t] = "UPLOADED" => ChunksOf(segs', t) # {}
      <4>1. /\ ChunksOf(run.snap, t) \subseteq run.got[t]
            /\ status[t] = "PROCESSING" => run.got[t] # {}
            /\ status[t] = "UPLOADED" => ChunksOf(segs, t) # {}
        BY <3>1 DEF Carried
      <4> QED BY <3>1, <4>1, <2>1, <2>2, <2>3
    <3> QED BY <3>1, <1>f DEF Fetched, ChunksOf
  <2>5. run'.at \in {"settle", "ready", "recount"} =>
          /\ run'.out.has = {} => run'.snap = {}
          /\ "encode" \notin hit' => run'.snap \subseteq run'.out.has
          /\ \A t \in Tracks : status'[t] = "UPLOADED" => ChunksOf(segs', t) # {}
    <3>1. ASSUME run.at \in {"settle", "ready", "recount"}
          PROVE  /\ run.out.has = {} => run.snap = {}
                 /\ "encode" \notin hit' => run.snap \subseteq run.out.has
      BY <3>1, <1>f DEF Carried
    <3>2. ASSUME run.at \in {"settle", "ready", "recount"}, NEW t \in Tracks, status'[t] = "UPLOADED"
          PROVE  ChunksOf(segs', t) # {}
      <4>1. status[t] = "UPLOADED" => ChunksOf(segs, t) # {} BY <3>2 DEF Carried
      <4> QED BY <3>2, <4>1, <2>1, <2>2
    <3> QED BY <3>1, <3>2, <1>f
  <2>6. run'.at = "settle" => \A t \in Tracks : status'[t] = "PROCESSING" => ~Fetched(t)'
    BY <1>f, <2>3 DEF Carried, Fetched
  <2>7. run'.at \in {"ready", "recount"} => \A t \in Tracks : status'[t] # "PROCESSING"
    BY <1>f, <2>3 DEF Carried
  <2>8. run'.at \in Building \cup {"mark"} /\ IsFinal(outputs)' => outputs'.has \subseteq run'.snap
    BY <1>f DEF Carried, IsFinal
  <2> QED BY <2>4, <2>5, <2>6, <2>7, <2>8 DEF Carried
<1> QED BY <1>1, <1>2, <1>3

\* The daily cleanup starts on a take at rest, which is then READY.
LEMMA SweepGone ==
  ASSUME TakeInv, GoneInv, Waits, Sound', ReapTake \/ SweepStep \/ CleanerStep, Gone'
  PROVE  /\ session = "READY"
         /\ run.at \in {"idle", "claim", "list", "delete", "processed", "finish"}
         /\ ~ReopeningSession
         /\ \A t \in Tracks : status[t] \in Settled
<1> USE DEF rows, uploads, store, reqVars, others, world
<1> Basics /\ Registered /\ TypeOK BY DEF TakeInv, Basics, TypeInv
<1>0. Gone => /\ session = "READY"
              /\ run.at \in {"idle", "claim", "list", "delete", "processed", "finish"}
              /\ ~ReopeningSession
              /\ \A t \in Tracks : status[t] \in Settled
  BY DEF GoneInv
<1>1. ASSUME UNCHANGED <<segs, cleaned, objects, run, cleaner>> PROVE Gone
  BY <1>1 DEF Gone, Deleting
<1>2. CASE ReapTake BY <1>0, <1>1, <1>2 DEF ReapTake
<1>3. CASE SweepStep
  <2>1. UNCHANGED <<segs, cleaned, objects, run, cleaner>>
    BY <1>3 DEF SweepStep, ForceReads, ForceCompletes, SweepMaybeFinalizes, RecoverTake, SweepEnqueues
  <2> QED BY <2>1, <1>0, <1>1
<1>4. CASE \E t \in Tracks : CleanerLists(t)
  <2>1. PICK t \in Tracks : CleanerLists(t) BY <1>4
  <2>2. /\ run.at = "idle" /\ InFlight = {} /\ session \in Settled /\ status[t] = "READY"
    BY <2>1 DEF CleanerLists, AtRest
  <2>3. session = "READY" BY <2>2 DEF Waits, Settled
  <2>4. ~ReopeningSession BY <2>2 DEF ReopeningSession, InFlight, Requests
  <2>5. \A u \in Tracks : status[u] \in Settled BY <2>2, <2>4 DEF Waits
  <2> QED BY <2>2, <2>3, <2>4, <2>5
<1>5. CASE CleanerDeletes \/ CleanerMarks
  <2>1. Gone BY <1>5 DEF CleanerDeletes, CleanerMarks, Gone, Deleting
  <2> QED BY <2>1, <1>0
<1> QED BY <1>2, <1>3, <1>4, <1>5 DEF CleanerStep

LEMMA SweepSound ==
  ASSUME TakeInv, TakeInv', GoneInv, Waits, Carried, Sound', ReapTake \/ SweepStep \/ CleanerStep
  PROVE  GoneInv' /\ Waits' /\ Carried'
<1> Basics /\ Registered /\ Finished /\ Completed /\ TypeOK
  BY DEF TakeInv, Basics, TypeInv
<1>f. /\ UNCHANGED <<outputs, run, segs, pc>> /\ hit \subseteq hit'
      /\ session' = session \/ (session = "ACTIVE" /\ session' = "STOPPED")
      /\ \A t \in Tracks : \/ status'[t] = status[t]
                           \/ status[t] = "UPLOADING" /\ status'[t] \in {"UPLOADED", "FAILED"}
  <2>1. "givenUp" \notin hit' BY DEF Sound
  <2> QED BY <2>1, SweepFrame DEF uploads, reqVars
<1>b. session \in Settled \/ run.at # "idle" => \A t \in Tracks : status[t] # "UPLOADING"
  BY DEF Basics, JobHeld, Completed, Begun, Settled
<1>s. session \in Settled \/ run.at # "idle" => \A t \in Tracks : status'[t] = status[t]
  BY <1>f, <1>b
<1>1. GoneInv'
  <2>1. ASSUME Gone'
        PROVE  /\ session' = "READY"
               /\ run'.at \in {"idle", "claim", "list", "delete", "processed", "finish"}
               /\ ~ReopeningSession'
               /\ \A t \in Tracks : status'[t] \in Settled
    <3>1. /\ session = "READY"
          /\ run.at \in {"idle", "claim", "list", "delete", "processed", "finish"}
          /\ ~ReopeningSession
          /\ \A t \in Tracks : status[t] \in Settled
      BY <2>1, SweepGone
    <3>2. session' = "READY" BY <3>1, <1>f
    <3>3. \A t \in Tracks : status'[t] \in Settled BY <3>1, <1>s DEF Settled
    <3> QED BY <3>1, <3>2, <3>3, <1>f DEF ReopeningSession
  <2>2. ASSUME NEW c \in Chunks, pc'[c] = "reopen" PROVE ChunksOf(cleaned', TrackOf(c)) = {}
    <3>1. cleaned' = cleaned
      <4>1. CASE CleanerMarks
        <5>1. ~Reopening BY <4>1, NotRaced DEF CleanerMarks
        <5> QED BY <5>1, <2>2, <1>f DEF Reopening
      <4>2. CASE ~CleanerMarks
        BY <4>2 DEF ReapTake, SweepStep, ForceReads, ForceCompletes, SweepMaybeFinalizes,
                    RecoverTake, SweepEnqueues, CleanerStep, CleanerLists, CleanerDeletes, store
      <4> QED BY <4>1, <4>2
    <3> QED BY <2>2, <3>1, <1>f DEF GoneInv
  <2> QED BY <2>1, <2>2 DEF GoneInv
<1>2. Waits'
  <2>1. ASSUME session' \in Settled
        PROVE  session = session' /\ \A t \in Tracks : status'[t] = status[t]
    BY <2>1, <1>f, <1>s DEF Settled
  <2>2. session' \in Settled => \/ \A t \in Tracks : status'[t] \in Settled
                                \/ ReopeningSession' \/ run'.at \in {"recount", "reopen"}
    BY <2>1, <1>f DEF Waits, ReopeningSession
  <2>3. session' = "FAILED" => \A t \in Tracks : status'[t] # "READY"
    BY <2>1 DEF Waits, Settled
  <2> QED BY <2>2, <2>3 DEF Waits
<1>3. Carried'
  <2>1. CASE run.at = "idle" BY <2>1, <1>f DEF Carried, Building
  <2>2. CASE run.at # "idle"
    <3>1. \A t \in Tracks : status'[t] = status[t] BY <2>2, <1>s
    <3>2. "encode" \notin hit' => "encode" \notin hit BY <1>f
    <3> QED BY <3>1, <3>2, <1>f DEF Carried, Fetched, IsFinal, ChunksOf
  <2> QED BY <2>1, <2>2
<1> QED BY <1>1, <1>2, <1>3

-----------------------------------------------------------------------------
\* The deletion of chunks begins in a run that has looked for what it missed.
LEMMA RunGone ==
  ASSUME TakeInv, GoneInv, Waits, Carried, Sound',
         PickUp \/ RunStep \/ BuildFails \/ RunFails \/ WorkerDies \/ JobStalled
  PROVE  GoneInv'
<1> USE DEF rows, uploads, store, reqVars, others, world
<1> Basics /\ Registered /\ Finished /\ Completed /\ JobHeld /\ TypeOK
  BY DEF TakeInv, Basics, TypeInv
<1>p. \A phase \in {"idle", "claim", "mark", "fetch", "preview", "build", "settle",
                    "ready", "recount", "reopen", "enqueue", "list", "delete",
                    "processed", "finish"} : phase \in RunPhases
  BY DEF RunPhases
<1> DEFINE Places == {"idle", "claim", "list", "delete", "processed", "finish"}
           Safe   == /\ session = "READY" /\ ~ReopeningSession
                     /\ \A t \in Tracks : status[t] \in Settled
<1>i. IdleRun.at = "idle" BY DEF IdleRun
<1>0. Gone => Safe /\ run.at \in Places BY DEF GoneInv
\* A step that deletes and marks nothing, and stays where chunks may be gone.
<1>f. ASSUME UNCHANGED <<session, status, segs, cleaned, objects, cleaner, pc>>,
             run'.at \in Places, run'.at \in {"list", "delete", "processed"} => Gone \/ Safe
      PROVE  GoneInv'
  <2>1. Gone' => Gone \/ Safe BY <1>f DEF Gone, Deleting
  <2>2. Gone' => Safe' BY <2>1, <1>0, <1>f DEF ReopeningSession
  <2> QED BY <2>2, <1>f DEF GoneInv
\* A step of a run that is not yet past its recount.
<1>g. ASSUME UNCHANGED <<segs, cleaned, objects, cleaner, pc>>,
             run.at \notin Places, run'.at \notin {"list", "delete", "processed"}
      PROVE  GoneInv'
  <2>1. ~Gone BY <1>g, <1>0
  <2>2. ~Gone' BY <1>g, <2>1 DEF Gone, Deleting
  <2> QED BY <1>g, <2>2 DEF GoneInv
<1>1. CASE PickUp BY <1>1, <1>f, <1>p, StepFields DEF PickUp
<1>2. CASE Claim
  <2>1. UNCHANGED <<session, status, segs, cleaned, objects, cleaner, pc>> BY <1>2 DEF Claim
  <2>2. CASE session \in {"STOPPED", "PROCESSING", "FAILED"}
    <3>1. ~Gone BY <1>0, <2>2
    <3>2. run'.at = "mark" BY <1>2, <2>2 DEF Claim, TypeOK
    <3>3. ~Gone' BY <1>2, <3>1, <3>2, <2>1 DEF Gone, Deleting
    <3> QED BY <2>1, <3>3 DEF GoneInv
  <2>3. CASE session \notin {"STOPPED", "PROCESSING", "FAILED"}
    BY <1>2, <2>1, <2>3, <1>f, <1>i DEF Claim, JobDone
  <2> QED BY <2>2, <2>3
<1>3. CASE MarkProcessing BY <1>3, <1>g, <1>p, StepFields DEF MarkProcessing
<1>4. CASE PutPreview
  <2>1. run'.at \in {"build", "fetch"} BY <1>4 DEF PutPreview, TypeOK
  <2> QED BY <1>4, <2>1, <1>g DEF PutPreview
<1>5. CASE BuildMasters
  <2>1. run'.at \in {"ready", "settle"} BY <1>5, BuildFields
  <2>3. run.at = "build" /\ UNCHANGED <<segs, cleaned, objects, cleaner, pc>>
    BY <1>5 DEF BuildMasters
  <2> QED BY <2>1, <2>3, <1>g
<1>6. CASE PublishTake
  <2>1. run'.at \in {"idle", "recount"} BY <1>6, <1>i, <1>p, StepFields DEF PublishTake, JobDone
  <2> QED BY <1>6, <2>1, <1>g DEF PublishTake
<1>7. CASE \E t \in Tracks : FetchNothing(t) \/ FetchTrack(t) \/ FetchFails(t)
  <2>1. PICK t \in Tracks : FetchNothing(t) \/ FetchTrack(t) \/ FetchFails(t) BY <1>7
  <2>2. run.at = "fetch" /\ UNCHANGED <<segs, cleaned, objects, cleaner, pc>>
    BY <2>1 DEF FetchNothing, FetchTrack, FetchFails
  <2>3. run' = IdleRun \/ \E got \in SUBSET Chunks : AfterFetch(t, got)
    <3>1. ToFetch(t) \cap objects \subseteq Chunks BY DEF TypeOK
    <3> QED BY <2>1, <3>1 DEF FetchNothing, FetchTrack, FetchFails
  <2>4. run'.at \in {"idle", "preview", "build", "fetch"}
    BY <2>3, <1>i, AfterFetchFields
  <2> QED BY <2>2, <2>4, <1>g
<1>8. CASE \E t \in Tracks : SettleTrack(t)
  <2>1. PICK t \in Tracks : SettleTrack(t) BY <1>8
  <2>2. \E phase \in {"ready", "settle"} :
          run' = [run EXCEPT !.todo = @ \ {t}, !.at = phase]
    BY <2>1 DEF SettleTrack
  <2>3. run'.at \in {"ready", "settle"} BY <2>2 DEF TypeOK
  <2> QED BY <2>1, <2>3, <1>g DEF SettleTrack
<1>9. CASE Recount
  <2>1. UNCHANGED <<session, status, segs, cleaned, objects, cleaner, pc>> /\ run.at = "recount"
    BY <1>9 DEF Recount
  <2>2. CASE segs # run.snap
    BY <1>9, <2>1, <2>2, <1>g, <1>p, StepFields DEF Recount
  <2>3. CASE segs = run.snap /\ run.out.kind # "both"
    BY <1>9, <2>1, <2>3, <1>g, <1>p, StepFields DEF Recount
  <2>4. CASE segs = run.snap /\ run.out.kind = "both"
    <3>1. ~(segs = run.snap /\ ReopenInVain) BY <1>9, NotRaced DEF Recount
    <3>2. /\ session = "READY" /\ ~ReopeningSession
          /\ \A t \in Tracks : status[t] # "UPLOADED"
      BY <2>4, <3>1 DEF ReopenInVain, ReopeningSession
    <3>3. \A t \in Tracks : status[t] \in Settled
      <4>1. \A t \in Tracks : status[t] # "PROCESSING" BY <2>1 DEF Carried
      <4>2. \A t \in Tracks : status[t] # "UPLOADING"
        BY <2>1 DEF JobHeld, Completed, Begun
      <4> QED BY <3>2, <4>1, <4>2 DEF TypeOK, TrackStatuses, Settled
    <3>4. Step("list") BY <1>9, <2>4 DEF Recount
    <3> QED BY <2>1, <3>2, <3>3, <3>4, <1>f, <1>p, StepFields
  <2> QED BY <2>2, <2>3, <2>4
<1>10. CASE ReopenMissed
  <2>1. run'.at \in {"enqueue", "finish"} BY <1>10, <1>p, StepFields DEF ReopenMissed
  <2> QED BY <1>10, <2>1, <1>g DEF ReopenMissed
<1>11. CASE EnqueueMissed BY <1>11, <1>g, <1>p, StepFields DEF EnqueueMissed
<1>12. CASE ListChunks
  <2>1. Gone BY <1>12 DEF ListChunks, Gone, Deleting
  <2>2. run'.at = "delete" BY <1>12 DEF ListChunks, TypeOK
  <2> QED BY <1>12, <2>1, <2>2, <1>f DEF ListChunks
<1>13. CASE DeleteChunks
  <2>1. Safe BY <1>13, <1>0 DEF DeleteChunks, Gone, Deleting
  <2>2. run'.at = "processed" BY <1>13, <1>p, StepFields DEF DeleteChunks
  <2>3. Safe' BY <1>13, <2>1 DEF DeleteChunks, ReopeningSession
  <2> QED BY <1>13, <2>2, <2>3 DEF DeleteChunks, GoneInv
<1>14. CASE MarkCleaned
  <2>1. Safe BY <1>14, <1>0 DEF MarkCleaned, Gone, Deleting
  <2>2. run'.at = "finish" BY <1>14, <1>p, StepFields DEF MarkCleaned
  <2>3. Safe' BY <1>14, <2>1 DEF MarkCleaned, ReopeningSession
  <2>4. ~Reopening BY <1>14, NotRaced DEF MarkCleaned
  <2>5. \A c \in Chunks : pc'[c] # "reopen" BY <1>14, <2>4 DEF MarkCleaned, Reopening
  <2> QED BY <2>2, <2>3, <2>5 DEF GoneInv
<1>15. CASE FinishJob BY <1>15, <1>f, <1>i DEF FinishJob, JobDone
<1>16. CASE BuildFails
  <2>1. run'.at = "ready" BY <1>16 DEF BuildFails, TypeOK
  <2> QED BY <1>16, <2>1, <1>g DEF BuildFails
<1>17. CASE RunFails BY <1>17, <1>g, <1>i DEF RunFails
<1>18. CASE WorkerDies BY <1>18, <1>f, <1>i DEF WorkerDies
<1>19. CASE JobStalled BY <1>19, <1>f DEF JobStalled
<1> QED BY <1>1, <1>2, <1>3, <1>4, <1>5, <1>6, <1>7, <1>8, <1>9, <1>10, <1>11, <1>12,
           <1>13, <1>14, <1>15, <1>16, <1>17, <1>18, <1>19 DEF RunStep

\* A take settles when nothing of it waits, or somebody is about to look again.
LEMMA RunWaits ==
  ASSUME TakeInv, Waits, Carried, Sound',
         PickUp \/ RunStep \/ BuildFails \/ RunFails \/ WorkerDies \/ JobStalled
  PROVE  Waits'
<1> USE DEF rows, uploads, store, reqVars, others, world
<1> Basics /\ Registered /\ Finished /\ Completed /\ JobHeld /\ TypeOK
  BY DEF TakeInv, Basics, TypeInv
<1>p. \A phase \in {"idle", "claim", "mark", "fetch", "preview", "build", "settle",
                    "ready", "recount", "reopen", "enqueue", "list", "delete",
                    "processed", "finish"} : phase \in RunPhases
  BY DEF RunPhases
<1>b. run.at \in Building => session \notin Settled BY DEF Finished, Building, Settled
<1>c. run.at # "idle" => \A t \in Tracks : status[t] # "UPLOADING"
  BY DEF JobHeld, Completed, Begun
<1>n. "givenUp" \notin hit' /\ "unchecked" \notin hit' BY DEF Sound
\* A step that touches neither the take nor its tracks.
<1>f. ASSUME UNCHANGED <<session, status, pc>>,
             run.at \in {"recount", "reopen"} => run'.at \in {"recount", "reopen"}
      PROVE  Waits'
  BY <1>f DEF Waits, ReopeningSession
<1>g. ASSUME session' \notin Settled PROVE Waits' BY <1>g DEF Waits, Settled
<1>1. CASE PickUp BY <1>1, <1>f DEF PickUp
<1>2. CASE Claim BY <1>2, <1>f DEF Claim
<1>3. CASE MarkProcessing BY <1>3, <1>g DEF MarkProcessing, Settled
<1>4. CASE PutPreview BY <1>4, <1>f DEF PutPreview
<1>5. CASE BuildMasters BY <1>5, <1>f DEF BuildMasters
<1>6. CASE PublishTake
  <2>1. CASE run.out.has # {}
    <3>1. session' = "READY" /\ Step("recount") BY <1>6, <2>1 DEF PublishTake
    <3> QED BY <3>1, <1>p, StepFields DEF Waits
  <2>2. CASE run.out.has = {}
    <3>1. run.at = "ready" /\ session' = "FAILED" /\ UNCHANGED status BY <1>6, <2>2 DEF PublishTake
    <3>2. ~(segs # run.snap) BY <1>6, <2>2, NotRaced DEF PublishTake
    <3>3. segs = {} /\ \A t \in Tracks : status[t] = "UPLOADED" => ChunksOf(segs, t) # {}
      BY <2>2, <3>1, <3>2 DEF Carried
    <3>4. \A t \in Tracks : ChunksOf(segs, t) = {} BY <3>3 DEF ChunksOf
    <3>5. \A t \in Tracks : status[t] \notin {"UPLOADED", "PROCESSING", "READY", "UPLOADING"}
      BY <3>1, <3>3, <3>4, <1>c DEF Registered
    <3>6. \A t \in Tracks : status[t] = "FAILED" BY <3>5 DEF TypeOK, TrackStatuses
    <3> QED BY <3>1, <3>6 DEF Waits, Settled
  <2> QED BY <2>1, <2>2
<1>7. CASE \E t \in Tracks : FetchNothing(t) \/ FetchTrack(t) \/ FetchFails(t) \/ SettleTrack(t)
  <2>1. run.at \in Building /\ UNCHANGED session
    BY <1>7 DEF FetchNothing, FetchTrack, FetchFails, SettleTrack, Building
  <2> QED BY <2>1, <1>b, <1>g
<1>8. CASE Recount
  <2>1. run.at = "recount" /\ UNCHANGED <<session, status, pc>> BY <1>8 DEF Recount
  <2>2. CASE segs # run.snap
    <3>1. Step("reopen") BY <1>8, <2>2 DEF Recount
    <3> QED BY <3>1, <2>1, <1>f, <1>p, StepFields
  <2>3. CASE segs = run.snap
    <3>1. ~(segs = run.snap /\ ReopenInVain) BY <1>8, NotRaced DEF Recount
    <3>2. \A t \in Tracks : status[t] \notin {"UPLOADED", "PROCESSING", "UPLOADING"}
      BY <2>1, <2>3, <3>1, <1>c DEF ReopenInVain, Carried
    <3>3. \A t \in Tracks : status[t] \in Settled BY <3>2 DEF TypeOK, TrackStatuses, Settled
    <3> QED BY <2>1, <3>3 DEF Waits
  <2> QED BY <2>2, <2>3
<1>9. CASE ReopenMissed
  <2>1. session' \notin {"READY", "FAILED"} BY <1>9 DEF ReopenMissed
  <2> QED BY <2>1, <1>g DEF Settled
<1>10. CASE EnqueueMissed \/ ListChunks \/ DeleteChunks \/ MarkCleaned \/ FinishJob
  <2>1. UNCHANGED <<session, status, pc>> /\ run.at \notin {"recount", "reopen"}
    BY <1>10 DEF EnqueueMissed, ListChunks, DeleteChunks, MarkCleaned, FinishJob
  <2> QED BY <2>1, <1>f
<1>11. CASE BuildFails
  <2>1. run.at \in Building /\ UNCHANGED session BY <1>11 DEF BuildFails, Building
  <2> QED BY <2>1, <1>b, <1>g
<1>12. CASE RunFails
  <2>1. ~Final BY <1>12, <1>n DEF RunFails, Fault, Happened, OnLast
  <2> QED BY <1>12, <2>1, <1>f DEF RunFails
<1>13. CASE WorkerDies
  <2>1. run.at \notin {"recount", "reopen"} BY <1>13, <1>n DEF WorkerDies, Fault, Happened
  <2> QED BY <1>13, <2>1, <1>f DEF WorkerDies
<1>14. CASE JobStalled BY <1>14, <1>f DEF JobStalled
<1> QED BY <1>1, <1>2, <1>3, <1>4, <1>5, <1>6, <1>7, <1>8, <1>9, <1>10, <1>11, <1>12,
           <1>13, <1>14 DEF RunStep

\* What no step of the run touches.
LEMMA RunFrame ==
  ASSUME PickUp \/ RunStep \/ BuildFails \/ RunFails \/ WorkerDies \/ JobStalled
  PROVE  hit \subseteq hit' /\ UNCHANGED <<segs, late, pc, sweep, cleaner>>
<1> USE DEF rows, uploads, store, reqVars, others, world, Fault, Note, Happened
<1>1. CASE PickUp BY <1>1 DEF PickUp
<1>2. CASE Claim BY <1>2 DEF Claim, JobDone
<1>3. CASE MarkProcessing BY <1>3 DEF MarkProcessing
<1>4. CASE PutPreview BY <1>4 DEF PutPreview
<1>5. CASE BuildMasters BY <1>5 DEF BuildMasters
<1>6. CASE PublishTake BY <1>6 DEF PublishTake
<1>7. CASE \E t \in Tracks : FetchNothing(t) \/ FetchTrack(t) \/ FetchFails(t) \/ SettleTrack(t)
  BY <1>7 DEF FetchNothing, FetchTrack, FetchFails, SettleTrack
<1>8. CASE Recount BY <1>8 DEF Recount
<1>9. CASE ReopenMissed BY <1>9 DEF ReopenMissed
<1>10. CASE EnqueueMissed BY <1>10 DEF EnqueueMissed
<1>11. CASE ListChunks BY <1>11 DEF ListChunks
<1>12. CASE DeleteChunks BY <1>12 DEF DeleteChunks
<1>13. CASE MarkCleaned BY <1>13 DEF MarkCleaned
<1>14. CASE FinishJob BY <1>14 DEF FinishJob
<1>15. CASE BuildFails BY <1>15 DEF BuildFails
<1>16. CASE RunFails BY <1>16 DEF RunFails
<1>17. CASE WorkerDies BY <1>17 DEF WorkerDies
<1>18. CASE JobStalled BY <1>18 DEF JobStalled
<1> QED BY <1>1, <1>2, <1>3, <1>4, <1>5, <1>6, <1>7, <1>8, <1>9, <1>10, <1>11, <1>12, <1>13,
           <1>14, <1>15, <1>16, <1>17, <1>18 DEF RunStep

\* A master has something in it just when its track has.
LEMMA MastersKeep ==
  ASSUME TypeOK, Registered, NEW salvaged \in SUBSET Tracks, NEW t \in Tracks
  PROVE  /\ Masters(run.got, salvaged)[t] = {} <=> run.got[t] = {}
         /\ salvaged = {} => Masters(run.got, salvaged)[t] = run.got[t]
<1>1. run.got[t] \subseteq ChunksOf(Chunks, t) BY DEF Registered, ChunksOf, TypeOK
<1>2. CASE t \in salvaged
  <2>1. Masters(run.got, salvaged)[t] = {c \in run.got[t] : \A d \in run.got[t] : c[2] <= d[2]}
    BY <1>2 DEF Masters
  <2>2. run.got[t] # {} => \E c \in run.got[t] : \A d \in run.got[t] : c[2] <= d[2]
    BY <1>1, FirstChunk
  <2> QED BY <1>2, <2>1, <2>2
<1>3. CASE t \notin salvaged BY <1>3 DEF Masters
<1> QED BY <1>2, <1>3

\* What a run claimed and could fetch is in what it builds and publishes.
LEMMA RunCarried ==
  ASSUME TakeInv, GoneInv, Carried, Sound',
         PickUp \/ RunStep \/ BuildFails \/ RunFails \/ WorkerDies \/ JobStalled
  PROVE  Carried'
<1> USE DEF rows, uploads, store, reqVars, others, world
<1> Basics /\ Registered /\ Finished /\ TypeOK BY DEF TakeInv, Basics, TypeInv
<1>t. /\ status \in [Tracks -> TrackStatuses]
      /\ run \in [at : RunPhases, snap : SUBSET Chunks, todo : SUBSET Tracks,
                  got : [Tracks -> SUBSET Chunks], hadFinal : BOOLEAN,
                  out : [kind : OutputKinds, has : SUBSET Chunks]]
  BY DEF TypeOK
<1>p. \A phase \in {"idle", "claim", "mark", "fetch", "preview", "build", "settle",
                    "ready", "recount", "reopen", "enqueue", "list", "delete",
                    "processed", "finish"} : phase \in RunPhases
  BY DEF RunPhases
<1>i. IdleRun.at = "idle" BY DEF IdleRun
<1>n. "givenUp" \notin hit' BY DEF Sound
<1>h. hit \subseteq hit' /\ UNCHANGED segs BY RunFrame
\* A run that is over, or past its video.
<1>f. ASSUME run'.at \in {"idle", "claim", "reopen", "enqueue", "list", "delete",
                          "processed", "finish"}
      PROVE  Carried'
  BY <1>f DEF Carried, Building
\* A track is fetched, or the preview put up.
<1>g. ASSUME run.at \in {"fetch", "preview"}, run'.at \in {"fetch", "preview", "build"},
             run'.snap = run.snap, IsFinal(outputs)' => outputs' = outputs,
             \A t \in Tracks : Fetched(t)' =>
               \/ Fetched(t) /\ run'.got[t] = run.got[t] /\ status'[t] = status[t]
               \/ /\ ChunksOf(run.snap, t) \subseteq run'.got[t] /\ status'[t] # "UPLOADED"
                  /\ status'[t] = "PROCESSING" => run'.got[t] # {}
      PROVE  Carried'
  <2>1. ASSUME NEW t \in Tracks, Fetched(t)'
        PROVE  /\ ChunksOf(run'.snap, t) \subseteq run'.got[t]
               /\ status'[t] = "PROCESSING" => run'.got[t] # {}
               /\ status'[t] = "UPLOADED" => ChunksOf(segs', t) # {}
    <3>1. CASE Fetched(t) /\ run'.got[t] = run.got[t] /\ status'[t] = status[t]
      BY <1>g, <1>h, <3>1 DEF Carried
    <3> QED BY <1>g, <2>1, <3>1
  <2>2. IsFinal(outputs)' => outputs'.has \subseteq run'.snap
    BY <1>g DEF Carried, Building, IsFinal
  <2> QED BY <1>g, <2>1, <2>2 DEF Carried
<1>1. CASE PickUp BY <1>1, <1>f, <1>p, StepFields DEF PickUp
<1>2. CASE Claim
  <2>1. CASE session \in {"STOPPED", "PROCESSING", "FAILED"}
    <3>1. run'.at = "mark" /\ run'.snap = segs BY <1>2, <2>1, <1>t DEF Claim
    <3>2. outputs'.has \subseteq segs BY <1>2 DEF Claim, Registered
    <3> QED BY <3>1, <3>2 DEF Carried
  <2>2. CASE session \notin {"STOPPED", "PROCESSING", "FAILED"}
    BY <1>2, <2>2, <1>f, <1>i DEF Claim, JobDone
  <2> QED BY <2>1, <2>2
<1>3. CASE MarkProcessing
  <2>1. /\ run'.at = "fetch" /\ run'.snap = run.snap /\ run'.todo = run.todo
        /\ run.at = "mark" /\ UNCHANGED outputs
    BY <1>3, <1>p, StepFields DEF MarkProcessing
  <2>2. \A t \in Tracks : ~Fetched(t)' BY <2>1 DEF Fetched, Finished
  <2>3. IsFinal(outputs)' => outputs'.has \subseteq run'.snap
    BY <2>1 DEF Carried, Building, IsFinal
  <2> QED BY <2>1, <2>2, <2>3 DEF Carried
<1>4. CASE PutPreview
  <2>1. PICK phase \in {"build", "fetch"} : run' = [run EXCEPT !.at = phase, !.hadFinal = FALSE]
    BY <1>4 DEF PutPreview
  <2>2. /\ run'.at = phase /\ run'.snap = run.snap /\ run'.todo = run.todo /\ run'.got = run.got
    BY <2>1, <1>t
  <2>3. run.at = "preview" /\ UNCHANGED status BY <1>4 DEF PutPreview
  <2>4. IsFinal(outputs)' => outputs' = outputs BY <1>4 DEF PutPreview, IsFinal
  <2> QED BY <2>2, <2>3, <2>4, <1>g DEF Fetched
<1>5. CASE BuildMasters
  <2>1. run.at = "build" /\ UNCHANGED <<outputs, status>> BY <1>5 DEF BuildMasters
  <2>2. /\ run'.at \in {"ready", "settle"} /\ run'.snap = run.snap
        /\ \E salvaged \in SUBSET Tracks :
             LET got == Masters(run.got, salvaged)
             IN  /\ run'.todo = {t \in Tracks : got[t] # {}}
                 /\ run'.out.has = UNION {got[t] : t \in Tracks}
                 /\ run'.at = "ready" => run'.todo = {}
                 /\ salvaged # {} => "encode" \in hit'
    BY <1>5, BuildFields
  <2>3. PICK salvaged \in SUBSET Tracks :
          /\ run'.todo = {t \in Tracks : Masters(run.got, salvaged)[t] # {}}
          /\ run'.out.has = UNION {Masters(run.got, salvaged)[t] : t \in Tracks}
          /\ run'.at = "ready" => run'.todo = {}
          /\ salvaged # {} => "encode" \in hit'
    BY <2>2
  <2>4. \A t \in Tracks :
          /\ Masters(run.got, salvaged)[t] = {} <=> run.got[t] = {}
          /\ salvaged = {} => Masters(run.got, salvaged)[t] = run.got[t]
    BY MastersKeep
  <2>5. \A t \in Tracks :
          /\ ChunksOf(run.snap, t) \subseteq run.got[t]
          /\ status[t] = "PROCESSING" => run.got[t] # {}
          /\ status[t] = "UPLOADED" => ChunksOf(segs, t) # {}
    BY <2>1 DEF Carried, Finished, Fetched
  <2>6. \A c \in run.snap : TrackOf(c) \in Tracks /\ c \in ChunksOf(run.snap, TrackOf(c))
    BY <1>t, ChunkShape DEF ChunksOf
  <2>7. run'.out.has = {} => run'.snap = {}
    <3>1. ASSUME run'.out.has = {}, NEW c \in run.snap PROVE FALSE
      <4>1. Masters(run.got, salvaged)[TrackOf(c)] = {} BY <2>3, <2>6, <3>1
      <4> QED BY <4>1, <2>4, <2>5, <2>6
    <3> QED BY <3>1, <2>2
  <2>8. "encode" \notin hit' => run'.snap \subseteq run'.out.has
    <3>1. ASSUME "encode" \notin hit', NEW c \in run.snap PROVE c \in run'.out.has
      <4>1. salvaged = {} BY <2>3, <3>1
      <4>2. c \in Masters(run.got, salvaged)[TrackOf(c)] BY <2>4, <2>5, <2>6, <4>1
      <4> QED BY <2>3, <2>6, <4>2
    <3> QED BY <3>1, <2>2
  <2>9. \A t \in Tracks : status[t] = "PROCESSING" => t \in run'.todo BY <2>3, <2>4, <2>5
  <2>10. IsFinal(outputs)' => outputs'.has \subseteq run'.snap
    BY <2>1, <2>2 DEF Carried, Building, IsFinal
  <2> QED BY <2>1, <2>2, <2>3, <2>5, <2>7, <2>8, <2>9, <2>10, <1>h DEF Carried, Fetched
<1>6. CASE PublishTake
  <2>1. CASE run.out.has = {} BY <1>6, <2>1, <1>f, <1>i DEF PublishTake, JobDone
  <2>2. CASE run.out.has # {}
    <3>1. run.at = "ready" /\ Step("recount") /\ UNCHANGED status BY <1>6, <2>2 DEF PublishTake
    <3>2. run'.at = "recount" /\ run'.snap = run.snap /\ run'.out = run.out
      BY <3>1, <1>p, StepFields
    <3> QED BY <3>1, <3>2, <1>h DEF Carried, Building
  <2> QED BY <2>1, <2>2
<1>7. CASE \E t \in Tracks : FetchNothing(t)
  <2>1. PICK t \in Tracks : FetchNothing(t) BY <1>7
  <2>2. /\ run.at = "fetch" /\ ChunksOf(run.snap, t) = {} /\ UNCHANGED outputs
        /\ status' = [status EXCEPT ![t] = "FAILED"] /\ AfterFetch(t, {})
    BY <2>1 DEF FetchNothing
  <2>3. /\ run'.at \in {"preview", "build", "fetch"} /\ run'.snap = run.snap
        /\ run'.todo = run.todo \ {t} /\ run'.got = [run.got EXCEPT ![t] = {}]
    BY <2>2, AfterFetchFields
  <2>4. \A u \in Tracks : Fetched(u)' =>
          \/ Fetched(u) /\ run'.got[u] = run.got[u] /\ status'[u] = status[u]
          \/ u = t /\ status'[u] = "FAILED"
    BY <2>2, <2>3, <1>t DEF Fetched
  <2> QED BY <2>2, <2>3, <2>4, <1>g
<1>8. CASE \E t \in Tracks : FetchTrack(t) \/ FetchFails(t)
  <2>1. PICK t \in Tracks : FetchTrack(t) \/ FetchFails(t) BY <1>8
  <2>2. run.at = "fetch" /\ ToFetch(t) # {} /\ UNCHANGED outputs
    BY <2>1 DEF FetchTrack, FetchFails
  <2>3. segs \subseteq objects BY <2>2 DEF GoneInv, Gone, Deleting
  <2>4. ToFetch(t) \subseteq segs /\ ChunksOf(run.snap, t) \subseteq ToFetch(t)
    BY DEF ToFetch, Registered, ChunksOf
  <2>5. ToFetch(t) \cap objects = ToFetch(t) BY <2>3, <2>4
  <2>6. CASE FetchTrack(t)
    <3>1. status' = [status EXCEPT ![t] = "PROCESSING"] /\ AfterFetch(t, ToFetch(t))
      BY <2>5, <2>6 DEF FetchTrack
    <3>2. ToFetch(t) \in SUBSET Chunks BY <2>4 DEF TypeOK
    <3>3. /\ run'.at \in {"preview", "build", "fetch"} /\ run'.snap = run.snap
          /\ run'.todo = run.todo \ {t} /\ run'.got = [run.got EXCEPT ![t] = ToFetch(t)]
      BY <3>1, <3>2, AfterFetchFields
    <3>4. \A u \in Tracks : Fetched(u)' =>
            \/ Fetched(u) /\ run'.got[u] = run.got[u] /\ status'[u] = status[u]
            \/ u = t /\ status'[u] = "PROCESSING" /\ run'.got[u] = ToFetch(t)
      BY <3>1, <3>3, <1>t DEF Fetched
    <3> QED BY <2>2, <2>4, <3>3, <3>4, <1>g
  <2>7. CASE FetchFails(t)
    <3>1. ~Final BY <2>2, <2>5, <2>7, <1>n DEF FetchFails, Fault, Happened, OnLast
    <3> QED BY <2>7, <3>1, <1>f, <1>i DEF FetchFails
  <2> QED BY <2>1, <2>6, <2>7
<1>9. CASE \E t \in Tracks : SettleTrack(t)
  <2>1. PICK t \in Tracks : SettleTrack(t) BY <1>9
  <2>2. /\ run.at = "settle" /\ t \in run.todo /\ UNCHANGED outputs
        /\ status' = [status EXCEPT ![t] = "READY"]
    BY <2>1 DEF SettleTrack, Turn
  <2>3. PICK phase \in {"ready", "settle"} :
          /\ run' = [run EXCEPT !.todo = @ \ {t}, !.at = phase]
          /\ phase = "ready" => run.todo = {t}
    BY <2>1 DEF SettleTrack
  <2>4. /\ run'.at = phase /\ run'.snap = run.snap /\ run'.todo = run.todo \ {t}
        /\ run'.out = run.out
    BY <2>3, <1>t
  <2>5. \A u \in Tracks : \/ u = t /\ status'[u] = "READY"
                          \/ u # t /\ status'[u] = status[u]
    BY <2>2, <1>t
  <2>6. \A u \in Tracks : status'[u] = "PROCESSING" => u \in run'.todo
    BY <2>2, <2>4, <2>5 DEF Carried, Fetched
  <2>7. phase = "ready" => run'.todo = {} BY <2>3, <2>4
  <2>8. \A u \in Tracks : status'[u] = "UPLOADED" => ChunksOf(segs', u) # {}
    BY <2>2, <2>5, <1>h DEF Carried
  <2>9. /\ run'.out.has = {} => run'.snap = {}
        /\ "encode" \notin hit' => run'.snap \subseteq run'.out.has
        /\ IsFinal(outputs)' => outputs'.has \subseteq run'.snap
    BY <2>2, <2>4, <1>h DEF Carried, Building, IsFinal
  <2> QED BY <2>4, <2>6, <2>7, <2>8, <2>9 DEF Carried, Fetched
<1>10. CASE Recount
  <2>1. PICK phase \in {"reopen", "list", "finish"} : Step(phase) BY <1>10 DEF Recount
  <2> QED BY <2>1, <1>f, <1>p, StepFields
<1>11. CASE ReopenMissed \/ EnqueueMissed \/ DeleteChunks \/ MarkCleaned
  <2>1. PICK phase \in {"enqueue", "finish", "processed"} : Step(phase)
    BY <1>11 DEF ReopenMissed, EnqueueMissed, DeleteChunks, MarkCleaned
  <2> QED BY <2>1, <1>f, <1>p, StepFields
<1>12. CASE ListChunks
  <2>1. run'.at = "delete" BY <1>12, <1>t DEF ListChunks
  <2> QED BY <2>1, <1>f
<1>13. CASE FinishJob \/ RunFails \/ WorkerDies
  BY <1>13, <1>f, <1>i DEF FinishJob, JobDone, RunFails, WorkerDies
<1>14. CASE BuildFails
  <2>1. /\ run.at = "build" /\ run.got[Primary] # {} /\ UNCHANGED outputs
        /\ run' = [run EXCEPT !.at = "ready", !.got = NoChunks,
                              !.out = [kind |-> "salvage", has |-> run.got[Primary]]]
        /\ status' = [t \in Tracks |-> IF run.got[t] # {} THEN "FAILED" ELSE status[t]]
    BY <1>14 DEF BuildFails
  <2>2. "encode" \in hit' BY <1>14 DEF BuildFails, Fault, Happened
  <2>3. run'.at = "ready" /\ run'.snap = run.snap /\ run'.out.has = run.got[Primary]
    BY <2>1, <1>t
  <2>4. \A t \in Tracks :
          /\ status[t] = "PROCESSING" => run.got[t] # {}
          /\ status[t] = "UPLOADED" => ChunksOf(segs, t) # {}
    BY <2>1 DEF Carried, Finished, Fetched
  <2>5. \A t \in Tracks : /\ status'[t] # "PROCESSING"
                          /\ status'[t] = "UPLOADED" => ChunksOf(segs', t) # {}
    BY <2>1, <2>4, <1>h
  <2>6. IsFinal(outputs)' => outputs'.has \subseteq run'.snap
    BY <2>1, <2>3 DEF Carried, Building, IsFinal
  <2> QED BY <2>1, <2>2, <2>3, <2>5, <2>6 DEF Carried
<1>15. CASE JobStalled
  <2>1. UNCHANGED <<outputs, status, run>> BY <1>15 DEF JobStalled
  <2> QED BY <2>1, <1>h DEF Carried, Fetched, IsFinal
<1> QED BY <1>1, <1>2, <1>3, <1>4, <1>5, <1>6, <1>7, <1>8, <1>9, <1>10, <1>11, <1>12,
           <1>13, <1>14, <1>15 DEF RunStep

\* Requests never take back what happened.
LEMMA HitGrows ==
  ASSUME TakeInv, [Next]_vars, Sound'
  PROVE  hit \subseteq hit'
<1> Basics BY DEF TakeInv
<1>1. CASE UNCHANGED vars BY <1>1 DEF vars, world
<1>2. CASE \E r \in Requests : \/ RequestStep(r) \/ RequestDies(r)
                               \/ r \in Chunks /\ RegisterChunk(r)
                               \/ r \in Tracks /\ ReadForReport(r)
                               \/ r = Host /\ StopReads
  BY <1>2, RequestFrame
<1>3. CASE PickUp \/ RunStep \/ BuildFails \/ RunFails \/ WorkerDies \/ JobStalled
  BY <1>3, RunFrame
<1>4. CASE ReapTake \/ SweepStep \/ CleanerStep BY <1>4, SweepFrame
<1> QED BY <1>1, <1>2, <1>3, <1>4, StepKinds

LEMMA SoundStep == TakeInv /\ SoundInv /\ [Next]_vars => SoundInv'
<1> SUFFICES ASSUME TakeInv, SoundInv, [Next]_vars, Sound' PROVE GoneInv' /\ Waits' /\ Carried'
  BY DEF SoundInv
<1>1. TakeInv' BY TakeStep
<1>2. hit \subseteq hit' BY HitGrows
<1>3. GoneInv /\ Waits /\ Carried BY <1>2, StaysSound DEF SoundInv
<1>4. CASE UNCHANGED vars
  <2>1. GoneInv'
    BY <1>3, <1>4 DEF vars, rows, uploads, store, reqVars, others, world, GoneInv, Gone, Deleting,
                      ReopeningSession, ChunksOf
  <2>2. Waits' BY <1>3, <1>4 DEF vars, rows, reqVars, Waits, ReopeningSession
  <2>3. Carried'
    BY <1>3, <1>4 DEF vars, rows, uploads, store, world, Carried, Fetched, IsFinal, ChunksOf
  <2> QED BY <2>1, <2>2, <2>3
<1>5. CASE \E r \in Requests : \/ RequestStep(r) \/ RequestDies(r)
                               \/ r \in Chunks /\ RegisterChunk(r)
                               \/ r \in Tracks /\ ReadForReport(r)
                               \/ r = Host /\ StopReads
  BY <1>1, <1>3, <1>5, RequestSound
<1>6. CASE PickUp \/ RunStep \/ BuildFails \/ RunFails \/ WorkerDies \/ JobStalled
  BY <1>3, <1>6, RunGone, RunWaits, RunCarried
<1>7. CASE ReapTake \/ SweepStep \/ CleanerStep BY <1>1, <1>3, <1>7, SweepSound
<1> QED BY <1>4, <1>5, <1>6, <1>7, StepKinds

\* Whoever writes the outputs of a take.
LEMMA OutputsWriters ==
  ASSUME TakeInv, Next, outputs' # outputs
  PROVE  PutPreview \/ PublishTake
<1> USE DEF rows, uploads, store, reqVars, others, world
<1> Basics BY DEF TakeInv
<1>1. CASE \E r \in Requests : \/ RequestStep(r) \/ RequestDies(r)
                               \/ r \in Chunks /\ RegisterChunk(r)
                               \/ r \in Tracks /\ ReadForReport(r)
                               \/ r = Host /\ StopReads
  BY <1>1, RequestFrame
<1>2. CASE ReapTake \/ SweepStep \/ CleanerStep BY <1>2, SweepFrame
<1>3. CASE PickUp BY <1>3 DEF PickUp
<1>4. CASE BuildFails BY <1>4 DEF BuildFails
<1>5. CASE RunFails BY <1>5 DEF RunFails
<1>6. CASE WorkerDies BY <1>6 DEF WorkerDies
<1>7. CASE JobStalled BY <1>7 DEF JobStalled
<1>8. CASE Claim BY <1>8 DEF Claim
<1>9. CASE MarkProcessing BY <1>9 DEF MarkProcessing
<1>10. CASE BuildMasters BY <1>10 DEF BuildMasters
<1>11. CASE \E t \in Tracks : FetchNothing(t) \/ FetchTrack(t) \/ FetchFails(t) \/ SettleTrack(t)
  BY <1>11 DEF FetchNothing, FetchTrack, FetchFails, SettleTrack
<1>12. CASE Recount BY <1>12 DEF Recount
<1>13. CASE ReopenMissed BY <1>13 DEF ReopenMissed
<1>14. CASE EnqueueMissed BY <1>14 DEF EnqueueMissed
<1>15. CASE ListChunks BY <1>15 DEF ListChunks
<1>16. CASE DeleteChunks BY <1>16 DEF DeleteChunks
<1>17. CASE MarkCleaned BY <1>17 DEF MarkCleaned
<1>18. CASE FinishJob BY <1>18 DEF FinishJob
<1> QED BY <1>1, <1>2, <1>3, <1>4, <1>5, <1>6, <1>7, <1>8, <1>9, <1>10, <1>11, <1>12, <1>13,
           <1>14, <1>15, <1>16, <1>17, <1>18, StepKinds DEF RunStep

\* The preview goes up only where there was no video, and a video that replaces
\* another is made of what its run claimed, which the other was made of too.
LEMMA KeepsVideo ==
  ASSUME TakeInv, SoundInv, [Next]_vars, Sound'
  PROVE  Keeps(hit')
<1> Finished /\ TypeOK BY DEF TakeInv, Basics, TypeInv
<1>1. hit \subseteq hit' BY HitGrows
<1>2. Carried BY <1>1, StaysSound DEF SoundInv
<1>3. CASE outputs' = outputs BY <1>3 DEF Keeps, IsFinal
<1>4. CASE PutPreview
  <2>1. run.at = "preview" BY <1>4 DEF PutPreview
  <2>2. IsFinal(outputs) => run.hadFinal BY <2>1 DEF Finished
  <2>3. IsFinal(outputs) => outputs' = outputs BY <1>4, <2>2 DEF PutPreview
  <2> QED BY <2>3 DEF Keeps, IsFinal
<1>5. CASE PublishTake
  <2>1. run.at = "ready" BY <1>5 DEF PublishTake
  <2>2. /\ run.out.has = {} => run.snap = {}
        /\ "encode" \notin hit => run.snap \subseteq run.out.has
        /\ IsFinal(outputs) => outputs.has \subseteq run.snap
    BY <1>2, <2>1 DEF Carried, Building
  <2>3. ASSUME IsFinal(outputs)
        PROVE  IsFinal(outputs') /\ ("encode" \notin hit' => outputs.has \subseteq outputs'.has)
    <3>1. run.out.has # {} BY <2>2, <2>3 DEF Finished
    <3>2. outputs' = run.out BY <1>5, <3>1 DEF PublishTake
    <3>3. IsFinal(run.out) BY <2>1 DEF Finished
    <3> QED BY <1>1, <2>2, <2>3, <3>2, <3>3
  <2> QED BY <2>3 DEF Keeps
<1>6. outputs' # outputs => PutPreview \/ PublishTake BY OutputsWriters DEF vars
<1> QED BY <1>3, <1>4, <1>5, <1>6

\* As long as no straggler comes while chunks are being deleted, no request is
\* lost after its commit and no job is given up on, the video of a finished take
\* stays, and what replaces it has all that was in it, unless an encode failed
\* (finalizeScreenSession).
THEOREM FinishedVideoStays == Untimed => VideoKept
<1>1. Init => TakeInv /\ SoundInv BY TakeInit, SoundInit
<1>2. TakeInv /\ SoundInv /\ [Next]_vars => TakeInv' /\ SoundInv' BY TakeStep, SoundStep
<1>3. TakeInv /\ SoundInv /\ [Next]_vars => [Sound' => Keeps(hit')]_vars BY KeepsVideo
<1> QED BY <1>1, <1>2, <1>3, PTL DEF Untimed, VideoKept

-----------------------------------------------------------------------------
(* No chunk is forgotten: one that is not in the video of a settled take has *)
(* a request or a run that is still to see it.                              *)

Owed(c) ==
  \/ pc[c] \in {"arrived", "cleaned?", "reopen"} \/ ReopeningSession
  \/ run.at = "reopen" \/ (run.at = "recount" /\ c \notin run.snap)

Delivered ==
  /\ session \in Settled => \A c \in segs \ late : c \in outputs.has \/ Owed(c)
  /\ Deleting => segs \ late \subseteq outputs.has
  /\ \A t \in Tracks : ChunksOf(cleaned, t) # {} => ChunksOf(segs \ late, t) \subseteq outputs.has

OwedInv == Sound /\ "encode" \notin hit => Delivered

LEMMA OwedInit == Init => OwedInv
BY DEF Init, OwedInv, Delivered, Settled, Deleting, IdleRun, IdleCleaner, ChunksOf

\* Whoever waits for a chunk in a settled take, or is to look for it, is known.
LEMMA OwedWhileWaiting ==
  ASSUME TakeInv, Waits, Carried, "encode" \notin hit, session \in Settled,
         NEW c \in Chunks, status[TrackOf(c)] \notin Settled
  PROVE  \/ ReopeningSession \/ run.at = "reopen"
         \/ run.at = "recount" /\ (c \in outputs.has \/ c \notin run.snap)
<1>1. TrackOf(c) \in Tracks BY ChunkShape
<1>2. ReopeningSession \/ run.at \in {"recount", "reopen"} BY <1>1 DEF Waits
<1>3. run.at = "recount" => run.snap \subseteq outputs.has BY DEF TakeInv, Finished, Carried
<1> QED BY <1>2, <1>3

\* A request leaves a chunk behind only when it is in the video, or when
\* somebody else is to look for it.
LEMMA RequestOwed ==
  ASSUME TakeInv, GoneInv, Waits, Carried, Delivered, Sound', "encode" \notin hit',
         NEW r \in Requests,
         \/ RequestStep(r)
         \/ RequestDies(r)
         \/ r \in Chunks /\ RegisterChunk(r)
         \/ r \in Tracks /\ ReadForReport(r)
         \/ r = Host /\ StopReads
  PROVE  Delivered'
<1> USE DEF rows, uploads, store, reqVars, others, world, Goto, Return, Keep
<1> Basics /\ Registered /\ Finished /\ Completed /\ TypeOK
  BY DEF TakeInv, Basics, TypeInv
<1>t. pc \in [Requests -> ReqPhases] /\ Chunks \subseteq Requests BY DEF TypeOK, Requests
<1>f. /\ UNCHANGED <<outputs, run, cleaned, sweep, cleaner>>
      /\ segs \subseteq segs' /\ hit \subseteq hit'
      /\ session' \in {session, "STOPPED"}
      /\ \A t \in Tracks : status'[t] \in {status[t], "UPLOADED"}
      /\ \E phase \in ReqPhases : pc' = [pc EXCEPT ![r] = phase]
  BY RequestFrame
<1>m. /\ r \in Chunks /\ pc[r] = "session" => session' \notin Settled \/ "api" \in hit'
      /\ r \in Chunks /\ pc'[r] = "session" => Reopens(r)
      /\ (r \in Chunks /\ RegisterChunk(r)) \/ UNCHANGED <<uploads, objects>>
  BY RequestMoves
<1>n. "api" \notin hit' /\ "encode" \notin hit BY <1>f DEF Sound
<1>o. \A c \in Chunks : c # r => pc'[c] = pc[c] BY <1>f, <1>t
<1>s. session' \in Settled => session' = session BY <1>f DEF Settled
\* A request that does nothing to the chunks has to say where its own stands.
<1>g. ASSUME UNCHANGED <<uploads, objects>>,
             session' \in Settled /\ r \in segs \ late /\ r \in Chunks =>
               r \in outputs.has \/ Owed(r)'
      PROVE  Delivered'
  <2>1. Deleting' => Deleting BY <1>f, <1>g DEF Deleting
  <2>2. ASSUME session' \in Settled, NEW c \in segs \ late, c \notin outputs.has
        PROVE  Owed(c)'
    <3>1. c \in outputs.has \/ Owed(c) BY <2>2, <1>s DEF Delivered
    <3>2. ReopeningSession => ReopeningSession'
      BY <2>2, <1>m, <1>n, <1>o DEF ReopeningSession
    <3>3. c \in Chunks BY DEF TypeOK
    <3>4. CASE c = r BY <3>3, <3>4, <2>2, <1>g
    <3>5. CASE c # r BY <2>2, <3>1, <3>2, <3>3, <3>5, <1>o, <1>f DEF Owed
    <3> QED BY <3>4, <3>5
  <2> QED BY <2>1, <2>2, <1>f, <1>g DEF Delivered, ChunksOf
\* ... which is easy when it was not about to look after it.
<1>h. ASSUME UNCHANGED <<uploads, objects>>, pc[r] \notin {"arrived", "cleaned?", "reopen"}
      PROVE  Delivered'
  <2>1. ASSUME session' \in Settled, r \in segs \ late, r \in Chunks, r \notin outputs.has
        PROVE  Owed(r)'
    <3>1. Owed(r) BY <2>1, <1>s DEF Delivered
    <3>2. ReopeningSession => ReopeningSession'
      BY <2>1, <1>m, <1>n, <1>o DEF ReopeningSession
    <3> QED BY <3>1, <3>2, <1>h, <1>f DEF Owed
  <2> QED BY <1>g, <1>h, <2>1
\* It may also leave a chunk whose track waits already.
<1>w. ASSUME UNCHANGED <<uploads, objects, session>>, r \in Chunks,
             status[TrackOf(r)] \notin Settled, pc[r] # "session"
      PROVE  Delivered'
  <2>1. ASSUME session \in Settled, r \notin outputs.has PROVE Owed(r)'
    <3>1. ReopeningSession \/ run.at = "reopen" \/ (run.at = "recount" /\ r \notin run.snap)
      BY <2>1, <1>w, <1>n, OwedWhileWaiting
    <3>2. ReopeningSession => ReopeningSession' BY <1>w, <1>o DEF ReopeningSession
    <3> QED BY <3>1, <3>2, <1>f DEF Owed
  <2> QED BY <1>g, <1>w, <2>1
<1>1. CASE r \in Chunks /\ RegisterChunk(r)
  <2>1. ~Deleting BY <1>1, NotRaced DEF RegisterChunk
  <2>2. /\ segs' = segs \cup {r} /\ objects' = objects \cup {r} /\ pc[r] = "idle"
        /\ pc' = [pc EXCEPT ![r] = "arrived"] /\ UNCHANGED session
        /\ late' = IF ChunksOf(cleaned, TrackOf(r)) # {} THEN late \cup {r} ELSE late
    BY <1>1 DEF RegisterChunk
  <2>3. ~Deleting' BY <2>1, <2>2, <1>f DEF Deleting
  <2>4. segs' \ late' \subseteq (segs \ late) \cup {r} BY <2>2
  <2>5. pc'[r] = "arrived" BY <2>2, <1>t
  <2>6. ReopeningSession => ReopeningSession' BY <2>2, <1>o DEF ReopeningSession
  <2>7. ASSUME session' \in Settled, NEW c \in segs' \ late' PROVE c \in outputs'.has \/ Owed(c)'
    <3>1. CASE c = r BY <3>1, <2>5 DEF Owed
    <3>2. CASE c # r
      <4>1. c \in outputs.has \/ Owed(c) BY <2>4, <2>7, <3>2, <1>s DEF Delivered
      <4>2. c \in Chunks BY <2>4, <2>7, <3>2 DEF TypeOK
      <4> QED BY <3>2, <4>1, <4>2, <2>6, <1>f, <1>o DEF Owed
    <3> QED BY <3>1, <3>2
  <2>8. ASSUME NEW t \in Tracks, ChunksOf(cleaned, t) # {}, NEW c \in ChunksOf(segs' \ late', t)
        PROVE  c \in outputs.has
    <3>1. c # r BY <2>2, <2>8 DEF ChunksOf
    <3>2. c \in ChunksOf(segs \ late, t) BY <2>4, <2>8, <3>1 DEF ChunksOf
    <3> QED BY <2>8, <3>2 DEF Delivered
  <2> QED BY <2>3, <2>7, <2>8, <1>f DEF Delivered
<1>2. CASE r \in Chunks /\ ChunkArrived(r)
  <2>0. pc[r] = "arrived" /\ UNCHANGED <<uploads, objects, session>> BY <1>2 DEF ChunkArrived
  <2>1. CASE ~isComplete[TrackOf(r)]
    <3>1. session' \notin Settled
      BY <2>0, <2>1, ChunkShape, <1>2 DEF Completed, Begun, Settled
    <3> QED BY <2>0, <3>1, <1>g
  <2>2. CASE isComplete[TrackOf(r)] /\ status[TrackOf(r)] \in Settled
    <3>1. pc' = [pc EXCEPT ![r] = "cleaned?"] BY <1>2, <2>2 DEF ChunkArrived, Settled
    <3>2. pc'[r] = "cleaned?" BY <3>1, <1>t
    <3> QED BY <2>0, <3>2, <1>g DEF Owed
  <2>3. CASE isComplete[TrackOf(r)] /\ status[TrackOf(r)] \notin Settled
    BY <1>2, <2>0, <2>3, <1>w
  <2> QED BY <2>1, <2>2, <2>3
<1>3. CASE r \in Chunks /\ CheckCleaned(r)
  <2>0. UNCHANGED <<uploads, objects, session>> /\ TrackOf(r) \in Tracks
    BY <1>3, ChunkShape DEF CheckCleaned
  <2>1. CASE ChunksOf(cleaned, TrackOf(r)) # {}
    <3>1. r \in segs \ late => r \in outputs.has BY <2>0, <2>1 DEF Delivered, ChunksOf
    <3> QED BY <2>0, <3>1, <1>g
  <2>2. CASE ChunksOf(cleaned, TrackOf(r)) = {}
    <3>1. pc' = [pc EXCEPT ![r] = "reopen"] BY <1>3, <2>2 DEF CheckCleaned
    <3>2. pc'[r] = "reopen" BY <3>1, <1>t
    <3> QED BY <2>0, <3>2, <1>g DEF Owed
  <2> QED BY <2>1, <2>2
<1>4. CASE r \in Chunks /\ ReopenTrack(r)
  <2>0. UNCHANGED <<uploads, objects, session>> /\ pc[r] = "reopen" BY <1>4 DEF ReopenTrack
  <2>1. CASE status[TrackOf(r)] \in Settled
    <3>1. pc' = [pc EXCEPT ![r] = "session"] BY <1>4, <2>1 DEF ReopenTrack, Settled
    <3>2. pc'[r] = "session" BY <3>1, <1>t
    <3> QED BY <2>0, <3>2, <1>4, <1>g DEF Owed, ReopeningSession
  <2>2. CASE status[TrackOf(r)] \notin Settled BY <1>4, <2>0, <2>2, <1>w
  <2> QED BY <2>1, <2>2
<1>5. CASE r \in Chunks /\ ReopenSession(r) BY <1>5, <1>h DEF ReopenSession
<1>6. CASE r \in Tracks /\ ReadForReport(r) BY <1>6, <1>h DEF ReadForReport
<1>7. CASE r \in Tracks /\ MarkRecordingComplete(r) BY <1>7, <1>h DEF MarkRecordingComplete
<1>8. CASE r # Host /\ TryComplete(r) BY <1>8, <1>h DEF TryComplete
<1>9. CASE r # Host /\ FlipComplete(r) BY <1>9, <1>h DEF FlipComplete
<1>10. CASE r = Host /\ StopReads BY <1>10, <1>h DEF StopReads
<1>11. CASE r = Host /\ StopWrites BY <1>11, <1>h DEF StopWrites
<1>12. CASE MaybeFinalize(r) BY <1>12, <1>h DEF MaybeFinalize
<1>13. CASE EnqueueFinalize(r) BY <1>13, <1>h DEF EnqueueFinalize
<1>14. CASE RequestDies(r) BY <1>14, <1>n DEF RequestDies, Fault, Happened
<1> QED BY <1>1, <1>2, <1>3, <1>4, <1>5, <1>6, <1>7, <1>8, <1>9, <1>10, <1>11, <1>12,
           <1>13, <1>14 DEF RequestStep

LEMMA SweepOwed ==
  ASSUME TakeInv, Delivered, Sound', ReapTake \/ SweepStep \/ CleanerStep
  PROVE  Delivered'
<1> USE DEF rows, uploads, store, reqVars, others, world
<1> Basics /\ Registered /\ TypeOK BY DEF TakeInv, Basics, TypeInv
<1>f. /\ UNCHANGED <<outputs, run, segs, late, pc>> /\ hit \subseteq hit'
      /\ session' = session \/ (session = "ACTIVE" /\ session' = "STOPPED")
  <2>1. "givenUp" \notin hit' BY DEF Sound
  <2> QED BY <2>1, SweepFrame
<1>1. session' \in Settled => \A c \in segs' \ late' : c \in outputs'.has \/ Owed(c)'
  BY <1>f DEF Delivered, Owed, ReopeningSession, Settled
\* The chunks to delete are those of a take at rest.
<1>2. Deleting' => segs' \ late' \subseteq outputs'.has
  <2>1. ASSUME UNCHANGED <<cleaned, objects, cleaner>> PROVE Deleting' => Deleting
    BY <2>1, <1>f DEF Deleting
  <2>2. CASE ReapTake BY <2>1, <2>2, <1>f DEF ReapTake, Delivered
  <2>3. CASE SweepStep
    <3>1. UNCHANGED <<cleaned, objects, cleaner>>
      BY <2>3 DEF SweepStep, ForceReads, ForceCompletes, SweepMaybeFinalizes, RecoverTake, SweepEnqueues
    <3> QED BY <2>1, <3>1, <1>f DEF Delivered
  <2>4. CASE \E t \in Tracks : CleanerLists(t)
    <3>1. run.at = "idle" /\ InFlight = {} /\ session \in Settled
      BY <2>4 DEF CleanerLists, AtRest
    <3>2. \A c \in Chunks : pc[c] \in {"idle", "done"} BY <3>1 DEF InFlight, Requests
    <3>3. \A c \in Chunks : ~Owed(c) BY <3>1, <3>2 DEF Owed, ReopeningSession
    <3>4. segs \ late \subseteq outputs.has BY <3>1, <3>3 DEF Delivered, TypeOK
    <3> QED BY <3>4, <1>f
  <2>5. CASE CleanerDeletes \/ CleanerMarks
    <3>1. Deleting BY <2>5 DEF CleanerDeletes, CleanerMarks, Deleting
    <3> QED BY <3>1, <1>f DEF Delivered
  <2> QED BY <2>2, <2>3, <2>4, <2>5 DEF CleanerStep
<1>3. \A t \in Tracks : ChunksOf(cleaned', t) # {} => ChunksOf(segs' \ late', t) \subseteq outputs'.has
  <2>1. CASE cleaned' = cleaned BY <2>1, <1>f DEF Delivered, ChunksOf
  <2>2. CASE CleanerMarks
    <3>1. segs \ late \subseteq outputs.has BY <2>2 DEF CleanerMarks, Deleting, Delivered
    <3> QED BY <3>1, <1>f DEF ChunksOf
  <2>3. CASE ~CleanerMarks
    <3>1. cleaned' = cleaned
      BY <2>3 DEF ReapTake, SweepStep, ForceReads, ForceCompletes, SweepMaybeFinalizes,
                  RecoverTake, SweepEnqueues, CleanerStep, CleanerLists, CleanerDeletes
    <3> QED BY <2>1, <3>1
  <2> QED BY <2>2, <2>3
<1> QED BY <1>1, <1>2, <1>3 DEF Delivered

\* A run publishes all it claimed, and re-opens the take for what it missed.
LEMMA RunOwed ==
  ASSUME TakeInv, GoneInv, Waits, Carried, Delivered, Sound', "encode" \notin hit',
         PickUp \/ RunStep \/ BuildFails \/ RunFails \/ WorkerDies \/ JobStalled
  PROVE  Delivered'
<1> USE DEF rows, uploads, store, reqVars, others, world
<1> Basics /\ Registered /\ Finished /\ TypeOK BY DEF TakeInv, Basics, TypeInv
<1>p. \A phase \in {"idle", "claim", "mark", "fetch", "preview", "build", "settle",
                    "ready", "recount", "reopen", "enqueue", "list", "delete",
                    "processed", "finish"} : phase \in RunPhases
  BY DEF RunPhases
<1>h. hit \subseteq hit' /\ UNCHANGED <<segs, late, pc, cleaner>> BY RunFrame
<1>n. "givenUp" \notin hit' /\ "unchecked" \notin hit' /\ "encode" \notin hit BY <1>h DEF Sound
<1>i. IdleRun.at = "idle" BY DEF IdleRun
<1>b. run.at \in Building => session \notin Settled BY DEF Finished, Building, Settled
\* A step that leaves the take as it is, and is not one of those that look for
\* what the run missed.
<1>f. ASSUME UNCHANGED <<session, outputs, cleaned, objects>>,
             run' = run \/ run.at \notin {"recount", "reopen"},
             run'.at \in {"list", "delete", "processed"} => Deleting
      PROVE  Delivered'
  <2>1. Deleting' => Deleting BY <1>f, <1>h DEF Deleting
  <2>2. \A c : Owed(c) => Owed(c)' BY <1>f, <1>h DEF Owed, ReopeningSession
  <2> QED BY <2>1, <2>2, <1>f, <1>h DEF Delivered, ChunksOf
\* A step of a run before chunks are deleted.
<1>g. ASSUME UNCHANGED <<cleaned, objects>>,
             run.at \in Building \cup {"mark", "recount", "reopen", "enqueue"},
             run'.at \notin {"list", "delete", "processed"},
             session' \in Settled => \A c \in segs \ late : c \in outputs'.has \/ Owed(c)'
      PROVE  Delivered'
  <2>1. ~Gone BY <1>g DEF GoneInv, Building
  <2>2. ~Deleting' BY <2>1, <1>g, <1>h DEF Gone, Deleting
  <2>3. \A t \in Tracks : ChunksOf(cleaned', t) = {} BY <2>1, <1>g DEF Gone, ChunksOf
  <2> QED BY <2>2, <2>3, <1>g, <1>h DEF Delivered
\* A step while chunks are deleted.
<1>d. ASSUME Deleting, UNCHANGED outputs PROVE Delivered'
  <2>1. segs \ late \subseteq outputs.has BY <1>d DEF Delivered
  <2> QED BY <2>1, <1>d, <1>h DEF Delivered, ChunksOf
<1>1. CASE PickUp
  <2>1. run.at = "idle" /\ Step("claim") /\ UNCHANGED <<session, outputs, cleaned, objects>>
    BY <1>1 DEF PickUp
  <2> QED BY <2>1, <1>f, <1>p, StepFields
<1>2. CASE Claim
  <2>1. run'.at \in {"mark", "idle"} BY <1>2, <1>i DEF Claim, JobDone, TypeOK
  <2> QED BY <1>2, <2>1, <1>f DEF Claim
<1>3. CASE MarkProcessing
  <2>1. run'.at = "fetch" BY <1>3, <1>p, StepFields DEF MarkProcessing
  <2> QED BY <1>3, <2>1, <1>g DEF MarkProcessing, Settled
<1>4. CASE PutPreview
  <2>1. run'.at \in {"build", "fetch"} BY <1>4 DEF PutPreview, TypeOK
  <2>2. run.at \in Building BY <1>4 DEF PutPreview, Building
  <2> QED BY <1>4, <2>1, <2>2, <1>b, <1>g DEF PutPreview
<1>5. CASE BuildMasters
  <2>1. run'.at \in {"ready", "settle"} BY <1>5, BuildFields
  <2>2. run.at \in Building BY <1>5 DEF BuildMasters, Building
  <2> QED BY <1>5, <2>1, <2>2, <1>b, <1>g DEF BuildMasters
<1>6. CASE PublishTake
  <2>0. run.at = "ready" /\ UNCHANGED <<cleaned, objects>> BY <1>6 DEF PublishTake
  <2>1. CASE run.out.has = {}
    <3>1. ~(segs # run.snap) BY <1>6, <2>1, NotRaced DEF PublishTake
    <3>2. segs = {} BY <2>0, <2>1, <3>1 DEF Carried
    <3>3. run'.at = "idle" BY <1>6, <2>1, <1>i DEF PublishTake, JobDone
    <3> QED BY <2>0, <3>2, <3>3, <1>g DEF Building
  <2>2. CASE run.out.has # {}
    <3>1. Step("recount") /\ outputs' = run.out BY <1>6, <2>2 DEF PublishTake
    <3>2. run'.at = "recount" /\ run'.snap = run.snap BY <3>1, <1>p, StepFields
    <3>3. run.snap \subseteq outputs'.has BY <2>0, <3>1, <1>n DEF Carried
    <3>4. \A c \in segs \ late : c \in outputs'.has \/ Owed(c)' BY <3>2, <3>3 DEF Owed
    <3> QED BY <2>0, <3>2, <3>4, <1>g DEF Building
  <2> QED BY <2>1, <2>2
<1>7. CASE \E t \in Tracks : FetchNothing(t) \/ FetchTrack(t) \/ FetchFails(t)
  <2>1. PICK t \in Tracks : FetchNothing(t) \/ FetchTrack(t) \/ FetchFails(t) BY <1>7
  <2>2. run.at = "fetch" /\ UNCHANGED <<session, cleaned, objects>>
    BY <2>1 DEF FetchNothing, FetchTrack, FetchFails
  <2>3. run' = IdleRun \/ \E got \in SUBSET Chunks : AfterFetch(t, got)
    <3>1. ToFetch(t) \cap objects \subseteq Chunks BY DEF TypeOK
    <3> QED BY <2>1, <3>1 DEF FetchNothing, FetchTrack, FetchFails
  <2>4. run'.at \in {"idle", "preview", "build", "fetch"} BY <2>3, <1>i, AfterFetchFields
  <2> QED BY <2>2, <2>4, <1>b, <1>g DEF Building
<1>8. CASE \E t \in Tracks : SettleTrack(t)
  <2>1. PICK t \in Tracks : SettleTrack(t) BY <1>8
  <2>2. PICK phase \in {"ready", "settle"} : run' = [run EXCEPT !.todo = @ \ {t}, !.at = phase]
    BY <2>1 DEF SettleTrack
  <2>3. run'.at \in {"ready", "settle"} BY <2>2 DEF TypeOK
  <2>4. run.at \in Building BY <2>1 DEF SettleTrack, Building
  <2> QED BY <2>1, <2>3, <2>4, <1>b, <1>g DEF SettleTrack
<1>9. CASE Recount
  <2>0. run.at = "recount" /\ UNCHANGED <<session, outputs, cleaned, objects>> BY <1>9 DEF Recount
  <2>1. CASE segs # run.snap
    <3>1. run'.at = "reopen" BY <1>9, <2>1, <1>p, StepFields DEF Recount
    <3> QED BY <2>0, <3>1, <1>g DEF Owed
  <2>2. CASE segs = run.snap
    <3>1. segs \subseteq outputs.has BY <2>0, <2>2, <1>n DEF Carried, Finished
    <3> QED BY <2>0, <3>1, <1>h DEF Delivered, ChunksOf
  <2> QED BY <2>1, <2>2
<1>10. CASE ReopenMissed
  <2>1. run'.at \in {"enqueue", "finish"} BY <1>10, <1>p, StepFields DEF ReopenMissed
  <2>2. session' \notin Settled BY <1>10 DEF ReopenMissed, Settled
  <2>3. run.at = "reopen" /\ UNCHANGED <<cleaned, objects>> BY <1>10 DEF ReopenMissed
  <2> QED BY <2>1, <2>2, <2>3, <1>g
<1>11. CASE EnqueueMissed
  <2>1. run'.at = "finish" BY <1>11, <1>p, StepFields DEF EnqueueMissed
  <2> QED BY <1>11, <2>1, <1>f DEF EnqueueMissed
<1>12. CASE ListChunks \/ DeleteChunks \/ MarkCleaned
  <2>1. Deleting /\ UNCHANGED outputs BY <1>12 DEF ListChunks, DeleteChunks, MarkCleaned, Deleting
  <2> QED BY <2>1, <1>d
<1>13. CASE FinishJob BY <1>13, <1>f, <1>i DEF FinishJob, JobDone
<1>14. CASE BuildFails BY <1>14 DEF BuildFails, Fault, Happened
<1>15. CASE RunFails
  <2>1. ~Final BY <1>15, <1>n DEF RunFails, Fault, Happened, OnLast
  <2> QED BY <1>15, <2>1, <1>f, <1>i DEF RunFails
<1>16. CASE WorkerDies
  <2>1. run.at \notin {"recount", "reopen"} BY <1>16, <1>n DEF WorkerDies, Fault, Happened
  <2> QED BY <1>16, <2>1, <1>f, <1>i DEF WorkerDies
<1>17. CASE JobStalled
  <2>1. UNCHANGED <<session, outputs, cleaned, objects, run>> BY <1>17 DEF JobStalled
  <2> QED BY <2>1, <1>f DEF Deleting
<1> QED BY <1>1, <1>2, <1>3, <1>4, <1>5, <1>6, <1>7, <1>8, <1>9, <1>10, <1>11, <1>12,
           <1>13, <1>14, <1>15, <1>16, <1>17 DEF RunStep

LEMMA OwedStep == TakeInv /\ SoundInv /\ OwedInv /\ [Next]_vars => OwedInv'
<1> SUFFICES ASSUME TakeInv, SoundInv, OwedInv, [Next]_vars, Sound', "encode" \notin hit'
             PROVE  Delivered'
  BY DEF OwedInv
<1>1. hit \subseteq hit' BY HitGrows
<1>2. GoneInv /\ Waits /\ Carried /\ Delivered BY <1>1, StaysSound DEF SoundInv, OwedInv
<1>3. CASE UNCHANGED vars
  BY <1>2, <1>3 DEF vars, rows, uploads, store, reqVars, others, Delivered, Owed, Deleting,
                    ReopeningSession, ChunksOf
<1>4. CASE \E r \in Requests : \/ RequestStep(r) \/ RequestDies(r)
                               \/ r \in Chunks /\ RegisterChunk(r)
                               \/ r \in Tracks /\ ReadForReport(r)
                               \/ r = Host /\ StopReads
  BY <1>2, <1>4, RequestOwed
<1>5. CASE PickUp \/ RunStep \/ BuildFails \/ RunFails \/ WorkerDies \/ JobStalled
  BY <1>2, <1>5, RunOwed
<1>6. CASE ReapTake \/ SweepStep \/ CleanerStep BY <1>2, <1>6, SweepOwed
<1> QED BY <1>3, <1>4, <1>5, <1>6, StepKinds

\* As long as nothing of that happens and no encode fails, every registered
\* chunk of a take that has settled and is at rest is in its video, unless it
\* came after the chunks of its track were deleted (onSegmentArrived,
\* finalizeScreenSession, deleteTrackChunks).
THEOREM NoChunkOfTakeForgotten == Untimed => []NothingForgotten
<1>1. Init => TakeInv /\ SoundInv /\ OwedInv BY TakeInit, SoundInit, OwedInit
<1>2. TakeInv /\ SoundInv /\ OwedInv /\ [Next]_vars => TakeInv' /\ SoundInv' /\ OwedInv'
  BY TakeStep, SoundStep, OwedStep
<1>3. TakeInv /\ OwedInv => NothingForgotten
  <2> SUFFICES ASSUME TakeInv, OwedInv, session \in Settled, AtRest, Sound, "encode" \notin hit
               PROVE  segs \ late \subseteq outputs.has
    BY DEF NothingForgotten
  <2>1. run.at = "idle" /\ InFlight = {} BY DEF AtRest
  <2>2. \A c \in Chunks : pc[c] \in {"idle", "done"} BY <2>1 DEF InFlight, Requests
  <2>3. \A c \in Chunks : ~Owed(c) BY <2>1, <2>2 DEF Owed, ReopeningSession
  <2>4. segs \subseteq Chunks BY DEF TakeInv, Basics, TypeInv, TypeOK
  <2> QED BY <2>3, <2>4 DEF OwedInv, Delivered
<1> QED BY <1>1, <1>2, <1>3, PTL DEF Untimed
====
