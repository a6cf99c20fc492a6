------------------------ MODULE TrackFinalize_proofs ------------------------
(***************************************************************************)
(* Theorems about TrackFinalize, for any number of chunks, tabs, rejoins   *)
(* and runs and any budget of faults.  Each part has its own inductive     *)
(* invariant and takes only the kinds of fault away that would break it:   *)
(* MasterInv none, LockInv a lost lock, SettleInv the failing queries of a *)
(* run that settles, EndedInv the stale writes; ChunkInv leaves only a     *)
(* storage that recovers before the attempts of a job are used up.         *)
(***************************************************************************)
EXTENDS TrackFinalize, FiniteSetTheorems, WellFoundedInduction, TLAPS

-----------------------------------------------------------------------------
(* The operators the handlers are built from.                              *)

\* A non-empty set of chunks has a largest sequence number.
LEMMA LargestChunk ==
  ASSUME NEW S \in SUBSET Chunks, S # {}
  PROVE  \E c \in S : \A d \in S : d <= c
<1>0. NumChunks \in Nat BY CountsAssumption
<1> DEFINE T == {NumChunks - c : c \in S}
<1>1. T \subseteq Nat /\ T # {}
  <2>1. \A c \in S : NumChunks - c \in Nat BY <1>0 DEF Chunks
  <2> QED BY <2>1
<1>2. \E x \in T : \A y \in T : ~ (<<y, x>> \in OpToRel(<, Nat))
  BY <1>1, NatLessThanWellFounded, WFMin, Zenon
<1>3. PICK x \in T : \A y \in T : ~(y < x)
  BY <1>1, <1>2 DEF OpToRel
<1>4. PICK c \in S : x = NumChunks - c OBVIOUS
<1>5. ASSUME NEW d \in S PROVE d <= c
  <2>1. ~(NumChunks - d < NumChunks - c) BY <1>3, <1>4
  <2>2. c \in Nat /\ d \in Nat BY DEF Chunks
  <2> QED BY <1>0, <2>1, <2>2
<1> QED BY <1>5

\* What the recovery sweep expects of a track is a count of its chunks.
LEMMA ObservedIsCount ==
  ASSUME NEW S \in SUBSET Chunks
  PROVE  ObservedExpected(S) \in Counts
<1>0. NumChunks \in Nat BY CountsAssumption
<1>1. CASE S = {} BY <1>0, <1>1 DEF ObservedExpected, Counts
<1>2. CASE S # {}
  <2> DEFINE top == CHOOSE c \in S : \A d \in S : d <= c
  <2>1. top \in S BY <1>2, LargestChunk
  <2>2. top \in 0 .. NumChunks - 1 BY <2>1 DEF Chunks
  <2>3. top + 1 \in Counts BY <1>0, <2>2 DEF Counts
  <2> QED BY <1>2, <2>3 DEF ObservedExpected
<1> QED BY <1>1, <1>2

-----------------------------------------------------------------------------
(* Type correctness.                                                       *)

LEMMA EnqueueType ==
  ASSUME TypeOK, Enqueue
  PROVE  /\ job' \in JobStates /\ owner' \in Runs \cup {None}
         /\ attempts' \in 0 .. Attempts /\ stalls' \in {0, 1}
BY CountsAssumption DEF TypeOK, Enqueue, JobStates, jobVars

LEMMA FailTrackType ==
  ASSUME TypeOK, NEW h \in BOOLEAN, FailTrack(h)
  PROVE  status' \in Statuses /\ output' \in {"none", "READY", "FAILED"}
BY DEF TypeOK, FailTrack, Statuses

LEMMA MaybeFinalizeType ==
  ASSUME TypeOK, MaybeFinalize
  PROVE  /\ status' \in Statuses /\ output' \in {"none", "READY", "FAILED"}
         /\ job' \in JobStates /\ owner' \in Runs \cup {None}
         /\ attempts' \in 0 .. Attempts /\ stalls' \in {0, 1}
<1> USE DEF MaybeFinalize
<1>1. CASE Enqueue /\ UNCHANGED <<status, output>>
  BY <1>1, EnqueueType DEF TypeOK
<1>2. CASE FailTrack(master # {}) /\ UNCHANGED jobVars
  BY <1>2, FailTrackType DEF TypeOK, jobVars
<1>3. CASE UNCHANGED <<status, output, jobVars>>
  BY <1>3 DEF TypeOK, jobVars
<1> QED BY <1>1, <1>2, <1>3

LEMMA FaultsType ==
  ASSUME TypeOK, NEW k \in FaultKinds, Spend(k)
  PROVE  faults' \in [FaultKinds -> Nat]
BY DEF TypeOK, Spend

LEMMA GotoType ==
  ASSUME TypeOK, NEW r \in Requests, NEW p \in ReqPhases, Goto(r, p)
  PROVE  pc' \in [Requests -> ReqPhases]
BY DEF TypeOK, Goto

LEMMA ReturnType ==
  ASSUME TypeOK, NEW r \in Requests, Return(r)
  PROVE  /\ pc' \in [Requests -> ReqPhases]
         /\ seen' \in [Requests -> [status : Statuses, isComplete : BOOLEAN,
                                    expected : Counts \cup {None}]]
BY DEF TypeOK, Return, Goto, ReqPhases, Nothing, Statuses

LEMMA KeepType ==
  ASSUME TypeOK, NEW r \in Requests, NEW p \in ReqPhases, Keep(r, p)
  PROVE  /\ pc' \in [Requests -> ReqPhases]
         /\ seen' \in [Requests -> [status : Statuses, isComplete : BOOLEAN,
                                    expected : Counts \cup {None}]]
BY DEF TypeOK, Keep, Goto, TheRow

LEMMA StepType ==
  ASSUME TypeOK, NEW w \in Runs, NEW p \in RunPhases, Step(w, p)
  PROVE  rpc' \in [Runs -> RunPhases]
BY DEF TypeOK, Step

LEMMA EndRunType ==
  ASSUME TypeOK, NEW w \in Runs, EndRun(w)
  PROVE  /\ rpc' \in [Runs -> RunPhases]
         /\ claimed' \in [Runs -> SUBSET Chunks] /\ parts' \in [Runs -> SUBSET Chunks]
         /\ had' \in [Runs -> BOOLEAN] /\ rerun' \in [Runs -> BOOLEAN]
BY DEF TypeOK, EndRun, Step, RunPhases

\* A job that will still run has attempts left; only an active job has an owner.
JobOK ==
  /\ job \in {"queued", "active"} => attempts < Attempts
  /\ owner # None => job = "active"

LEMMA InitType == Init => TypeOK /\ JobOK
<1> SUFFICES ASSUME Init PROVE TypeOK /\ JobOK OBVIOUS
<1>1. 0 \in 0 .. Attempts /\ 0 < Attempts BY CountsAssumption
<1> QED
  BY <1>1, FaultsAssumption
  DEF Init, TypeOK, Statuses, JobStates, ReqPhases, RunPhases, Nothing,
      IdleSweep, IdleCleaner, JobOK

LEMMA ChunkTypes ==
  ASSUME TypeOK, NEW c \in Chunks, PutChunk(c) \/ ChunkSteps(c)
  PROVE  TypeOK'
<1> USE DEF row, store, result, jobVars, reqVars, runVars, sweepers
<1>0. c \in Requests BY DEF Requests
<1>1. CASE PutChunk(c)
  BY <1>0, <1>1, GotoType DEF PutChunk, TypeOK, ReqPhases
<1>2. CASE RegisterChunk(c)
  BY <1>0, <1>2, GotoType DEF RegisterChunk, TypeOK, ReqPhases
<1>3. CASE ChunkArrived(c)
  <2>1. pc' \in [Requests -> ReqPhases]
    BY <1>0, <1>3, GotoType, KeepType, ReturnType DEF ChunkArrived, ReqPhases
  <2>2. seen' \in [Requests -> [status : Statuses, isComplete : BOOLEAN,
                               expected : Counts \cup {None}]]
    BY <1>0, <1>3, KeepType, ReturnType DEF ChunkArrived, ReqPhases, TypeOK
  <2> QED BY <1>3, <2>1, <2>2 DEF ChunkArrived, TypeOK
<1>4. CASE CheckCleaned(c)
  <2>1. pc' \in [Requests -> ReqPhases]
    BY <1>0, <1>4, GotoType, ReturnType DEF CheckCleaned, ReqPhases
  <2>2. seen' \in [Requests -> [status : Statuses, isComplete : BOOLEAN,
                               expected : Counts \cup {None}]]
    BY <1>0, <1>4, ReturnType DEF CheckCleaned, TypeOK
  <2> QED BY <1>4, <2>1, <2>2 DEF CheckCleaned, TypeOK
<1>5. CASE ReopenTrack(c)
  <2>1. pc' \in [Requests -> ReqPhases]
    BY <1>0, <1>5, GotoType, ReturnType DEF ReopenTrack, ReqPhases
  <2>2. seen' \in [Requests -> [status : Statuses, isComplete : BOOLEAN,
                               expected : Counts \cup {None}]]
    BY <1>0, <1>5, ReturnType DEF ReopenTrack, TypeOK
  <2>3. seen[c].expected \in Counts \cup {None} BY <1>0 DEF TypeOK
  <2>4. Larger(OrZero(seen[c].expected), c + 1) \in Counts
    BY <2>3, CountsAssumption DEF Larger, OrZero, Counts, Chunks
  <2>5. status' \in Statuses /\ expected' \in Counts \cup {None}
    BY <1>5, <2>4 DEF ReopenTrack, TypeOK, Statuses
  <2> QED BY <1>5, <2>1, <2>2, <2>5 DEF ReopenTrack, TypeOK
<1>6. CASE EnqueueStraggler(c)
  BY <1>0, <1>6, EnqueueType, ReturnType DEF EnqueueStraggler, TypeOK
<1> QED BY <1>1, <1>2, <1>3, <1>4, <1>5, <1>6 DEF ChunkSteps

LEMMA ReportTypes ==
  ASSUME TypeOK, NEW t \in Tabs, ReadForReport(t) \/ MarkRecordingComplete(t)
  PROVE  TypeOK'
<1> USE DEF row, store, result, jobVars, reqVars, runVars, sweepers
<1>0. t \in Requests BY DEF Requests
<1>1. CASE ReadForReport(t)
  BY <1>0, <1>1, KeepType DEF ReadForReport, TypeOK, ReqPhases
<1>2. CASE MarkRecordingComplete(t)
  <2>1. pc' \in [Requests -> ReqPhases]
    BY <1>0, <1>2, GotoType DEF MarkRecordingComplete, ReqPhases
  <2>2. seen[t].expected \in Counts \cup {None} BY <1>0 DEF TypeOK
  <2>3. Reports[t] \in Counts BY TabsAssumption
  <2>4. NextExpected(seen[t], t) \in Counts
    BY <2>2, <2>3, CountsAssumption DEF NextExpected, Larger, OrZero, Counts
  <2>5. /\ expected' \in Counts \cup {None}
        /\ status' \in Statuses /\ isComplete' \in BOOLEAN
    BY <1>2, <2>4 DEF MarkRecordingComplete, TypeOK, Statuses
  <2>6. faults' \in [FaultKinds -> Nat]
    BY <1>2, FaultsType DEF MarkRecordingComplete, Unguarded, FaultKinds, TypeOK
  <2> QED BY <1>2, <2>1, <2>5, <2>6 DEF MarkRecordingComplete, TypeOK
<1> QED BY <1>1, <1>2

LEMMA RespondTypes ==
  ASSUME TypeOK, NEW r \in Requests, Respond(r) \/ RequestDies(r)
  PROVE  TypeOK'
<1> USE DEF row, store, result, jobVars, reqVars, runVars, sweepers
<1>1. CASE TryComplete(r)
  BY <1>1, KeepType, ReturnType DEF TryComplete, TypeOK, ReqPhases
<1>2. CASE FlipComplete(r)
  <2>1. pc' \in [Requests -> ReqPhases]
    BY <1>2, GotoType, ReturnType DEF FlipComplete, ReqPhases
  <2>2. seen' \in [Requests -> [status : Statuses, isComplete : BOOLEAN,
                               expected : Counts \cup {None}]]
    BY <1>2, ReturnType DEF FlipComplete, TypeOK
  <2>3. status' \in Statuses /\ isComplete' \in BOOLEAN
    BY <1>2 DEF FlipComplete, TypeOK, Statuses
  <2> QED BY <1>2, <2>1, <2>2, <2>3 DEF FlipComplete, TypeOK
<1>3. CASE KickFinalize(r)
  BY <1>3, MaybeFinalizeType, ReturnType DEF KickFinalize, TypeOK
<1>4. CASE RequestDies(r)
  BY <1>4, ReturnType, FaultsType DEF RequestDies, TypeOK, FaultKinds
<1> QED BY <1>1, <1>2, <1>3, <1>4 DEF Respond

LEMMA SessionTypes ==
  ASSUME TypeOK,
         \/ \E r \in Rejoins : RejoinReads(r) \/ RejoinReopens(r)
         \/ StopSession
  PROVE  TypeOK'
<1> USE DEF row, store, result, jobVars, reqVars, runVars, sweepers
<1>1. ASSUME NEW r \in Rejoins, RejoinReads(r) PROVE TypeOK'
  BY <1>1, KeepType, ReturnType DEF RejoinReads, TypeOK, ReqPhases, Requests
<1>2. ASSUME NEW r \in Rejoins, RejoinReopens(r) PROVE TypeOK'
  <2>0. r \in Requests BY DEF Requests
  <2>1. faults' \in [FaultKinds -> Nat]
    BY <1>2, FaultsType DEF RejoinReopens, Unguarded, FaultKinds, TypeOK
  <2>2. /\ pc' \in [Requests -> ReqPhases]
        /\ seen' \in [Requests -> [status : Statuses, isComplete : BOOLEAN,
                                   expected : Counts \cup {None}]]
    BY <1>2, <2>0, ReturnType DEF RejoinReopens
  <2> QED BY <1>2, <2>1, <2>2 DEF RejoinReopens, TypeOK, Statuses
<1>3. CASE StopSession
  BY <1>3, GotoType DEF StopSession, TypeOK, ReqPhases, Requests
<1> QED BY <1>1, <1>2, <1>3

LEMMA RunTypes ==
  ASSUME TypeOK, NEW w \in Runs, PickUp(w) \/ RunSteps(w)
  PROVE  TypeOK'
<1> USE DEF row, store, result, jobVars, reqVars, runVars, sweepers
<1>1. CASE PickUp(w)
  BY <1>1, StepType DEF PickUp, TypeOK, RunPhases, JobStates
<1>2. CASE ClaimTrack(w)
  BY <1>2, StepType DEF ClaimTrack, TypeOK, RunPhases, Statuses
<1>3. CASE Snapshot(w)
  BY <1>3, StepType DEF Snapshot, TypeOK, RunPhases
<1>4. CASE StartBuild(w)
  <2>1. rpc' \in [Runs -> RunPhases]
    BY <1>4, StepType DEF StartBuild, RunPhases
  <2>2. parts' \in [Runs -> SUBSET Chunks] BY <1>4 DEF StartBuild, TypeOK
  <2> QED BY <1>4, <2>1, <2>2 DEF StartBuild, TypeOK, Statuses
<1>5. CASE Download(w)
  <2>1. rpc' \in [Runs -> RunPhases]
    BY <1>5, StepType DEF Download, RunPhases
  <2>2. parts' \in [Runs -> SUBSET Chunks] BY <1>5 DEF Download, TypeOK
  <2> QED BY <1>5, <2>1, <2>2 DEF Download, TypeOK
<1>6. CASE Encode(w)
  BY <1>6, StepType DEF Encode, TypeOK, RunPhases
<1>7. CASE WriteReady(w)
  BY <1>7, StepType DEF WriteReady, TypeOK, RunPhases, Statuses
<1>8. CASE WriteOutput(w)
  <2>1. rpc' \in [Runs -> RunPhases]
    BY <1>8, StepType DEF WriteOutput, RunPhases
  <2>2. faults' \in [FaultKinds -> Nat]
    BY <1>8, FaultsType DEF WriteOutput, FaultKinds, TypeOK
  <2> QED BY <1>8, <2>1, <2>2 DEF WriteOutput, TypeOK
<1>9. CASE RunFails(w)
  <2>1. had[w] \in BOOLEAN BY DEF TypeOK
  <2>2. status' \in Statuses /\ output' \in {"none", "READY", "FAILED"}
    BY <1>9, <2>1, FailTrackType DEF RunFails, TypeOK
  <2>3. faults' \in [FaultKinds -> Nat]
    BY <1>9, FaultsType DEF RunFails, FaultKinds, TypeOK
  <2> QED BY <1>9, <2>2, <2>3, StepType DEF RunFails, TypeOK, RunPhases
<1>10. CASE CheckLeftover(w)
  <2>1. had[w] \in BOOLEAN BY DEF TypeOK
  <2>2. status' \in Statuses /\ output' \in {"none", "READY", "FAILED"}
    BY <1>10, <2>1, FailTrackType DEF CheckLeftover, TypeOK
  <2> QED BY <1>10, <2>2, StepType DEF CheckLeftover, TypeOK, RunPhases
<1>11. CASE Recount(w)
  BY <1>11, StepType DEF Recount, TypeOK, RunPhases, Statuses
<1>12. CASE FinishRun(w)
  <2>1. CASE owner = w /\ rerun[w]
    BY <1>12, <2>1, StepType DEF FinishRun, TypeOK, RunPhases, JobStates
  <2>2. CASE owner = w /\ ~rerun[w]
    BY <1>12, <2>2, EndRunType DEF FinishRun, TypeOK, JobStates
  <2>3. CASE owner # w
    BY <1>12, <2>3, EndRunType DEF FinishRun, TypeOK
  <2> QED BY <2>1, <2>2, <2>3
<1>13. CASE RequeueRun(w)
  BY <1>13, EnqueueType, EndRunType DEF RequeueRun, TypeOK
<1> QED
  BY <1>1, <1>2, <1>3, <1>4, <1>5, <1>6, <1>7, <1>8, <1>9, <1>10, <1>11, <1>12, <1>13
  DEF RunSteps

LEMMA RunFaultTypes ==
  ASSUME TypeOK, JobOK,
         \/ \E w \in Runs : StorageFails(w) \/ EncodeFails(w) \/ WorkerDies(w)
         \/ PickUpInFlight \/ StalledDead \/ StalledAlive
  PROVE  TypeOK'
<1> USE DEF row, store, result, jobVars, reqVars, runVars, sweepers
<1>1. ASSUME NEW w \in Runs, StorageFails(w) PROVE TypeOK'
  <2>1. faults' \in [FaultKinds -> Nat]
    BY <1>1, FaultsType DEF StorageFails, FaultKinds
  <2>2. /\ job' \in JobStates /\ owner' \in Runs \cup {None}
        /\ attempts' \in 0 .. Attempts /\ stalls' \in {0, 1}
    BY <1>1, CountsAssumption, NoneAssumption DEF StorageFails, TypeOK, JobStates, JobOK
  <2> QED BY <1>1, <2>1, <2>2, EndRunType DEF StorageFails, TypeOK
<1>2. ASSUME NEW w \in Runs, EncodeFails(w) PROVE TypeOK'
  <2>1. faults' \in [FaultKinds -> Nat]
    BY <1>2, FaultsType DEF EncodeFails, FaultKinds
  <2>2. rpc' \in [Runs -> RunPhases]
    BY <1>2, StepType DEF EncodeFails, RunPhases
  <2>3. parts' \in [Runs -> SUBSET Chunks] BY <1>2 DEF EncodeFails, TypeOK
  <2> QED BY <1>2, <2>1, <2>2, <2>3 DEF EncodeFails, TypeOK
<1>3. ASSUME NEW w \in Runs, WorkerDies(w) PROVE TypeOK'
  <2>1. faults' \in [FaultKinds -> Nat]
    BY <1>3, FaultsType DEF WorkerDies, FaultKinds
  <2> QED BY <1>3, <2>1, EndRunType DEF WorkerDies, TypeOK
<1>4. CASE PickUpInFlight BY <1>4 DEF PickUpInFlight, TypeOK, JobStates
<1>5. CASE StalledDead
  BY <1>5 DEF StalledDead, ReleaseStalledJob, TypeOK, JobStates
<1>6. CASE StalledAlive
  <2>1. faults' \in [FaultKinds -> Nat]
    BY <1>6, FaultsType DEF StalledAlive, FaultKinds
  <2> QED BY <1>6, <2>1 DEF StalledAlive, ReleaseStalledJob, TypeOK, JobStates
<1> QED BY <1>1, <1>2, <1>3, <1>4, <1>5, <1>6

LEMMA SweepTypes ==
  ASSUME TypeOK,
         \/ SweepSteps
         \/ CleanupReads \/ DeleteChunks \/ MarkProcessed \/ CleanupDies
  PROVE  TypeOK'
<1> USE DEF row, store, result, jobVars, reqVars, runVars, sweepers
<1>1. CASE SweepReads BY <1>1 DEF SweepReads, TypeOK
<1>2. CASE ForceComplete
  <2>1. sweep' \in [at : {"idle", "force", "kick"}, segs : SUBSET Chunks,
                    expected : Counts \cup {None}]
    BY <1>2 DEF ForceComplete, IdleSweep, TypeOK
  <2>2. CASE isComplete
    BY <1>2, <2>1, <2>2 DEF ForceComplete, TypeOK
  <2>3. CASE ~isComplete
    <3>1. sweep.segs \in SUBSET Chunks /\ sweep.expected \in Counts \cup {None}
      BY DEF TypeOK
    <3>2. ObservedExpected(sweep.segs) \in Counts BY <3>1, ObservedIsCount
    <3>3. Larger(OrZero(sweep.expected), ObservedExpected(sweep.segs)) \in Counts
      BY <3>1, <3>2, CountsAssumption DEF Larger, OrZero, Counts
    <3>4. faults' \in [FaultKinds -> Nat]
      BY <1>2, <2>3, FaultsType DEF ForceComplete, Unguarded, FaultKinds, TypeOK
    <3> QED BY <1>2, <2>1, <2>3, <3>3, <3>4 DEF ForceComplete, TypeOK, Statuses
  <2> QED BY <2>2, <2>3
<1>3. CASE SweepKicks
  BY <1>3, MaybeFinalizeType DEF SweepKicks, IdleSweep, TypeOK
<1>4. CASE CleanupReads BY <1>4 DEF CleanupReads, TypeOK
<1>5. CASE DeleteChunks BY <1>5 DEF DeleteChunks, TypeOK
<1>6. CASE MarkProcessed BY <1>6 DEF MarkProcessed, IdleCleaner, TypeOK
<1>7. CASE CleanupDies
  BY <1>7, FaultsType DEF CleanupDies, IdleCleaner, FaultKinds, TypeOK
<1> QED BY <1>1, <1>2, <1>3, <1>4, <1>5, <1>6, <1>7 DEF SweepSteps

LEMMA NextType == TypeOK /\ JobOK /\ [Next]_vars => TypeOK'
<1> SUFFICES ASSUME TypeOK, JobOK, [Next]_vars PROVE TypeOK' OBVIOUS
<1>1. CASE UNCHANGED vars
  BY <1>1 DEF vars, row, store, result, jobVars, reqVars, runVars, sweepers, TypeOK
<1>2. CASE Next
  BY <1>2, ChunkTypes, ReportTypes, RespondTypes, SessionTypes, RunTypes,
     RunFaultTypes, SweepTypes DEF Next
<1> QED BY <1>1, <1>2

LEMMA NextJob == TypeOK /\ JobOK /\ [Next]_vars => JobOK'
<1> SUFFICES ASSUME TypeOK, JobOK, [Next]_vars PROVE JobOK' OBVIOUS
<1> USE DEF jobVars
<1>1. ASSUME Enqueue PROVE JobOK'
  BY <1>1, CountsAssumption DEF Enqueue, JobOK, TypeOK
<1>2. ASSUME MaybeFinalize PROVE JobOK'
  BY <1>1, <1>2 DEF MaybeFinalize, JobOK
<1>3. ASSUME UNCHANGED jobVars PROVE JobOK' BY <1>3 DEF JobOK
<1>4. CASE UNCHANGED vars BY <1>3, <1>4 DEF vars
<1>5. ASSUME NEW c \in Chunks, PutChunk(c) \/ ChunkSteps(c) PROVE JobOK'
  BY <1>1, <1>3, <1>5 DEF PutChunk, ChunkSteps, RegisterChunk, ChunkArrived,
     CheckCleaned, ReopenTrack, EnqueueStraggler
<1>6. ASSUME NEW t \in Tabs, ReadForReport(t) \/ MarkRecordingComplete(t) PROVE JobOK'
  BY <1>3, <1>6 DEF ReadForReport, MarkRecordingComplete
<1>7. ASSUME NEW r \in Requests, Respond(r) \/ RequestDies(r) PROVE JobOK'
  BY <1>2, <1>3, <1>7 DEF Respond, TryComplete, FlipComplete, KickFinalize, RequestDies
<1>8. ASSUME NEW r \in Rejoins, RejoinReads(r) \/ RejoinReopens(r) PROVE JobOK'
  BY <1>3, <1>8 DEF RejoinReads, RejoinReopens
<1>9. CASE StopSession BY <1>3, <1>9 DEF StopSession
<1>10. ASSUME NEW w \in Runs, PickUp(w) PROVE JobOK'
  BY <1>10 DEF PickUp, JobOK
<1>11. ASSUME NEW w \in Runs, RunSteps(w) PROVE JobOK'
  <2>1. CASE FinishRun(w) BY <1>3, <2>1, NoneAssumption DEF FinishRun, JobOK
  <2>2. CASE RequeueRun(w) BY <1>1, <2>2 DEF RequeueRun
  <2> QED BY <1>3, <1>11, <2>1, <2>2 DEF RunSteps, ClaimTrack, Snapshot, StartBuild,
        Download, Encode, WriteReady, WriteOutput, RunFails, CheckLeftover, Recount
<1>12. ASSUME NEW w \in Runs, StorageFails(w) PROVE JobOK'
  BY <1>3, <1>12 DEF StorageFails, JobOK, TypeOK
<1>13. ASSUME NEW w \in Runs, EncodeFails(w) \/ WorkerDies(w) PROVE JobOK'
  BY <1>3, <1>13 DEF EncodeFails, WorkerDies
<1>14. CASE PickUpInFlight BY <1>14 DEF PickUpInFlight, JobOK
<1>15. CASE StalledDead \/ StalledAlive
  BY <1>15 DEF StalledDead, StalledAlive, ReleaseStalledJob, JobOK
<1>16. CASE SweepSteps
  BY <1>2, <1>3, <1>16 DEF SweepSteps, SweepReads, ForceComplete, SweepKicks
<1>17. CASE CleanupReads \/ DeleteChunks \/ MarkProcessed \/ CleanupDies
  BY <1>3, <1>17 DEF CleanupReads, DeleteChunks, MarkProcessed, CleanupDies
<1> QED
  BY <1>4, <1>5, <1>6, <1>7, <1>8, <1>9, <1>10, <1>11, <1>12, <1>13, <1>14, <1>15,
     <1>16, <1>17 DEF Next

\* Every variable of the model keeps the type the schema and the handlers give
\* it: statuses, counts within the chunks that exist, attempts within the limit.
THEOREM TypeCorrect == Spec => []TypeOK
<1>1. TypeOK /\ JobOK /\ [Next]_vars => (TypeOK /\ JobOK)' BY NextType, NextJob
<1> QED BY InitType, <1>1, PTL DEF Spec

-----------------------------------------------------------------------------
(* A READY track has a master.  Every path that writes READY either has    *)
(* just uploaded a non-empty master or remembers that there was one; and a *)
(* master, once there, is only ever replaced by another.                   *)

Remembered  == \A w \in Runs : had[w] => master # {}
NonEmpty    == \A w \in Runs : rpc[w] \in {"encode", "ready"} => parts[w] # {}
MasterInv   == ReadyHasMaster /\ Remembered /\ NonEmpty

\* The inductive step where neither the master nor a run is touched.
LEMMA MasterKept ==
  ASSUME MasterInv, UNCHANGED <<master, runVars>>, status' = "READY" => master # {}
  PROVE  MasterInv'
BY DEF MasterInv, ReadyHasMaster, Remembered, NonEmpty, runVars

LEMMA MaybeFinalizeMaster ==
  ASSUME ReadyHasMaster, MaybeFinalize
  PROVE  status' = "READY" => master # {}
BY DEF MaybeFinalize, FailTrack, ReadyHasMaster

LEMMA EndRunMaster ==
  ASSUME TypeOK, MasterInv, NEW w \in Runs, EndRun(w), UNCHANGED <<status, master>>
  PROVE  MasterInv'
BY DEF TypeOK, MasterInv, ReadyHasMaster, Remembered, NonEmpty, EndRun, Step

LEMMA StepMaster ==
  ASSUME TypeOK, MasterInv, NEW w \in Runs, NEW p \in RunPhases \ {"encode", "ready"},
         Step(w, p), had' = had, parts' = parts, UNCHANGED master,
         status' = "READY" => master # {}
  PROVE  MasterInv'
BY DEF TypeOK, MasterInv, ReadyHasMaster, Remembered, NonEmpty, Step

LEMMA RunMaster ==
  ASSUME TypeOK, MasterInv, NEW w \in Runs, PickUp(w) \/ RunSteps(w)
  PROVE  MasterInv'
<1> USE DEF row, result, MasterInv, ReadyHasMaster
<1>1. CASE PickUp(w) BY <1>1, StepMaster DEF PickUp, RunPhases
<1>2. CASE ClaimTrack(w) BY <1>2, StepMaster DEF ClaimTrack, RunPhases
<1>3. CASE Snapshot(w)
  BY <1>3 DEF Snapshot, Step, TypeOK, Remembered, NonEmpty
<1>4. CASE StartBuild(w)
  <2>1. ReadyHasMaster' BY <1>4 DEF StartBuild
  <2>2. Remembered' BY <1>4 DEF StartBuild, Remembered
  <2>3. NonEmpty' BY <1>4 DEF StartBuild, NonEmpty, Step, TypeOK
  <2> QED BY <2>1, <2>2, <2>3
<1>5. CASE Download(w)
  <2>1. ReadyHasMaster' /\ Remembered' BY <1>5 DEF Download, Remembered
  <2>2. NonEmpty' BY <1>5 DEF Download, NonEmpty, Step, TypeOK
  <2> QED BY <2>1, <2>2
<1>6. CASE Encode(w)
  <2>1. ReadyHasMaster' /\ Remembered' BY <1>6 DEF Encode, Remembered
  <2>2. NonEmpty' BY <1>6 DEF Encode, NonEmpty, At, Step, TypeOK
  <2> QED BY <2>1, <2>2
<1>7. CASE WriteReady(w)
  <2>1. parts[w] # {} BY <1>7 DEF WriteReady, NonEmpty, At
  <2>2. ReadyHasMaster' /\ Remembered' BY <1>7, <2>1 DEF WriteReady, Remembered
  <2>3. NonEmpty' BY <1>7 DEF WriteReady, NonEmpty, Step, TypeOK
  <2> QED BY <2>2, <2>3
<1>8. CASE WriteOutput(w) BY <1>8, StepMaster DEF WriteOutput, RunPhases
<1>9. CASE RunFails(w)
  BY <1>9, StepMaster DEF RunFails, FailTrack, Remembered, RunPhases
<1>10. CASE CheckLeftover(w)
  <2>1. status' = "READY" => master # {}
    BY <1>10 DEF CheckLeftover, FailTrack, Remembered
  <2> QED BY <1>10, <2>1, StepMaster DEF CheckLeftover, RunPhases
<1>11. CASE Recount(w) BY <1>11, StepMaster DEF Recount, RunPhases
<1>12. CASE FinishRun(w)
  <2>1. CASE owner = w /\ rerun[w]
    BY <1>12, <2>1, StepMaster DEF FinishRun, RunPhases
  <2>2. CASE ~(owner = w /\ rerun[w])
    BY <1>12, <2>2, EndRunMaster DEF FinishRun
  <2> QED BY <2>1, <2>2
<1>13. CASE RequeueRun(w) BY <1>13, EndRunMaster DEF RequeueRun
<1> QED
  BY <1>1, <1>2, <1>3, <1>4, <1>5, <1>6, <1>7, <1>8, <1>9, <1>10, <1>11, <1>12, <1>13
  DEF RunSteps

LEMMA NextMaster == TypeOK /\ MasterInv /\ [Next]_vars => MasterInv'
<1> SUFFICES ASSUME TypeOK, MasterInv, [Next]_vars PROVE MasterInv' OBVIOUS
<1> USE DEF row, result, MasterInv, ReadyHasMaster
<1>1. CASE UNCHANGED vars BY <1>1, MasterKept DEF vars
<1>2. ASSUME NEW c \in Chunks, PutChunk(c) \/ ChunkSteps(c) PROVE MasterInv'
  BY <1>2, MasterKept DEF PutChunk, ChunkSteps, RegisterChunk, ChunkArrived,
     CheckCleaned, ReopenTrack, EnqueueStraggler
<1>3. ASSUME NEW t \in Tabs, ReadForReport(t) \/ MarkRecordingComplete(t)
      PROVE  MasterInv'
  BY <1>3, MasterKept DEF ReadForReport, MarkRecordingComplete
<1>4. ASSUME NEW r \in Requests, Respond(r) \/ RequestDies(r) PROVE MasterInv'
  BY <1>4, MasterKept, MaybeFinalizeMaster
  DEF Respond, TryComplete, FlipComplete, KickFinalize, RequestDies
<1>5. ASSUME NEW r \in Rejoins, RejoinReads(r) \/ RejoinReopens(r) PROVE MasterInv'
  BY <1>5, MasterKept DEF RejoinReads, RejoinReopens
<1>6. CASE StopSession BY <1>6, MasterKept DEF StopSession
<1>7. ASSUME NEW w \in Runs, PickUp(w) \/ RunSteps(w) PROVE MasterInv'
  BY <1>7, RunMaster
<1>8. ASSUME NEW w \in Runs, StorageFails(w) \/ WorkerDies(w) PROVE MasterInv'
  BY <1>8, EndRunMaster DEF StorageFails, WorkerDies
<1>9. ASSUME NEW w \in Runs, EncodeFails(w) PROVE MasterInv'
  <2>1. ReadyHasMaster' /\ Remembered' BY <1>9 DEF EncodeFails, Remembered
  <2>2. NonEmpty'
    BY <1>9 DEF EncodeFails, IsFirstPart, NonEmpty, At, Step, TypeOK
  <2> QED BY <2>1, <2>2
<1>10. CASE PickUpInFlight \/ StalledDead \/ StalledAlive
  BY <1>10, MasterKept DEF PickUpInFlight, StalledDead, StalledAlive, ReleaseStalledJob
<1>11. CASE SweepSteps
  BY <1>11, MasterKept, MaybeFinalizeMaster
  DEF SweepSteps, SweepReads, ForceComplete, SweepKicks
<1>12. CASE CleanupReads \/ DeleteChunks \/ MarkProcessed \/ CleanupDies
  BY <1>12, MasterKept DEF CleanupReads, DeleteChunks, MarkProcessed, CleanupDies
<1> QED
  BY <1>1, <1>2, <1>3, <1>4, <1>5, <1>6, <1>7, <1>8, <1>9, <1>10, <1>11, <1>12
  DEF Next

\* However runs, requests, sweeps and faults interleave, a track is READY only
\* when it has a master file: finalizeTrack, failTrack and recoverProcessingTrack
\* never settle a track as READY without one.
THEOREM ReadyTrackHasMaster == Spec => []ReadyHasMaster
<1>1. Init => MasterInv
  BY DEF Init, MasterInv, ReadyHasMaster, Remembered, NonEmpty
<1>2. MasterInv => ReadyHasMaster BY DEF MasterInv
<1> QED BY <1>1, <1>2, NextMaster, TypeCorrect, PTL DEF Spec

-----------------------------------------------------------------------------
(* One run at a time, as long as no run loses its job lock while it lives. *)

\* Whoever is at work holds the active job.
Holder  == \A w \in Runs : Live(w) => job = "active" /\ owner = w
NoStall == faults["stall"] = 0
LockInv == NoStall /\ Holder

LEMMA NotSpent ==
  ASSUME TypeOK, NEW k \in FaultKinds, faults[k] = 0
  PROVE  ~Spend(k)
BY DEF Spend

\* An add leaves an active job alone, and otherwise nobody is at work.
LEMMA EnqueueHolder ==
  ASSUME Holder, rpc' = rpc, Enqueue
  PROVE  Holder'
BY DEF Holder, Live, Enqueue, jobVars

LEMMA MaybeFinalizeHolder ==
  ASSUME Holder, rpc' = rpc, MaybeFinalize
  PROVE  Holder'
BY EnqueueHolder DEF MaybeFinalize, Holder, Live, jobVars

LEMMA KeptHolder ==
  ASSUME Holder, rpc' = rpc, UNCHANGED jobVars
  PROVE  Holder'
BY DEF Holder, Live, jobVars

\* A live run moves on to another phase.
LEMMA StepHolder ==
  ASSUME TypeOK, Holder, NEW w \in Runs, NEW p \in RunPhases, Step(w, p), Live(w),
         UNCHANGED jobVars
  PROVE  Holder'
BY DEF TypeOK, Holder, Live, Step, jobVars

\* The holder ends: whatever happens to the job, nobody else was at work.
LEMMA EndRunHolder ==
  ASSUME TypeOK, Holder, NEW w \in Runs, EndRun(w), Live(w) \/ UNCHANGED jobVars
  PROVE  Holder'
<1>1. CASE Live(w) BY <1>1 DEF TypeOK, Holder, Live, EndRun, Step
<1>2. CASE UNCHANGED jobVars
  BY <1>2 DEF TypeOK, Holder, Live, EndRun, Step, jobVars
<1> QED BY <1>1, <1>2

LEMMA RunHolder ==
  ASSUME TypeOK, Holder, NEW w \in Runs, PickUp(w) \/ RunSteps(w)
  PROVE  Holder'
<1>1. CASE PickUp(w)
  BY <1>1 DEF PickUp, Holder, Live, At, Step, TypeOK
<1>2. CASE FinishRun(w)
  <2>1. Live(w) BY <1>2 DEF FinishRun, Live, At
  <2>2. owner = w BY <2>1 DEF Holder
  <2>3. CASE rerun[w]
    BY <1>2, <2>1, <2>2, <2>3 DEF FinishRun, TypeOK, Holder, Live, Step
  <2>4. CASE ~rerun[w]
    BY <1>2, <2>1, <2>2, <2>4, EndRunHolder DEF FinishRun
  <2> QED BY <2>3, <2>4
<1>3. CASE RequeueRun(w)
  <2>1. CASE job = "active"
    BY <1>3, <2>1, EndRunHolder DEF RequeueRun, Enqueue
  <2>2. CASE job # "active"
    BY <1>3, <2>2 DEF RequeueRun, EndRun, TypeOK, Holder, Live, Step
  <2> QED BY <2>1, <2>2
<1>4. ASSUME ClaimTrack(w) \/ Snapshot(w) \/ StartBuild(w) \/ Download(w) \/ Encode(w)
             \/ WriteReady(w) \/ WriteOutput(w) \/ RunFails(w) \/ CheckLeftover(w)
             \/ Recount(w)
      PROVE  Holder'
  <2>1. Live(w) /\ UNCHANGED jobVars
    BY <1>4 DEF ClaimTrack, Snapshot, StartBuild, Download, Encode, WriteReady,
       WriteOutput, RunFails, CheckLeftover, Recount, At, Live
  <2>2. \E p \in RunPhases : Step(w, p)
    BY <1>4 DEF ClaimTrack, Snapshot, StartBuild, Download, Encode, WriteReady,
       WriteOutput, RunFails, CheckLeftover, Recount, RunPhases
  <2> QED BY <2>1, <2>2, StepHolder
<1> QED BY <1>1, <1>2, <1>3, <1>4 DEF RunSteps

LEMMA NextHolder == TypeOK /\ LockInv /\ [Next]_vars => Holder'
<1> SUFFICES ASSUME TypeOK, NoStall, Holder, [Next]_vars PROVE Holder'
  BY DEF LockInv
<1> USE DEF runVars
<1>1. CASE UNCHANGED vars BY <1>1, KeptHolder DEF vars
<1>2. ASSUME NEW c \in Chunks, PutChunk(c) \/ ChunkSteps(c) PROVE Holder'
  BY <1>2, KeptHolder, EnqueueHolder DEF PutChunk, ChunkSteps, RegisterChunk,
     ChunkArrived, CheckCleaned, ReopenTrack, EnqueueStraggler
<1>3. ASSUME NEW t \in Tabs, ReadForReport(t) \/ MarkRecordingComplete(t)
      PROVE  Holder'
  BY <1>3, KeptHolder DEF ReadForReport, MarkRecordingComplete
<1>4. ASSUME NEW r \in Requests, Respond(r) \/ RequestDies(r) PROVE Holder'
  BY <1>4, KeptHolder, MaybeFinalizeHolder
  DEF Respond, TryComplete, FlipComplete, KickFinalize, RequestDies
<1>5. ASSUME NEW r \in Rejoins, RejoinReads(r) \/ RejoinReopens(r) PROVE Holder'
  BY <1>5, KeptHolder DEF RejoinReads, RejoinReopens
<1>6. CASE StopSession BY <1>6, KeptHolder DEF StopSession
<1>7. ASSUME NEW w \in Runs, PickUp(w) \/ RunSteps(w) PROVE Holder'
  BY <1>7, RunHolder
<1>8. ASSUME NEW w \in Runs, StorageFails(w) PROVE Holder'
  BY <1>8, EndRunHolder DEF StorageFails, At, Live
<1>9. ASSUME NEW w \in Runs, WorkerDies(w) PROVE Holder'
  BY <1>9, EndRunHolder DEF WorkerDies
<1>10. ASSUME NEW w \in Runs, EncodeFails(w) PROVE Holder'
  <2>1. \E p \in RunPhases : Step(w, p) BY <1>10 DEF EncodeFails, RunPhases
  <2> QED BY <1>10, <2>1, StepHolder DEF EncodeFails, At, Live
<1>11. CASE PickUpInFlight BY <1>11 DEF PickUpInFlight, Holder
<1>12. CASE StalledDead
  BY <1>12 DEF StalledDead, ReleaseStalledJob, Holder, Live
<1>13. CASE StalledAlive BY <1>13, NotSpent DEF StalledAlive, NoStall, FaultKinds
<1>14. CASE SweepSteps
  BY <1>14, KeptHolder, MaybeFinalizeHolder
  DEF SweepSteps, SweepReads, ForceComplete, SweepKicks
<1>15. CASE CleanupReads \/ DeleteChunks \/ MarkProcessed \/ CleanupDies
  BY <1>15, KeptHolder DEF CleanupReads, DeleteChunks, MarkProcessed, CleanupDies
<1> QED
  BY <1>1, <1>2, <1>3, <1>4, <1>5, <1>6, <1>7, <1>8, <1>9, <1>10, <1>11, <1>12, <1>13,
     <1>14, <1>15 DEF Next

\* No action adds to a fault's budget.
LEMMA BudgetKept ==
  ASSUME TypeOK, [Next]_vars, NEW k \in FaultKinds, faults[k] = 0
  PROVE  faults'[k] = 0
<1>1. ASSUME NEW j \in FaultKinds, Spend(j) PROVE faults'[k] = 0
  BY <1>1 DEF Spend, TypeOK
<1>2. UNCHANGED faults \/ \E j \in FaultKinds : Spend(j)
  <2>1. ASSUME NEW c \in Chunks, PutChunk(c) \/ ChunkSteps(c) PROVE UNCHANGED faults
    BY <2>1 DEF PutChunk, ChunkSteps, RegisterChunk,
       ChunkArrived, CheckCleaned, ReopenTrack, EnqueueStraggler
  <2>2. ASSUME NEW t \in Tabs, ReadForReport(t) \/ MarkRecordingComplete(t)
        PROVE  UNCHANGED faults \/ \E j \in FaultKinds : Spend(j)
    BY <2>2 DEF ReadForReport, MarkRecordingComplete, Unguarded, FaultKinds
  <2>3. ASSUME NEW r \in Requests, Respond(r) \/ RequestDies(r)
        PROVE  UNCHANGED faults \/ \E j \in FaultKinds : Spend(j)
    BY <2>3 DEF Respond, TryComplete, FlipComplete, KickFinalize, RequestDies, FaultKinds
  <2>4. ASSUME NEW r \in Rejoins, RejoinReads(r) \/ RejoinReopens(r)
        PROVE  UNCHANGED faults \/ \E j \in FaultKinds : Spend(j)
    BY <2>4 DEF RejoinReads, RejoinReopens, Unguarded, FaultKinds
  <2>5. ASSUME NEW w \in Runs, PickUp(w) \/ RunSteps(w)
        PROVE  UNCHANGED faults \/ \E j \in FaultKinds : Spend(j)
    BY <2>5 DEF PickUp, RunSteps, ClaimTrack, Snapshot, StartBuild, Download, Encode,
       WriteReady, WriteOutput, RunFails, CheckLeftover, Recount, FinishRun, RequeueRun,
       FaultKinds
  <2>6. ASSUME NEW w \in Runs, StorageFails(w) \/ EncodeFails(w) \/ WorkerDies(w)
        PROVE  \E j \in FaultKinds : Spend(j)
    BY <2>6 DEF StorageFails, EncodeFails, WorkerDies, FaultKinds
  <2>7. ASSUME StopSession \/ PickUpInFlight \/ StalledDead PROVE UNCHANGED faults
    BY <2>7 DEF StopSession, PickUpInFlight, StalledDead
  <2>8. ASSUME StalledAlive \/ CleanupDies PROVE \E j \in FaultKinds : Spend(j)
    BY <2>8 DEF StalledAlive, CleanupDies, FaultKinds
  <2>9. ASSUME SweepSteps PROVE UNCHANGED faults \/ \E j \in FaultKinds : Spend(j)
    BY <2>9 DEF SweepSteps, SweepReads, ForceComplete, SweepKicks, Unguarded, FaultKinds
  <2>10. ASSUME CleanupReads \/ DeleteChunks \/ MarkProcessed PROVE UNCHANGED faults
    BY <2>10 DEF CleanupReads, DeleteChunks, MarkProcessed
  <2>11. ASSUME UNCHANGED vars PROVE UNCHANGED faults BY <2>11 DEF vars
  <2> QED
    BY <2>1, <2>2, <2>3, <2>4, <2>5, <2>6, <2>7, <2>8, <2>9, <2>10, <2>11 DEF Next
<1> QED BY <1>1, <1>2

LEMMA LockInvariant ==
  ASSUME MaxFaults["stall"] = 0
  PROVE  Spec => []LockInv
<1>1. Init => LockInv BY DEF Init, LockInv, NoStall, Holder, Live
<1>2. TypeOK /\ LockInv /\ [Next]_vars => LockInv'
  BY NextHolder, BudgetKept DEF LockInv, NoStall, FaultKinds
<1> QED BY <1>1, <1>2, TypeCorrect, PTL DEF Spec

\* BullMQ's job id keeps a track to one run: enqueueFinalizeTrack never starts a
\* second one beside a live run, whatever dies, unless BullMQ itself gives the
\* job of a live run away (a stalled lock).
THEOREM OneRunPerTrack ==
  ASSUME MaxFaults["stall"] = 0
  PROVE  Spec => []SingleRun
<1>1. LockInv => SingleRun BY DEF LockInv, Holder, SingleRun
<1> QED BY <1>1, LockInvariant, PTL

-----------------------------------------------------------------------------
(* A failure never costs a track its master.  Beside one run at a time this*)
(* needs a run to know, until it settles the track, whether there is a     *)
(* master; and the sweep to fail a track only when it really has no chunk. *)

Stored ==
  /\ master \subseteq segs
  /\ \A w \in Runs : claimed[w] \subseteq segs /\ parts[w] \subseteq segs

KnowsMaster ==
  \A w \in Runs : rpc[w] \in {"build", "download", "encode", "ready", "fail"}
                    => (had[w] <=> master # {})

Settled == \A w \in Runs : rpc[w] \in {"output", "leftover"} => status # "PROCESSING"

\* That a FAILED track has no master takes a sweep whose write is fresh.
FreshSweep  == MaxFaults["sweepRace"] = 0
KeepsUsable == FreshSweep /\ status = "FAILED" => master = {}

SettleInv == Stored /\ KnowsMaster /\ Settled /\ KeepsUsable
Reliable  == faults["db"] = 0 /\ (FreshSweep => faults["sweepRace"] = 0)

LEMMA OnlyOne ==
  ASSUME Holder, NEW v \in Runs, NEW w \in Runs, Live(v), Live(w)
  PROVE  v = w
BY DEF Holder

\* A step of a request, the sweep or the queue.
LEMMA KeptSettle ==
  ASSUME SettleInv, UNCHANGED <<master, runVars>>, segs \subseteq segs',
         FreshSweep /\ status' = "FAILED" => master = {},
         status' = "PROCESSING" => status = "PROCESSING"
  PROVE  SettleInv'
BY DEF SettleInv, Stored, KnowsMaster, Settled, KeepsUsable, runVars

LEMMA MaybeFinalizeSettle ==
  ASSUME KeepsUsable, MaybeFinalize
  PROVE  /\ FreshSweep /\ status' = "FAILED" => master = {}
         /\ status' = "PROCESSING" => status = "PROCESSING"
BY DEF MaybeFinalize, FailTrack, KeepsUsable

LEMMA EndRunSettle ==
  ASSUME TypeOK, SettleInv, NEW w \in Runs, EndRun(w), UNCHANGED <<status, master, segs>>
  PROVE  SettleInv'
<1>1. Stored' BY DEF EndRun, SettleInv, Stored, TypeOK
<1>2. KnowsMaster' /\ Settled'
  BY DEF EndRun, Step, SettleInv, KnowsMaster, Settled, TypeOK
<1> QED BY <1>1, <1>2 DEF SettleInv, KeepsUsable

LEMMA RunSettle ==
  ASSUME TypeOK, MasterInv, Holder, SettleInv, Reliable,
         NEW w \in Runs, PickUp(w) \/ RunSteps(w)
  PROVE  SettleInv'
<1> USE DEF row, store, result
<1>0. Stored /\ KnowsMaster /\ Settled /\ KeepsUsable BY DEF SettleInv
\* A step to another phase that changes neither the master nor what w holds.
<1>1. ASSUME NEW p \in RunPhases, Step(w, p), UNCHANGED <<master, segs, claimed, parts, had>>,
             p \in {"download", "encode", "ready", "fail"} =>
                rpc[w] \in {"build", "download", "encode", "ready", "fail"},
             p \in {"output", "leftover"} => status' # "PROCESSING",
             p # "build",
             FreshSweep /\ status' = "FAILED" => master = {},
             status' = "PROCESSING" =>
                status = "PROCESSING" \/ \A v \in Runs \ {w} : ~Live(v)
      PROVE  SettleInv'
  <2>1. Stored' BY <1>0, <1>1 DEF Stored
  <2>2. KnowsMaster' BY <1>0, <1>1 DEF KnowsMaster, Step, TypeOK
  <2>3. Settled' BY <1>0, <1>1 DEF Settled, Step, TypeOK, Live
  <2>4. KeepsUsable' BY <1>0, <1>1 DEF KeepsUsable
  <2> QED BY <2>1, <2>2, <2>3, <2>4 DEF SettleInv
<1>2. CASE PickUp(w)
  BY <1>0, <1>1, <1>2 DEF PickUp, RunPhases, KeepsUsable
<1>3. CASE ClaimTrack(w)
  <2>1. \A v \in Runs \ {w} : ~Live(v) BY <1>3, OnlyOne DEF ClaimTrack, At, Live
  <2> QED BY <1>0, <1>1, <1>3, <2>1 DEF ClaimTrack, RunPhases, KeepsUsable
<1>4. CASE Snapshot(w)
  <2>1. Stored' BY <1>0, <1>4 DEF Snapshot, Stored, TypeOK
  <2>2. KnowsMaster' /\ Settled'
    BY <1>0, <1>4 DEF Snapshot, Step, KnowsMaster, Settled, TypeOK
  <2> QED BY <1>0, <1>4, <2>1, <2>2 DEF SettleInv, Snapshot, KeepsUsable
<1>5. CASE StartBuild(w)
  <2>1. \A v \in Runs \ {w} : ~Live(v) BY <1>5, OnlyOne DEF StartBuild, At, Live
  <2>2. Stored' BY <1>0, <1>5 DEF StartBuild, Stored, TypeOK
  <2>3. KnowsMaster' BY <1>0, <1>5 DEF StartBuild, At, Step, KnowsMaster, TypeOK
  <2>4. Settled' BY <1>0, <1>5, <2>1 DEF StartBuild, Step, Settled, TypeOK, Live
  <2>5. KeepsUsable' BY <1>0, <1>5 DEF StartBuild, KeepsUsable
  <2> QED BY <2>2, <2>3, <2>4, <2>5 DEF SettleInv
<1>6. CASE Download(w)
  <2>1. Stored' BY <1>0, <1>6 DEF Download, Stored, TypeOK
  <2>2. KnowsMaster' BY <1>0, <1>6 DEF Download, At, Step, KnowsMaster, TypeOK
  <2>3. Settled' BY <1>0, <1>6 DEF Download, Step, Settled, TypeOK
  <2> QED BY <1>0, <1>6, <2>1, <2>2, <2>3 DEF Download, SettleInv, KeepsUsable
<1>7. CASE Encode(w)
  BY <1>0, <1>1, <1>7 DEF Encode, At, RunPhases, KeepsUsable
<1>8. CASE WriteReady(w)
  <2>1. \A v \in Runs \ {w} : ~Live(v) BY <1>8, OnlyOne DEF WriteReady, At, Live
  <2>2. Stored' BY <1>0, <1>8 DEF WriteReady, Stored
  <2>3. KnowsMaster' BY <1>8, <2>1 DEF WriteReady, Step, KnowsMaster, TypeOK, Live
  <2>4. Settled' BY <1>8 DEF WriteReady, Settled
  <2>5. KeepsUsable' BY <1>8 DEF WriteReady, KeepsUsable
  <2> QED BY <2>2, <2>3, <2>4, <2>5 DEF SettleInv
<1>9. CASE WriteOutput(w)
  <2>1. ~Spend("db") BY NotSpent DEF Reliable, FaultKinds
  <2>2. status # "PROCESSING" BY <1>0, <1>9 DEF WriteOutput, Settled, At
  <2> QED BY <1>0, <1>1, <1>9, <2>1, <2>2 DEF WriteOutput, RunPhases, KeepsUsable
<1>10. CASE RunFails(w)
  <2>1. ~Spend("db") BY NotSpent DEF Reliable, FaultKinds
  <2>2. had[w] <=> master # {} BY <1>0, <1>10 DEF RunFails, KnowsMaster, At
  <2>3. FailTrack(had[w]) BY <1>10, <2>1 DEF RunFails
  <2> QED BY <1>1, <1>10, <2>2, <2>3 DEF RunFails, FailTrack, RunPhases
<1>11. CASE CheckLeftover(w)
  <2>1. status # "PROCESSING" BY <1>0, <1>11 DEF CheckLeftover, Settled, At
  <2> QED BY <1>0, <1>1, <1>11, <2>1 DEF CheckLeftover, RunPhases, KeepsUsable
<1>12. CASE Recount(w)
  BY <1>0, <1>1, <1>12 DEF Recount, RunPhases, KeepsUsable
<1>13. CASE FinishRun(w)
  <2>1. CASE owner = w /\ rerun[w]
    BY <1>0, <1>1, <1>13, <2>1 DEF FinishRun, RunPhases, KeepsUsable
  <2>2. CASE ~(owner = w /\ rerun[w])
    BY <1>13, <2>2, EndRunSettle DEF FinishRun
  <2> QED BY <2>1, <2>2
<1>14. CASE RequeueRun(w) BY <1>14, EndRunSettle DEF RequeueRun
<1> QED
  BY <1>2, <1>3, <1>4, <1>5, <1>6, <1>7, <1>8, <1>9, <1>10, <1>11, <1>12, <1>13, <1>14
  DEF RunSteps

LEMMA NextSettle ==
  ASSUME TypeOK, MasterInv, Holder, SettleInv, Reliable, [Next]_vars
  PROVE  SettleInv'
<1> USE DEF row, store, result
<1>0. Stored /\ KeepsUsable BY DEF SettleInv
<1>1. ASSUME UNCHANGED <<status, master, runVars>>, segs \subseteq segs'
      PROVE  SettleInv'
  BY <1>0, <1>1, KeptSettle DEF KeepsUsable
<1>2. CASE UNCHANGED vars BY <1>1, <1>2 DEF vars
<1>3. ASSUME NEW c \in Chunks, PutChunk(c) \/ ChunkSteps(c) PROVE SettleInv'
  <2>1. CASE ReopenTrack(c)
    BY <1>0, <2>1, KeptSettle DEF ReopenTrack, KeepsUsable
  <2> QED BY <1>1, <1>3, <2>1 DEF PutChunk, ChunkSteps, RegisterChunk, ChunkArrived,
        CheckCleaned, EnqueueStraggler
<1>4. ASSUME NEW t \in Tabs, ReadForReport(t) \/ MarkRecordingComplete(t)
      PROVE  SettleInv'
  <2>1. CASE ReadForReport(t) BY <1>1, <2>1 DEF ReadForReport
  <2>2. CASE MarkRecordingComplete(t)
    BY <1>0, <2>2, KeptSettle DEF MarkRecordingComplete, KeepsUsable
  <2> QED BY <1>4, <2>1, <2>2
<1>5. ASSUME NEW r \in Requests, Respond(r) \/ RequestDies(r) PROVE SettleInv'
  <2>1. CASE FlipComplete(r)
    BY <1>0, <2>1, KeptSettle DEF FlipComplete, KeepsUsable
  <2>2. CASE KickFinalize(r)
    BY <1>0, <2>2, KeptSettle, MaybeFinalizeSettle DEF KickFinalize
  <2> QED BY <1>1, <1>5, <2>1, <2>2 DEF Respond, TryComplete, RequestDies
<1>6. ASSUME NEW r \in Rejoins, RejoinReads(r) \/ RejoinReopens(r) PROVE SettleInv'
  <2>1. CASE RejoinReads(r) BY <1>1, <2>1 DEF RejoinReads
  <2>2. CASE RejoinReopens(r) BY <2>2, KeptSettle DEF RejoinReopens
  <2> QED BY <1>6, <2>1, <2>2
<1>7. CASE StopSession BY <1>1, <1>7 DEF StopSession
<1>8. ASSUME NEW w \in Runs, PickUp(w) \/ RunSteps(w) PROVE SettleInv'
  BY <1>8, RunSettle
<1>9. ASSUME NEW w \in Runs, StorageFails(w) \/ WorkerDies(w) PROVE SettleInv'
  BY <1>9, EndRunSettle DEF StorageFails, WorkerDies
<1>10. ASSUME NEW w \in Runs, EncodeFails(w) PROVE SettleInv'
  <2>1. Stored'
    BY <1>0, <1>10 DEF EncodeFails, IsFirstPart, Stored, TypeOK
  <2>2. KnowsMaster' /\ Settled'
    BY <1>10 DEF EncodeFails, At, Step, SettleInv, KnowsMaster, Settled, TypeOK
  <2> QED BY <1>0, <1>10, <2>1, <2>2 DEF EncodeFails, SettleInv, KeepsUsable
<1>11. CASE PickUpInFlight \/ StalledDead \/ StalledAlive
  BY <1>1, <1>11 DEF PickUpInFlight, StalledDead, StalledAlive, ReleaseStalledJob
<1>12. CASE SweepReads BY <1>1, <1>12 DEF SweepReads
<1>13. CASE ForceComplete
  <2>1. CASE isComplete BY <1>1, <1>13, <2>1 DEF ForceComplete
  <2>2. CASE ~isComplete
    <3>1. FreshSweep => ~Spend("sweepRace") BY NotSpent DEF Reliable, FaultKinds
    <3>2. FreshSweep => sweep.segs = segs
      BY <1>13, <2>2, <3>1 DEF ForceComplete, Unguarded, SweepStale
    <3>3. FreshSweep /\ status' = "FAILED" => master = {}
      BY <1>0, <1>13, <2>2, <3>2 DEF ForceComplete, Stored
    <3>4. status' # "PROCESSING" BY <1>13, <2>2 DEF ForceComplete
    <3> QED BY <1>13, <3>3, <3>4, KeptSettle DEF ForceComplete
  <2> QED BY <2>1, <2>2
<1>14. CASE SweepKicks
  BY <1>0, <1>14, KeptSettle, MaybeFinalizeSettle DEF SweepKicks
<1>15. CASE CleanupReads \/ DeleteChunks \/ MarkProcessed \/ CleanupDies
  BY <1>1, <1>15 DEF CleanupReads, DeleteChunks, MarkProcessed, CleanupDies
<1> QED
  BY <1>2, <1>3, <1>4, <1>5, <1>6, <1>7, <1>8, <1>9, <1>10, <1>11, <1>12, <1>13, <1>14,
     <1>15 DEF Next, SweepSteps

LEMMA InitSettle == Init => MasterInv /\ Holder /\ SettleInv
BY DEF Init, MasterInv, ReadyHasMaster, Remembered, NonEmpty, Holder, Live, SettleInv,
   Stored, KnowsMaster, Settled, KeepsUsable

LEMMA SettleInvariant ==
  ASSUME MaxFaults["stall"] = 0, MaxFaults["db"] = 0
  PROVE  Spec => [](TypeOK /\ MasterInv /\ SettleInv)
<1> DEFINE Inv == MasterInv /\ LockInv /\ SettleInv /\ Reliable
<1>1. Init => Inv
  BY InitSettle DEF Init, LockInv, NoStall, Reliable, FreshSweep
<1>2. TypeOK /\ Inv /\ [Next]_vars => Inv'
  BY NextMaster, NextHolder, NextSettle, BudgetKept
  DEF LockInv, NoStall, Reliable, FaultKinds
<1> QED BY <1>1, <1>2, TypeCorrect, PTL DEF Spec

\* A track with a master is never FAILED: failTrack keeps it READY, and the sweep
\* fails only a track without chunks.  It takes that no live run loses its lock,
\* that the queries of a run that settles go through, and that no chunk lands
\* between the sweep's read and its write.
THEOREM FailureKeepsMaster ==
  ASSUME MaxFaults["stall"] = 0, MaxFaults["db"] = 0, MaxFaults["sweepRace"] = 0
  PROVE  Spec => []NoDowngrade
<1>1. SettleInv => NoDowngrade BY DEF SettleInv, KeepsUsable, FreshSweep, NoDowngrade
<1> QED BY <1>1, SettleInvariant, PTL

\* A master is only ever replaced, never dropped.
LEMMA MasterStays ==
  ASSUME TypeOK, MasterInv, [Next]_vars, master # {}
  PROVE  master' # {}
<1> USE DEF result
<1>1. master' = master \/ \E w \in Runs : WriteReady(w)
  <2>1. ASSUME NEW c \in Chunks, PutChunk(c) \/ ChunkSteps(c) PROVE master' = master
    BY <2>1 DEF PutChunk, ChunkSteps, RegisterChunk, ChunkArrived, CheckCleaned,
       ReopenTrack, EnqueueStraggler
  <2>2. ASSUME NEW t \in Tabs, ReadForReport(t) \/ MarkRecordingComplete(t)
        PROVE  master' = master
    BY <2>2 DEF ReadForReport, MarkRecordingComplete
  <2>3. ASSUME NEW r \in Requests, Respond(r) \/ RequestDies(r) PROVE master' = master
    BY <2>3 DEF Respond, TryComplete, FlipComplete, KickFinalize, RequestDies
  <2>4. ASSUME NEW r \in Rejoins, RejoinReads(r) \/ RejoinReopens(r)
        PROVE  master' = master
    BY <2>4 DEF RejoinReads, RejoinReopens
  <2>5. ASSUME NEW w \in Runs, PickUp(w) \/ RunSteps(w), ~WriteReady(w)
        PROVE  master' = master
    BY <2>5 DEF PickUp, RunSteps, ClaimTrack, Snapshot, StartBuild, Download, Encode,
       WriteOutput, RunFails, CheckLeftover, Recount, FinishRun, RequeueRun
  <2>6. ASSUME NEW w \in Runs, StorageFails(w) \/ EncodeFails(w) \/ WorkerDies(w)
        PROVE  master' = master
    BY <2>6 DEF StorageFails, EncodeFails, WorkerDies
  <2>7. ASSUME StopSession \/ PickUpInFlight \/ StalledDead \/ StalledAlive
        PROVE  master' = master
    BY <2>7 DEF StopSession, PickUpInFlight, StalledDead, StalledAlive, ReleaseStalledJob
  <2>8. ASSUME SweepSteps PROVE master' = master
    BY <2>8 DEF SweepSteps, SweepReads, ForceComplete, SweepKicks
  <2>9. ASSUME CleanupReads \/ DeleteChunks \/ MarkProcessed \/ CleanupDies
        PROVE  master' = master
    BY <2>9 DEF CleanupReads, DeleteChunks, MarkProcessed, CleanupDies
  <2>10. ASSUME UNCHANGED vars PROVE master' = master BY <2>10 DEF vars
  <2> QED BY <2>1, <2>2, <2>3, <2>4, <2>5, <2>6, <2>7, <2>8, <2>9, <2>10 DEF Next
<1>2. ASSUME NEW w \in Runs, WriteReady(w) PROVE master' # {}
  BY <1>2 DEF WriteReady, At, MasterInv, NonEmpty
<1> QED BY <1>1, <1>2

\* A track that has been READY does not become FAILED, under the same conditions.
THEOREM ReadyTrackStaysUsable ==
  ASSUME MaxFaults["stall"] = 0, MaxFaults["db"] = 0, MaxFaults["sweepRace"] = 0
  PROVE  Spec => NeverReadyToFailed
<1> DEFINE Inv == TypeOK /\ MasterInv /\ SettleInv
<1>1. Inv /\ Inv' /\ [Next]_vars => [status = "READY" => status' # "FAILED"]_vars
  <2> SUFFICES ASSUME Inv, Inv', [Next]_vars, status = "READY" PROVE status' # "FAILED"
    OBVIOUS
  <2>1. master # {} BY DEF MasterInv, ReadyHasMaster
  <2>2. master' # {} BY <2>1, MasterStays
  <2> QED BY <2>2 DEF SettleInv, KeepsUsable, FreshSweep
<1>2. Spec => []Inv BY SettleInvariant
<1> QED BY <1>1, <1>2, PTL DEF Spec, NeverReadyToFailed

-----------------------------------------------------------------------------
(* A re-run never loses a chunk the master has: what a run is about to     *)
(* write covers the master it found.                                       *)

Covers ==
  \A w \in Runs :
    /\ rpc[w] = "build" => /\ claimed[w] = {} \/ master \subseteq claimed[w]
                           /\ had[w] <=> master # {}
    /\ rpc[w] = "download" => master \subseteq parts[w] /\ (had[w] <=> master # {})
    /\ rpc[w] \in {"encode", "ready"} => master \subseteq parts[w]

CoverInv == Stored /\ Covers

LEMMA KeptCovers ==
  ASSUME CoverInv, UNCHANGED <<master, runVars>>, segs \subseteq segs'
  PROVE  CoverInv'
BY DEF CoverInv, Stored, Covers, runVars

LEMMA EndRunCovers ==
  ASSUME TypeOK, CoverInv, NEW w \in Runs, EndRun(w), UNCHANGED <<master, segs>>
  PROVE  CoverInv'
<1>1. Stored' BY DEF EndRun, CoverInv, Stored, TypeOK
<1>2. Covers' BY DEF EndRun, Step, CoverInv, Covers, TypeOK
<1> QED BY <1>1, <1>2 DEF CoverInv

LEMMA StepCovers ==
  ASSUME TypeOK, CoverInv, NEW w \in Runs,
         NEW p \in RunPhases \ {"build", "download", "encode", "ready"}, Step(w, p),
         UNCHANGED <<master, segs, claimed, parts, had>>
  PROVE  CoverInv'
BY DEF TypeOK, CoverInv, Stored, Covers, Step

LEMMA RunCovers ==
  ASSUME TypeOK, Holder, CoverInv, NEW w \in Runs, PickUp(w) \/ RunSteps(w)
  PROVE  CoverInv'
<1> USE DEF store, result
<1>0. Stored /\ Covers BY DEF CoverInv
<1>1. CASE PickUp(w) BY <1>1, StepCovers DEF PickUp, RunPhases
<1>2. CASE ClaimTrack(w) BY <1>2, StepCovers DEF ClaimTrack, RunPhases
<1>3. CASE Snapshot(w)
  <2>1. Stored' BY <1>0, <1>3 DEF Snapshot, Stored, TypeOK
  <2>2. Covers' BY <1>0, <1>3 DEF Snapshot, Step, Stored, Covers, TypeOK
  <2> QED BY <2>1, <2>2 DEF CoverInv
<1>4. CASE StartBuild(w)
  <2>1. Stored' BY <1>0, <1>4 DEF StartBuild, Stored, TypeOK
  <2>2. Covers' BY <1>0, <1>4 DEF StartBuild, At, Step, Stored, Covers, TypeOK
  <2> QED BY <2>1, <2>2 DEF CoverInv
<1>5. CASE Download(w)
  <2>1. Stored' BY <1>0, <1>5 DEF Download, Stored, TypeOK
  <2>2. Covers' BY <1>0, <1>5 DEF Download, At, Step, Covers, TypeOK
  <2> QED BY <2>1, <2>2 DEF CoverInv
<1>6. CASE Encode(w)
  <2>1. Stored' BY <1>0, <1>6 DEF Encode, Stored
  <2>2. Covers' BY <1>0, <1>6 DEF Encode, At, Step, Covers, TypeOK
  <2> QED BY <2>1, <2>2 DEF CoverInv
<1>7. CASE WriteReady(w)
  <2>1. \A v \in Runs \ {w} : ~Live(v) BY <1>7, OnlyOne DEF WriteReady, At, Live
  <2>2. Stored' BY <1>0, <1>7 DEF WriteReady, Stored
  <2>3. Covers' BY <1>7, <2>1 DEF WriteReady, Step, Covers, TypeOK, Live
  <2> QED BY <2>2, <2>3 DEF CoverInv
<1>8. CASE WriteOutput(w)
  <2>1. PICK p \in {"leftover", "fail"} : Step(w, p) BY <1>8 DEF WriteOutput
  <2> QED BY <1>8, <2>1, StepCovers DEF WriteOutput, RunPhases
<1>9. CASE RunFails(w) BY <1>9, StepCovers DEF RunFails, RunPhases
<1>10. CASE CheckLeftover(w) BY <1>10, StepCovers DEF CheckLeftover, RunPhases
<1>11. CASE Recount(w) BY <1>11, StepCovers DEF Recount, RunPhases
<1>12. CASE FinishRun(w)
  <2>1. CASE owner = w /\ rerun[w]
    BY <1>12, <2>1, StepCovers DEF FinishRun, RunPhases
  <2>2. CASE ~(owner = w /\ rerun[w])
    BY <1>12, <2>2, EndRunCovers DEF FinishRun
  <2> QED BY <2>1, <2>2
<1>13. CASE RequeueRun(w) BY <1>13, EndRunCovers DEF RequeueRun
<1> QED
  BY <1>1, <1>2, <1>3, <1>4, <1>5, <1>6, <1>7, <1>8, <1>9, <1>10, <1>11, <1>12, <1>13
  DEF RunSteps

\* With the covering invariant, the one write of a master keeps its chunks.
LEMMA NextCovers ==
  ASSUME TypeOK, Holder, CoverInv, faults["encode"] = 0, [Next]_vars
  PROVE  CoverInv' /\ master \subseteq master'
<1> USE DEF store, result
<1>0. ASSUME UNCHANGED <<master, runVars>>, segs \subseteq segs'
      PROVE  CoverInv' /\ master \subseteq master'
  BY <1>0, KeptCovers
<1>1. CASE UNCHANGED vars BY <1>0, <1>1 DEF vars
<1>2. ASSUME NEW c \in Chunks, PutChunk(c) \/ ChunkSteps(c)
      PROVE  CoverInv' /\ master \subseteq master'
  BY <1>0, <1>2 DEF PutChunk, ChunkSteps, RegisterChunk, ChunkArrived, CheckCleaned,
     ReopenTrack, EnqueueStraggler
<1>3. ASSUME NEW t \in Tabs, ReadForReport(t) \/ MarkRecordingComplete(t)
      PROVE  CoverInv' /\ master \subseteq master'
  BY <1>0, <1>3 DEF ReadForReport, MarkRecordingComplete
<1>4. ASSUME NEW r \in Requests, Respond(r) \/ RequestDies(r)
      PROVE  CoverInv' /\ master \subseteq master'
  BY <1>0, <1>4 DEF Respond, TryComplete, FlipComplete, KickFinalize, RequestDies
<1>5. ASSUME NEW r \in Rejoins, RejoinReads(r) \/ RejoinReopens(r)
      PROVE  CoverInv' /\ master \subseteq master'
  BY <1>0, <1>5 DEF RejoinReads, RejoinReopens
<1>6. ASSUME NEW w \in Runs, PickUp(w) \/ RunSteps(w)
      PROVE  CoverInv' /\ master \subseteq master'
  <2>1. CASE WriteReady(w)
    BY <1>6, <2>1, RunCovers DEF WriteReady, At, CoverInv, Covers
  <2>2. CASE ~WriteReady(w)
    BY <1>6, <2>2, RunCovers DEF PickUp, RunSteps, ClaimTrack, Snapshot, StartBuild,
       Download, Encode, WriteOutput, RunFails, CheckLeftover, Recount, FinishRun,
       RequeueRun
  <2> QED BY <2>1, <2>2
<1>7. ASSUME NEW w \in Runs, StorageFails(w) \/ WorkerDies(w)
      PROVE  CoverInv' /\ master \subseteq master'
  BY <1>7, EndRunCovers DEF StorageFails, WorkerDies
<1>8. ASSUME NEW w \in Runs, EncodeFails(w) PROVE FALSE
  BY <1>8, NotSpent DEF EncodeFails, FaultKinds
<1>9. CASE StopSession \/ PickUpInFlight \/ StalledDead \/ StalledAlive
  BY <1>0, <1>9 DEF StopSession, PickUpInFlight, StalledDead, StalledAlive,
     ReleaseStalledJob
<1>10. CASE SweepSteps
  BY <1>0, <1>10 DEF SweepSteps, SweepReads, ForceComplete, SweepKicks
<1>11. CASE CleanupReads \/ DeleteChunks \/ MarkProcessed \/ CleanupDies
  BY <1>0, <1>11 DEF CleanupReads, DeleteChunks, MarkProcessed, CleanupDies
<1> QED
  BY <1>1, <1>2, <1>3, <1>4, <1>5, <1>6, <1>7, <1>8, <1>9, <1>10, <1>11 DEF Next

\* Re-running a finalization, with chunk objects already cleaned up or not, keeps
\* every chunk the master has: finalizeRecording refuses to rebuild it from less.
\* It takes that no live run loses its lock and no encode falls back to its first
\* part, which leaves out what later parts hold.
THEOREM ReRunsKeepChunks ==
  ASSUME MaxFaults["stall"] = 0, MaxFaults["encode"] = 0
  PROVE  Spec => MasterNeverShrinks
<1> DEFINE Inv == LockInv /\ CoverInv /\ faults["encode"] = 0
<1>1. Init => Inv
  BY DEF Init, LockInv, NoStall, Holder, Live, CoverInv, Stored, Covers
<1>2. TypeOK /\ Inv /\ [Next]_vars => Inv'
  BY NextCovers, NextHolder, BudgetKept DEF LockInv, NoStall, FaultKinds
<1>3. TypeOK /\ Inv /\ [Next]_vars => [master \subseteq master']_vars
  BY NextCovers DEF LockInv
<1> QED BY <1>1, <1>2, <1>3, TypeCorrect, PTL DEF Spec, MasterNeverShrinks

-----------------------------------------------------------------------------
(* The finalizer touches a track only after the session has ended, and     *)
(* then nobody puts the track back, but for a write on a stale read.       *)

Waiting  == {"idle", "claim", "finish", "requeue"}
EndedInv ==
  ~ended => /\ status \in {"UPLOADING", "UPLOADED"} /\ sweep.at = "idle"
            /\ \A w \in Runs : rpc[w] \in Waiting

LEMMA RunEnded ==
  ASSUME TypeOK, EndedInv, NEW w \in Runs,
         \/ PickUp(w) \/ RunSteps(w)
         \/ StorageFails(w) \/ EncodeFails(w) \/ WorkerDies(w)
  PROVE  EndedInv'
<1> USE DEF row, EndedInv, Waiting
<1> SUFFICES ASSUME ~ended' PROVE EndedInv' OBVIOUS
<1>1. ended' = ended /\ sweep' = sweep
  BY DEF PickUp, RunSteps, ClaimTrack, Snapshot, StartBuild, Download, Encode, WriteReady,
     WriteOutput, RunFails, CheckLeftover, Recount, FinishRun, RequeueRun, StorageFails,
     EncodeFails, WorkerDies, sweepers
<1>2. rpc[w] \in Waiting BY <1>1
<1>3. status' = status
  BY <1>1, <1>2 DEF PickUp, RunSteps, ClaimTrack, Snapshot, StartBuild, Download, Encode,
     WriteReady, WriteOutput, RunFails, CheckLeftover, Recount, FinishRun, RequeueRun,
     StorageFails, EncodeFails, WorkerDies, At
<1>4. \E p \in Waiting : Step(w, p)
  BY <1>1, <1>2 DEF PickUp, RunSteps, ClaimTrack, Snapshot, StartBuild, Download, Encode,
     WriteReady, WriteOutput, RunFails, CheckLeftover, Recount, FinishRun, RequeueRun,
     StorageFails, EncodeFails, WorkerDies, At, EndRun
<1>5. \A v \in Runs : rpc'[v] \in Waiting BY <1>1, <1>4 DEF Step, TypeOK
<1> QED BY <1>1, <1>3, <1>5

LEMMA NextEnded ==
  ASSUME TypeOK, EndedInv, faults["rejoinRace"] = 0, [Next]_vars
  PROVE  EndedInv'
<1> USE DEF row, runVars, sweepers, EndedInv
<1>0. ASSUME UNCHANGED <<ended, rpc>>, sweep'.at = sweep.at \/ ended,
             status' \in {status, "UPLOADING", "UPLOADED"} \/ ended
      PROVE  EndedInv'
  BY <1>0
<1>k. MaybeFinalize => status' = status \/ ended
  BY DEF MaybeFinalize
<1>1. CASE UNCHANGED vars BY <1>0, <1>1 DEF vars
<1>2. ASSUME NEW c \in Chunks, PutChunk(c) \/ ChunkSteps(c) PROVE EndedInv'
  BY <1>0, <1>2 DEF PutChunk, ChunkSteps, RegisterChunk, ChunkArrived, CheckCleaned,
     ReopenTrack, EnqueueStraggler
<1>3. ASSUME NEW t \in Tabs, ReadForReport(t) \/ MarkRecordingComplete(t) PROVE EndedInv'
  BY <1>0, <1>3 DEF ReadForReport, MarkRecordingComplete
<1>4. ASSUME NEW r \in Requests, Respond(r) \/ RequestDies(r) PROVE EndedInv'
  BY <1>0, <1>k, <1>4 DEF Respond, TryComplete, FlipComplete, KickFinalize, RequestDies
<1>5. ASSUME NEW r \in Rejoins, RejoinReads(r) \/ RejoinReopens(r) PROVE EndedInv'
  BY <1>0, <1>5 DEF RejoinReads, RejoinReopens
<1>6. CASE StopSession BY <1>6 DEF StopSession
<1>7. ASSUME NEW w \in Runs, \/ PickUp(w) \/ RunSteps(w)
                             \/ StorageFails(w) \/ EncodeFails(w) \/ WorkerDies(w)
      PROVE  EndedInv'
  BY <1>7, RunEnded
<1>8. CASE PickUpInFlight \/ StalledDead \/ StalledAlive
  BY <1>0, <1>8 DEF PickUpInFlight, StalledDead, StalledAlive, ReleaseStalledJob
<1>9. CASE SweepReads BY <1>0, <1>9 DEF SweepReads
<1>10. CASE ForceComplete BY <1>0, <1>10 DEF ForceComplete
<1>11. CASE SweepKicks BY <1>0, <1>k, <1>11 DEF SweepKicks, IdleSweep
<1>12. CASE CleanupReads \/ DeleteChunks \/ MarkProcessed \/ CleanupDies
  BY <1>0, <1>12 DEF CleanupReads, DeleteChunks, MarkProcessed, CleanupDies
<1> QED
  BY <1>1, <1>2, <1>3, <1>4, <1>5, <1>6, <1>7, <1>8, <1>9, <1>10, <1>11, <1>12
  DEF Next, SweepSteps

\* Only a report that knew the track as waiting and a rejoin into an ACTIVE
\* session write UPLOADING.
LEMMA BackToUploading ==
  ASSUME TypeOK, EndedInv, faults["rejoinRace"] = 0, faults["reportRace"] = 0,
         [Next]_vars, status' = "UPLOADING"
  PROVE  status \notin {"PROCESSING", "READY"}
<1> USE DEF row
<1>1. CASE status' = status BY <1>1
<1>2. ASSUME NEW t \in Tabs, MarkRecordingComplete(t)
      PROVE  status \notin {"PROCESSING", "READY"}
  <2>1. ~Spend("reportRace") BY NotSpent DEF FaultKinds
  <2>2. seen[t] = TheRow BY <1>2, <2>1 DEF MarkRecordingComplete, Unguarded
  <2>3. CASE MoreToCome(seen[t], t)
    <3>1. seen[t].status = "UPLOADED" BY <2>3 DEF MoreToCome
    <3> QED BY <2>2, <3>1 DEF TheRow
  <2>4. CASE ~MoreToCome(seen[t], t) BY <1>1, <1>2, <2>4 DEF MarkRecordingComplete
  <2> QED BY <2>3, <2>4
<1>3. ASSUME NEW r \in Rejoins, RejoinReopens(r)
      PROVE  status \notin {"PROCESSING", "READY"}
  <2>1. ~Spend("rejoinRace") BY NotSpent DEF FaultKinds
  <2>2. ~ended BY <1>3, <2>1 DEF RejoinReopens, Unguarded
  <2> QED BY <2>2 DEF EndedInv
<1>4. ASSUME NEW w \in Runs, \/ PickUp(w) \/ RunSteps(w)
                             \/ StorageFails(w) \/ EncodeFails(w) \/ WorkerDies(w)
      PROVE  status' = status
  BY <1>4 DEF PickUp, RunSteps, ClaimTrack, Snapshot, StartBuild, Download, Encode,
     WriteReady, WriteOutput, RunFails, CheckLeftover, Recount, FinishRun, RequeueRun,
     StorageFails, EncodeFails, WorkerDies, FailTrack
<1>k. MaybeFinalize => status' = status BY DEF MaybeFinalize, FailTrack
<1>5. ASSUME NEW c \in Chunks, PutChunk(c) \/ ChunkSteps(c) PROVE status' = status
  BY <1>5 DEF PutChunk, ChunkSteps, RegisterChunk, ChunkArrived, CheckCleaned,
     ReopenTrack, EnqueueStraggler
<1>6. ASSUME NEW r \in Requests, Respond(r) \/ RequestDies(r) PROVE status' = status
  BY <1>k, <1>6 DEF Respond, TryComplete, FlipComplete, KickFinalize, RequestDies
<1>7. ASSUME SweepSteps PROVE status' = status
  BY <1>k, <1>7 DEF SweepSteps, SweepReads, ForceComplete, SweepKicks
<1>8. ASSUME StopSession \/ PickUpInFlight \/ StalledDead \/ StalledAlive
             \/ CleanupReads \/ DeleteChunks \/ MarkProcessed \/ CleanupDies
             \/ UNCHANGED vars \/ (\E t \in Tabs : ReadForReport(t))
             \/ (\E r \in Rejoins : RejoinReads(r))
      PROVE  status' = status
  BY <1>8 DEF StopSession, PickUpInFlight, StalledDead, StalledAlive, ReleaseStalledJob,
     CleanupReads, DeleteChunks, MarkProcessed, CleanupDies, ReadForReport, RejoinReads,
     vars
<1> QED BY <1>1, <1>2, <1>3, <1>4, <1>5, <1>6, <1>7, <1>8 DEF Next

\* A track the finalizer has claimed or settled is not put back to UPLOADING,
\* whatever runs, jobs, storage and queries fail, by a report or by a rejoin
\* whose read is still true when it writes.
THEOREM ClaimedTrackStaysClaimed ==
  ASSUME MaxFaults["rejoinRace"] = 0, MaxFaults["reportRace"] = 0
  PROVE  Spec => FinalizedStaysFinalized
<1> DEFINE Inv == EndedInv /\ faults["rejoinRace"] = 0 /\ faults["reportRace"] = 0
<1>1. Init => Inv BY DEF Init, EndedInv, Waiting, IdleSweep
<1>2. TypeOK /\ Inv /\ [Next]_vars => Inv'
  BY NextEnded, BudgetKept DEF FaultKinds
<1>3. TypeOK /\ Inv /\ [Next]_vars
        => [status' = "UPLOADING" => status \notin {"PROCESSING", "READY"}]_vars
  BY BackToUploading
<1> QED BY <1>1, <1>2, <1>3, TypeCorrect, PTL DEF Spec, FinalizedStaysFinalized

-----------------------------------------------------------------------------
(* A finished track has its output row.                                    *)

\* The row is written by the run that wrote the master, as its next step.
OutputInv == master # {} => output = "READY" \/ \E w \in Runs : At(w, "output")
NoCrash   == faults["crash"] = 0

LEMMA NextOutput ==
  ASSUME TypeOK, SettleInv, Reliable, NoCrash, OutputInv, [Next]_vars
  PROVE  OutputInv'
<1> USE DEF result, runVars, OutputInv
<1>0. ASSUME UNCHANGED <<result, rpc>> PROVE OutputInv'
  BY <1>0 DEF At
<1>k. ASSUME MaybeFinalize, UNCHANGED <<master, rpc>> PROVE OutputInv'
  BY <1>k DEF MaybeFinalize, FailTrack, At
<1>p. ASSUME NEW w \in Runs, NEW p \in RunPhases, Step(w, p), ~At(w, "output"),
             UNCHANGED master, output' = output \/ master = {}
      PROVE  OutputInv'
  BY <1>p DEF Step, At, TypeOK
<1>1. CASE UNCHANGED vars BY <1>0, <1>1 DEF vars
<1>2. ASSUME NEW c \in Chunks, PutChunk(c) \/ ChunkSteps(c) PROVE OutputInv'
  BY <1>0, <1>2 DEF PutChunk, ChunkSteps, RegisterChunk, ChunkArrived, CheckCleaned,
     ReopenTrack, EnqueueStraggler
<1>3. ASSUME NEW t \in Tabs, ReadForReport(t) \/ MarkRecordingComplete(t) PROVE OutputInv'
  BY <1>0, <1>3 DEF ReadForReport, MarkRecordingComplete
<1>4. ASSUME NEW r \in Requests, Respond(r) \/ RequestDies(r) PROVE OutputInv'
  BY <1>0, <1>k, <1>4 DEF Respond, TryComplete, FlipComplete, KickFinalize, RequestDies
<1>5. ASSUME NEW r \in Rejoins, RejoinReads(r) \/ RejoinReopens(r) PROVE OutputInv'
  BY <1>0, <1>5 DEF RejoinReads, RejoinReopens
<1>6. CASE StopSession BY <1>0, <1>6 DEF StopSession
<1>7. ASSUME NEW w \in Runs, PickUp(w) \/ RunSteps(w) PROVE OutputInv'
  <2>d. ~Spend("db") BY NotSpent DEF Reliable, FaultKinds
  <2>1. CASE WriteReady(w) BY <2>1 DEF WriteReady, At, Step, TypeOK
  <2>2. CASE WriteOutput(w) BY <2>d, <2>2 DEF WriteOutput
  <2>3. CASE RunFails(w)
    <3>1. had[w] <=> master # {} BY <2>3 DEF RunFails, SettleInv, KnowsMaster, At
    <3>2. FailTrack(had[w]) /\ Step(w, "leftover") /\ ~At(w, "output") /\ UNCHANGED master
      BY <2>d, <2>3 DEF RunFails, At
    <3> QED BY <1>p, <3>1, <3>2 DEF FailTrack, RunPhases
  <2>4. CASE CheckLeftover(w)
    <3>1. status # "PROCESSING" BY <2>4 DEF CheckLeftover, SettleInv, Settled, At
    <3> QED BY <1>p, <2>4, <3>1 DEF CheckLeftover, At, RunPhases
  <2>5. ASSUME PickUp(w) \/ ClaimTrack(w) \/ Snapshot(w) \/ StartBuild(w) \/ Download(w)
               \/ Encode(w) \/ Recount(w) \/ FinishRun(w) \/ RequeueRun(w)
        PROVE  OutputInv'
    <3>1. ~At(w, "output") /\ UNCHANGED result
      BY <2>5 DEF PickUp, ClaimTrack, Snapshot, StartBuild, Download, Encode, Recount,
         FinishRun, RequeueRun, At
    <3>2. \E p \in RunPhases : Step(w, p)
      BY <2>5 DEF PickUp, ClaimTrack, Snapshot, StartBuild, Download, Encode, Recount,
         FinishRun, RequeueRun, EndRun, RunPhases
    <3> QED BY <1>p, <3>1, <3>2
  <2> QED BY <1>7, <2>1, <2>2, <2>3, <2>4, <2>5 DEF RunSteps
<1>8. ASSUME NEW w \in Runs, StorageFails(w) \/ EncodeFails(w) PROVE OutputInv'
  <2>1. ~At(w, "output") /\ UNCHANGED result BY <1>8 DEF StorageFails, EncodeFails, At
  <2>2. \E p \in RunPhases : Step(w, p)
    BY <1>8 DEF StorageFails, EncodeFails, EndRun, RunPhases
  <2> QED BY <1>p, <2>1, <2>2
<1>9. ASSUME NEW w \in Runs, WorkerDies(w) PROVE FALSE
  BY <1>9, NotSpent DEF WorkerDies, NoCrash, FaultKinds
<1>10. CASE PickUpInFlight \/ StalledDead \/ StalledAlive
  BY <1>0, <1>10 DEF PickUpInFlight, StalledDead, StalledAlive, ReleaseStalledJob
<1>11. CASE SweepSteps
  BY <1>0, <1>k, <1>11 DEF SweepSteps, SweepReads, ForceComplete, SweepKicks
<1>12. CASE CleanupReads \/ DeleteChunks \/ MarkProcessed \/ CleanupDies
  BY <1>0, <1>12 DEF CleanupReads, DeleteChunks, MarkProcessed, CleanupDies
<1> QED
  BY <1>1, <1>2, <1>3, <1>4, <1>5, <1>6, <1>7, <1>8, <1>9, <1>10, <1>11, <1>12 DEF Next

\* A READY track at rest can be downloaded: its output row is there and READY,
\* because finalizeRecording writes it right after the master and every later
\* failure leaves it alone.  It takes that no live run loses its lock, that the
\* queries of a run that settles go through, and that no worker dies between the
\* two writes; what the sweep and the API race for does not matter.
THEOREM FinishedTrackHasOutput ==
  ASSUME MaxFaults["stall"] = 0, MaxFaults["db"] = 0, MaxFaults["crash"] = 0
  PROVE  Spec => []ReadyHasOutput
<1> DEFINE Inv == OutputInv /\ Reliable /\ NoCrash
<1>1. Init => Inv BY DEF Init, OutputInv, Reliable, FreshSweep, NoCrash
<1>2. TypeOK /\ SettleInv /\ Inv /\ [Next]_vars => Inv'
  BY NextOutput, BudgetKept DEF Reliable, NoCrash, FaultKinds
<1>3. MasterInv /\ Inv => ReadyHasOutput
  BY DEF MasterInv, ReadyHasMaster, OutputInv, ReadyHasOutput, AtRest, At
<1>4. Spec => [](TypeOK /\ MasterInv /\ SettleInv) BY SettleInvariant
<1> QED BY <1>1, <1>2, <1>3, <1>4, PTL DEF Spec

-----------------------------------------------------------------------------
(* No registered chunk is forgotten.  Without faults, a settled track whose *)
(* chunks are all there has them in its master, or a chunk that came late  *)
(* is on its way to re-open it, or the run has yet to count again.  That a *)
(* late chunk finds the track as it left it takes the rest: what is being  *)
(* built is PROCESSING, what is not complete is UPLOADING, the cleanup has *)
(* left a trace, and no job is given up on.                                *)

\* The only faults are of the storage, and fewer than a job has attempts.
OnlyStorage ==
  /\ \A k \in FaultKinds \ {"storage"} : faults[k] = 0
  /\ attempts + faults["storage"] < Attempts
Works(w) == PickUp(w) \/ RunSteps(w) \/ StorageFails(w)
Whole   == segs \subseteq objects
Closed  == status \in {"READY", "FAILED"}

Arrived == \A c \in segs : pc[c] \notin {"idle", "put"}

CleanedGone ==
  /\ cleaned \subseteq segs /\ cleaned \cap objects = {}
  /\ cleaner.segs \subseteq segs
  /\ cleaner.at # "idle" => cleaner.segs # {}
  /\ cleaner.at = "mark" => cleaner.segs \cap objects = {}

Opened ==
  /\ isComplete <=> status # "UPLOADING"
  /\ \A r \in Requests : pc[r] = "flip" => seen[r].status = "UPLOADING"

Building == {"snapshot", "build", "download", "encode", "ready", "fail"}
Claimed  == \A w \in Runs : rpc[w] \in Building => status = "PROCESSING"

JobAlive == job # "failed" /\ (job = "active" => owner \in Runs /\ Live(owner))

Built ==
  \A w \in Runs :
    /\ rpc[w] = "download" => parts[w] # {}
    /\ rpc[w] \in {"download", "encode", "ready"} /\ Whole
         => claimed[w] = {} \/ parts[w] = claimed[w]
    /\ rpc[w] = "fail" /\ Whole => claimed[w] = {} /\ master = {}

Late(c)     == c \in segs /\ pc[c] \in {"arrived", "cleaned?", "reopen"}
Recounts(w) == rpc[w] \in {"output", "leftover", "recount"} /\ claimed[w] # segs
Owed ==
  Whole /\ Closed => \/ master = segs
                     \/ \E c \in Chunks : Late(c)
                     \/ \E w \in Runs : Recounts(w)

ChunkInv == Arrived /\ CleanedGone /\ Opened /\ Claimed /\ JobAlive /\ Built /\ Owed
Known    == /\ TypeOK /\ MasterInv /\ Holder /\ SettleInv /\ EndedInv /\ OnlyStorage
            /\ ChunkInv

\* A write on a stale read, a crash and a failure of anything else are no steps.
RequestSteps ==
  \/ \E c \in Chunks : PutChunk(c) \/ ChunkSteps(c)
  \/ \E t \in Tabs : ReadForReport(t) \/ (MarkRecordingComplete(t) /\ seen[t] = TheRow)
  \/ \E r \in Requests : Respond(r)
  \/ \E r \in Rejoins : RejoinReads(r) \/ (RejoinReopens(r) /\ ~ended)
  \/ StopSession
  \/ SweepReads \/ (ForceComplete /\ (isComplete \/ ~SweepStale)) \/ SweepKicks
  \/ CleanupReads \/ DeleteChunks \/ MarkProcessed

LEMMA CalmNext ==
  ASSUME Known, [Next]_vars
  PROVE  RequestSteps \/ (\E w \in Runs : Works(w)) \/ UNCHANGED vars
<1>0. \A k \in FaultKinds \ {"storage"} : ~Spend(k) BY NotSpent DEF Known, OnlyStorage
<1>1. ~PickUpInFlight /\ ~StalledDead /\ ~StalledAlive
  BY <1>0 DEF PickUpInFlight, StalledDead, StalledAlive, Known, Holder, ChunkInv, JobAlive,
     FaultKinds
<1>2. ASSUME NEW w \in Runs PROVE ~EncodeFails(w) /\ ~WorkerDies(w)
  BY <1>0 DEF EncodeFails, WorkerDies, FaultKinds
<1>3. ~CleanupDies /\ \A r \in Requests : ~RequestDies(r)
  BY <1>0 DEF CleanupDies, RequestDies, FaultKinds
<1>4. ASSUME NEW t \in Tabs, MarkRecordingComplete(t) PROVE seen[t] = TheRow
  BY <1>0, <1>4 DEF MarkRecordingComplete, Unguarded, FaultKinds
<1>5. ASSUME NEW r \in Rejoins, RejoinReopens(r) PROVE ~ended
  BY <1>0, <1>5 DEF RejoinReopens, Unguarded, FaultKinds
<1>6. ASSUME ForceComplete PROVE isComplete \/ ~SweepStale
  BY <1>0, <1>6 DEF ForceComplete, Unguarded, FaultKinds
<1> QED BY <1>1, <1>2, <1>3, <1>4, <1>5, <1>6 DEF Next, RequestSteps, SweepSteps, Works

\* What a request leaves alone, and what it may do to a chunk's request.
LEMMA RequestFrame ==
  ASSUME Known, RequestSteps
  PROVE  /\ UNCHANGED <<master, runVars>>
         /\ \/ UNCHANGED segs
            \/ \E c \in Chunks : RegisterChunk(c)
         /\ \/ UNCHANGED objects
            \/ DeleteChunks
            \/ \E c \in Chunks : PutChunk(c)
<1> USE DEF row, store, result
<1>1. ASSUME NEW c \in Chunks, ChunkSteps(c), ~RegisterChunk(c)
      PROVE  UNCHANGED <<master, runVars, segs, objects>>
  BY <1>1 DEF ChunkSteps, ChunkArrived, CheckCleaned, ReopenTrack, EnqueueStraggler
<1>2. ASSUME \E t \in Tabs : ReadForReport(t) \/ MarkRecordingComplete(t)
      PROVE  UNCHANGED <<master, runVars, segs, objects>>
  BY <1>2 DEF ReadForReport, MarkRecordingComplete
<1>3. ASSUME \E r \in Requests : Respond(r)
      PROVE  UNCHANGED <<master, runVars, segs, objects>>
  BY <1>3 DEF Respond, TryComplete, FlipComplete, KickFinalize
<1>4. ASSUME \E r \in Rejoins : RejoinReads(r) \/ RejoinReopens(r)
      PROVE  UNCHANGED <<master, runVars, segs, objects>>
  BY <1>4 DEF RejoinReads, RejoinReopens
<1>5. ASSUME StopSession \/ SweepReads \/ ForceComplete \/ SweepKicks \/ CleanupReads
             \/ MarkProcessed
      PROVE  UNCHANGED <<master, runVars, segs, objects>>
  BY <1>5 DEF StopSession, SweepReads, ForceComplete, SweepKicks, CleanupReads,
     MarkProcessed
<1>6. ASSUME NEW c \in Chunks, PutChunk(c) \/ RegisterChunk(c)
      PROVE  /\ UNCHANGED <<master, runVars>>
             /\ PutChunk(c) => UNCHANGED segs
             /\ RegisterChunk(c) => UNCHANGED objects
  BY <1>6 DEF PutChunk, RegisterChunk
<1>7. DeleteChunks => UNCHANGED <<master, runVars, segs>> BY DEF DeleteChunks
<1> QED BY <1>1, <1>2, <1>3, <1>4, <1>5, <1>6, <1>7 DEF RequestSteps

LEMMA RunFrame ==
  ASSUME NEW w \in Runs, Works(w)
  PROVE  UNCHANGED <<store, pc, seen, cleaner, isComplete>>
BY DEF Works, PickUp, RunSteps, ClaimTrack, Snapshot, StartBuild, Download, Encode,
   WriteReady, WriteOutput, RunFails, CheckLeftover, Recount, FinishRun, RequeueRun,
   StorageFails, row, reqVars, sweepers

\* A request once at work is never idle again.
LEMMA ArrivedStep ==
  ASSUME Known, RequestSteps
  PROVE  Arrived'
<1> USE DEF store
<1>1. ASSUME NEW r \in Requests, NEW p \in ReqPhases, Goto(r, p), p \notin {"idle", "put"},
             segs' \subseteq segs \cup {r}
      PROVE  Arrived'
  <2> SUFFICES ASSUME NEW d \in segs' PROVE pc'[d] \notin {"idle", "put"} BY DEF Arrived
  <2>1. d = r \/ pc'[d] = pc[d]
    BY <1>1 DEF Goto, Known, TypeOK
  <2> QED BY <1>1, <2>1 DEF Goto, Known, ChunkInv, Arrived, TypeOK
<1>2. ASSUME UNCHANGED <<pc, segs>> PROVE Arrived'
  BY <1>2 DEF Arrived, Known, ChunkInv
<1>3. ASSUME NEW c \in Chunks, PutChunk(c) PROVE Arrived'
  <2>1. c \notin segs BY <1>3 DEF PutChunk, Known, ChunkInv, Arrived
  <2> QED BY <1>3, <2>1 DEF PutChunk, Goto, Known, ChunkInv, Arrived, TypeOK
<1>4. ASSUME NEW c \in Chunks, ChunkSteps(c) PROVE Arrived'
  <2>1. \E p \in ReqPhases \ {"idle", "put"} : Goto(c, p)
    BY <1>4 DEF ChunkSteps, RegisterChunk, ChunkArrived, CheckCleaned, ReopenTrack,
       EnqueueStraggler, Keep, Return, ReqPhases
  <2>2. segs' \subseteq segs \cup {c}
    BY <1>4 DEF ChunkSteps, RegisterChunk, ChunkArrived, CheckCleaned, ReopenTrack,
       EnqueueStraggler
  <2> QED BY <1>1, <2>1, <2>2 DEF Requests
<1>5. ASSUME NEW t \in Tabs, ReadForReport(t) \/ MarkRecordingComplete(t) PROVE Arrived'
  <2>1. \E p \in ReqPhases \ {"idle", "put"} : Goto(t, p)
    BY <1>5 DEF ReadForReport, MarkRecordingComplete, Keep, ReqPhases
  <2> QED BY <1>1, <1>5, <2>1 DEF Requests, ReadForReport, MarkRecordingComplete
<1>6. ASSUME NEW r \in Requests, Respond(r) PROVE Arrived'
  <2>1. \E p \in ReqPhases \ {"idle", "put"} : Goto(r, p)
    BY <1>6 DEF Respond, TryComplete, FlipComplete, KickFinalize, Keep, Return, ReqPhases
  <2> QED BY <1>1, <1>6, <2>1 DEF Respond, TryComplete, FlipComplete, KickFinalize
<1>7. ASSUME NEW r \in Rejoins, RejoinReads(r) \/ RejoinReopens(r) PROVE Arrived'
  <2>1. \E p \in ReqPhases \ {"idle", "put"} : Goto(r, p)
    BY <1>7 DEF RejoinReads, RejoinReopens, Keep, Return, ReqPhases
  <2> QED BY <1>1, <1>7, <2>1 DEF Requests, RejoinReads, RejoinReopens
<1>8. CASE StopSession
  BY <1>1, <1>8 DEF StopSession, Requests, ReqPhases
<1>9. CASE SweepReads \/ ForceComplete \/ SweepKicks \/ CleanupReads \/ DeleteChunks
           \/ MarkProcessed
  BY <1>2, <1>9 DEF SweepReads, ForceComplete, SweepKicks, CleanupReads, DeleteChunks,
     MarkProcessed, reqVars
<1> QED BY <1>3, <1>4, <1>5, <1>6, <1>7, <1>8, <1>9 DEF RequestSteps

\* Chunks that are missing stay missing.
LEMMA WholeBefore ==
  ASSUME Known, RequestSteps, Whole'
  PROVE  Whole
<1> USE DEF store, Whole
<1>1. CASE UNCHANGED objects BY <1>1, RequestFrame DEF RegisterChunk
<1>2. CASE DeleteChunks
  BY <1>2 DEF DeleteChunks, Known, ChunkInv, CleanedGone
<1>3. ASSUME NEW c \in Chunks, PutChunk(c) PROVE Whole
  BY <1>3 DEF PutChunk, Known, ChunkInv, Arrived
<1> QED BY <1>1, <1>2, <1>3, RequestFrame

LEMMA CleanedStep ==
  ASSUME Known, RequestSteps
  PROVE  CleanedGone'
<1> USE DEF store, sweepers
<1>0. CleanedGone /\ Arrived BY DEF Known, ChunkInv
<1>1. ASSUME UNCHANGED <<cleaned, objects, cleaner>>, segs \subseteq segs'
      PROVE  CleanedGone'
  BY <1>0, <1>1 DEF CleanedGone
<1>2. ASSUME NEW c \in Chunks, PutChunk(c) PROVE CleanedGone'
  BY <1>0, <1>2 DEF PutChunk, CleanedGone, Arrived
<1>3. ASSUME NEW c \in Chunks, ChunkSteps(c) PROVE CleanedGone'
  BY <1>1, <1>3 DEF ChunkSteps, RegisterChunk, ChunkArrived, CheckCleaned, ReopenTrack,
     EnqueueStraggler
<1>4. ASSUME \E t \in Tabs : ReadForReport(t) \/ MarkRecordingComplete(t)
      PROVE  CleanedGone'
  BY <1>1, <1>4 DEF ReadForReport, MarkRecordingComplete
<1>5. ASSUME \E r \in Requests : Respond(r) PROVE CleanedGone'
  BY <1>1, <1>5 DEF Respond, TryComplete, FlipComplete, KickFinalize
<1>6. ASSUME \E r \in Rejoins : RejoinReads(r) \/ RejoinReopens(r) PROVE CleanedGone'
  BY <1>1, <1>6 DEF RejoinReads, RejoinReopens
<1>7. CASE StopSession \/ SweepReads \/ ForceComplete \/ SweepKicks
  BY <1>1, <1>7 DEF StopSession, SweepReads, ForceComplete, SweepKicks
<1>8. CASE CleanupReads
  BY <1>0, <1>8 DEF CleanupReads, CleanedGone
<1>9. CASE DeleteChunks
  BY <1>0, <1>9 DEF DeleteChunks, CleanedGone, Known, TypeOK
<1>10. CASE MarkProcessed
  BY <1>0, <1>10 DEF MarkProcessed, CleanedGone, IdleCleaner
<1> QED BY <1>2, <1>3, <1>4, <1>5, <1>6, <1>7, <1>8, <1>9, <1>10 DEF RequestSteps

\* With no job given up on, only a run settles a claimed track.
LEMMA KickKeepsStatus ==
  ASSUME Known, MaybeFinalize
  PROVE  UNCHANGED <<status, output>>
BY DEF MaybeFinalize, Known, ChunkInv, JobAlive

\* How a request changes the status of a track.
LEMMA RequestStatus ==
  ASSUME Known, RequestSteps
  PROVE  \/ UNCHANGED <<status, isComplete>>
         \/ Closed /\ status' = "UPLOADED" /\ UNCHANGED isComplete
         \/ status = "UPLOADED" /\ status' = "UPLOADING" /\ isComplete' = FALSE
         \/ ~ended /\ status' = "UPLOADING" /\ isComplete' = FALSE
         \/ ~isComplete /\ isComplete' = TRUE /\ status' = "UPLOADED"
         \/ ~isComplete /\ isComplete' = TRUE /\ status' = "FAILED" /\ segs = {} /\ segs' = {}
<1> USE DEF row
<1>1. ASSUME NEW c \in Chunks, PutChunk(c) \/ ChunkSteps(c)
      PROVE  \/ UNCHANGED <<status, isComplete>>
             \/ Closed /\ status' = "UPLOADED" /\ UNCHANGED isComplete
  BY <1>1 DEF PutChunk, ChunkSteps, RegisterChunk, ChunkArrived, CheckCleaned, ReopenTrack,
     EnqueueStraggler, Closed
<1>2. ASSUME NEW t \in Tabs, ReadForReport(t) \/ (MarkRecordingComplete(t) /\ seen[t] = TheRow)
      PROVE  \/ UNCHANGED <<status, isComplete>>
             \/ status = "UPLOADED" /\ status' = "UPLOADING" /\ isComplete' = FALSE
  <2>1. CASE ReadForReport(t) BY <2>1 DEF ReadForReport
  <2>2. CASE MarkRecordingComplete(t) /\ seen[t] = TheRow
    <3>1. seen[t].status = status BY <2>2 DEF TheRow
    <3>2. MoreToCome(seen[t], t) => status = "UPLOADED" BY <3>1 DEF MoreToCome
    <3> DEFINE more == MoreToCome(seen[t], t)
    <3>3. /\ status' = IF more THEN "UPLOADING" ELSE status
          /\ isComplete' = (isComplete /\ ~more)
      BY <2>2 DEF MarkRecordingComplete
    <3>4. CASE more BY <3>2, <3>3, <3>4, Zenon
    <3>5. CASE ~more BY <3>3, <3>5, Zenon DEF Known, TypeOK
    <3> QED BY <3>4, <3>5
  <2> QED BY <1>2, <2>1, <2>2
<1>3. ASSUME NEW r \in Requests, Respond(r)
      PROVE  \/ UNCHANGED <<status, isComplete>>
             \/ ~isComplete /\ isComplete' = TRUE /\ status' = "UPLOADED"
  <2>1. CASE FlipComplete(r)
    <3>1. pc[r] = "flip" /\ seen[r].status = "UPLOADING"
      BY <2>1 DEF FlipComplete, Known, ChunkInv, Opened
    <3> QED BY <2>1, <3>1 DEF FlipComplete
  <2>2. CASE TryComplete(r) BY <2>2 DEF TryComplete
  <2>3. CASE KickFinalize(r) BY <2>3, KickKeepsStatus DEF KickFinalize
  <2> QED BY <1>3, <2>1, <2>2, <2>3 DEF Respond
<1>4. ASSUME NEW r \in Rejoins, RejoinReads(r) \/ (RejoinReopens(r) /\ ~ended)
      PROVE  \/ UNCHANGED <<status, isComplete>>
             \/ ~ended /\ status' = "UPLOADING" /\ isComplete' = FALSE
  BY <1>4 DEF RejoinReads, RejoinReopens
<1>5. CASE ForceComplete /\ (isComplete \/ ~SweepStale)
  <2>1. CASE isComplete BY <1>5, <2>1 DEF ForceComplete
  <2>2. CASE ~isComplete
    BY <1>5, <2>2 DEF ForceComplete, SweepStale, store
  <2> QED BY <2>1, <2>2
<1>6. CASE SweepKicks BY <1>6, KickKeepsStatus DEF SweepKicks
<1>7. CASE StopSession \/ SweepReads \/ CleanupReads \/ DeleteChunks \/ MarkProcessed
  BY <1>7 DEF StopSession, SweepReads, CleanupReads, DeleteChunks, MarkProcessed
<1> QED BY <1>1, <1>2, <1>3, <1>4, <1>5, <1>6, <1>7 DEF RequestSteps

\* Where a run takes the status: it claims, settles or re-opens its own track.
LEMMA RunStatus ==
  ASSUME Known, NEW w \in Runs, Works(w)
  PROVE  \/ UNCHANGED status
         \/ status # "UPLOADING" /\ status' \in Statuses \ {"UPLOADING"}
<1>0. /\ rpc[w] \in Building => status = "PROCESSING"
      /\ rpc[w] \in {"output", "leftover"} => status # "PROCESSING"
  BY DEF Known, ChunkInv, Claimed, SettleInv, Settled
<1>1. CASE RunFails(w)
  BY <1>0, <1>1 DEF RunFails, At, Building, FailTrack, Statuses
<1>2. CASE CheckLeftover(w)
  BY <1>0, <1>2 DEF CheckLeftover, At
<1>3. CASE ClaimTrack(w) BY <1>3 DEF ClaimTrack, Statuses
<1>4. CASE StartBuild(w) BY <1>0, <1>4 DEF StartBuild, At, Building, Statuses
<1>5. CASE WriteReady(w) BY <1>0, <1>5 DEF WriteReady, At, Building, Statuses
<1>6. CASE Recount(w) BY <1>6 DEF Recount, Statuses
<1>7. ASSUME PickUp(w) \/ Snapshot(w) \/ Download(w) \/ Encode(w) \/ WriteOutput(w)
             \/ FinishRun(w) \/ RequeueRun(w) \/ StorageFails(w)
      PROVE  UNCHANGED status
  BY <1>7 DEF PickUp, Snapshot, Download, Encode, WriteOutput, FinishRun, RequeueRun,
     StorageFails, row
<1> QED BY <1>1, <1>2, <1>3, <1>4, <1>5, <1>6, <1>7 DEF RunSteps, Works

LEMMA OpenedStep ==
  ASSUME Known, [Next]_vars
  PROVE  Opened'
<1>0. Opened /\ TypeOK BY DEF Known, ChunkInv
<1>1. (isComplete <=> status # "UPLOADING")'
  <2>1. CASE RequestSteps
    <3>1. isComplete <=> status # "UPLOADING" BY <1>0 DEF Opened
    <3>2. CASE UNCHANGED <<status, isComplete>>
      <4>1. status' = status /\ isComplete' = isComplete BY <3>2
      <4> QED BY <3>1, <4>1, Zenon
    <3>3. CASE Closed /\ status' = "UPLOADED" /\ UNCHANGED isComplete
      <4>1. status # "UPLOADING" /\ isComplete' = isComplete BY <3>3 DEF Closed
      <4> QED BY <3>1, <3>3, <4>1, Zenon
    <3>4. CASE status' = "UPLOADING" /\ isComplete' = FALSE BY <3>4, Zenon
    <3>5. CASE isComplete' = TRUE /\ status' \in {"UPLOADED", "FAILED"} BY <3>5, Zenon
    <3> QED BY <2>1, <3>2, <3>3, <3>4, <3>5, RequestStatus, Zenon
  <2>2. ASSUME NEW w \in Runs, Works(w) PROVE (isComplete <=> status # "UPLOADING")'
    <3>1. isComplete' = isComplete BY <2>2, RunFrame
    <3> QED BY <1>0, <2>2, <3>1, RunStatus DEF Opened
  <2>3. CASE UNCHANGED vars BY <1>0, <2>3 DEF Opened, vars, row
  <2> QED BY <2>1, <2>2, <2>3, CalmNext
<1>2. ASSUME NEW r \in Requests, pc'[r] = "flip" PROVE seen'[r].status = "UPLOADING"
  <2>0. pc[r] = "flip" => seen[r].status = "UPLOADING" BY <1>0 DEF Opened
  <2>s. UNCHANGED <<pc, seen>> => seen'[r].status = "UPLOADING" BY <1>2, <2>0
  <2>g. ASSUME NEW q \in Requests, NEW p \in ReqPhases \ {"flip"}, Goto(q, p),
               \A d \in Requests \ {q} : seen'[d] = seen[d]
        PROVE  seen'[r].status = "UPLOADING"
    BY <1>0, <1>2, <2>0, <2>g DEF Goto, TypeOK
  <2>k. ASSUME NEW q \in Requests, Return(q) \/ \E p \in ReqPhases : Keep(q, p)
        PROVE  \A d \in Requests \ {q} : seen'[d] = seen[d]
    BY <1>0, <2>k DEF Return, Keep, TypeOK
  <2>1. ASSUME NEW c \in Chunks, PutChunk(c) \/ ChunkSteps(c)
        PROVE  seen'[r].status = "UPLOADING"
    <3>1. \E p \in ReqPhases \ {"flip"} : Goto(c, p)
      BY <2>1 DEF PutChunk, ChunkSteps, RegisterChunk, ChunkArrived, CheckCleaned,
         ReopenTrack, EnqueueStraggler, Keep, Return, ReqPhases
    <3>2. UNCHANGED seen \/ Return(c) \/ \E p \in ReqPhases : Keep(c, p)
      BY <2>1 DEF PutChunk, ChunkSteps, RegisterChunk, ChunkArrived, CheckCleaned,
         ReopenTrack, EnqueueStraggler, ReqPhases
    <3> QED BY <2>g, <2>k, <3>1, <3>2 DEF Requests
  <2>2. ASSUME NEW t \in Tabs, ReadForReport(t) \/ MarkRecordingComplete(t)
        PROVE  seen'[r].status = "UPLOADING"
    <3>1. \E p \in ReqPhases \ {"flip"} : Goto(t, p)
      BY <2>2 DEF ReadForReport, MarkRecordingComplete, Keep, ReqPhases
    <3>2. UNCHANGED seen \/ \E p \in ReqPhases : Keep(t, p)
      BY <2>2 DEF ReadForReport, MarkRecordingComplete, ReqPhases
    <3> QED BY <2>g, <2>k, <3>1, <3>2 DEF Requests
  <2>3. ASSUME NEW q \in Requests, Respond(q) PROVE seen'[r].status = "UPLOADING"
    <3>1. CASE TryComplete(q) /\ ~isComplete /\ expected # None /\ Contiguous(expected)
      <4>1. Keep(q, "flip") /\ status = "UPLOADING"
        BY <1>0, <3>1 DEF TryComplete, Opened
      <4>2. seen' = [seen EXCEPT ![q] = TheRow] /\ pc' = [pc EXCEPT ![q] = "flip"]
        BY <4>1 DEF Keep, Goto
      <4>3. CASE r = q BY <1>0, <4>1, <4>2, <4>3 DEF TheRow, TypeOK
      <4>4. CASE r # q BY <1>0, <1>2, <2>0, <4>2, <4>4 DEF TypeOK
      <4> QED BY <4>3, <4>4
    <3>2. CASE TryComplete(q) /\ ~(~isComplete /\ expected # None /\ Contiguous(expected))
      <4>1. Return(q) BY <3>2 DEF TryComplete
      <4> QED BY <2>g, <2>k, <4>1 DEF Return, ReqPhases
    <3>3. CASE FlipComplete(q) \/ KickFinalize(q)
      <4>1. \E p \in ReqPhases \ {"flip"} : Goto(q, p)
        BY <3>3 DEF FlipComplete, KickFinalize, Return, ReqPhases
      <4>2. UNCHANGED seen \/ Return(q) BY <3>3 DEF FlipComplete, KickFinalize
      <4> QED BY <2>g, <2>k, <4>1, <4>2
    <3> QED BY <2>3, <3>1, <3>2, <3>3 DEF Respond
  <2>4. ASSUME NEW q \in Rejoins, RejoinReads(q) \/ RejoinReopens(q)
        PROVE  seen'[r].status = "UPLOADING"
    <3>1. \E p \in ReqPhases \ {"flip"} : Goto(q, p)
      BY <2>4 DEF RejoinReads, RejoinReopens, Keep, Return, ReqPhases
    <3>2. Return(q) \/ \E p \in ReqPhases : Keep(q, p)
      BY <2>4 DEF RejoinReads, RejoinReopens, ReqPhases
    <3> QED BY <2>g, <2>k, <3>1, <3>2 DEF Requests
  <2>5. CASE StopSession
    BY <2>5, <2>g DEF StopSession, Requests, ReqPhases
  <2>6. CASE SweepReads \/ ForceComplete \/ SweepKicks \/ CleanupReads \/ DeleteChunks
             \/ MarkProcessed \/ UNCHANGED vars
    BY <2>s, <2>6 DEF SweepReads, ForceComplete, SweepKicks, CleanupReads, DeleteChunks,
       MarkProcessed, vars, reqVars
  <2>7. ASSUME NEW w \in Runs, Works(w) PROVE seen'[r].status = "UPLOADING"
    BY <2>s, <2>7, RunFrame
  <2> QED BY <2>1, <2>2, <2>3, <2>4, <2>5, <2>6, <2>7, CalmNext DEF RequestSteps
<1> QED BY <1>1, <1>2 DEF Opened

\* A run's track stays claimed until the run settles it.
LEMMA ClaimedStep ==
  ASSUME Known, [Next]_vars
  PROVE  Claimed'
<1>0. TypeOK /\ Holder /\ Claimed /\ Opened BY DEF Known, ChunkInv
<1>1. CASE RequestSteps
  <2>1. rpc' = rpc BY <1>1, RequestFrame DEF runVars
  <2> SUFFICES ASSUME NEW w \in Runs, rpc[w] \in Building PROVE status' = "PROCESSING"
    BY <2>1 DEF Claimed
  <2>2. status = "PROCESSING" BY <1>0 DEF Claimed
  <2>3. isComplete BY <1>0, <2>2 DEF Opened
  <2>4. ended BY DEF Known, EndedInv, Building, Waiting
  <2> QED BY <1>1, <2>2, <2>3, <2>4, RequestStatus DEF Closed
<1>2. ASSUME NEW w \in Runs, Works(w) PROVE Claimed'
  \* Another run does not build, so only w's own phase counts.
  <2>1. ASSUME NEW p \in RunPhases, Step(w, p),
               p \in Building => status' = "PROCESSING",
               status' = status \/ \A v \in Runs \ {w} : ~Live(v)
        PROVE  Claimed'
    BY <1>0, <2>1 DEF Claimed, Step, TypeOK, Live, Building
  <2>2. Live(w) => \A v \in Runs \ {w} : ~Live(v) BY <1>0, OnlyOne
  <2>3. rpc[w] \in Building => status = "PROCESSING" BY <1>0 DEF Claimed
  <2>4. ASSUME PickUp(w) \/ FinishRun(w) \/ RequeueRun(w) \/ StorageFails(w) PROVE Claimed'
    <3>1. \E p \in {"claim", "idle", "requeue"} : Step(w, p)
      BY <2>4 DEF PickUp, FinishRun, RequeueRun, StorageFails, EndRun
    <3>2. status' = status BY <2>4 DEF PickUp, FinishRun, RequeueRun, StorageFails, row
    <3> QED BY <2>1, <3>1, <3>2 DEF RunPhases, Building
  <2>5. CASE ClaimTrack(w)
    BY <2>1, <2>2, <2>5 DEF ClaimTrack, At, Live, RunPhases, Building
  <2>6. CASE Snapshot(w) \/ Download(w) \/ Encode(w)
    <3>1. \E p \in RunPhases : Step(w, p)
      BY <2>6 DEF Snapshot, Download, Encode, RunPhases
    <3>2. status' = "PROCESSING" /\ status' = status
      BY <2>3, <2>6 DEF Snapshot, Download, Encode, At, Building, row
    <3> QED BY <2>1, <3>1, <3>2
  <2>7. CASE StartBuild(w)
    <3>1. \E p \in RunPhases : Step(w, p) BY <2>7 DEF StartBuild, RunPhases
    <3>2. status' = "PROCESSING" /\ status' = status
      BY <2>3, <2>7 DEF StartBuild, At, Building
    <3> QED BY <2>1, <3>1, <3>2
  <2>8. CASE WriteReady(w)
    BY <2>1, <2>2, <2>8 DEF WriteReady, At, Live, RunPhases, Building
  <2>9. CASE WriteOutput(w)
    <3>1. ~Spend("db") BY NotSpent DEF Known, OnlyStorage, FaultKinds
    <3>2. Step(w, "leftover") /\ status' = status BY <2>9, <3>1 DEF WriteOutput, row
    <3> QED BY <2>1, <3>2 DEF RunPhases, Building
  <2>10. CASE RunFails(w)
    BY <2>1, <2>2, <2>10 DEF RunFails, At, Live, RunPhases, Building
  <2>11. CASE CheckLeftover(w)
    BY <2>1, <2>2, <2>11 DEF CheckLeftover, At, Live, RunPhases, Building
  <2>12. CASE Recount(w)
    BY <2>1, <2>2, <2>12 DEF Recount, At, Live, RunPhases, Building
  <2> QED
    BY <1>2, <2>4, <2>5, <2>6, <2>7, <2>8, <2>9, <2>10, <2>11, <2>12 DEF RunSteps, Works
<1>3. CASE UNCHANGED vars BY <1>0, <1>3 DEF Claimed, vars, row, runVars
<1> QED BY <1>1, <1>2, <1>3, CalmNext

\* The attempts that fail leave one more, so the queue gives up on no job.
LEMMA JobAliveStep ==
  ASSUME Known, [Next]_vars
  PROVE  JobAlive'
<1> USE DEF jobVars
<1>0. TypeOK /\ Holder /\ JobAlive BY DEF Known, ChunkInv
<1>1. ASSUME rpc' = rpc, UNCHANGED <<job, owner>> \/ Enqueue PROVE JobAlive'
  BY <1>0, <1>1 DEF JobAlive, Live, Enqueue
<1>2. CASE RequestSteps
  <2>1. rpc' = rpc BY <1>2, RequestFrame DEF runVars
  <2>2. MaybeFinalize => UNCHANGED <<job, owner>> \/ Enqueue
    BY DEF MaybeFinalize
  <2>3. ASSUME NEW c \in Chunks, PutChunk(c) \/ ChunkSteps(c)
        PROVE  UNCHANGED <<job, owner>> \/ Enqueue
    BY <2>3 DEF PutChunk, ChunkSteps, RegisterChunk, ChunkArrived, CheckCleaned,
       ReopenTrack, EnqueueStraggler
  <2>4. ASSUME \E t \in Tabs : ReadForReport(t) \/ MarkRecordingComplete(t)
        PROVE  UNCHANGED <<job, owner>>
    BY <2>4 DEF ReadForReport, MarkRecordingComplete
  <2>5. ASSUME NEW r \in Requests, Respond(r) PROVE UNCHANGED <<job, owner>> \/ Enqueue
    BY <2>2, <2>5 DEF Respond, TryComplete, FlipComplete, KickFinalize
  <2>6. ASSUME \E r \in Rejoins : RejoinReads(r) \/ RejoinReopens(r)
        PROVE  UNCHANGED <<job, owner>>
    BY <2>6 DEF RejoinReads, RejoinReopens
  <2>7. ASSUME StopSession \/ SweepReads \/ ForceComplete \/ CleanupReads \/ DeleteChunks
               \/ MarkProcessed
        PROVE  UNCHANGED <<job, owner>>
    BY <2>7 DEF StopSession, SweepReads, ForceComplete, CleanupReads, DeleteChunks,
       MarkProcessed
  <2>8. SweepKicks => UNCHANGED <<job, owner>> \/ Enqueue BY <2>2 DEF SweepKicks
  <2>9. UNCHANGED <<job, owner>> \/ Enqueue
    BY <1>2, <2>3, <2>4, <2>5, <2>6, <2>7, <2>8 DEF RequestSteps
  <2> QED BY <1>1, <2>1, <2>9
<1>3. ASSUME NEW w \in Runs, Works(w) PROVE JobAlive'
  <2>1. CASE PickUp(w) BY <1>0, <2>1 DEF PickUp, Step, JobAlive, Live, TypeOK
  <2>2. CASE FinishRun(w)
    <3>1. owner = w BY <1>0, <2>2 DEF FinishRun, At, Holder, Live
    <3> QED BY <2>2, <3>1 DEF FinishRun, JobAlive
  <2>3. CASE RequeueRun(w)
    <3>1. rpc[w] = "requeue" /\ Enqueue /\ rpc' = [rpc EXCEPT ![w] = "idle"]
      BY <2>3 DEF RequeueRun, EndRun, Step, At
    <3>2. CASE job = "active"
      <4>1. owner \in Runs /\ Live(owner) /\ owner # w BY <1>0, <3>1, <3>2 DEF JobAlive, Live
      <4>2. job' = "active" /\ owner' = owner BY <3>1, <3>2 DEF Enqueue
      <4>3. rpc'[owner] = rpc[owner] BY <1>0, <3>1, <4>1 DEF TypeOK
      <4> QED BY <4>1, <4>2, <4>3 DEF JobAlive, Live
    <3>3. CASE job # "active"
      <4>1. job' \in {"queued", job} BY <3>1 DEF Enqueue
      <4> QED BY <1>0, <3>3, <4>1 DEF JobAlive
    <3> QED BY <3>2, <3>3
  <2>4. ASSUME ClaimTrack(w) \/ Snapshot(w) \/ StartBuild(w) \/ Download(w) \/ Encode(w)
               \/ WriteReady(w) \/ WriteOutput(w) \/ RunFails(w) \/ CheckLeftover(w)
               \/ Recount(w)
        PROVE  JobAlive'
    <3>1. UNCHANGED jobVars
      BY <2>4 DEF ClaimTrack, Snapshot, StartBuild, Download, Encode, WriteReady,
         WriteOutput, RunFails, CheckLeftover, Recount
    <3>2. \E p \in RunPhases \ {"idle", "requeue"} : Step(w, p)
      BY <2>4 DEF ClaimTrack, Snapshot, StartBuild, Download, Encode, WriteReady,
         WriteOutput, RunFails, CheckLeftover, Recount, RunPhases
    <3> QED BY <1>0, <3>1, <3>2 DEF Step, JobAlive, Live, TypeOK
  <2>5. CASE StorageFails(w)
    <3>1. owner = w BY <1>0, <2>5 DEF StorageFails, At, Holder, Live
    <3>2. attempts + 1 < Attempts
      BY <2>5, CountsAssumption
      DEF StorageFails, Spend, Known, TypeOK, OnlyStorage, FaultKinds
    <3> QED BY <2>5, <3>1, <3>2 DEF StorageFails, JobAlive
  <2> QED BY <1>3, <2>1, <2>2, <2>3, <2>4, <2>5 DEF RunSteps, Works
<1>4. CASE UNCHANGED vars BY <1>1, <1>4 DEF vars, runVars
<1> QED BY <1>2, <1>3, <1>4, CalmNext

\* An attempt is used up only when a storage error is.
LEMMA RetriesStep ==
  ASSUME Known, [Next]_vars
  PROVE  OnlyStorage'
<1> USE DEF jobVars
<1>0. TypeOK /\ Holder /\ OnlyStorage BY DEF Known
<1>1. \A k \in FaultKinds \ {"storage"} : faults'[k] = 0
  BY <1>0, BudgetKept DEF OnlyStorage
<1>2. ASSUME UNCHANGED faults, attempts' = attempts \/ Enqueue PROVE OnlyStorage'
  BY <1>0, <1>1, <1>2, CountsAssumption DEF OnlyStorage, Enqueue, TypeOK, FaultKinds
<1>k. MaybeFinalize => attempts' = attempts \/ Enqueue BY DEF MaybeFinalize
<1>3. CASE RequestSteps
  <2>1. ASSUME NEW c \in Chunks, PutChunk(c) \/ ChunkSteps(c) PROVE OnlyStorage'
    BY <1>2, <2>1 DEF PutChunk, ChunkSteps, RegisterChunk, ChunkArrived, CheckCleaned,
       ReopenTrack, EnqueueStraggler
  <2>2. ASSUME NEW t \in Tabs, ReadForReport(t) \/ (MarkRecordingComplete(t) /\ seen[t] = TheRow)
        PROVE  OnlyStorage'
    BY <1>2, <2>2 DEF ReadForReport, MarkRecordingComplete, Unguarded
  <2>3. ASSUME NEW r \in Requests, Respond(r) PROVE OnlyStorage'
    BY <1>2, <1>k, <2>3 DEF Respond, TryComplete, FlipComplete, KickFinalize
  <2>4. ASSUME NEW r \in Rejoins, RejoinReads(r) \/ (RejoinReopens(r) /\ ~ended)
        PROVE  OnlyStorage'
    <3>1. ~Spend("rejoinRace") BY <1>0, NotSpent DEF OnlyStorage, FaultKinds
    <3> QED BY <1>2, <2>4, <3>1 DEF RejoinReads, RejoinReopens, Unguarded
  <2>5. CASE ForceComplete /\ (isComplete \/ ~SweepStale)
    <3>1. UNCHANGED faults BY <2>5 DEF ForceComplete, Unguarded
    <3> QED BY <1>2, <2>5, <3>1 DEF ForceComplete
  <2>6. CASE SweepKicks BY <1>2, <1>k, <2>6 DEF SweepKicks
  <2>7. CASE StopSession \/ SweepReads \/ CleanupReads \/ DeleteChunks \/ MarkProcessed
    BY <1>2, <2>7 DEF StopSession, SweepReads, CleanupReads, DeleteChunks, MarkProcessed
  <2> QED BY <1>3, <2>1, <2>2, <2>3, <2>4, <2>5, <2>6, <2>7 DEF RequestSteps
<1>4. ASSUME NEW w \in Runs, Works(w) PROVE OnlyStorage'
  <2>1. CASE StorageFails(w)
    <3>1. owner = w BY <1>0, <2>1 DEF StorageFails, At, Holder, Live
    <3>2. /\ attempts' = attempts + 1 /\ faults["storage"] > 0
          /\ faults' = [faults EXCEPT !["storage"] = @ - 1]
      BY <2>1, <3>1 DEF StorageFails, Spend
    <3>3. /\ faults["storage"] \in Nat /\ attempts \in Nat /\ Attempts \in Nat
          /\ faults'["storage"] = faults["storage"] - 1
      BY <1>0, <3>2, CountsAssumption DEF TypeOK, FaultKinds
    <3>4. attempts + faults["storage"] < Attempts BY <1>0 DEF OnlyStorage
    <3>5. attempts' + faults'["storage"] < Attempts BY <3>2, <3>3, <3>4
    <3> QED BY <1>1, <3>5 DEF OnlyStorage
  <2>2. CASE WriteOutput(w) \/ RunFails(w)
    <3>1. ~Spend("db") BY <1>0, NotSpent DEF OnlyStorage, FaultKinds
    <3> QED BY <1>2, <2>2, <3>1 DEF WriteOutput, RunFails
  <2>3. ASSUME PickUp(w) \/ ClaimTrack(w) \/ Snapshot(w) \/ StartBuild(w) \/ Download(w)
               \/ Encode(w) \/ WriteReady(w) \/ CheckLeftover(w) \/ Recount(w)
               \/ FinishRun(w) \/ RequeueRun(w)
        PROVE  OnlyStorage'
    BY <1>2, <2>3 DEF PickUp, ClaimTrack, Snapshot, StartBuild, Download, Encode,
       WriteReady, CheckLeftover, Recount, FinishRun, RequeueRun
  <2> QED BY <1>4, <2>1, <2>2, <2>3 DEF Works, RunSteps
<1>5. CASE UNCHANGED vars BY <1>2, <1>5 DEF vars
<1> QED BY <1>3, <1>4, <1>5, CalmNext

\* What a run is about to upload is what it claimed, or what it found instead of
\* nothing.
LEMMA BuiltStep ==
  ASSUME Known, [Next]_vars
  PROVE  Built'
<1> USE DEF store, result
<1>0. TypeOK /\ Holder /\ Built /\ Stored
  BY DEF Known, ChunkInv, SettleInv
<1>1. CASE RequestSteps
  <2>1. UNCHANGED <<master, runVars>> BY <1>1, RequestFrame
  <2>2. Whole' => Whole BY <1>1, WholeBefore
  <2> QED BY <1>0, <2>1, <2>2 DEF Built, runVars
<1>2. ASSUME NEW w \in Runs, Works(w) PROVE Built'
  <2>0. Whole' <=> Whole BY <1>2, RunFrame DEF Whole
  <2>s. ASSUME NEW p \in RunPhases \ {"download", "encode", "ready", "fail"}, Step(w, p),
               UNCHANGED <<master, parts, claimed>>
        PROVE  Built'
    BY <1>0, <2>0, <2>s DEF Built, Step, TypeOK
  <2>e. ASSUME EndRun(w), UNCHANGED master PROVE Built'
    BY <1>0, <2>0, <2>e DEF Built, EndRun, Step, TypeOK
  <2>1. CASE PickUp(w) BY <2>1, <2>s DEF PickUp, RunPhases
  <2>2. CASE ClaimTrack(w) BY <2>2, <2>s DEF ClaimTrack, RunPhases
  <2>3. CASE Snapshot(w)
    BY <1>0, <2>0, <2>3 DEF Snapshot, Built, Step, TypeOK
  <2>4. CASE StartBuild(w)
    <3> DEFINE rows == IF claimed[w] = {} THEN segs ELSE claimed[w]
    <3>1. /\ rpc' = [rpc EXCEPT ![w] = IF rows = {} THEN "fail" ELSE "download"]
          /\ parts' = [parts EXCEPT ![w] = rows] /\ UNCHANGED <<master, claimed, segs>>
      BY <2>4 DEF StartBuild, Step
    <3>2. rows = {} => claimed[w] = {} /\ master = {} BY <1>0 DEF Stored
    <3>3. claimed[w] = {} \/ rows = claimed[w] OBVIOUS
    <3> HIDE DEF rows
    <3> QED BY <1>0, <2>0, <3>1, <3>2, <3>3 DEF Built, TypeOK
  <2>5. CASE Download(w)
    <3>1. /\ At(w, "download") /\ UNCHANGED <<master, claimed>>
          /\ parts' = [parts EXCEPT ![w] = parts[w] \cap objects]
          /\ \/ rpc' = [rpc EXCEPT ![w] = "encode"]
             \/ /\ rpc' = [rpc EXCEPT ![w] = "fail"]
                /\ parts[w] \cap objects \in {{}} \/ parts[w] \cap objects # parts[w]
      BY <2>5 DEF Download, Step
    <3>2. Whole => parts[w] \cap objects = parts[w] BY <1>0 DEF Whole, Stored
    <3>3. parts[w] # {} /\ (Whole => claimed[w] = {} \/ parts[w] = claimed[w])
      BY <1>0, <3>1 DEF Built, At
    <3> QED BY <1>0, <2>0, <3>1, <3>2, <3>3 DEF Built, TypeOK
  <2>6. CASE Encode(w)
    BY <1>0, <2>0, <2>6 DEF Encode, At, Built, Step, TypeOK
  <2>7. CASE WriteReady(w)
    <3>1. \A v \in Runs \ {w} : ~Live(v) BY <1>0, <2>7, OnlyOne DEF WriteReady, At, Live
    <3> QED BY <1>0, <2>7, <3>1 DEF WriteReady, Step, Built, TypeOK, Live
  <2>8. CASE WriteOutput(w)
    <3>1. ~Spend("db") BY NotSpent DEF Known, OnlyStorage, FaultKinds
    <3> QED BY <2>8, <2>s, <3>1 DEF WriteOutput, RunPhases
  <2>9. CASE RunFails(w) BY <2>9, <2>s DEF RunFails, RunPhases
  <2>10. CASE CheckLeftover(w) BY <2>10, <2>s DEF CheckLeftover, RunPhases
  <2>11. CASE Recount(w) BY <2>11, <2>s DEF Recount, RunPhases
  <2>12. CASE FinishRun(w)
    <3>1. CASE owner = w /\ rerun[w] BY <2>12, <3>1, <2>s DEF FinishRun, RunPhases
    <3>2. CASE ~(owner = w /\ rerun[w]) BY <2>12, <3>2, <2>e DEF FinishRun
    <3> QED BY <3>1, <3>2
  <2>13. CASE RequeueRun(w) BY <2>13, <2>e DEF RequeueRun
  <2>14. CASE StorageFails(w) BY <2>14, <2>e DEF StorageFails
  <2> QED
    BY <1>2, <2>1, <2>2, <2>3, <2>4, <2>5, <2>6, <2>7, <2>8, <2>9, <2>10, <2>11, <2>12,
       <2>13, <2>14 DEF RunSteps, Works
<1>3. CASE UNCHANGED vars BY <1>0, <1>3 DEF Built, Whole, vars, runVars
<1> QED BY <1>1, <1>2, <1>3, CalmNext

\* A run that missed a chunk counts fewer than there are.
LEMMA CountsTell ==
  ASSUME NEW S \in SUBSET Chunks, NEW T \in SUBSET S, T # S
  PROVE  Cardinality(S) > Cardinality(T)
<1>1. IsFiniteSet(Chunks) BY CountsAssumption, FS_Interval DEF Chunks
<1>2. IsFiniteSet(S) BY <1>1, FS_Subset
<1>3. IsFiniteSet(T) /\ Cardinality(T) <= Cardinality(S) /\ Cardinality(S) # Cardinality(T)
  BY <1>2, FS_Subset
<1>4. Cardinality(S) \in Nat /\ Cardinality(T) \in Nat BY <1>2, <1>3, FS_CardinalityType
<1> QED BY <1>3, <1>4

\* Who owes a settled track its late chunk still does after a request's step.
LEMMA OwedByRequests ==
  ASSUME Known, RequestSteps
  PROVE  Owed'
<1> USE DEF store
<1>0. TypeOK /\ Owed /\ Opened /\ CleanedGone BY DEF Known, ChunkInv
<1>1. /\ master' = master /\ rpc' = rpc /\ claimed' = claimed
      /\ Whole' => Whole
  BY WholeBefore, RequestFrame DEF runVars
<1>2. ASSUME NEW c \in Chunks, RegisterChunk(c) PROVE Owed'
  <2>1. Late(c)' BY <1>0, <1>2 DEF RegisterChunk, Goto, Late, TypeOK, Requests
  <2> QED BY <2>1 DEF Owed
<1>3. ASSUME ~\E c \in Chunks : RegisterChunk(c), Whole', Closed' PROVE Owed'
  <2>1. segs' = segs BY <1>3, RequestFrame
  <2>2. CASE status' = "FAILED" /\ segs = {}
    <3>1. master = {} BY <2>2 DEF Known, SettleInv, Stored
    <3> QED BY <1>1, <2>1, <2>2, <3>1 DEF Owed
  <2>3. CASE ~(status' = "FAILED" /\ segs = {})
    <3>1. status' = status BY <1>3, <2>3, RequestStatus DEF Closed
    <3>2. Whole /\ Closed BY <1>1, <1>3, <3>1 DEF Closed
    <3>3. isComplete /\ cleaned = {}
      BY <1>0, <3>2 DEF Opened, Closed, CleanedGone, Whole
    <3>4. CASE master = segs BY <1>1, <2>1, <3>4 DEF Owed
    <3>5. ASSUME NEW w \in Runs, Recounts(w) PROVE Owed'
      <4>1. Recounts(w)' BY <1>1, <2>1, <3>5 DEF Recounts
      <4> QED BY <4>1 DEF Owed
    <3>6. ASSUME NEW c \in Chunks, Late(c) PROVE Owed'
      <4>1. c \in segs /\ pc[c] \in {"arrived", "cleaned?", "reopen"} /\ c \in Requests
        BY <3>6 DEF Late, Requests
      <4>k. pc'[c] \in {"arrived", "cleaned?", "reopen"} => Owed'
        BY <2>1, <4>1 DEF Late, Owed
      <4>o. ASSUME NEW r \in Requests, NEW p \in ReqPhases, Goto(r, p),
                   pc[r] \notin {"arrived", "cleaned?", "reopen"}
            PROVE  Owed'
        BY <1>0, <4>1, <4>k, <4>o DEF Goto, TypeOK
      <4>2. ASSUME NEW d \in Chunks, PutChunk(d) \/ ChunkSteps(d) PROVE Owed'
        <5>1. CASE PutChunk(d)
          BY <4>o, <5>1 DEF PutChunk, Requests, ReqPhases
        <5>2. CASE EnqueueStraggler(d)
          BY <4>o, <5>2 DEF EnqueueStraggler, Return, Requests, ReqPhases
        <5>3. CASE ReopenTrack(d)
          BY <3>1, <3>2, <5>3 DEF ReopenTrack, Closed
        <5>4. CASE ChunkArrived(d)
          <6>1. pc' = [pc EXCEPT ![d] = "cleaned?"]
            BY <3>2, <3>3, <5>4 DEF ChunkArrived, Keep, Goto, Closed
          <6> QED BY <1>0, <4>1, <4>k, <6>1 DEF TypeOK
        <5>5. CASE CheckCleaned(d)
          <6>1. pc' = [pc EXCEPT ![d] = "reopen"]
            BY <3>3, <5>5 DEF CheckCleaned, Goto
          <6> QED BY <1>0, <4>1, <4>k, <6>1 DEF TypeOK
        <5> QED BY <1>3, <4>2, <5>1, <5>2, <5>3, <5>4, <5>5 DEF ChunkSteps
      <4>3. ASSUME NEW t \in Tabs, ReadForReport(t) \/ MarkRecordingComplete(t) PROVE Owed'
        BY <4>3, <4>o DEF ReadForReport, MarkRecordingComplete, Keep, Requests, ReqPhases
      <4>4. ASSUME NEW r \in Requests, Respond(r) PROVE Owed'
        <5>1. pc[r] \notin {"arrived", "cleaned?", "reopen"}
          BY <4>4 DEF Respond, TryComplete, FlipComplete, KickFinalize
        <5>2. \E p \in ReqPhases : Goto(r, p)
          BY <4>4 DEF Respond, TryComplete, FlipComplete, KickFinalize, Keep, Return,
             ReqPhases
        <5> QED BY <4>o, <5>1, <5>2
      <4>5. ASSUME NEW r \in Rejoins, RejoinReads(r) \/ RejoinReopens(r) PROVE Owed'
        <5>1. pc[r] \notin {"arrived", "cleaned?", "reopen"}
          BY <4>5 DEF RejoinReads, RejoinReopens
        <5>2. \E p \in ReqPhases : Goto(r, p)
          BY <4>5 DEF RejoinReads, RejoinReopens, Keep, Return, ReqPhases
        <5> QED BY <4>o, <5>1, <5>2 DEF Requests
      <4>6. CASE StopSession
        BY <4>6, <4>o DEF StopSession, Requests, ReqPhases
      <4>7. ASSUME SweepReads \/ ForceComplete \/ SweepKicks \/ CleanupReads \/ DeleteChunks
                   \/ MarkProcessed
            PROVE  pc' = pc
        BY <4>7 DEF SweepReads, ForceComplete, SweepKicks, CleanupReads, DeleteChunks,
           MarkProcessed, reqVars
      <4> QED
        BY <4>1, <4>k, <4>2, <4>3, <4>4, <4>5, <4>6, <4>7 DEF RequestSteps
    <3> QED BY <1>0, <3>2, <3>4, <3>5, <3>6 DEF Owed
  <2> QED BY <2>2, <2>3
<1> QED BY <1>2, <1>3 DEF Owed

\* A run that settles a track has all chunks, or finds out when it counts again.
LEMMA OwedByRuns ==
  ASSUME Known, NEW w \in Runs, Works(w)
  PROVE  Owed'
<1> USE DEF store, result
<1>0. TypeOK /\ Holder /\ Stored /\ Owed /\ Claimed /\ Built /\ NonEmpty
  BY DEF Known, ChunkInv, SettleInv, MasterInv
<1>1. UNCHANGED <<segs, objects, pc>> BY RunFrame
<1>2. (Whole' <=> Whole) /\ \A c \in Chunks : Late(c)' <=> Late(c)
  BY <1>1 DEF Whole, Late
<1>3. claimed[w] \subseteq segs /\ segs \subseteq Chunks BY <1>0 DEF Stored, TypeOK
<1>b. Closed => rpc[w] \notin Building BY <1>0 DEF Claimed, Closed
\* w goes on, and settles nothing.
<1>s. ASSUME NEW p \in RunPhases, Step(w, p), UNCHANGED <<master, claimed>>,
             Closed' => Closed,
             rpc[w] \in {"output", "leftover", "recount"} =>
                p \in {"output", "leftover", "recount"} \/ claimed[w] = segs \/ ~Closed'
      PROVE  Owed'
  <2> SUFFICES ASSUME Whole', Closed', master # segs, \A c \in Chunks : ~Late(c)
               PROVE  \E v \in Runs : Recounts(v)'
    BY <1>1, <1>2, <1>s DEF Owed
  <2>1. PICK v \in Runs : Recounts(v) BY <1>0, <1>2, <1>s DEF Owed
  <2>2. rpc'[v] \in {"output", "leftover", "recount"}
    BY <1>0, <1>s, <2>1 DEF Recounts, Step, TypeOK
  <2> QED BY <1>1, <1>s, <2>1, <2>2 DEF Recounts
\* w settles the track, and has yet to count again.
<1>t. ASSUME NEW p \in {"output", "leftover", "recount"}, Step(w, p), UNCHANGED claimed,
             Whole => master' = segs \/ claimed[w] # segs
      PROVE  Owed'
  <2>1. rpc'[w] = p BY <1>0, <1>t DEF Step, TypeOK
  <2> QED BY <1>1, <1>2, <1>t, <2>1 DEF Owed, Recounts
<1>e. ASSUME EndRun(w), UNCHANGED <<master, status>>,
             rpc[w] \notin {"output", "leftover", "recount"}
      PROVE  Owed'
  <2> SUFFICES ASSUME Whole', Closed', master # segs, \A c \in Chunks : ~Late(c)
               PROVE  \E v \in Runs : Recounts(v)'
    BY <1>1, <1>2, <1>e DEF Owed
  <2>1. PICK v \in Runs : Recounts(v) BY <1>0, <1>2, <1>e DEF Owed, Closed
  <2>2. v # w BY <1>e, <2>1 DEF Recounts
  <2>3. rpc'[v] = rpc[v] /\ claimed'[v] = claimed[v]
    BY <1>0, <1>e, <2>2 DEF EndRun, Step, TypeOK
  <2> QED BY <1>1, <2>1, <2>3 DEF Recounts
<1>4. CASE PickUp(w) BY <1>4, <1>s DEF PickUp, At, RunPhases, Closed, row
<1>5. CASE ClaimTrack(w) BY <1>5, <1>s DEF ClaimTrack, At, RunPhases, Closed
<1>6. CASE Snapshot(w)
  BY <1>b, <1>6 DEF Snapshot, At, Building, Owed, Closed, row
<1>7. CASE StartBuild(w)
  <2>1. \E p \in RunPhases : Step(w, p) BY <1>7 DEF StartBuild, RunPhases
  <2> QED BY <1>7, <1>s, <2>1 DEF StartBuild, At, Closed
<1>8. CASE Download(w)
  <2>1. \E p \in RunPhases : Step(w, p) BY <1>8 DEF Download, RunPhases
  <2> QED BY <1>8, <1>s, <2>1 DEF Download, At, Closed, row
<1>9. CASE Encode(w) BY <1>9, <1>s DEF Encode, At, RunPhases, Closed, row
<1>10. CASE WriteReady(w)
  <2>1. Whole => claimed[w] = {} \/ parts[w] = claimed[w]
    BY <1>0, <1>10 DEF WriteReady, At, Built
  <2>2. parts[w] # {} /\ parts[w] \subseteq segs
    BY <1>0, <1>10 DEF WriteReady, At, NonEmpty, Stored
  <2>3. Whole => parts[w] = segs \/ claimed[w] # segs BY <2>1, <2>2
  <2> QED BY <1>10, <1>t, <2>3 DEF WriteReady
<1>11. CASE WriteOutput(w)
  <2>1. ~Spend("db") BY NotSpent DEF Known, OnlyStorage, FaultKinds
  <2> QED BY <1>11, <1>s, <2>1 DEF WriteOutput, At, RunPhases, Closed, row
<1>12. CASE RunFails(w)
  <2>1. Whole => claimed[w] = {} /\ master = {} BY <1>0, <1>12 DEF RunFails, At, Built
  <2>2. Whole => master = segs \/ claimed[w] # segs BY <2>1
  <2> QED BY <1>12, <1>t, <2>2 DEF RunFails
<1>13. CASE CheckLeftover(w)
  <2>1. status # "PROCESSING"
    BY <1>13 DEF CheckLeftover, At, Known, SettleInv, Settled
  <2> QED BY <1>13, <1>s, <2>1 DEF CheckLeftover, At, RunPhases, Closed
<1>14. CASE Recount(w)
  <2>1. CASE claimed[w] = segs
    <3>1. status' \in {status, "UPLOADED"} BY <1>14 DEF Recount
    <3> QED BY <1>14, <1>s, <2>1, <3>1 DEF Recount, RunPhases, Closed
  <2>2. CASE claimed[w] # segs
    <3>1. Cardinality(segs) > Cardinality(claimed[w]) BY <1>3, <2>2, CountsTell
    <3>2. ~Closed' BY <1>14, <3>1 DEF Recount, Closed
    <3> QED BY <3>2 DEF Owed
  <2> QED BY <2>1, <2>2
<1>15. CASE FinishRun(w)
  <2>1. CASE owner = w /\ rerun[w]
    BY <1>15, <1>s, <2>1 DEF FinishRun, At, RunPhases, Closed, row
  <2>2. CASE ~(owner = w /\ rerun[w])
    BY <1>15, <1>e, <2>2 DEF FinishRun, At, row
  <2> QED BY <2>1, <2>2
<1>16. CASE RequeueRun(w) BY <1>16, <1>e DEF RequeueRun, At, row
<1>17. CASE StorageFails(w) BY <1>17, <1>e DEF StorageFails, At, row
<1> QED
  BY <1>4, <1>5, <1>6, <1>7, <1>8, <1>9, <1>10, <1>11, <1>12, <1>13, <1>14, <1>15, <1>16,
     <1>17
  DEF RunSteps, Works

LEMMA ChunkInvStep ==
  ASSUME Known, [Next]_vars
  PROVE  ChunkInv'
<1>1. CASE RequestSteps
  BY <1>1, ArrivedStep, CleanedStep, OpenedStep, ClaimedStep, JobAliveStep, BuiltStep,
     OwedByRequests DEF ChunkInv
<1>2. ASSUME NEW w \in Runs, Works(w) PROVE ChunkInv'
  <2>1. UNCHANGED <<segs, cleaned, objects, pc, cleaner>> BY <1>2, RunFrame DEF store
  <2>2. Arrived' /\ CleanedGone' BY <2>1 DEF Known, ChunkInv, Arrived, CleanedGone
  <2> QED
    BY <1>2, <2>2, OpenedStep, ClaimedStep, JobAliveStep, BuiltStep, OwedByRuns
    DEF ChunkInv
<1>3. CASE UNCHANGED vars
  <2>1. Arrived' /\ CleanedGone' /\ Owed'
    BY <1>3 DEF Known, ChunkInv, Arrived, CleanedGone, Owed, Whole, Closed, Late, Recounts,
       vars, row, store, result, reqVars, runVars, sweepers
  <2> QED BY <2>1, OpenedStep, ClaimedStep, JobAliveStep, BuiltStep DEF ChunkInv
<1> QED BY <1>1, <1>2, <1>3, CalmNext

\* Every registered chunk ends up in the master, for any number of chunks, tabs,
\* rejoins and workers and however late chunks and reports arrive: a settled track
\* is re-opened by the chunk (onSegmentArrived) or by the run's second count, and
\* only chunks the cleanup took are left out.  Storage may fail as long as the job
\* has an attempt left (DEFAULT_JOB_OPTS).  Any other fault can cost a chunk: a
\* worker that dies before it counts again, an encode that falls back to its first
\* part, a request that dies, a settling query that fails, a write on a stale read.
THEOREM EveryChunkIsInTheMaster ==
  ASSUME MaxFaults["storage"] < Attempts,
         \A k \in FaultKinds \ {"storage"} : MaxFaults[k] = 0
  PROVE  Spec => []NoChunkForgotten
<1> DEFINE Inv == MasterInv /\ Holder /\ SettleInv /\ EndedInv /\ OnlyStorage /\ ChunkInv
<1>1. Init => Inv
  <2> SUFFICES ASSUME Init PROVE Inv OBVIOUS
  <2>1. EndedInv BY DEF Init, EndedInv, Waiting, IdleSweep
  <2>2. OnlyStorage
    BY FaultsAssumption, CountsAssumption DEF Init, OnlyStorage, FaultKinds
  <2>3. Arrived /\ CleanedGone /\ JobAlive
    BY DEF Init, Arrived, CleanedGone, JobAlive, IdleCleaner
  <2>4. Opened BY DEF Init, Opened
  <2>5. Claimed /\ Built /\ Owed BY DEF Init, Claimed, Building, Built, Owed, Closed
  <2> QED BY <2>1, <2>2, <2>3, <2>4, <2>5, InitSettle DEF ChunkInv
<1>2. TypeOK /\ Inv /\ [Next]_vars => Inv'
  <2> SUFFICES ASSUME TypeOK, Inv, [Next]_vars PROVE Inv' OBVIOUS
  <2>0. Known BY DEF Known
  <2>1. \A k \in FaultKinds \ {"storage"} : faults[k] = 0 BY DEF OnlyStorage
  <2>2. LockInv /\ Reliable BY <2>1 DEF LockInv, NoStall, Reliable, FaultKinds
  <2>3. MasterInv' /\ Holder' /\ SettleInv' BY <2>2, NextMaster, NextHolder, NextSettle
  <2>4. EndedInv' BY <2>1, NextEnded DEF FaultKinds
  <2>5. OnlyStorage' BY <2>0, RetriesStep
  <2> QED BY <2>0, <2>3, <2>4, <2>5, ChunkInvStep
<1>3. Inv => NoChunkForgotten
  BY DEF ChunkInv, Owed, NoChunkForgotten, AtRest, Whole, Closed, Late, Recounts, Requests
<1> QED BY <1>1, <1>2, <1>3, TypeCorrect, PTL DEF Spec

=============================================================================
