------------------------- MODULE ServicesMC_proofs -------------------------
(***************************************************************************)
(* The parts of ServicesMC keep their properties side by side: a step of    *)
(* the sum is a step of one part and leaves the variables of the others     *)
(* alone, so what is inductive in a part is inductive in the sum.          *)
(***************************************************************************)
EXTENDS ServicesMC, Integers, FiniteSetTheorems, TLAPS

RecorderProof == INSTANCE LocalRecorder_proofs
AudioProof    == INSTANCE AudioTimeline_proofs WITH run <- building

----------------------------------------------------------------------------
(* The link of the WAV. *)

LEMMA LinkSteps == [Next]_vars => [Link!Next]_linkVars
  BY DEF Next, Only, vars, linkVars

\* While some row lacks the WAV, one of the two runs has not come to its link, or
\* is in it and has seen the WAV: whoever ends last attaches it.
WillAttach ==
  \/ pcm = "link"
  \/ camera \in {"aligned", "link"}
  \/ camera = "attach" /\ seen

LinkInv ==
  /\ crashes \in Nat
  /\ crashes = 0 /\ wav /\ ~failedRow => attached = outputs \/ WillAttach

LEMMA LinkInvStep == LinkInv /\ [Link!Next]_linkVars => LinkInv'
<1> SUFFICES ASSUME LinkInv, [Link!Next]_linkVars PROVE LinkInv'
  OBVIOUS
<1> USE DEF LinkInv, WillAttach
<1>1. CASE Link!CameraStarts BY <1>1 DEF Link!CameraStarts
<1>2. CASE Link!CameraFails
  \* Without a master the row says FAILED, and nothing is asked of it.
  BY <1>2 DEF Link!CameraFails
<1>3. CASE Link!WriteRaw BY <1>3 DEF Link!WriteRaw
<1>4. CASE Link!WriteAligned BY <1>4 DEF Link!WriteAligned
<1>5. CASE Link!LinkReads BY <1>5 DEF Link!LinkReads
<1>6. CASE Link!LinkWrites
  \* Either this run attaches it, or the PCM run came to its link meanwhile.
  BY <1>6 DEF Link!LinkWrites
<1>7. CASE Link!PcmStarts BY <1>7 DEF Link!PcmStarts
<1>8. CASE Link!PcmFails BY <1>8 DEF Link!PcmFails
<1>9. CASE Link!WriteWav BY <1>9 DEF Link!WriteWav
<1>10. CASE Link!PcmLinks BY <1>10 DEF Link!PcmLinks
<1>11. CASE Link!WorkerDies BY <1>11 DEF Link!WorkerDies
<1>12. CASE UNCHANGED linkVars BY <1>12 DEF linkVars
<1> QED BY <1>1, <1>2, <1>3, <1>4, <1>5, <1>6, <1>7, <1>8, <1>9, <1>10, <1>11, <1>12
        DEF Link!Next

\* However often the camera's and the PCM track's jobs run and whichever ends
\* last, every output row of the camera track names the WAV, as long as no
\* worker died (linkPcmWavToVideoOutput, finalizePcmRecording).
THEOREM WavReachesOutputs == Spec => []WavIsAttached
<1>1. Init => LinkInv
  BY DEF LinkInv, WillAttach, Init, Link!Init
<1>2. LinkInv /\ [Next]_vars => LinkInv'
  BY LinkSteps, LinkInvStep
<1>3. LinkInv => WavIsAttached
  BY DEF LinkInv, WillAttach, WavIsAttached, Link!WavIsAttached
<1> QED BY <1>1, <1>2, <1>3, PTL DEF Spec

----------------------------------------------------------------------------
(* The settling of a session. *)

LEMMA SettleSteps == [Next]_vars => [Settle!Next]_settleVars
  BY DEF Next, Only, vars, settleVars

Decisions == {"none", "READY", "nothing", "FAILED"}

SettleTypes ==
  /\ run \in [Tracks -> {"none", "encode", "output", "count", "settle"}]
  /\ decision \in [Settle!Settlers -> Decisions]
  /\ \A t \in Tracks : decision[t] # "none" => run[t] = "settle"

Counting == \E t \in Tracks : run[t] = "count"
Writing  == \E s \in Settle!Settlers : decision[s] = "READY"
Written  == status = "READY" /\ \A s \in Settle!Settlers : decision[s] # "FAILED"

\* From the moment a track has an output that can be downloaded, and as long as no
\* worker died, either somebody is still going to write READY, or READY is written
\* and nobody holds an older FAILED, unless one was overtaken.
SettleInv ==
  /\ SettleTypes
  /\ ~nobody /\ output # {} => Counting \/ Writing \/ Written \/ overtaken # {}

LEMMA SettleInvInit == Settle!Init => SettleInv
  BY DEF Settle!Init, SettleInv, SettleTypes, Settle!Settlers, Decisions

LEMMA TrackKeepsSettleInv ==
  ASSUME Settle!Kick \notin Tracks, SettleInv, NEW t \in Tracks,
         Settle!TrackCompletes(t) \/ Settle!Claim(t) \/ Settle!EncodeSucceeds(t) \/ Settle!EncodeFails(t)
           \/ Settle!WriteOutput(t) \/ Settle!LateChunk(t) \/ Settle!WorkerDies(t)
  PROVE  SettleInv'
<1> USE DEF Settle!Settlers
<1>1. CASE Settle!TrackCompletes(t) \/ Settle!LateChunk(t)
  BY <1>1 DEF SettleInv, SettleTypes, Counting, Writing, Written, Settle!TrackCompletes, Settle!LateChunk
<1>2. CASE Settle!Claim(t)
  <2>1. SettleTypes' BY <1>2 DEF SettleInv, SettleTypes, Settle!Claim
  <2>2. Counting => Counting' BY <1>2 DEF SettleInv, SettleTypes, Counting, Settle!Claim
  <2> QED BY <1>2, <2>1, <2>2 DEF SettleInv, Writing, Written, Settle!Claim
<1>3. CASE Settle!EncodeSucceeds(t)
  <2>1. SettleTypes' BY <1>3 DEF SettleInv, SettleTypes, Settle!EncodeSucceeds
  <2>2. Counting => Counting' BY <1>3 DEF SettleInv, SettleTypes, Counting, Settle!EncodeSucceeds
  <2> QED BY <1>3, <2>1, <2>2 DEF SettleInv, Writing, Written, Settle!EncodeSucceeds
<1>4. CASE Settle!EncodeFails(t)
  <2>1. SettleTypes' BY <1>4 DEF SettleInv, SettleTypes, Settle!EncodeFails
  <2>2. Counting' BY <1>4 DEF SettleInv, SettleTypes, Counting, Settle!EncodeFails
  <2> QED BY <2>1, <2>2 DEF SettleInv
<1>5. CASE Settle!WriteOutput(t)
  <2>1. SettleTypes' BY <1>5 DEF SettleInv, SettleTypes, Settle!WriteOutput
  <2>2. Counting' BY <1>5 DEF SettleInv, SettleTypes, Counting, Settle!WriteOutput
  <2> QED BY <2>1, <2>2 DEF SettleInv
<1>6. CASE Settle!WorkerDies(t)
  BY <1>6 DEF SettleInv, SettleTypes, Decisions, Settle!WorkerDies
<1> QED BY <1>1, <1>2, <1>3, <1>4, <1>5, <1>6

\* Who reads when there is an output decides READY.
LEMMA ReaderDecides ==
  ASSUME SettleTypes, NEW s \in Settle!Settlers, Settle!Decide(s)
  PROVE  /\ decision' \in [Settle!Settlers -> Decisions]
         /\ output # {} => decision'[s] = "READY"
         /\ \A x \in Settle!Settlers : x # s => decision'[x] = decision[x]
  BY DEF SettleTypes, Settle!Decide, Decisions

LEMMA ReadKeepsSettleInv ==
  ASSUME Settle!Kick \notin Tracks, SettleInv, Settle!KickReads \/ \E t \in Tracks : Settle!SettleReads(t)
  PROVE  SettleInv'
<1>1. CASE Settle!KickReads
  <2>1. Settle!Kick \in Settle!Settlers BY DEF Settle!Settlers
  <2>2. SettleTypes'
    BY <1>1, <2>1, ReaderDecides DEF SettleInv, SettleTypes, Settle!KickReads, Settle!Settlers
  <2>3. output # {} => Writing'
    BY <1>1, <2>1, ReaderDecides DEF SettleInv, Writing, Settle!KickReads
  <2> QED BY <1>1, <2>2, <2>3 DEF SettleInv, Settle!KickReads
<1>2. ASSUME NEW t \in Tracks, Settle!SettleReads(t) PROVE SettleInv'
  <2>1. t \in Settle!Settlers BY DEF Settle!Settlers
  <2>2. SettleTypes'
    BY <1>2, <2>1, ReaderDecides DEF SettleInv, SettleTypes, Settle!SettleReads, Settle!Settlers
  <2>3. output # {} => Writing'
    BY <1>2, <2>1, ReaderDecides DEF SettleInv, Writing, Settle!SettleReads
  <2> QED BY <1>2, <2>2, <2>3 DEF SettleInv, Settle!SettleReads
<1> QED BY <1>1, <1>2

LEMMA WriteKeepsSettleInv ==
  ASSUME Settle!Kick \notin Tracks, SettleInv, NEW s \in Settle!Settlers, Settle!SettleWrites(s)
  PROVE  SettleInv'
<1>1. SettleTypes'
  BY DEF SettleInv, SettleTypes, Settle!SettleWrites, Settle!Settlers, Decisions
<1>2. Counting => Counting'
  \* The writer has a decision, so its run is not the one that counts.
  BY DEF SettleInv, SettleTypes, Counting, Settle!SettleWrites, Settle!Settlers
<1>3. CASE decision[s] = "READY"
  \* Whoever holds a FAILED now is overtaken.
  <2>1. CASE \E x \in Settle!Settlers : decision[x] = "FAILED"
    BY <1>1, <1>3, <2>1 DEF SettleInv, Settle!SettleWrites
  <2>2. CASE ~\E x \in Settle!Settlers : decision[x] = "FAILED"
    <3>1. Written' BY <1>3, <2>2 DEF SettleInv, SettleTypes, Written, Settle!SettleWrites
    <3> QED BY <1>1, <3>1 DEF SettleInv
  <2> QED BY <2>1, <2>2
<1>4. CASE decision[s] # "READY"
  <2>1. Writing => Writing' BY <1>4 DEF SettleInv, SettleTypes, Writing, Settle!SettleWrites
  <2>2. Written => Written'
    BY <1>4 DEF SettleInv, SettleTypes, Written, Decisions, Settle!SettleWrites
  <2> QED BY <1>1, <1>2, <1>4, <2>1, <2>2 DEF SettleInv, Settle!SettleWrites
<1> QED BY <1>3, <1>4

LEMMA SettleInvStep ==
  ASSUME Settle!Kick \notin Tracks, SettleInv, [Settle!Next]_settleVars
  PROVE  SettleInv'
<1>1. CASE UNCHANGED settleVars
  BY <1>1 DEF SettleInv, SettleTypes, Counting, Writing, Written, settleVars
<1> QED
  BY <1>1, TrackKeepsSettleInv, ReadKeepsSettleInv, WriteKeepsSettleInv DEF Settle!Next

\* However the settlers of any number of tracks read and write, a session that
\* can be downloaded ends READY, unless a worker died before it settled or an
\* older FAILED was written over a READY (settleSessionStatus).
THEOREM SessionBecomesReady ==
  ASSUME Settle!Kick \notin Tracks
  PROVE  Spec => []DownloadableIsReady
<1>1. SettleInv /\ [Next]_vars => SettleInv'
  BY SettleSteps, SettleInvStep
<1>2. SettleInv => DownloadableIsReady
  BY DEF SettleInv, SettleTypes, Counting, Writing, Written, Settle!Settlers,
         DownloadableIsReady, Settle!DownloadableIsReady, Settle!AtRest, Settle!Pending
<1>3. Init => SettleInv BY SettleInvInit DEF Init
<1> QED BY <1>1, <1>2, <1>3, PTL DEF Spec

----------------------------------------------------------------------------
(* The room. *)

LEMMA RoomSteps == [Next]_vars => [Room!Next]_Room!vars
  BY DEF Next, Only, vars, roomVars, Room!vars, Room!rowVars, Room!roomVars, Room!ctlVars

LEMMA RoomCount == \A S : Room!Cardinality(S) = Cardinality(S)
  BY DEF Room!Cardinality, Cardinality

----------------------------------------------------------------------------
(* The cap.  Rows that took no slot are left out of the count, and who takes *)
(* a slot counts all rows first.                                           *)

CapInv == /\ IsFiniteSet(active) /\ maxActive \in Nat
          /\ Cardinality(active \ stale) <= maxActive

\* Nobody new is counted.
LEMMA NotMore ==
  ASSUME CapInv, NEW S, NEW T, IsFiniteSet(S), S \ T \subseteq active \ stale
  PROVE  Cardinality(S \ T) <= maxActive
<1>1. IsFiniteSet(active \ stale) BY FS_Subset DEF CapInv
<1>2. Cardinality(S \ T) <= Cardinality(active \ stale) BY <1>1, FS_Subset
<1>3. Cardinality(S \ T) \in Nat /\ Cardinality(active \ stale) \in Nat
  BY <1>1, FS_CardinalityType, FS_Subset
<1> QED BY <1>2, <1>3 DEF CapInv

\* One more is counted while a slot is free.
LEMMA OneMore ==
  ASSUME CapInv, Room!HasFreeSlot, NEW p
  PROVE  /\ IsFiniteSet(active \cup {p})
         /\ Cardinality((active \cup {p}) \ stale) <= maxActive
<1>1. /\ IsFiniteSet(active \cup {p})
      /\ Cardinality(active \cup {p}) <= Cardinality(active) + 1
  BY FS_AddElement, FS_CardinalityType DEF CapInv
<1>2. Cardinality((active \cup {p}) \ stale) <= Cardinality(active \cup {p})
  BY <1>1, FS_Subset
<1>3. /\ Cardinality((active \cup {p}) \ stale) \in Nat
      /\ Cardinality(active \cup {p}) \in Nat /\ Cardinality(active) \in Nat
  BY <1>1, FS_CardinalityType, FS_Subset DEF CapInv
<1>4. Cardinality(active) < maxActive BY RoomCount DEF Room!HasFreeSlot
<1> QED BY <1>1, <1>2, <1>3, <1>4 DEF CapInv

LEMMA CapInvInit == ASSUME Caps \subseteq Nat PROVE Room!Init => CapInv
<1> SUFFICES ASSUME Room!Init PROVE CapInv
  OBVIOUS
<1>1. active \ stale = {} BY DEF Room!Init
<1> QED BY <1>1, FS_EmptySet DEF Room!Init, CapInv

LEMMA CapInvStep ==
  ASSUME CapInv, [Room!Next]_Room!vars
  PROVE  CapInv'
<1>0. maxActive' = maxActive BY DEF Room!Next, Room!vars
<1>1. ASSUME NEW p \in People, Room!JoinTakes(p) \/ Room!AdmitRejoin(p) PROVE CapInv'
  <2>1. stale' = stale BY <1>1 DEF Room!JoinTakes, Room!AdmitRejoin
  <2>2. (Room!HasFreeSlot /\ active' = active \cup {p}) \/ active' = active
    BY <1>1 DEF Room!JoinTakes, Room!AdmitRejoin
  <2> QED BY <1>0, <2>1, <2>2, OneMore DEF CapInv
<1>2. ASSUME NEW p \in People, Room!JoinRejoins(p) \/ Room!RefreshPresence(p) PROVE CapInv'
  <2>1. active' = active \cup {p} /\ stale' = IF p \in active THEN stale ELSE stale \cup {p}
    BY <1>2 DEF Room!JoinRejoins, Room!RefreshPresence
  <2>2. IsFiniteSet(active') BY <2>1, FS_AddElement DEF CapInv
  <2> QED BY <1>0, <2>1, <2>2, NotMore DEF CapInv
<1>3. ASSUME active' \subseteq active, stale' = stale PROVE CapInv'
  <2>1. IsFiniteSet(active') BY <1>3, FS_Subset DEF CapInv
  <2> QED BY <1>0, <1>3, <2>1, NotMore DEF CapInv
<1>4. ASSUME NEW p \in People,
             \/ Room!JoinReads(p) \/ Room!Connect(p) \/ Room!Disconnect(p) \/ Room!Kick(p)
             \/ Room!Promote(p) \/ Room!ParticipantLeft(p) \/ Room!ParticipantJoined(p)
             \/ \E isCoHost \in BOOLEAN : Room!UpdateRole(p, isCoHost)
      PROVE  active' \subseteq active /\ stale' = stale
  BY <1>4 DEF Room!JoinReads, Room!Connect, Room!Disconnect, Room!Kick, Room!Promote,
              Room!ParticipantLeft, Room!ParticipantJoined, Room!UpdateRole, Room!rowVars
<1>5. ASSUME \/ Room!ReconcileLists \/ Room!ReconcileMarks \/ UNCHANGED Room!vars
             \/ \E on \in BOOLEAN : Room!SetRecording(on)
      PROVE  active' \subseteq active /\ stale' = stale
  BY <1>5 DEF Room!ReconcileLists, Room!ReconcileMarks, Room!SetRecording, Room!rowVars,
              Room!vars
<1> QED BY <1>1, <1>2, <1>3, <1>4, <1>5 DEF Room!Next

\* Joins, rejoins, webhooks and the sweep never fill more slots than the plan
\* has, but for rows written on a stale read (withFreeSlot).
THEOREM SlotsStayCapped == ASSUME Caps \subseteq Nat PROVE Spec => []CapRespected
<1>1. Init => CapInv BY CapInvInit DEF Init
<1>2. CapInv /\ [Next]_vars => CapInv' BY RoomSteps, CapInvStep
<1>3. CapInv => CapRespected BY RoomCount DEF CapInv, CapRespected, Room!CapRespected
<1> QED BY <1>1, <1>2, <1>3, PTL DEF Spec

----------------------------------------------------------------------------
(* The controller.  An empty room counts as nobody, so that the first one to *)
(* come back need not be a controller.                                     *)

ControlInv == recording /\ ~headless /\ picked = {} => Room!ControllersIn(active) # {}

LEMMA ControlInvInit == Room!Init => ControlInv
  BY DEF Room!Init, ControlInv

\* The hand-over finds somebody, or notes that there is nobody.
LEMMA HandOver ==
  ASSUME ControlInv, NEW S, Room!EnsureRecordingController(S), active' = S, coHosts' = coHosts,
         recording' = recording
  PROVE  ControlInv'
  BY DEF ControlInv, Room!EnsureRecordingController, Room!ControllersIn

LEMMA ControlInvStep ==
  ASSUME ControlInv, [Room!Next]_Room!vars
  PROVE  ControlInv'
<1>1. ASSUME NEW p \in People, Room!ParticipantLeft(p) PROVE ControlInv'
  <2>1. CASE p \in Room!ControllersIn(active) BY <1>1, <2>1, HandOver DEF Room!ParticipantLeft
  <2>2. CASE p \notin Room!ControllersIn(active)
    BY <1>1, <2>2 DEF Room!ParticipantLeft, ControlInv, Room!ControllersIn
  <2> QED BY <2>1, <2>2
<1>2. CASE Room!ReconcileMarks
  <2>1. CASE active \ listed # {} BY <1>2, <2>1, HandOver DEF Room!ReconcileMarks, Room!rowVars
  <2>2. CASE active \ listed = {}
    BY <1>2, <2>2 DEF Room!ReconcileMarks, ControlInv, Room!ControllersIn
  <2> QED BY <2>1, <2>2
<1>3. ASSUME NEW p \in People, Room!Promote(p) PROVE ControlInv'
  BY <1>3 DEF Room!Promote, ControlInv, Room!ControllersIn
<1>4. ASSUME NEW p \in People, \/ Room!Kick(p)
                               \/ \E isCoHost \in BOOLEAN : Room!UpdateRole(p, isCoHost)
      PROVE  ControlInv'
  BY <1>4 DEF Room!Kick, Room!UpdateRole, Room!LeavesNobody, ControlInv, Room!ControllersIn
<1>5. ASSUME \E on \in BOOLEAN : Room!SetRecording(on) PROVE ControlInv'
  BY <1>5 DEF Room!SetRecording, ControlInv, Room!ControllersIn, Room!rowVars
<1>6. ASSUME active \subseteq active', coHosts' = coHosts, UNCHANGED Room!ctlVars PROVE ControlInv'
  BY <1>6 DEF ControlInv, Room!ControllersIn, Room!ctlVars
<1>7. ASSUME NEW p \in People,
             \/ Room!JoinReads(p) \/ Room!JoinTakes(p) \/ Room!JoinRejoins(p)
             \/ Room!Connect(p) \/ Room!Disconnect(p) \/ Room!ParticipantJoined(p)
             \/ Room!AdmitRejoin(p) \/ Room!RefreshPresence(p)
      PROVE  active \subseteq active' /\ coHosts' = coHosts /\ UNCHANGED Room!ctlVars
  BY <1>7 DEF Room!JoinReads, Room!JoinTakes, Room!JoinRejoins, Room!Connect, Room!Disconnect,
              Room!ParticipantJoined, Room!AdmitRejoin, Room!RefreshPresence, Room!rowVars
<1>8. CASE Room!ReconcileLists \/ UNCHANGED Room!vars
  BY <1>8, <1>6 DEF Room!ReconcileLists, Room!rowVars, Room!vars
<1> QED BY <1>1, <1>2, <1>3, <1>4, <1>5, <1>6, <1>7, <1>8 DEF Room!Next

\* While a take records and somebody is present, a controller is present or
\* being promoted, up to the cases in which nobody could be
\* (ensureRecordingController).
THEOREM ControllerStays == Spec => []SomebodyCanStop
<1>1. Init => ControlInv BY ControlInvInit DEF Init
<1>2. ControlInv /\ [Next]_vars => ControlInv' BY RoomSteps, ControlInvStep
<1>3. ControlInv => SomebodyCanStop BY DEF ControlInv, SomebodyCanStop, Room!SomebodyCanStop
<1> QED BY <1>1, <1>2, <1>3, PTL DEF Spec

----------------------------------------------------------------------------
(* The download cache.  The sweep may delete what it did not spare: past its  *)
(* look at the rows, no uncaught master is among that.                     *)

LEMMA CacheSteps == [Next]_vars => [Cache!Next]_cacheVars
  BY DEF Next, Only, vars, cacheVars

CacheInv ==
  /\ object \in [Keys -> {"none", "cached", "master"}]
  /\ inUse \subseteq Keys /\ batch \subseteq Keys
  /\ sweep \in {"scores", "delete"} =>
       \A k \in batch \ spared : object[k] = "master" => k \in caught
  /\ sweep = "delete" => oldKeys \subseteq batch
  /\ \A k \in inUse \ caught : object[k] = "master"

LEMMA CacheInvInit == Init => CacheInv
  BY DEF Init, Cache!Init, CacheInv

LEMMA SweepKeepsCacheInv ==
  ASSUME CacheInv,
         Cache!ReadBatch \/ Cache!KeysInUse \/ Cache!ReadScores \/ Cache!DeleteDoomed
           \/ Cache!RemoveSettled
  PROVE  CacheInv'
<1> USE DEF CacheInv, Cache!files, Cache!redis
<1>1. CASE Cache!ReadBatch
  <2>1. Cache!Old \subseteq Keys BY DEF Cache!Old
  <2>2. batch' \subseteq Keys BY <1>1, <2>1 DEF Cache!ReadBatch
  <2>3. sweep' = "rows" /\ UNCHANGED <<object, inUse, caught>> BY <1>1 DEF Cache!ReadBatch
  <2> QED BY <2>2, <2>3
<1>2. CASE Cache!KeysInUse BY <1>2 DEF Cache!KeysInUse
<1>3. CASE Cache!ReadScores BY <1>3 DEF Cache!ReadScores
<1>4. CASE Cache!DeleteDoomed
  \* What is in use and doomed was not spared: it is caught.
  BY <1>4 DEF Cache!DeleteDoomed, Cache!Doomed
<1>5. CASE Cache!RemoveSettled BY <1>5 DEF Cache!RemoveSettled
<1> QED BY <1>1, <1>2, <1>3, <1>4, <1>5

LEMMA KeyKeepsCacheInv ==
  ASSUME CacheInv, NEW k \in Keys,
         \/ Cache!Request(k) \/ Cache!Transcode(k) \/ Cache!TouchDownloadCache(k)
         \/ Cache!TouchFails(k) \/ Cache!Age(k) \/ Cache!UploadMaster(k) \/ Cache!WriteRow(k)
  PROVE  CacheInv'
<1> USE DEF CacheInv, Cache!files, Cache!redis, Cache!sweepVars
<1>1. CASE \/ Cache!Request(k) \/ Cache!TouchDownloadCache(k) \/ Cache!TouchFails(k)
           \/ Cache!Age(k)
  BY <1>1 DEF Cache!Request, Cache!TouchDownloadCache, Cache!TouchFails, Cache!Age
<1>2. CASE Cache!Transcode(k) BY <1>2 DEF Cache!Transcode
<1>3. CASE Cache!UploadMaster(k) BY <1>3 DEF Cache!UploadMaster
<1>4. CASE Cache!WriteRow(k) BY <1>4 DEF Cache!WriteRow
<1> QED BY <1>1, <1>2, <1>3, <1>4

\* A file the database names is never deleted as a cache, unless a sweep looked
\* before its row was there or a late transcode overwrote it
\* (expireDownloadCache).
THEOREM MasterSurvivesExpiry == Spec => []MasterKept
<1>1. CacheInv /\ [Next]_vars => CacheInv'
  <2> SUFFICES ASSUME CacheInv, [Next]_vars PROVE CacheInv'
    OBVIOUS
  <2>1. CASE UNCHANGED cacheVars BY <2>1 DEF CacheInv, cacheVars
  <2>2. CASE Cache!Next BY <2>2, SweepKeepsCacheInv, KeyKeepsCacheInv DEF Cache!Next
  <2> QED BY <2>1, <2>2, CacheSteps
<1>2. CacheInv => MasterKept BY DEF CacheInv, MasterKept, Cache!MasterKept
<1> QED BY <1>1, <1>2, CacheInvInit, PTL DEF Spec

----------------------------------------------------------------------------
(* The subscription.  When the newest event was applied last and no downgrade *)
(* overwrote it, the row says what Polar says, and only a period that is over *)
(* can have been downgraded.                                               *)

LEMMA BillingSteps == [Next]_vars => [Billing!Next]_billingVars
  BY DEF Next, Only, vars, billingVars

Last  == events[Len(events)]
Sub   == [status : {"none", "active", "past_due", "canceled"}, end : Int, ending : BOOLEAN]
Types == {"active", "canceled", "uncanceled", "order.paid", "updated", "revoked"}
Event == [type : Types, sub : Sub]

\* What Polar knows, and what it sent.
EventsInv ==
  /\ now \in Int /\ newest \in 0..Len(events)
  /\ polar \in Sub /\ events \in Seq(Event)
  /\ sent \subseteq 1..Len(events) /\ handling \subseteq 1..Len(events)
  /\ polar.status = "none" <=> Len(events) = 0
  /\ Len(events) > 0 => /\ Last.sub = polar
                        /\ Last.type = "revoked" <=> polar.status = "canceled"
  /\ polar.status = "past_due" => polar.end <= now

RowInv ==
  newest = Len(events) /\ ~clobbered =>
    /\ periodEnd \in Int
    /\ polar.status \in {"none", "canceled"} => plan = "DEMO"
    /\ polar.status \in {"active", "past_due"} => periodEnd = polar.end
    /\ polar.status = "active" => plan = "PRO" \/ periodEnd <= now

BillingInv == EventsInv /\ RowInv /\ periodEnd \in Int

LEMMA BillingInvInit == Init => BillingInv
<1> SUFFICES ASSUME Init PROVE BillingInv
  OBVIOUS
<1>1. polar \in Sub /\ events \in Seq(Event) /\ Len(events) = 0
  BY DEF Init, Billing!Init, Sub
<1> QED BY <1>1 DEF Init, Billing!Init, BillingInv, EventsInv, RowInv

\* After a change the newest event has not been applied.
LEMMA ChangeKeepsBillingInv ==
  ASSUME BillingInv, NEW type \in Types,
         NEW st \in {"active", "past_due", "canceled"}, NEW end \in Int,
         NEW ending \in BOOLEAN, Billing!Change(type, st, end, ending),
         type = "revoked" <=> st = "canceled", st = "past_due" => end <= now
  PROVE  BillingInv'
<1> DEFINE e == [type |-> type, sub |-> polar']
<1>1. polar' = [status |-> st, end |-> end, ending |-> ending] /\ polar' \in Sub
  BY DEF Billing!Change, Sub
<1>2. e \in Event /\ events' = Append(events, e)
  BY <1>1 DEF Billing!Change, Event
<1>3. events \in Seq(Event) BY DEF BillingInv, EventsInv
<1>4. Len(events) \in Nat /\ Len(events') = Len(events) + 1 /\ events' \in Seq(Event)
  BY <1>2, <1>3
<1>5. Last' = e BY <1>2, <1>3 DEF Last
<1>6. UNCHANGED <<now, newest, handling, periodEnd>> /\ sent' = sent \cup {Len(events')}
  BY DEF Billing!Change, Billing!userVars
<1>7. /\ now' \in Int /\ newest' \in 0..Len(events')
      /\ sent' \subseteq 1..Len(events') /\ handling' \subseteq 1..Len(events')
  <2>1. 1..Len(events) \subseteq 1..Len(events') /\ Len(events') \in 1..Len(events')
    BY <1>4
  <2>2. now' \in Int BY <1>6 DEF BillingInv, EventsInv
  <2>3. newest' \in 0..Len(events') BY <1>4, <1>6 DEF BillingInv, EventsInv
  <2>4. sent \subseteq 1..Len(events) /\ handling \subseteq 1..Len(events)
    BY DEF BillingInv, EventsInv
  <2> QED BY <1>6, <2>1, <2>2, <2>3, <2>4
<1>8. EventsInv'
  BY <1>1, <1>4, <1>5, <1>6, <1>7 DEF EventsInv
<1>9. newest' # Len(events') BY <1>4, <1>6 DEF BillingInv, EventsInv
<1> QED BY <1>6, <1>8, <1>9 DEF BillingInv, RowInv

LEMMA PolarKeepsBillingInv ==
  ASSUME Period \in Int, BillingInv,
         \/ Billing!Subscribe \/ Billing!Cancel \/ Billing!Uncancel \/ Billing!Renew
         \/ Billing!PayFails \/ Billing!Revoke
  PROVE  BillingInv'
<1> USE DEF Types
<1>0. /\ polar.end \in Int /\ polar.ending \in BOOLEAN
      /\ now \in Int /\ now + Period \in Int /\ polar.end + Period \in Int
  BY DEF BillingInv, EventsInv, Sub
<1>1. CASE Billing!Subscribe BY <1>0, <1>1, ChangeKeepsBillingInv DEF Billing!Subscribe
<1>2. CASE Billing!Cancel BY <1>0, <1>2, ChangeKeepsBillingInv DEF Billing!Cancel
<1>3. CASE Billing!Uncancel BY <1>0, <1>3, ChangeKeepsBillingInv DEF Billing!Uncancel
<1>4. CASE Billing!Renew BY <1>0, <1>4, ChangeKeepsBillingInv DEF Billing!Renew
<1>5. CASE Billing!PayFails BY <1>0, <1>5, ChangeKeepsBillingInv DEF Billing!PayFails
<1>6. CASE Billing!Revoke BY <1>0, <1>6, ChangeKeepsBillingInv DEF Billing!Revoke
<1> QED BY <1>1, <1>2, <1>3, <1>4, <1>5, <1>6

LEMMA ApplyKeepsBillingInv ==
  ASSUME BillingInv, NEW i, Billing!Apply(i)
  PROVE  BillingInv'
<1> DEFINE e == events[i]
<1>1. i \in 1..Len(events) BY DEF BillingInv, EventsInv, Billing!Apply
<1>2. /\ e.sub.status \in {"none", "active", "past_due", "canceled"}
      /\ e.sub.end \in Int
  <2>1. e \in Event BY <1>1 DEF BillingInv, EventsInv
  <2> QED BY <2>1 DEF Event, Sub
<1>3. periodEnd' \in Int
  BY <1>2 DEF BillingInv, Billing!Apply, Billing!Applied
<1>4. EventsInv'
  BY <1>1 DEF BillingInv, EventsInv, Last, Billing!Apply, Billing!polarVars
<1>5. CASE i = Len(events)
  <2>1. /\ e.sub = polar
        /\ e.type = "revoked" <=> polar.status = "canceled"
        /\ polar.status # "none"
    BY <1>1, <1>5 DEF BillingInv, EventsInv, Last
  <2> QED
    BY <1>3, <1>4, <2>1
    DEF BillingInv, EventsInv, RowInv, Billing!Apply, Billing!Applied, Billing!polarVars
<1>6. CASE i # Len(events)
  BY <1>3, <1>4, <1>6 DEF BillingInv, RowInv, Billing!Apply, Billing!polarVars
<1> QED BY <1>5, <1>6

LEMMA OthersKeepBillingInv ==
  ASSUME BillingInv,
         \/ Billing!Tick \/ Billing!ReadsLapsed \/ Billing!WritesLapsed
         \/ Billing!RecordTake \/ Billing!SweepExpired
         \/ \E i \in 1..MaxEvents : Billing!StoreDelivery(i) \/ Billing!HandlerDies(i)
  PROVE  BillingInv'
<1> USE DEF BillingInv, EventsInv, Sub, RowInv, Last, Billing!polarVars, Billing!hookVars,
            Billing!userVars, Billing!takeVars
<1>1. CASE Billing!Tick BY <1>1 DEF Billing!Tick
<1>2. CASE Billing!ReadsLapsed BY <1>2 DEF Billing!ReadsLapsed
<1>3. CASE Billing!WritesLapsed 
  <2>1. ~clobbered' => ~clobbered /\ ~Billing!IsProActive BY <1>3 DEF Billing!WritesLapsed
  <2>2. plan' = "DEMO" /\ UNCHANGED <<now, polar, events, sent, handling, newest, periodEnd>>
    BY <1>3 DEF Billing!WritesLapsed
  <2>3. EventsInv' BY <2>2
  <2> QED BY <2>1, <2>2, <2>3 DEF Billing!IsProActive
<1>4. CASE Billing!RecordTake BY <1>4 DEF Billing!RecordTake
<1>5. CASE Billing!SweepExpired BY <1>5 DEF Billing!SweepExpired
<1>6. ASSUME NEW i \in 1..MaxEvents, Billing!StoreDelivery(i) PROVE BillingInv'
  BY <1>6 DEF Billing!StoreDelivery
<1>7. ASSUME NEW i \in 1..MaxEvents, Billing!HandlerDies(i) PROVE BillingInv'
  BY <1>7 DEF Billing!HandlerDies
<1> QED BY <1>1, <1>2, <1>3, <1>4, <1>5, <1>6, <1>7

\* When the newest change was the last one applied, whatever happened to the
\* older deliveries, nobody has PRO who did not pay for this day, and whoever
\* did has it (processPolarWebhook, getEntitlements).
THEOREM PlanIsPaidFor == ASSUME Period \in Int PROVE Spec => []PlanFollowsPolar
<1>1. BillingInv /\ [Next]_vars => BillingInv'
  <2> SUFFICES ASSUME BillingInv, [Next]_vars PROVE BillingInv'
    OBVIOUS
  <2>1. CASE UNCHANGED billingVars
    BY <2>1 DEF BillingInv, EventsInv, RowInv, Last, billingVars
  <2>2. CASE Billing!Next
    BY <2>2, PolarKeepsBillingInv, ApplyKeepsBillingInv, OthersKeepBillingInv
    DEF Billing!Next
  <2> QED BY <2>1, <2>2, BillingSteps
<1>2. BillingInv => PlanFollowsPolar
  BY DEF BillingInv, EventsInv, Sub, RowInv, PlanFollowsPolar, Billing!PlanFollowsPolar,
         Billing!UpToDate, Billing!IsProActive
<1> QED BY <1>1, <1>2, BillingInvInit, PTL DEF Spec

----------------------------------------------------------------------------
(* The worker's drain.  Past its last look at the queues, a drain that did not *)
(* fail leaves no acknowledged job behind, unless a wake has come since; and a  *)
(* worker that rests has none to look at.                                  *)

LEMMA DrainSteps == [Next]_vars => [Drain!Next]_drainVars
  BY DEF Next, Only, vars, drainVars

DrainTypes ==
  /\ job \in [Jobs -> {"none", "waiting", "active", "done"}]
  /\ call \in [Jobs -> {"idle", "calling", "acked", "gaveUp"}]
  /\ process \in {"up", "ending", "asleep", "restarting"}
  /\ drain \in {"none", "poll", "grace", "close", "end"}
  /\ wakeRequested \in BOOLEAN

AllAckedDone == \A j \in Jobs : call[j] = "acked" => job[j] = "done"

DrainInv ==
  /\ DrainTypes
  /\ \A j \in Jobs : job[j] = "none" => call[j] = "idle"
  /\ process = "asleep" => drain = "none"
  /\ process \in {"up", "asleep"} /\ drain = "none" => ~wakeRequested
  /\ process \in {"up", "asleep"} /\ drain \in {"close", "end", "none"}
       /\ ~stranded /\ ~wakeRequested => AllAckedDone

LEMMA DrainInvInit == Init => DrainInv
  BY DEF Init, Drain!Init, DrainInv, DrainTypes, AllAckedDone

\* The loop, from its polls to its last look at the wake.
LEMMA LoopKeepsDrainInv ==
  ASSUME DrainInv,
         \/ Drain!Poll \/ Drain!PollFails \/ Drain!PollStops \/ Drain!CloseConsumers
         \/ Drain!LoopAgain \/ Drain!LoopEnds
  PROVE  DrainInv'
<1> USE DEF DrainInv, DrainTypes, AllAckedDone, Drain!callVars
<1>1. CASE Drain!Poll BY <1>1 DEF Drain!Poll, Drain!Pending
<1>2. CASE Drain!PollFails BY <1>2 DEF Drain!PollFails
<1>3. CASE Drain!PollStops BY <1>3 DEF Drain!PollStops, Drain!ShuttingDown
<1>4. CASE Drain!CloseConsumers BY <1>4 DEF Drain!CloseConsumers
<1>5. CASE Drain!LoopAgain BY <1>5 DEF Drain!LoopAgain, Drain!BeginCycle
<1>6. CASE Drain!LoopEnds
  BY <1>6 DEF Drain!LoopEnds, Drain!BeginCycle, Drain!ShuttingDown
<1> QED BY <1>1, <1>2, <1>3, <1>4, <1>5, <1>6

\* A process that rests keeps what its drain left; one that comes back drains.
LEMMA ProcessKeepsDrainInv ==
  ASSUME DrainInv,
         Drain!Sleep \/ Drain!Shutdown \/ Drain!Exit \/ Drain!Crash \/ Drain!Restart
  PROVE  DrainInv'
<1> USE DEF DrainInv, DrainTypes, AllAckedDone, Drain!callVars, Drain!drainVars
<1>1. CASE Drain!Sleep BY <1>1 DEF Drain!Sleep
<1>2. CASE Drain!Shutdown BY <1>2 DEF Drain!Shutdown
<1>3. CASE Drain!Exit BY <1>3 DEF Drain!Exit
<1>4. CASE Drain!Crash BY <1>4 DEF Drain!Crash
<1>5. CASE Drain!Restart BY <1>5 DEF Drain!Restart, Drain!Boot
<1> QED BY <1>1, <1>2, <1>3, <1>4, <1>5

LEMMA JobKeepsDrainInv ==
  ASSUME DrainInv, NEW j \in Jobs,
         \/ Drain!TakeJob(j) \/ Drain!FinishJob(j) \/ Drain!AddJob(j) \/ Drain!SweepAdds(j)
         \/ Drain!WakeAnswered(j) \/ Drain!WakeBoots(j) \/ Drain!WakeFails(j)
  PROVE  DrainInv'
<1> USE DEF DrainInv, DrainTypes, AllAckedDone, Drain!callVars, Drain!drainVars
<1>1. CASE Drain!TakeJob(j) BY <1>1 DEF Drain!TakeJob
<1>2. CASE Drain!FinishJob(j) BY <1>2 DEF Drain!FinishJob
<1>3. CASE Drain!AddJob(j) BY <1>3 DEF Drain!AddJob
<1>4. CASE Drain!SweepAdds(j) BY <1>4 DEF Drain!SweepAdds, Drain!Pending
<1>5. CASE Drain!WakeAnswered(j)
  BY <1>5 DEF Drain!WakeAnswered, Drain!RequestDrain, Drain!BeginCycle, Drain!ShuttingDown
<1>6. CASE Drain!WakeBoots(j) BY <1>6 DEF Drain!WakeBoots, Drain!Boot
<1>7. CASE Drain!WakeFails(j) BY <1>7 DEF Drain!WakeFails
<1> QED BY <1>1, <1>2, <1>3, <1>4, <1>5, <1>6, <1>7

\* A worker never rests on a job whose wake it acknowledged, however calls, the
\* polls, a shutdown and the loop's last looks interleave; only a drain that
\* could not read the queues leaves one (requestDrain).
THEOREM AcknowledgedJobsDrained == Spec => []AcknowledgedIsDrained
<1>1. DrainInv /\ [Next]_vars => DrainInv'
  <2> SUFFICES ASSUME DrainInv, [Next]_vars PROVE DrainInv'
    OBVIOUS
  <2>1. CASE UNCHANGED drainVars
    BY <2>1 DEF DrainInv, DrainTypes, AllAckedDone, drainVars
  <2>2. CASE Drain!Next
    BY <2>2, LoopKeepsDrainInv, ProcessKeepsDrainInv, JobKeepsDrainInv DEF Drain!Next
  <2> QED BY <2>1, <2>2, DrainSteps
<1>2. DrainInv => AcknowledgedIsDrained
  BY DEF DrainInv, AllAckedDone, AcknowledgedIsDrained, Drain!AcknowledgedIsDrained
<1> QED BY <1>1, <1>2, DrainInvInit, PTL DEF Spec

----------------------------------------------------------------------------
(* The tab that follows a take.  Whatever tells it that a take is over, an    *)
(* event, an answer or a newer take, does so only of one that is.           *)

LEMMA FollowSteps == [Next]_vars => [Follow!Next]_followVars
  BY DEF Next, Only, vars, followVars

Tab == [active : Nat, capturing : Nat, counting : BOOLEAN, timer : Nat, beginning : Nat,
        stopping : Nat, flushing : Nat, finished : SUBSET Nat,
        state : {"idle", "countdown", "recording", "stopping", "uploading", "complete"},
        knows : BOOLEAN, paused : BOOLEAN]
Told == {"started", "stopped", "paused"} \X Nat \X BOOLEAN
Answers == Nat \X BOOLEAN \X Nat \X Nat

\* A take that is over.
Over(n) == n < take \/ (n = take /\ ~live)

\* An answer names the newest take of its time: running, or over by then.
TrueAnswer(r) == /\ r \in Answers /\ r[4] \in 0..take
                 /\ r[1] \in {0, r[4]} /\ (r[1] = 0 => Over(r[4]))

TrueEvent(e) == e \in Told /\ e[2] \in 1..take /\ (e[1] = "stopped" => Over(e[2]))

TrueChannel == channel \in Seq(Told) /\ \A i \in 1..Len(channel) : TrueEvent(channel[i])

FollowInv ==
  /\ take \in Nat /\ live \in BOOLEAN /\ (live => take > 0) /\ paused \in BOOLEAN /\ flips \in Nat
  /\ slow \in BOOLEAN /\ tab \in Tab
  /\ tab.active \in 0..take /\ tab.capturing \in 0..take /\ tab.finished \subseteq 1..take
  /\ replay = <<>> \/ TrueAnswer(replay)
  /\ socket = "joining" => replay # <<>>
  /\ flight = <<>> \/ TrueAnswer(flight)
  /\ TrueAnswer(polled)
  /\ TrueChannel
  /\ ~slow => \A n \in tab.finished : Over(n)

LEMMA FollowInvInit == Init => FollowInv
<1> SUFFICES ASSUME Init PROVE FollowInv
  OBVIOUS
<1>1. polled = <<0, FALSE, 0, 0>> /\ take = 0 /\ live = FALSE
  BY DEF Init, Follow!Init
<1>2. TrueAnswer(polled)
  <2>1. polled \in Answers BY <1>1 DEF Answers
  <2> QED BY <1>1, <2>1 DEF TrueAnswer, Over
<1>3. tab \in Tab /\ tab.active = 0 /\ tab.capturing = 0 /\ tab.finished = {}
  BY DEF Init, Follow!Init, Tab
<1>4. channel \in Seq(Told) /\ Len(channel) = 0
  BY DEF Init, Follow!Init
<1>5. TrueChannel BY <1>4 DEF TrueChannel
<1>6. /\ take \in Nat /\ live \in BOOLEAN /\ (live => take > 0) /\ paused \in BOOLEAN
      /\ flips \in Nat /\ slow \in BOOLEAN
      /\ replay = <<>> /\ socket = "out" /\ flight = <<>>
  BY DEF Init, Follow!Init
<1>7. /\ tab.active \in 0..take /\ tab.capturing \in 0..take
      /\ tab.finished \subseteq 1..take /\ \A n \in tab.finished : Over(n)
  BY <1>1, <1>3
<1> QED BY <1>2, <1>3, <1>5, <1>6, <1>7 DEF FollowInv

\* What the tab's handlers do to the takes they know.
LEMMA StoppedFinishesOne ==
  ASSUME NEW t \in Tab, NEW n \in Nat
  PROVE  /\ Follow!Stopped(t, n) \in Tab
         /\ Follow!Stopped(t, n).active \in {0, t.active}
         /\ Follow!Stopped(t, n).capturing = t.capturing
         /\ Follow!Stopped(t, n).finished \subseteq t.finished \cup {n}
  BY DEF Tab, Follow!Stopped, Follow!OwnsUi

LEMMA StartedFinishesOlder ==
  ASSUME NEW t \in Tab, NEW n \in Nat, NEW isPaused \in BOOLEAN, NEW isLate \in BOOLEAN
  PROVE  /\ Follow!Started(t, n, isPaused, isLate) \in Tab
         /\ Follow!Started(t, n, isPaused, isLate).active \in {t.active, n}
         /\ Follow!Started(t, n, isPaused, isLate).capturing = t.capturing
         /\ Follow!Started(t, n, isPaused, isLate).finished
              \subseteq t.finished \cup ({t.capturing} \ {0, n})
<1> DEFINE old == IF t.capturing \notin {0, n} THEN Follow!Stopped(t, t.capturing) ELSE t
<1>1. /\ old \in Tab /\ old.capturing = t.capturing
      /\ old.finished \subseteq t.finished \cup ({t.capturing} \ {0, n})
  <2>1. t.capturing \in Nat BY DEF Tab
  <2>2. /\ Follow!Stopped(t, t.capturing) \in Tab
        /\ Follow!Stopped(t, t.capturing).capturing = t.capturing
        /\ Follow!Stopped(t, t.capturing).finished \subseteq t.finished \cup {t.capturing}
    BY <2>1, StoppedFinishesOne
  <2> QED BY <2>2
<1>2. CASE t.active = n \/ n \in t.finished
  <2>1. Follow!Started(t, n, isPaused, isLate) = t BY <1>2 DEF Follow!Started
  <2> QED BY <2>1
<1>3. CASE ~(t.active = n \/ n \in t.finished)
  <2> DEFINE new == [old EXCEPT !.active = n, !.knows = isPaused,
                       !.counting = IF isLate THEN @ ELSE TRUE,
                       !.timer = IF isLate THEN 0 ELSE n,
                       !.beginning = IF isLate /\ @ = 0 THEN n ELSE @,
                       !.state = IF isLate THEN @ ELSE "countdown"]
  <2>1. Follow!Started(t, n, isPaused, isLate) = new BY <1>3, Zenon DEF Follow!Started
  <2> HIDE DEF old
  <2>2. /\ new \in Tab /\ new.active = n /\ new.capturing = old.capturing
        /\ new.finished = old.finished
    <3>1. PICK counting \in BOOLEAN : counting = IF isLate THEN old.counting ELSE TRUE
      BY <1>1, Zenon DEF Tab
    <3>2. PICK timer \in Nat : timer = IF isLate THEN 0 ELSE n
      OBVIOUS
    <3>3. PICK first \in Nat :
            first = IF isLate /\ old.beginning = 0 THEN n ELSE old.beginning
      BY <1>1 DEF Tab
    <3>4. PICK ui \in {"idle", "countdown", "recording", "stopping", "uploading",
                       "complete"} : ui = IF isLate THEN old.state ELSE "countdown"
      BY <1>1 DEF Tab
    <3>5. new = [old EXCEPT !.active = n, !.knows = isPaused, !.counting = counting,
                            !.timer = timer, !.beginning = first, !.state = ui]
      BY <3>1, <3>2, <3>3, <3>4
    <3> HIDE DEF new
    <3> QED BY <1>1, <3>5 DEF Tab
  <2> HIDE DEF new
  <2> QED BY <1>1, <2>1, <2>2
<1> QED BY <1>2, <1>3

LEMMA PauseFinishesNone ==
  ASSUME NEW t \in Tab, NEW n \in Nat, NEW isPaused \in BOOLEAN
  PROVE  /\ Follow!PauseChanged(t, n, isPaused) \in Tab
         /\ Follow!PauseChanged(t, n, isPaused).active = t.active
         /\ Follow!PauseChanged(t, n, isPaused).capturing = t.capturing
         /\ Follow!PauseChanged(t, n, isPaused).finished = t.finished
  BY DEF Tab, Follow!PauseChanged

\* A tab that keeps to the takes there are, and whose newly finished ones are over.
LEMMA TabKeepsFollowInv ==
  ASSUME FollowInv, tab' \in Tab, tab'.active \in 0..take, tab'.capturing \in 0..take,
         tab'.finished \subseteq 1..take, slow' \in BOOLEAN, ~slow' => ~slow,
         ~slow' => \A n \in tab'.finished \ tab.finished : Over(n),
         UNCHANGED <<take, live, paused, flips, replay, socket>>,
         TrueChannel', flight' \in {<<>>, flight},
         polled' = polled \/ (polled' = flight /\ flight # <<>>)
  PROVE  FollowInv'
<1>1. \A r : TrueAnswer(r) <=> TrueAnswer(r)' BY DEF TrueAnswer, Over
<1>2. \A n : Over(n) <=> Over(n)' BY DEF Over
<1>3. TrueAnswer(polled)' /\ (flight = <<>> \/ TrueAnswer(flight))'
  BY <1>1 DEF FollowInv
<1> QED BY <1>1, <1>2, <1>3 DEF FollowInv

\* What was true of the takes when it was said stays true of those.
LEMMA ChannelStaysTrue ==
  ASSUME TrueChannel, NEW f \in Told, TrueEvent(f)',
         \A e \in Told : TrueEvent(e) => TrueEvent(e)',
         channel' \in {channel, Append(channel, f), <<>>}
  PROVE  TrueChannel'
<1>1. CASE channel' = channel BY <1>1 DEF TrueChannel
<1>2. CASE channel' = Append(channel, f)
  <2>1. channel \in Seq(Told) BY DEF TrueChannel
  <2>2. /\ channel' \in Seq(Told) /\ Len(channel') = Len(channel) + 1
        /\ Len(channel) \in Nat /\ channel'[Len(channel) + 1] = f
        /\ \A i \in 1..Len(channel) : channel'[i] = channel[i]
    BY <1>2, <2>1
  <2>3. ASSUME NEW i \in 1..Len(channel) PROVE channel[i] \in Told /\ TrueEvent(channel[i])
    BY <2>1, <2>3 DEF TrueChannel
  <2> QED BY <2>2, <2>3 DEF TrueChannel
<1>3. CASE channel' = <<>>
  <2>1. channel' \in Seq(Told) /\ Len(channel') = 0 BY <1>3
  <2> QED BY <2>1 DEF TrueChannel
<1> QED BY <1>1, <1>2, <1>3

LEMMA ServerKeepsFollowInv ==
  ASSUME FollowInv, take' \in Nat, take <= take', live' \in BOOLEAN, live' => take' > 0,
         paused' \in BOOLEAN, flips' \in Nat,
         \A n \in 0..take : Over(n) => Over(n)',
         NEW f \in Told, TrueEvent(f)', channel' \in {channel, Append(channel, f)},
         UNCHANGED <<socket, replay, flight, polled, tab, slow>>
  PROVE  FollowInv'
<1>1. take \in Nat BY DEF FollowInv
<1>2. \A e \in Told : TrueEvent(e) => TrueEvent(e)'
  BY <1>1 DEF TrueEvent
<1>3. \A r : TrueAnswer(r) => TrueAnswer(r)'
  BY <1>1 DEF TrueAnswer
<1>4. TrueChannel'
  BY <1>2, ChannelStaysTrue DEF FollowInv
<1>5. /\ tab' \in Tab /\ slow' \in BOOLEAN
      /\ tab'.active \in 0..take' /\ tab'.capturing \in 0..take'
      /\ tab'.finished \subseteq 1..take'
      /\ ~slow' => (\A n \in tab.finished : Over(n))'
  BY <1>1 DEF FollowInv
<1>6. /\ (replay = <<>> \/ TrueAnswer(replay))' /\ (flight = <<>> \/ TrueAnswer(flight))'
      /\ TrueAnswer(polled)' /\ (socket = "joining" => replay # <<>>)'
  BY <1>3 DEF FollowInv
<1> QED BY <1>4, <1>5, <1>6 DEF FollowInv

LEMMA EventsAreTold ==
  ASSUME NEW k \in {"started", "stopped", "paused"}, NEW n \in Nat, NEW q \in BOOLEAN
  PROVE  \E f \in Told : f = <<k, n, q>> /\ f[1] = k /\ f[2] = n
<1>1. <<k, n, q>> \in Told BY DEF Told
<1>2. <<k, n, q>>[1] = k /\ <<k, n, q>>[2] = n OBVIOUS
<1> QED BY <1>1, <1>2

LEMMA TakesKeepFollowInv ==
  ASSUME FollowInv, Follow!StartTake \/ Follow!StopTake \/ Follow!SetPaused
  PROVE  FollowInv'
<1>0. /\ take \in Nat /\ live \in BOOLEAN /\ paused \in BOOLEAN /\ flips \in Nat
      /\ live => take > 0
  BY DEF FollowInv
<1>1. CASE Follow!StartTake
  <2>1. take + 1 \in Nat /\ FALSE \in BOOLEAN BY <1>0
  <2>2. PICK f \in Told : f = <<"started", take + 1, FALSE>> /\ f[1] = "started" /\ f[2] = take + 1
    BY <2>1, EventsAreTold
  <2>3. /\ take' = take + 1 /\ live' = TRUE /\ paused' = FALSE /\ flips' = flips
        /\ channel' \in {channel, Append(channel, f)}
        /\ UNCHANGED <<socket, replay, flight, polled, tab, slow>>
    <3>1. take' = take + 1 /\ live' = TRUE /\ paused' = FALSE /\ flips' = flips
      BY <1>1 DEF Follow!StartTake
    <3>2. UNCHANGED <<socket, replay, flight, polled, tab, slow>>
      BY <1>1 DEF Follow!StartTake, Follow!poll
    <3>3. channel' \in {channel, Append(channel, <<"started", take + 1, FALSE>>)}
      BY <1>1 DEF Follow!StartTake, Follow!Broadcast
    <3> QED BY <2>2, <3>1, <3>2, <3>3
  <2>4. TrueEvent(f)' BY <1>0, <2>2, <2>3 DEF TrueEvent
  <2>5. \A n \in 0..take : Over(n) => Over(n)' BY <1>0, <2>3 DEF Over
  <2>6. take' \in Nat /\ take <= take' /\ take' > 0 /\ flips' \in Nat
    BY <1>0, <2>3
  <2>7. live' \in BOOLEAN /\ paused' \in BOOLEAN
    BY <1>0, <2>3, Zenon
  <2> QED BY <2>3, <2>4, <2>5, <2>6, <2>7, ServerKeepsFollowInv
<1>2. CASE Follow!StopTake
  <2>1. take \in Nat /\ FALSE \in BOOLEAN BY <1>0
  <2>2. PICK f \in Told : f = <<"stopped", take, FALSE>> /\ f[1] = "stopped" /\ f[2] = take
    BY <2>1, EventsAreTold
  <2>3. /\ live /\ take' = take /\ live' = FALSE /\ paused' = paused /\ flips' = flips
        /\ channel' \in {channel, Append(channel, f)}
        /\ UNCHANGED <<socket, replay, flight, polled, tab, slow>>
    <3>1. live /\ take' = take /\ live' = FALSE /\ paused' = paused /\ flips' = flips
      BY <1>2 DEF Follow!StopTake
    <3>2. UNCHANGED <<socket, replay, flight, polled, tab, slow>>
      BY <1>2 DEF Follow!StopTake, Follow!poll
    <3>3. channel' \in {channel, Append(channel, <<"stopped", take, FALSE>>)}
      BY <1>2 DEF Follow!StopTake, Follow!Broadcast
    <3> QED BY <2>2, <3>1, <3>2, <3>3
  <2>4. TrueEvent(f)' BY <1>0, <2>2, <2>3 DEF TrueEvent, Over
  <2>5. \A n \in 0..take : Over(n) => Over(n)' BY <1>0, <2>3 DEF Over
  <2>6. take' \in Nat /\ take <= take' /\ take' > 0 /\ flips' \in Nat
    BY <1>0, <2>3
  <2>7. live' \in BOOLEAN /\ paused' \in BOOLEAN
    BY <1>0, <2>3, Zenon
  <2> QED BY <2>3, <2>4, <2>5, <2>6, <2>7, ServerKeepsFollowInv
<1>3. CASE Follow!SetPaused
  <2>1. take \in Nat /\ (~paused) \in BOOLEAN BY <1>0
  <2>2. PICK f \in Told : f = <<"paused", take, (~paused)>> /\ f[1] = "paused" /\ f[2] = take
    <3>1. \A q \in BOOLEAN :
            \E f \in Told : f = <<"paused", take, q>> /\ f[1] = "paused" /\ f[2] = take
      BY <2>1, EventsAreTold, Zenon
    <3> QED BY <2>1, <3>1, Zenon
  <2>3. /\ live /\ take' = take /\ live' = live /\ paused' = (~paused) /\ flips' = flips + 1
        /\ channel' \in {channel, Append(channel, f)}
        /\ UNCHANGED <<socket, replay, flight, polled, tab, slow>>
    <3>1. live /\ take' = take /\ live' = live /\ paused' = (~paused) /\ flips' = flips + 1
      BY <1>3 DEF Follow!SetPaused
    <3>2. UNCHANGED <<socket, replay, flight, polled, tab, slow>>
      BY <1>3 DEF Follow!SetPaused, Follow!poll
    <3>3. channel' \in {channel, Append(channel, <<"paused", take, (~paused)>>)}
      BY <1>3 DEF Follow!SetPaused, Follow!Broadcast
    <3> QED BY <2>2, <3>1, <3>2, <3>3
  <2>4. TrueEvent(f)' BY <1>0, <2>2, <2>3 DEF TrueEvent
  <2>5. \A n \in 0..take : Over(n) => Over(n)' BY <1>0, <2>3 DEF Over
  <2>6. take' \in Nat /\ take <= take' /\ take' > 0 /\ flips' \in Nat
    BY <1>0, <2>3
  <2>7. live' \in BOOLEAN /\ paused' \in BOOLEAN
    <3>1. (~paused) \in BOOLEAN BY <1>0
    <3> QED BY <1>0, <2>3, <3>1, Zenon
  <2> QED BY <2>3, <2>4, <2>5, <2>6, <2>7, ServerKeepsFollowInv
<1> QED BY <1>1, <1>2, <1>3

LEMMA ReadingIsTrue == FollowInv => TrueAnswer(Follow!Reading)
<1> SUFFICES ASSUME FollowInv PROVE TrueAnswer(Follow!Reading)
  OBVIOUS
<1>1. /\ take \in Nat /\ flips \in Nat /\ (live => take > 0)
      /\ Follow!Running \in Nat /\ Follow!Running \in {0, take}
      /\ (Follow!Running = 0 => ~live \/ take = 0)
  BY DEF FollowInv, Follow!Running
<1>2. (live /\ paused) \in BOOLEAN BY DEF FollowInv
<1>3. Follow!Reading \in Answers BY <1>1, <1>2 DEF Answers, Follow!Reading
<1>4. Follow!Reading[1] = Follow!Running /\ Follow!Reading[4] = take
  BY DEF Follow!Reading
<1>5. Follow!Running = 0 => Over(take) BY <1>1 DEF Over
<1> QED BY <1>1, <1>3, <1>4, <1>5 DEF TrueAnswer

LEMMA SocketKeepsFollowInv ==
  ASSUME FollowInv, Follow!JoinRoomReads \/ Follow!JoinRoomLands \/ Follow!SocketDrops
  PROVE  FollowInv'
<1>1. UNCHANGED <<take, live, paused, flips, flight, polled, tab, slow>>
  BY DEF Follow!JoinRoomReads, Follow!JoinRoomLands, Follow!SocketDrops, Follow!server,
         Follow!poll
<1>2. \A r : TrueAnswer(r) <=> TrueAnswer(r)' BY <1>1 DEF TrueAnswer, Over
<1>3. \A e \in Told : TrueEvent(e) => TrueEvent(e)' BY <1>1 DEF TrueEvent, Over
<1>4. \A n : Over(n) <=> Over(n)' BY <1>1 DEF Over
<1>5. ASSUME TrueChannel', (replay = <<>> \/ TrueAnswer(replay))',
             (socket = "joining" => replay # <<>>)'
      PROVE  FollowInv'
  BY <1>1, <1>2, <1>4, <1>5 DEF FollowInv
<1>6. CASE Follow!JoinRoomReads
  <2>1. channel' = channel /\ replay' = Follow!Reading BY <1>6 DEF Follow!JoinRoomReads
  <2>2. TrueAnswer(replay)' BY <1>2, <2>1, ReadingIsTrue
  <2>3. TrueChannel' BY <1>3, <2>1 DEF FollowInv, TrueChannel
  <2>4. replay' # <<>> BY <2>2 DEF TrueAnswer, Answers
  <2> QED BY <1>5, <2>2, <2>3, <2>4
<1>7. CASE Follow!JoinRoomLands
  <2>1. replay' = <<>> /\ socket' = "in" /\ TrueAnswer(replay)
    BY <1>7 DEF Follow!JoinRoomLands, FollowInv
  <2>2. CASE replay[1] = 0
    <3>1. channel' = channel BY <1>7, <2>2 DEF Follow!JoinRoomLands
    <3>2. TrueChannel' BY <1>3, <3>1 DEF FollowInv, TrueChannel
    <3> QED BY <1>5, <2>1, <3>2
  <2>3. CASE replay[1] # 0
    <3>1. replay[1] \in Nat /\ replay[2] \in BOOLEAN /\ replay[1] \in 1..take
      BY <2>1, <2>3 DEF TrueAnswer, Answers
    <3>2. PICK f \in Told : /\ f = <<"started", replay[1], replay[2]>>
                            /\ f[1] = "started" /\ f[2] = replay[1]
      BY <3>1, EventsAreTold
    <3>3. TrueEvent(f)' BY <1>1, <3>1, <3>2 DEF TrueEvent
    <3>4. channel' = Append(channel, f) BY <1>7, <2>3, <3>2 DEF Follow!JoinRoomLands
    <3>5. TrueChannel' BY <1>3, <3>3, <3>4, ChannelStaysTrue DEF FollowInv
    <3> QED BY <1>5, <2>1, <3>5
  <2> QED BY <2>2, <2>3
<1>8. CASE Follow!SocketDrops
  <2>1. channel' = <<>> /\ socket' = "out" /\ replay' = replay
    BY <1>8 DEF Follow!SocketDrops
  <2>2. TrueChannel' BY <2>1 DEF TrueChannel
  <2> QED BY <1>2, <1>5, <2>1, <2>2 DEF FollowInv
<1> QED BY <1>6, <1>7, <1>8

\* A start, by an event or an answer, that names a take there is.
LEMMA StartKeepsTab ==
  ASSUME FollowInv, NEW n \in 1..take, NEW isPaused \in BOOLEAN, NEW isLate \in BOOLEAN,
         NEW told \in BOOLEAN, Follow!MarkSlow(n, told)
  PROVE  LET t == Follow!Started(tab, n, isPaused, isLate)
         IN /\ t \in Tab /\ t.active \in 0..take /\ t.capturing \in 0..take
            /\ t.finished \subseteq 1..take /\ slow' \in BOOLEAN /\ (~slow' => ~slow)
            /\ ~slow' => \A m \in t.finished \ tab.finished : Over(m)
<1> DEFINE t == Follow!Started(tab, n, isPaused, isLate)
<1>1. /\ take \in Nat /\ tab \in Tab /\ n \in Nat
      /\ tab.active \in 0..take /\ tab.capturing \in 0..take /\ tab.finished \subseteq 1..take
  BY DEF FollowInv
<1>2. /\ t \in Tab /\ t.active \in {tab.active, n} /\ t.capturing = tab.capturing
      /\ t.finished \subseteq tab.finished \cup ({tab.capturing} \ {0, n})
  <2>1. tab \in Tab /\ n \in Nat BY <1>1
  <2>2. /\ Follow!Started(tab, n, isPaused, isLate) \in Tab
        /\ Follow!Started(tab, n, isPaused, isLate).active \in {tab.active, n}
        /\ Follow!Started(tab, n, isPaused, isLate).capturing = tab.capturing
        /\ Follow!Started(tab, n, isPaused, isLate).finished
             \subseteq tab.finished \cup ({tab.capturing} \ {0, n})
    <3> HIDE DEF t
    <3> QED BY <2>1, StartedFinishesOlder
  <2> QED BY <2>2, Zenon
<1> HIDE DEF t
<1>3. t.active \in 0..take /\ t.capturing \in 0..take /\ t.finished \subseteq 1..take
  BY <1>1, <1>2
<1>4. slow' \in BOOLEAN /\ (~slow' => ~slow /\ ~(n < tab.capturing))
  BY DEF Follow!MarkSlow, FollowInv
<1>5. ASSUME ~slow', NEW m \in t.finished \ tab.finished PROVE Over(m)
  BY <1>1, <1>2, <1>4, <1>5 DEF Over
<1> QED BY <1>2, <1>3, <1>4, <1>5 DEF t

LEMMA ReceiveKeepsFollowInv ==
  ASSUME FollowInv, Follow!Receive
  PROVE  FollowInv'
<1> DEFINE e == Head(channel)
<1>1. /\ UNCHANGED <<take, live, paused, flips, socket, replay, flight, polled>>
      /\ channel' = Tail(channel) /\ channel # <<>>
  BY DEF Follow!Receive, Follow!server, Follow!poll
<1>2. channel \in Seq(Told) /\ take \in Nat /\ tab \in Tab
  BY DEF FollowInv, TrueChannel
<1>3. /\ channel' \in Seq(Told) /\ Len(channel') = Len(channel) - 1 /\ Len(channel) \in Nat
      /\ Len(channel) > 0 /\ e = channel[1]
      /\ \A i \in 1..Len(channel') : channel'[i] = channel[i + 1]
  BY <1>1, <1>2
<1>4. TrueEvent(e) BY <1>3 DEF FollowInv, TrueChannel
<1>5. TrueChannel'
  <2>1. \A f \in Told : TrueEvent(f) => TrueEvent(f)' BY <1>1 DEF TrueEvent, Over
  <2>2. ASSUME NEW i \in 1..Len(channel') PROVE channel'[i] \in Told /\ TrueEvent(channel[i + 1])
    <3>1. i + 1 \in 1..Len(channel) BY <1>3
    <3> QED BY <1>3, <3>1 DEF FollowInv, TrueChannel
  <2>3. \A i \in 1..Len(channel') : channel'[i] \in Told /\ channel'[i] = channel[i + 1]
    BY <1>3, <2>2
  <2> QED BY <1>3, <2>1, <2>2, <2>3 DEF TrueChannel
<1>6. e[2] \in 1..take /\ e[2] \in Nat /\ e[3] \in BOOLEAN
  BY <1>2, <1>4 DEF TrueEvent, Told
<1> HIDE DEF e
<1>7. CASE e[1] = "started"
  <2>1. PICK isLate \in BOOLEAN : tab' = Follow!Started(tab, e[2], e[3], isLate)
    BY <1>7 DEF Follow!Receive, e
  <2>2. Follow!MarkSlow(e[2], polled[1] = e[2]) BY <1>7 DEF Follow!Receive, e
  <2>3. (polled[1] = e[2]) \in BOOLEAN OBVIOUS
  <2>4. /\ tab' \in Tab /\ tab'.active \in 0..take /\ tab'.capturing \in 0..take
        /\ tab'.finished \subseteq 1..take /\ slow' \in BOOLEAN /\ (~slow' => ~slow)
        /\ ~slow' => \A m \in tab'.finished \ tab.finished : Over(m)
    BY <1>6, <2>1, <2>2, <2>3, StartKeepsTab
  <2> QED BY <1>1, <1>5, <2>4, TabKeepsFollowInv
<1>8. CASE e[1] = "stopped"
  <2>1. tab' = Follow!Stopped(tab, e[2]) /\ slow' = slow
    BY <1>8 DEF Follow!Receive, e
  <2>2. Over(e[2]) BY <1>4, <1>8 DEF TrueEvent
  <2>3. /\ tab' \in Tab /\ tab'.active \in {0, tab.active} /\ tab'.capturing = tab.capturing
        /\ tab'.finished \subseteq tab.finished \cup {e[2]}
    BY <1>2, <1>6, <2>1, StoppedFinishesOne
  <2>4. /\ tab'.active \in 0..take /\ tab'.capturing \in 0..take
        /\ tab'.finished \subseteq 1..take /\ slow' \in BOOLEAN /\ (~slow' => ~slow)
        /\ \A m \in tab'.finished \ tab.finished : Over(m)
    BY <1>2, <1>6, <2>1, <2>2, <2>3 DEF FollowInv
  <2> QED BY <1>1, <1>5, <2>3, <2>4, TabKeepsFollowInv
<1>9. CASE e[1] = "paused"
  <2>1. tab' = Follow!PauseChanged(tab, e[2], e[3]) /\ slow' = slow
    BY <1>9 DEF Follow!Receive, e
  <2>2. /\ tab' \in Tab /\ tab'.active = tab.active /\ tab'.capturing = tab.capturing
        /\ tab'.finished = tab.finished
    BY <1>2, <1>6, <2>1, PauseFinishesNone
  <2> QED BY <1>1, <1>5, <2>1, <2>2, TabKeepsFollowInv DEF FollowInv
<1> QED BY <1>4, <1>7, <1>8, <1>9 DEF TrueEvent, Told

\* The capture's own steps, and the pause that an answer reports.
LEMMA CaptureKeepsFollowInv ==
  ASSUME FollowInv,
         \/ Follow!CountdownEnds \/ Follow!BeginRecording \/ Follow!CaptureStopped
         \/ Follow!Drained
  PROVE  FollowInv'
<1>1. /\ UNCHANGED <<take, live, paused, flips, socket, replay, channel, flight, polled, slow>>
  BY DEF Follow!CountdownEnds, Follow!BeginRecording, Follow!CaptureStopped, Follow!Drained,
         Follow!server, Follow!net, Follow!poll
<1>2. TrueChannel'
  <2>1. \A f : TrueEvent(f) <=> TrueEvent(f)' BY <1>1 DEF TrueEvent, Over
  <2> QED BY <1>1, <2>1 DEF FollowInv, TrueChannel
<1>3. tab \in Tab BY DEF FollowInv
<1>4. /\ tab' \in Tab /\ tab'.finished = tab.finished
      /\ tab'.active \in {0, tab.active} /\ tab'.capturing \in {0, tab.capturing, tab.active}
  <2>1. CASE Follow!CountdownEnds BY <1>3, <2>1 DEF Follow!CountdownEnds, Tab
  <2>2. CASE Follow!BeginRecording BY <1>3, <2>2 DEF Follow!BeginRecording, Tab
  <2>3. CASE Follow!CaptureStopped
    BY <1>3, <2>3 DEF Follow!CaptureStopped, Follow!OwnsUi, Tab
  <2>4. CASE Follow!Drained BY <1>3, <2>4 DEF Follow!Drained, Tab
  <2> QED BY <2>1, <2>2, <2>3, <2>4
<1>5. /\ tab'.active \in 0..take /\ tab'.capturing \in 0..take /\ tab'.finished \subseteq 1..take
      /\ slow' \in BOOLEAN
  BY <1>1, <1>4 DEF FollowInv
<1> QED BY <1>1, <1>2, <1>4, <1>5, TabKeepsFollowInv

LEMMA PollKeepsFollowInv ==
  ASSUME FollowInv,
         Follow!PollAsks \/ Follow!PollLands \/ Follow!PollStarts \/ Follow!PollStops
  PROVE  FollowInv'
<1>1. UNCHANGED <<take, live, paused, flips, socket, replay, channel>>
  BY DEF Follow!PollAsks, Follow!PollLands, Follow!PollStarts, Follow!PollStops,
         Follow!server, Follow!net
<1>2. TrueChannel'
  <2>1. \A f : TrueEvent(f) <=> TrueEvent(f)' BY <1>1 DEF TrueEvent, Over
  <2> QED BY <1>1, <2>1 DEF FollowInv, TrueChannel
<1>3. /\ tab \in Tab /\ take \in Nat /\ tab.active \in 0..take /\ tab.capturing \in 0..take
      /\ tab.finished \subseteq 1..take /\ slow \in BOOLEAN /\ TrueAnswer(polled)
  BY DEF FollowInv
<1>4. CASE Follow!PollAsks
  <2>1. flight' = Follow!Reading /\ UNCHANGED <<polled, tab, slow>>
    BY <1>4 DEF Follow!PollAsks
  <2>2. \A r : TrueAnswer(r) <=> TrueAnswer(r)' BY <1>1 DEF TrueAnswer, Over
  <2>3. \A n : Over(n) <=> Over(n)' BY <1>1 DEF Over
  <2> QED BY <1>1, <1>2, <2>1, <2>2, <2>3, ReadingIsTrue DEF FollowInv
<1>5. CASE Follow!PollLands
  <2>1. flight' = <<>> /\ polled' = flight /\ flight # <<>> /\ TrueAnswer(flight)
    BY <1>5 DEF Follow!PollLands, FollowInv
  <2>2. flight[1] \in Nat /\ flight[2] \in BOOLEAN /\ (flight[1] # 0 => flight[1] \in 1..take)
    BY <1>3, <2>1 DEF TrueAnswer, Answers
  <2>3. ASSUME NEW t \in Tab
        PROVE  LET u == Follow!FollowPause(t)
               IN /\ u \in Tab /\ u.active = t.active /\ u.capturing = t.capturing
                  /\ u.finished = t.finished
    BY <2>2, PauseFinishesNone DEF Follow!FollowPause
  <2>4. CASE Follow!MissedStart(flight[1])
    <3>1. PICK isLate \in BOOLEAN :
            tab' = Follow!FollowPause(Follow!Started(tab, flight[1], flight[2], isLate))
      BY <1>5, <2>4 DEF Follow!PollLands
    <3>2. Follow!MarkSlow(flight[1], FALSE) BY <1>5, <2>4 DEF Follow!PollLands
    <3>3. flight[1] \in 1..take BY <2>2, <2>4 DEF Follow!MissedStart
    <3> DEFINE t == Follow!Started(tab, flight[1], flight[2], isLate)
    <3>4. /\ t \in Tab /\ t.active \in 0..take /\ t.capturing \in 0..take
          /\ t.finished \subseteq 1..take /\ slow' \in BOOLEAN /\ (~slow' => ~slow)
          /\ ~slow' => \A m \in t.finished \ tab.finished : Over(m)
      BY <2>2, <3>2, <3>3, StartKeepsTab
    <3> HIDE DEF t
    <3>5. /\ tab' \in Tab /\ tab'.active = t.active /\ tab'.capturing = t.capturing
          /\ tab'.finished = t.finished
      BY <2>3, <3>1, <3>4 DEF t
    <3> QED BY <1>1, <1>2, <2>1, <3>4, <3>5, TabKeepsFollowInv
  <2>5. CASE ~Follow!MissedStart(flight[1])
    <3>1. tab' = Follow!FollowPause(tab) /\ slow' = slow
      BY <1>5, <2>5 DEF Follow!PollLands
    <3>2. /\ tab' \in Tab /\ tab'.active = tab.active /\ tab'.capturing = tab.capturing
          /\ tab'.finished = tab.finished
      BY <1>3, <2>3, <3>1
    <3> QED BY <1>1, <1>2, <1>3, <2>1, <3>1, <3>2, TabKeepsFollowInv
  <2> QED BY <2>4, <2>5
<1>6. CASE Follow!PollStarts
  <2>1. UNCHANGED <<flight, polled>> BY <1>6 DEF Follow!PollStarts, Follow!poll
  <2>2. polled[1] \in 1..take /\ polled[2] \in BOOLEAN
    BY <1>3, <1>6 DEF Follow!PollStarts, Follow!MissedStart, TrueAnswer, Answers
  <2>3. PICK isLate \in BOOLEAN : tab' = Follow!Started(tab, polled[1], polled[2], isLate)
    BY <1>6 DEF Follow!PollStarts
  <2>4. Follow!MarkSlow(polled[1], FALSE) BY <1>6 DEF Follow!PollStarts
  <2>5. /\ tab' \in Tab /\ tab'.active \in 0..take /\ tab'.capturing \in 0..take
        /\ tab'.finished \subseteq 1..take /\ slow' \in BOOLEAN /\ (~slow' => ~slow)
        /\ ~slow' => \A m \in tab'.finished \ tab.finished : Over(m)
    BY <2>2, <2>3, <2>4, StartKeepsTab
  <2> QED BY <1>1, <1>2, <2>1, <2>5, TabKeepsFollowInv
<1>7. CASE Follow!PollStops
  <2>1. UNCHANGED <<flight, polled, slow>> /\ tab' = Follow!Stopped(tab, Follow!Captured)
    BY <1>7 DEF Follow!PollStops, Follow!poll
  <2>2. /\ Follow!Captured \in 1..take
        /\ polled[1] # Follow!Captured /\ polled[4] >= Follow!Captured
    BY <1>3, <1>7 DEF Follow!PollStops, Follow!MissedStop, Follow!Captured
  \* The answer knows of the take, and does not have it running.
  <2>3. Over(Follow!Captured)
    BY <1>3, <2>2 DEF TrueAnswer, Over
  <2>4. /\ tab' \in Tab /\ tab'.active \in {0, tab.active} /\ tab'.capturing = tab.capturing
        /\ tab'.finished \subseteq tab.finished \cup {Follow!Captured}
    <3>1. Follow!Captured \in Nat BY <1>3, <2>2
    <3> QED BY <1>3, <2>1, <3>1, StoppedFinishesOne
  <2>5. /\ tab'.active \in 0..take /\ tab'.capturing \in 0..take
        /\ tab'.finished \subseteq 1..take /\ slow' \in BOOLEAN /\ (~slow' => ~slow)
        /\ \A m \in tab'.finished \ tab.finished : Over(m)
    BY <1>3, <2>1, <2>2, <2>3, <2>4
  <2> QED BY <1>1, <1>2, <2>1, <2>4, <2>5, TabKeepsFollowInv
<1> QED BY <1>4, <1>5, <1>6, <1>7

\* A tab never writes off a take that still runs: a replay that crossed the
\* stop, an answer from before the start, a late stop and a poll that missed
\* them all only ever finish a take that is over, unless a start was handled
\* after a newer one (useRecordingManager).
THEOREM TakesNotAbandoned == Spec => []NeverAbandons
<1>1. FollowInv /\ [Next]_vars => FollowInv'
  <2> SUFFICES ASSUME FollowInv, [Next]_vars PROVE FollowInv'
    OBVIOUS
  <2>1. CASE UNCHANGED followVars
    BY <2>1 DEF FollowInv, TrueChannel, TrueEvent, TrueAnswer, Over, followVars
  <2>2. CASE Follow!Next
    BY <2>2, TakesKeepFollowInv, SocketKeepsFollowInv, ReceiveKeepsFollowInv,
       CaptureKeepsFollowInv, PollKeepsFollowInv DEF Follow!Next
  <2> QED BY <2>1, <2>2, FollowSteps
<1>2. FollowInv => NeverAbandons
  <2> SUFFICES ASSUME FollowInv, ~slow, Follow!Running \in tab.finished PROVE FALSE
    BY DEF NeverAbandons, Follow!NeverAbandons
  <2> QED BY DEF FollowInv, Follow!Running, Over
<1> QED BY <1>1, <1>2, FollowInvInit, PTL DEF Spec

----------------------------------------------------------------------------
(* The recorder. *)

LEMMA RecorderSteps == [Next]_vars => [Recorder!Next]_recorderVars
  BY DEF Next, Only, vars, recorderVars

LEMMA SameRecorder == Recorder!Next = RecorderProof!Next
  BY DEF Recorder!Next, RecorderProof!Next, Recorder!sourceVars, RecorderProof!sourceVars,
         Recorder!refVars, RecorderProof!refVars,
         Recorder!workVars, RecorderProof!workVars, Recorder!Source, RecorderProof!Source,
         Recorder!Idle, RecorderProof!Idle,
         Recorder!CameraChanges, RecorderProof!CameraChanges,
         Recorder!PartTracks, RecorderProof!PartTracks,
         Recorder!Drift, RecorderProof!Drift,
         Recorder!SyncSources, RecorderProof!SyncSources,
         Recorder!Pause, RecorderProof!Pause, Recorder!Resume, RecorderProof!Resume,
         Recorder!StopRecording, RecorderProof!StopRecording,
         Recorder!Ended, RecorderProof!Ended, Recorder!Runs, RecorderProof!Runs,
         Recorder!StopIn, RecorderProof!StopIn, Recorder!Unmount, RecorderProof!Unmount,
         Recorder!Retry, RecorderProof!Retry, Recorder!Await, RecorderProof!Await,
         Recorder!Swap, RecorderProof!Swap, Recorder!Replace, RecorderProof!Replace,
         Recorder!Is, RecorderProof!Is,
         Recorder!SetCombinedStream, RecorderProof!SetCombinedStream,
         Recorder!ResumePart, RecorderProof!ResumePart,
         Recorder!Stale, RecorderProof!Stale, Recorder!Dropped, RecorderProof!Dropped,
         Recorder!RotateAfterFailure, RecorderProof!RotateAfterFailure,
         Recorder!RetryAfterFatal, RecorderProof!RetryAfterFatal,
         Recorder!StopPart, RecorderProof!StopPart, Recorder!RunOp, RecorderProof!RunOp,
         Recorder!StartFrom, RecorderProof!StartFrom,
         Recorder!StartedAs, RecorderProof!StartedAs,
         Recorder!StartPart, RecorderProof!StartPart,
         Recorder!OldPartStops, RecorderProof!OldPartStops,
         Recorder!RetryTimer, RecorderProof!RetryTimer,
         Recorder!FirstData, RecorderProof!FirstData,
         Recorder!EncoderFails, RecorderProof!EncoderFails,
         Recorder!FailsMidSession, RecorderProof!FailsMidSession,
         Recorder!FailsBeforeData, RecorderProof!FailsBeforeData

\* Whatever the call's tracks, the pauses, the errors of encoders and the retries: at
\* rest the part on the call's tracks records and no other, unless its retries are
\* used up, and nothing records while the take is paused or over, but for a fallback
\* that started on a part which should not record (useLocalRecording).
THEOREM RecordsOnlyTheTake ==
  ASSUME MaxRetries \in Nat
  PROVE  Spec => []RecordsExactly
<1>1. RecorderProof!RecorderInv /\ [Next]_vars => RecorderProof!RecorderInv'
  BY RecorderSteps, SameRecorder, RecorderProof!RecorderInvStep
     DEF RecorderProof!RecorderInvStep, recorderVars, RecorderProof!vars,
         RecorderProof!sourceVars, RecorderProof!refVars, RecorderProof!workVars
<1>2. Init => RecorderProof!RecorderInv
  BY RecorderProof!RecorderInvInit
     DEF RecorderProof!RecorderInvInit, Init, Recorder!Init, RecorderProof!Init, Recorder!Idle,
         RecorderProof!Idle
<1>3. RecorderProof!RecorderInv => RecordsExactly
  BY RecorderProof!RecordsExactlyHolds
     DEF RecorderProof!RecordsExactlyHolds, RecordsExactly, Recorder!RecordsExactly,
         Recorder!AtRest, Recorder!Drift, Recorder!PartTracks, Recorder!Source, Recorder!Idle,
         Recorder!Recording, RecorderProof!RecordsExactly, RecorderProof!AtRest,
         RecorderProof!Drift, RecorderProof!PartTracks, RecorderProof!Source,
         RecorderProof!Idle, RecorderProof!Recording
<1> QED BY <1>1, <1>2, <1>3, PTL DEF Spec

----------------------------------------------------------------------------
(* The audio. *)

LEMMA AudioSteps == [Next]_vars => [Audio!Next]_audioVars
  BY DEF Next, Only, vars, audioVars

LEMMA SameMedian == \A s : Audio!Median(s) = AudioProof!Median(s)
  BY DEF Audio!Median, AudioProof!Median, Audio!Nth, AudioProof!Nth, Audio!Range,
         AudioProof!Range, Audio!Cardinality, AudioProof!Cardinality

LEMMA SameAudio == Audio!Next = AudioProof!Next
<1>1. Audio!ReadSegment = AudioProof!ReadSegment /\ Audio!EndReading = AudioProof!EndReading
  BY DEF Audio!ReadSegment, AudioProof!ReadSegment, Audio!EndReading, AudioProof!EndReading
<1>2. \A i : Audio!IsFar(i) = AudioProof!IsFar(i)
  BY SameMedian DEF Audio!IsFar, AudioProof!IsFar, Audio!Abs, AudioProof!Abs, Audio!Offset,
                    AudioProof!Offset, Audio!Baseline, AudioProof!Baseline
<1>3. \A l : Audio!FitRun(l) = AudioProof!FitRun(l)
  BY SameMedian DEF Audio!FitRun, AudioProof!FitRun
<1>4. \A i : Audio!StrayStamp(i) = AudioProof!StrayStamp(i)
  BY <1>2 DEF Audio!StrayStamp, AudioProof!StrayStamp
<1>5. Audio!PlanChunk = AudioProof!PlanChunk
  BY <1>2, <1>3, <1>4 DEF Audio!PlanChunk, AudioProof!PlanChunk, Audio!NoRun,
                          AudioProof!NoRun, Audio!Offset, AudioProof!Offset
<1>6. Audio!EndPlanning = AudioProof!EndPlanning
  BY <1>3 DEF Audio!EndPlanning, AudioProof!EndPlanning, Audio!NoRun, AudioProof!NoRun
<1>7. Audio!PlaceRun = AudioProof!PlaceRun /\ Audio!EndPlacing = AudioProof!EndPlacing
  BY DEF Audio!PlaceRun, AudioProof!PlaceRun, Audio!EndPlacing, AudioProof!EndPlacing,
         Audio!LeadPad, AudioProof!LeadPad, Audio!AtLeast0, AudioProof!AtLeast0
<1> QED BY <1>1, <1>5, <1>6, <1>7 DEF Audio!Next, AudioProof!Next

LEMMA SameAudioInit == Init => AudioProof!Init
  BY DEF Init, Audio!Init, AudioProof!Init, Audio!Kept, AudioProof!Kept, Audio!Unreadable,
         AudioProof!Unreadable, Audio!Captured, AudioProof!Captured, Audio!Cardinality, AudioProof!Cardinality,
         Audio!NoRun, AudioProof!NoRun

\* Whatever is lost of a participant's audio, however long the capture was suspended,
\* and although a timestamp is wrong: every chunk is heard whole, at its time, in step
\* with the video, unless a wrong timestamp stands next to a break
\* (planAudioRuns, composePcmTimeline).
THEOREM AudioStaysInPlace ==
  ASSUME AudioProof!Sizes
  PROVE  Spec => []AudioInPlace
<1>1. AudioProof!AudioInv /\ [Next]_vars => AudioProof!AudioInv'
  BY AudioSteps, SameAudio, AudioProof!AudioInvStep
     DEF AudioProof!AudioInvStep, audioVars, AudioProof!vars
<1>2. Init => AudioProof!AudioInv
  BY SameAudioInit, AudioProof!AudioInvInit DEF AudioProof!AudioInvInit
<1>3. AudioProof!AudioInv => AudioInPlace
  BY AudioProof!InPlace
     DEF AudioProof!InPlace, AudioInPlace, Audio!AudioInPlace, AudioProof!AudioInPlace, Audio!Tellable,
         AudioProof!Tellable, Audio!Continuous, AudioProof!Continuous, Audio!RunOf,
         AudioProof!RunOf, Audio!Heard, AudioProof!Heard, Audio!IsWhole,
         AudioProof!IsWhole, Audio!OutputStart, AudioProof!OutputStart, Audio!LeadPad,
         AudioProof!LeadPad, Audio!AtLeast0, AudioProof!AtLeast0, Audio!Abs,
         AudioProof!Abs
<1> QED BY <1>1, <1>2, <1>3, PTL DEF Spec
=============================================================================
