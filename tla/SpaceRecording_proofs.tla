----------------------- MODULE SpaceRecording_proofs -----------------------
(***************************************************************************)
(* Proofs about SpaceRecording, for any number of sessions and requests.    *)
(*                                                                         *)
(* LockInv is inductive whatever writes race: the lock is never left at    *)
(* RECORDING without a session that runs.  That the lock in turn protects  *)
(* the session holds only until an unguarded write rests on a stale read:   *)
(* TakeInv has raced = {} for a premise.                                    *)
(***************************************************************************)
EXTENDS SpaceRecording, TLAPS

LEMMA SpaceTypeInit == Init => TypeOK
  BY ActorsAssumption DEF Init, TypeOK, SpaceStatuses, LockStatuses, SessionStatuses, EndKinds, RaceKinds, Unread, Phases

LEMMA SpaceTypeStep == TypeOK /\ [Next]_vars => TypeOK'
<1> SUFFICES ASSUME TypeOK, [Next]_vars PROVE TypeOK'
  OBVIOUS
<1> USE ActorsAssumption DEF TypeOK, SpaceStatuses, LockStatuses, SessionStatuses, EndKinds, RaceKinds, Unread, Phases
<1>1. ASSUME NEW s \in Sessions, StartReads(s) PROVE TypeOK'
  BY <1>1 DEF StartReads
<1>2. ASSUME NEW s \in Sessions, StartClaims(s) PROVE TypeOK'
  BY <1>2 DEF StartClaims
<1>3. ASSUME NEW s \in Sessions, TracksLand(s) PROVE TypeOK'
  BY <1>3 DEF TracksLand
<1>4. ASSUME NEW s \in Sessions, SettleReads(s) PROVE TypeOK'
  BY <1>4 DEF SettleReads
<1>5. ASSUME NEW s \in Sessions, Settling(s) PROVE TypeOK'
  <2>1. CASE SettleWrites(s)
    BY <2>1 DEF SettleWrites
  <2>2. CASE SettleReleases(s)
    BY <2>2 DEF SettleReleases, Warranted
  <2> QED
    BY <1>5, <2>1, <2>2 DEF Settling
<1>6. ASSUME NEW r \in Stops \cup {Sweep}, StopRequested(r) PROVE TypeOK'
  BY <1>6 DEF StopRequested, Go, Stoppers, Active
<1>7. ASSUME NEW p \in Stoppers, StopSteps(p) PROVE TypeOK'
  <2>1. CASE StopReads(p)
    BY <2>1 DEF StopReads, Go
  <2>2. CASE StopWrites(p)
    BY <2>2 DEF StopWrites, Go, Warranted
  <2>4. CASE StopEnds(p)
    BY <2>4 DEF StopEnds, Go
  <2> QED
    BY <1>7, <2>1, <2>2, <2>4 DEF StopSteps
<1>8. ASSUME NEW e \in Ends, EndReads(e) PROVE TypeOK'
  <2>1. CASE HostReads(e)
    BY <2>1 DEF HostReads, Reads, Go, Stoppers
  <2>2. CASE RoomReads(e)
    BY <2>2 DEF RoomReads, Reads, Go, Stoppers
  <2>3. CASE ExpiryReads(e)
    BY <2>3 DEF ExpiryReads, Reads, Go, Stoppers
  <2> QED
    BY <1>8, <2>1, <2>2, <2>3 DEF EndReads
<1>9. ASSUME NEW e \in Ends, EndSteps(e) PROVE TypeOK'
  <2>1. CASE EndLists(e)
    BY <2>1 DEF EndLists, Go, Stoppers, Active
  <2>2. CASE EndFlips(e)
    <3>1. /\ space' \in SpaceStatuses /\ lock' \in LockStatuses
          /\ Go(e, "done")
          /\ UNCHANGED <<session, tracks, start, list, target, read, join, reaped, settle, raced>>
      BY <2>2 DEF EndFlips, HostFlips, RoomFlips, ExpiryFlips, Flips
    <3> QED
      BY <3>1 DEF Go, Stoppers
  <2> QED
    BY <1>9, <2>1, <2>2 DEF EndSteps
<1>11. CASE ReapReads
  BY <1>11 DEF ReapReads, Active
<1>12. CASE ReapWrites
  BY <1>12 DEF ReapWrites, Warranted
<1>14. ASSUME NEW j \in Joins, JoinReads(j) PROVE TypeOK'
  BY <1>14 DEF JoinReads
<1>15. ASSUME NEW j \in Joins, JoinFlips(j) PROVE TypeOK'
  BY <1>15 DEF JoinFlips, Warranted
<1>16. CASE UNCHANGED vars
  BY <1>16 DEF vars
<1> QED
  BY <1>1, <1>2, <1>3, <1>4, <1>5, <1>6, <1>7, <1>8, <1>9, <1>11, <1>12,
     <1>14, <1>15, <1>16 DEF Next

\* The rows and the processes keep their types, for any number of sessions,
\* requests and ways to end the space.
THEOREM SpaceTypeCorrect == Spec => []TypeOK
  BY SpaceTypeInit, SpaceTypeStep, PTL DEF Spec

-----------------------------------------------------------------------------
(* The lock is not leaked.                                                 *)

\* A session exists only once its request has claimed the space.
Fresh == \A s \in Sessions : start[s] # "done" => session[s] = "none"

\* What a stopper is about to stop, or the finalizer to settle, exists.
Known ==
  /\ \A p \in Stoppers : at[p] = "stop" => /\ target[p] \in Sessions
                                           /\ session[target[p]] # "none"
  /\ \A s \in Sessions : settle[s] # "idle" => session[s] \notin {"none", "ACTIVE"}

LockInv == TypeOK /\ Fresh /\ Known /\ LockNotLeaked

LEMMA LockInit == Init => LockInv
  BY SpaceTypeInit DEF Init, LockInv, Fresh, Known, LockNotLeaked

LEMMA LockStep == LockInv /\ [Next]_vars => LockInv'
<1> SUFFICES ASSUME LockInv, [Next]_vars PROVE LockInv'
  OBVIOUS
<1>t. TypeOK'
  BY SpaceTypeStep DEF LockInv
<1> USE <1>t, ActorsAssumption
    DEF LockInv, TypeOK, SessionStatuses, Fresh, Known, LockNotLeaked, Active
<1>1. ASSUME NEW s \in Sessions, StartReads(s) PROVE LockInv'
  BY <1>1 DEF StartReads
<1>2. ASSUME NEW s \in Sessions, StartClaims(s) PROVE LockInv'
  BY <1>2 DEF StartClaims
<1>3. ASSUME NEW s \in Sessions, TracksLand(s) PROVE LockInv'
  BY <1>3 DEF TracksLand
<1>4. ASSUME NEW s \in Sessions, SettleReads(s) PROVE LockInv'
  BY <1>4 DEF SettleReads, Stopped
<1>5. ASSUME NEW s \in Sessions, Settling(s) PROVE LockInv'
  <2>1. CASE SettleWrites(s)
    BY <2>1 DEF SettleWrites
  <2>2. CASE SettleReleases(s)
    BY <2>2 DEF SettleReleases, Warranted
  <2> QED
    BY <1>5, <2>1, <2>2 DEF Settling
<1>6. ASSUME NEW r \in Stops \cup {Sweep}, StopRequested(r) PROVE LockInv'
  BY <1>6 DEF StopRequested, Go, Stoppers
<1>7. ASSUME NEW p \in Stoppers, StopSteps(p) PROVE LockInv'
  <2>1. CASE StopReads(p)
    BY <2>1 DEF StopReads, Go
  <2>2. CASE StopWrites(p)
    BY <2>2 DEF StopWrites, Go, Warranted
  <2>4. CASE StopEnds(p)
    BY <2>4 DEF StopEnds, Go
  <2> QED
    BY <1>7, <2>1, <2>2, <2>4 DEF StopSteps
<1>8. ASSUME NEW e \in Ends, EndReads(e) PROVE LockInv'
  BY <1>8 DEF EndReads, HostReads, RoomReads, ExpiryReads, Reads, Go, Stoppers
<1>9. ASSUME NEW e \in Ends, EndSteps(e) PROVE LockInv'
  BY <1>9 DEF EndSteps, EndLists, EndFlips, HostFlips, RoomFlips, ExpiryFlips, Flips, Go, Stoppers
<1>11. CASE ReapReads
  BY <1>11 DEF ReapReads
<1>12. CASE ReapWrites
  BY <1>12 DEF ReapWrites, Warranted
<1>14. ASSUME NEW j \in Joins, JoinReads(j) PROVE LockInv'
  BY <1>14 DEF JoinReads
<1>15. ASSUME NEW j \in Joins, JoinFlips(j) PROVE LockInv'
  BY <1>15 DEF JoinFlips, Warranted
<1>16. CASE UNCHANGED vars
  BY <1>16 DEF vars
<1> QED
  BY <1>1, <1>2, <1>3, <1>4, <1>5, <1>6, <1>7, <1>8, <1>9, <1>11, <1>12,
     <1>14, <1>15, <1>16 DEF Next

\* Whatever stops a session gives the lock back, and nothing but a start takes
\* it: the next take of a live space is never refused because of a dead one.
THEOREM LockNeverLeaks == Spec => []LockNotLeaked
<1>1. LockInv => LockNotLeaked
  BY DEF LockInv
<1> QED
  BY LockInit, LockStep, <1>1, PTL DEF Spec

-----------------------------------------------------------------------------
(* One take at a time.                                                     *)

\* Nothing is recorded before the space is live.
NotYetLive == space = "SCHEDULED" => Active = {}

TakeInv == LockInv /\ OneActive /\ ActiveIsLocked /\ (raced = {} => NotYetLive)

\* A write leaves no trace in raced only if the state warrants it.
LEMMA NoRace ==
  ASSUME NEW cond \in BOOLEAN, NEW race, Warranted(cond, race), raced' = {}
  PROVE  raced = {} /\ cond
<1>1. raced = {}
  BY DEF Warranted
<1>2. CASE ~cond
  <2>1. race \in raced'
    BY <1>2 DEF Warranted
  <2> QED
    BY <2>1
<1> QED
  BY <1>1, <1>2

LEMMA TakeInit == Init => TakeInv
  BY LockInit DEF Init, TakeInv, OneActive, ActiveIsLocked, NotYetLive, Active

LEMMA TakeStep == TakeInv /\ [Next]_vars => TakeInv'
<1> SUFFICES ASSUME TakeInv, [Next]_vars PROVE TakeInv'
  OBVIOUS
<1>t. LockInv'
  BY LockStep DEF TakeInv
<1>n. raced' # {} => TakeInv'
  BY <1>t DEF TakeInv, OneActive, ActiveIsLocked
<1> USE <1>t, <1>n, ActorsAssumption
    DEF TakeInv, OneActive, ActiveIsLocked, NotYetLive, Active
<1> USE DEF LockInv, TypeOK, SessionStatuses, SpaceStatuses, Known, Fresh
<1>1. ASSUME NEW s \in Sessions, StartReads(s) PROVE TakeInv'
  BY <1>1 DEF StartReads
<1>2. ASSUME NEW s \in Sessions, StartClaims(s) PROVE TakeInv'
  BY <1>2 DEF StartClaims
<1>3. ASSUME NEW s \in Sessions, TracksLand(s) PROVE TakeInv'
  BY <1>3 DEF TracksLand
<1>4. ASSUME NEW s \in Sessions, SettleReads(s) PROVE TakeInv'
  BY <1>4 DEF SettleReads
<1>5. ASSUME NEW s \in Sessions, Settling(s) PROVE TakeInv'
  <2>1. CASE SettleWrites(s)
    BY <2>1 DEF SettleWrites
  <2>2. CASE SettleReleases(s)
    <3>1. raced' = {} => raced = {} /\ Active = {}
      <4>1. Warranted(Active = {}, "settle")
        BY <2>2 DEF SettleReleases
      <4> HIDE DEF Active
      <4> QED
        BY <4>1, NoRace
    <3>2. CASE raced' = {}
      BY <2>2, <3>1, <3>2 DEF SettleReleases
    <3> QED
      BY <3>2
  <2> QED
    BY <1>5, <2>1, <2>2 DEF Settling
<1>6. ASSUME NEW r \in Stops \cup {Sweep}, StopRequested(r) PROVE TakeInv'
  BY <1>6 DEF StopRequested
<1>7. ASSUME NEW p \in Stoppers, StopSteps(p) PROVE TakeInv'
  <2>1. CASE StopReads(p)
    BY <2>1 DEF StopReads
  <2>2. CASE StopWrites(p)
    <3>1. raced' = {} => raced = {} /\ session[target[p]] = "ACTIVE"
      <4>1. Warranted(session[target[p]] = "ACTIVE", "stop")
        BY <2>2 DEF StopWrites
      <4> QED
        BY <4>1, NoRace
    <3>2. raced' = {} => Active' = {}
      BY <2>2, <3>1 DEF StopWrites
    <3>3. CASE raced' = {}
      BY <2>2, <3>1, <3>2, <3>3 DEF StopWrites
    <3> QED
      BY <3>3
  <2>4. CASE StopEnds(p)
    BY <2>4 DEF StopEnds
  <2> QED
    BY <1>7, <2>1, <2>2, <2>4 DEF StopSteps
<1>8. ASSUME NEW e \in Ends, EndReads(e) PROVE TakeInv'
  BY <1>8 DEF EndReads, HostReads, RoomReads, ExpiryReads, Reads
<1>9. ASSUME NEW e \in Ends, EndSteps(e) PROVE TakeInv'
  <2>1. CASE EndLists(e)
    BY <2>1 DEF EndLists
  <2>2. CASE EndFlips(e)
    BY <2>2 DEF EndFlips, HostFlips, RoomFlips, ExpiryFlips, Flips
  <2> QED
    BY <1>9, <2>1, <2>2 DEF EndSteps
<1>11. CASE ReapReads
  BY <1>11 DEF ReapReads
<1>12. CASE ReapWrites
  <2>1. raced' = {} => raced = {} /\ reaped \subseteq Active
    <3>1. Warranted(reaped \subseteq Active, "reap")
      BY <1>12 DEF ReapWrites
    <3> HIDE DEF Active
    <3> QED
      BY <3>1, NoRace
  <2>2. raced' = {} => Active' = {}
    BY <1>12, <2>1 DEF ReapWrites
  <2>3. CASE raced' = {}
    BY <1>12, <2>1, <2>2, <2>3 DEF ReapWrites
  <2> QED
    BY <2>3
<1>14. ASSUME NEW j \in Joins, JoinReads(j) PROVE TakeInv'
  BY <1>14 DEF JoinReads
<1>15. ASSUME NEW j \in Joins, JoinFlips(j) PROVE TakeInv'
  BY <1>15 DEF JoinFlips, Warranted
<1>16. CASE UNCHANGED vars
  BY <1>16 DEF vars
<1> QED
  BY <1>1, <1>2, <1>3, <1>4, <1>5, <1>6, <1>7, <1>8, <1>9, <1>11, <1>12,
     <1>14, <1>15, <1>16 DEF Next

\* Until a write rests on a stale read, a space has one running take at most:
\* the claim in the transaction is enough, however starts, stops, the sweep,
\* the reaper and the end of the space interleave.
THEOREM OneTakeAtATime == Spec => []OneActive
<1>1. TakeInv => OneActive
  BY DEF TakeInv
<1> QED
  BY TakeInit, TakeStep, <1>1, PTL DEF Spec

\* Under the same condition the running take of a live space holds the lock,
\* also when the space was scheduled first and ended while it was starting.
THEOREM TakeHoldsLock == Spec => []ActiveIsLocked
<1>1. TakeInv => ActiveIsLocked
  BY DEF TakeInv
<1> QED
  BY TakeInit, TakeStep, <1>1, PTL DEF Spec

-----------------------------------------------------------------------------
(* A settled session stays settled.                                        *)

\* A write that leaves its kind of race unnoted had the state it rests on.
LEMMA NotRaced ==
  ASSUME NEW cond \in BOOLEAN, NEW race, Warranted(cond, race), race \notin raced'
  PROVE  cond
BY DEF Warranted

\* Of all that writes a session only a stop makes a settled one STOPPED, and
\* only one that has read it ACTIVE before and writes by its id: the starts
\* find none, the reaper writes under its filter, the finalizer settles.
THEOREM SettledSessionStays == Spec => SettledStaysSettled
<1> DEFINE Settled(s) == session[s] \in {"READY", "FAILED"}
           Kept == \A s \in Sessions :
                     "stop" \notin raced' /\ Settled(s) => session'[s] # "STOPPED"
<1>1. LockInv /\ [Next]_vars => Kept
  <2> SUFFICES ASSUME LockInv, [Next]_vars,
                      NEW s \in Sessions, "stop" \notin raced', Settled(s)
               PROVE  session'[s] # "STOPPED"
    OBVIOUS
  <2> USE DEF LockInv, TypeOK
  <2>1. CASE session' = session
    BY <2>1
  <2>2. ASSUME NEW t \in Sessions, StartClaims(t) PROVE session'[s] # "STOPPED"
    BY <2>2 DEF StartClaims
  <2>3. ASSUME NEW t \in Sessions, SettleWrites(t) PROVE session'[s] # "STOPPED"
    BY <2>3 DEF SettleWrites
  <2>4. ASSUME NEW p \in Stoppers, StopWrites(p) PROVE session'[s] # "STOPPED"
    <3>1. session[target[p]] = "ACTIVE"
      <4>1. Warranted(session[target[p]] = "ACTIVE", "stop")
        BY <2>4 DEF StopWrites
      <4> QED
        BY <4>1, NotRaced
    <3> QED
      BY <2>4, <3>1 DEF StopWrites
  <2>5. CASE ReapWrites
    BY <2>5 DEF ReapWrites, Active
  <2>6. CASE \/ \E t \in Sessions : StartReads(t) \/ TracksLand(t) \/ SettleReads(t)
                                      \/ SettleReleases(t)
             \/ \E r \in Stops \cup {Sweep} : StopRequested(r)
             \/ \E p \in Stoppers : StopReads(p) \/ StopEnds(p)
             \/ ReapReads \/ \E j \in Joins : JoinReads(j) \/ JoinFlips(j)
    BY <2>1, <2>6 DEF StartReads, TracksLand, SettleReads, SettleReleases, StopRequested,
       StopReads, StopEnds, ReapReads, JoinReads, JoinFlips
  <2>7. ASSUME NEW e \in Ends, EndReads(e) \/ EndSteps(e) PROVE session'[s] # "STOPPED"
    BY <2>1, <2>7 DEF EndReads, HostReads, RoomReads, ExpiryReads, Reads, EndSteps, EndLists,
       EndFlips, HostFlips, RoomFlips, ExpiryFlips, Flips
  <2>8. CASE UNCHANGED vars
    BY <2>1, <2>8 DEF vars
  <2> QED
    BY <2>2, <2>3, <2>4, <2>5, <2>6, <2>7, <2>8 DEF Next, Settling, StopSteps
<1>2. LockInv /\ [Next]_vars => [Kept]_vars
  BY <1>1
<1> QED
  BY LockInit, LockStep, <1>2, PTL DEF Spec, SettledStaysSettled

=============================================================================
