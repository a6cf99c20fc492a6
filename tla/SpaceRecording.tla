-------------------------- MODULE SpaceRecording --------------------------
(***************************************************************************)
(* A space (a meeting) and its recording sessions.  The space row carries  *)
(* the recording lock, recordingStatus: a start claims it and creates the   *)
(* session in one transaction, and every way a session leaves ACTIVE gives  *)
(* it back.  The same rows are written by                                   *)
(*                                                                         *)
(*   - start and stop requests of the host and the co-hosts;               *)
(*   - everything that ends the space: the host, LiveKit's room_finished,   *)
(*     the expiry check; each stops the active sessions first;              *)
(*   - the usage sweep (orphaned sessions and spent credit) and the reaper  *)
(*     of abandoned sessions;                                              *)
(*   - the finalizer, when it settles a stopped session;                   *)
(*   - the first join of a scheduled space, which makes it live.            *)
(*                                                                         *)
(* Every process is split at its awaits; a single query or transaction is   *)
(* atomic.                                                                 *)
(***************************************************************************)
CONSTANTS
  Sessions,    \* start requests, and the sessions they create
  Stops,       \* requests that stop a session
  Ends,        \* requests and webhooks that end the space
  Joins,       \* join requests
  Sweep,       \* the usage sweep
  None

Stoppers == Stops \cup Ends \cup {Sweep}

(* Writes by id that rest on a read which is no longer true:                *)
(* stop:   a session is stopped that another path has stopped meanwhile;    *)
(* reap:   the same, by the reaper;                                        *)
(* settle: the finalizer fails a session while a later one is recording;   *)
(* join:   a scheduled space is made live that has ended meanwhile.         *)
RaceKinds == {"stop", "reap", "settle", "join"}

ASSUME ActorsAssumption ==
  /\ Stops \cap Ends = {} /\ Sweep \notin Stops \cup Ends
  /\ None \notin Sessions

EndKinds        == {"host", "room", "expiry"}
SpaceStatuses   == {"SCHEDULED", "LIVE", "ENDED"}
LockStatuses    == {"IDLE", "RECORDING", "STOPPED"}
SessionStatuses == {"none", "ACTIVE", "STOPPED", "READY", "FAILED"}

VARIABLES
  space,     \* Space.status
  lock,      \* Space.recordingStatus
  session,   \* RecordingSession.status, "none" before it is created
  tracks,    \* where the session's tracks landed: "open", "failed", "ready"
  start,     \* start requests: "idle", "claim", "done"
  at, list, target,  \* stoppers: where, sessions to stop, the one being stopped
  read,      \* what ends the space, and the space status it read
  join,      \* join requests: "idle", "flip", "done"
  reaped,    \* sessions the reaper found abandoned, {} between its runs
  settle,    \* the finalizer, per session: "idle", "ready", "fail", "release"
  raced      \* history: the stale writes that have happened

vars == <<space, lock, session, tracks, start, at, list, target, read, join,
          reaped, settle, raced>>

Phases == {"idle", "list", "stopping", "stop", "flip", "done"}

TypeOK ==
  /\ space \in SpaceStatuses /\ lock \in LockStatuses
  /\ session \in [Sessions -> SessionStatuses]
  /\ tracks \in [Sessions -> {"open", "failed", "ready"}]
  /\ start \in [Sessions -> {"idle", "claim", "done"}]
  /\ at \in [Stoppers -> Phases]
  /\ list \in [Stoppers -> SUBSET Sessions]
  /\ target \in [Stoppers -> Sessions \cup {None}]
  /\ read \in [Ends -> [kind : EndKinds, space : SpaceStatuses]]
  /\ join \in [Joins -> {"idle", "flip", "done"}]
  /\ reaped \subseteq Sessions
  /\ settle \in [Sessions -> {"idle", "ready", "fail", "release"}]
  /\ raced \subseteq RaceKinds

Unread == [kind |-> "host", space |-> "SCHEDULED"]

Init ==
  /\ space \in {"SCHEDULED", "LIVE"} /\ lock = "IDLE"
  /\ session = [s \in Sessions |-> "none"] /\ tracks = [s \in Sessions |-> "open"]
  /\ start = [s \in Sessions |-> "idle"]
  /\ at = [p \in Stoppers |-> "idle"] /\ list = [p \in Stoppers |-> {}]
  /\ target = [p \in Stoppers |-> None]
  /\ read = [e \in Ends |-> Unread]
  /\ join = [j \in Joins |-> "idle"]
  /\ reaped = {} /\ settle = [s \in Sessions |-> "idle"] /\ raced = {}

Active   == {s \in Sessions : session[s] = "ACTIVE"}
Stopped  == {s \in Sessions : session[s] \notin {"none", "ACTIVE"}}

\* A write that the state no longer warrants is noted.
Warranted(cond, race) == raced' = raced \cup (IF cond THEN {} ELSE {race})

-----------------------------------------------------------------------------
(* startRecordingSession: a pre-check, then the claim and the new session.  *)

StartReads(s) ==
  /\ start[s] = "idle"
  /\ start' = [start EXCEPT ![s] =
                IF space = "LIVE" /\ lock # "RECORDING" THEN "claim" ELSE "done"]
  /\ UNCHANGED <<space, lock, session, tracks, at, list, target, read, join,
                 reaped, settle, raced>>

\* Mutant: the claim trusts the pre-check.
ClaimUnguarded(s) ==
  /\ start[s] = "claim" /\ start' = [start EXCEPT ![s] = "done"]
  /\ lock' = "RECORDING" /\ session' = [session EXCEPT ![s] = "ACTIVE"]
  /\ UNCHANGED <<space, tracks, at, list, target, read, join, reaped, settle, raced>>

StartClaims(s) ==
  /\ start[s] = "claim" /\ start' = [start EXCEPT ![s] = "done"]
  /\ IF space = "LIVE" /\ lock # "RECORDING"
     THEN lock' = "RECORDING" /\ session' = [session EXCEPT ![s] = "ACTIVE"]
     ELSE UNCHANGED <<lock, session>>
  /\ UNCHANGED <<space, tracks, at, list, target, read, join, reaped, settle, raced>>

-----------------------------------------------------------------------------
(* stopRecordingSession, called for one session or for every active one.   *)

Go(p, phase) == at' = [at EXCEPT ![p] = phase]

StopRequested(r) ==
  /\ at[r] = "idle" /\ Go(r, "stopping")
  /\ \E s \in Active : list' = [list EXCEPT ![r] = {s}]
  /\ UNCHANGED <<space, lock, session, tracks, start, target, read, join,
                 reaped, settle, raced>>

\* The next session of the list: one that is no longer ACTIVE is left alone.
StopReads(p) ==
  /\ at[p] = "stopping"
  /\ \E s \in list[p] :
       IF session[s] = "ACTIVE"
       THEN Go(p, "stop") /\ target' = [target EXCEPT ![p] = s] /\ UNCHANGED list
       ELSE list' = [list EXCEPT ![p] = @ \ {s}] /\ UNCHANGED <<at, target>>
  /\ UNCHANGED <<space, lock, session, tracks, start, read, join, reaped, settle, raced>>

\* Mutant: the session stops, the space keeps its lock.
StopKeepsLock(p) ==
  /\ at[p] = "stop" /\ Go(p, "stopping")
  /\ session' = [session EXCEPT ![target[p]] = "STOPPED"]
  /\ list' = [list EXCEPT ![p] = @ \ {target[p]}]
  /\ target' = [target EXCEPT ![p] = None]
  /\ UNCHANGED <<space, lock, tracks, start, read, join, reaped, settle, raced>>

\* The session and the space's lock, in one transaction, by id alone.
StopWrites(p) ==
  /\ at[p] = "stop" /\ Go(p, "stopping")
  /\ Warranted(session[target[p]] = "ACTIVE", "stop")
  /\ session' = [session EXCEPT ![target[p]] = "STOPPED"] /\ lock' = "STOPPED"
  /\ list' = [list EXCEPT ![p] = @ \ {target[p]}]
  /\ target' = [target EXCEPT ![p] = None]
  /\ UNCHANGED <<space, tracks, start, read, join, reaped, settle>>

StopEnds(p) ==
  /\ at[p] = "stopping" /\ list[p] = {}
  /\ Go(p, IF p = Sweep THEN "idle"
           ELSE IF p \in Ends /\ read[p].space # "ENDED" THEN "flip" ELSE "done")
  /\ UNCHANGED <<space, lock, session, tracks, start, list, target, read, join,
                 reaped, settle, raced>>

-----------------------------------------------------------------------------
(* endSpace, handleRoomFinished and ensureSpaceFreshness: read the space,  *)
(* stop its active sessions, then mark it ENDED.  "ENDED" in read means    *)
(* that the space is left as it is.                                        *)

Reads(e, kind, status, phase) ==
  /\ at[e] = "idle" /\ Go(e, phase)
  /\ read' = [read EXCEPT ![e] = [kind |-> kind, space |-> status]]
  /\ UNCHANGED <<space, lock, session, tracks, start, list, target, join, reaped, settle, raced>>

HostReads(e)   == Reads(e, "host", IF space = "LIVE" THEN "LIVE" ELSE "ENDED", "list")
RoomReads(e)   == Reads(e, "room", space, "list")
ExpiryReads(e) == Reads(e, "expiry", space, IF space = "ENDED" THEN "done" ELSE "list")
EndReads(e)    == HostReads(e) \/ RoomReads(e) \/ ExpiryReads(e)

EndLists(e) ==
  /\ at[e] = "list" /\ Go(e, "stopping") /\ list' = [list EXCEPT ![e] = Active]
  /\ UNCHANGED <<space, lock, session, tracks, start, target, read, join, reaped, settle, raced>>

Flips(e, kind) ==
  /\ at[e] = "flip" /\ read[e].kind = kind /\ Go(e, "done")
  /\ UNCHANGED <<session, tracks, start, list, target, read, join, reaped, settle, raced>>

HostFlips(e)   == Flips(e, "host") /\ space' = "ENDED" /\ UNCHANGED lock
\* The room's end also resets the lock; the expiry insists on what it read.
RoomFlips(e)   == Flips(e, "room") /\ space' = "ENDED" /\ lock' = "STOPPED"
ExpiryFlips(e) == /\ Flips(e, "expiry") /\ UNCHANGED lock
                  /\ space' = IF space = read[e].space THEN "ENDED" ELSE space
EndFlips(e)    == HostFlips(e) \/ RoomFlips(e) \/ ExpiryFlips(e)

-----------------------------------------------------------------------------
(* The usage sweep, once a minute: a session of a space that is not LIVE   *)
(* is an orphan; any other is stopped when its owner's credit is spent.    *)

\* Mutant: only spent credit stops a session.
SweepSpentOnly ==
  /\ at[Sweep] = "idle" /\ space = "LIVE"
  /\ \E s \in Active : list' = [list EXCEPT ![Sweep] = {s}]
  /\ Go(Sweep, "stopping")
  /\ UNCHANGED <<space, lock, session, tracks, start, target, read, join, reaped, settle, raced>>

SweepReads   == StopRequested(Sweep)
SweepOrphans == space # "LIVE" /\ SweepReads

(* The reaper: sessions nobody uploads to any more.                        *)

ReapReads ==
  /\ reaped = {}
  /\ reaped' \in SUBSET Active \ {{}}
  /\ UNCHANGED <<space, lock, session, tracks, start, at, list, target, read, join, settle, raced>>

\* Mutant: whatever the session has become meanwhile.
ReapAll ==
  /\ reaped # {} /\ reaped' = {}
  /\ session' = [s \in Sessions |-> IF s \in reaped THEN "STOPPED" ELSE session[s]]
  /\ lock' = IF lock = "RECORDING" THEN "STOPPED" ELSE lock
  /\ UNCHANGED <<space, tracks, start, at, list, target, read, join, settle, raced>>

ReapWrites ==
  /\ reaped # {} /\ reaped' = {}
  /\ Warranted(reaped \subseteq Active, "reap")
  /\ session' = [s \in Sessions |-> IF s \in reaped \cap Active THEN "STOPPED" ELSE session[s]]
  /\ lock' = IF lock = "RECORDING" THEN "STOPPED" ELSE lock
  /\ UNCHANGED <<space, tracks, start, at, list, target, read, join, settle>>

-----------------------------------------------------------------------------
(* The tracks of a stopped session are finalized (TrackFinalize); then the *)
(* session is settled from where they landed.                              *)

TracksLand(s) ==
  /\ s \in Stopped
  /\ \/ tracks[s] = "open" /\ tracks' \in {[tracks EXCEPT ![s] = o] : o \in {"failed", "ready"}}
     \/ tracks[s] = "failed" /\ tracks' = [tracks EXCEPT ![s] = "open"]
  /\ UNCHANGED <<space, lock, session, start, at, list, target, read, join, reaped, settle, raced>>

SettleReads(s) ==
  /\ settle[s] = "idle" /\ s \in Stopped
  /\ \/ tracks[s] = "ready"  /\ settle' = [settle EXCEPT ![s] = "ready"]
     \/ tracks[s] = "failed" /\ settle' = [settle EXCEPT ![s] = "fail"]
  /\ UNCHANGED <<space, lock, session, tracks, start, at, list, target, read, join, reaped, raced>>

SettleWrites(s) ==
  /\ \/ /\ settle[s] = "ready" /\ settle' = [settle EXCEPT ![s] = "idle"]
        /\ session' = [session EXCEPT ![s] = "READY"]
     \/ /\ settle[s] = "fail" /\ settle' = [settle EXCEPT ![s] = "release"]
        /\ session' = [session EXCEPT ![s] = "FAILED"]
  /\ UNCHANGED <<space, lock, tracks, start, at, list, target, read, join, reaped, raced>>

\* A session that failed lets go of the space's lock, whoever holds it.
SettleReleases(s) ==
  /\ settle[s] = "release" /\ settle' = [settle EXCEPT ![s] = "idle"]
  /\ Warranted(Active = {}, "settle")
  /\ lock' = IF lock = "RECORDING" THEN "STOPPED" ELSE lock
  /\ UNCHANGED <<space, session, tracks, start, at, list, target, read, join, reaped>>

-----------------------------------------------------------------------------
(* The first join of a scheduled space makes it live.                       *)

JoinReads(j) ==
  /\ join[j] = "idle"
  /\ join' = [join EXCEPT ![j] = IF space = "SCHEDULED" THEN "flip" ELSE "done"]
  /\ UNCHANGED <<space, lock, session, tracks, start, at, list, target, read,
                 reaped, settle, raced>>

JoinFlips(j) ==
  /\ join[j] = "flip" /\ join' = [join EXCEPT ![j] = "done"]
  /\ Warranted(space # "ENDED", "join")
  /\ space' = "LIVE"
  /\ UNCHANGED <<lock, session, tracks, start, at, list, target, read, reaped, settle>>

-----------------------------------------------------------------------------
StopSteps(p) == StopReads(p) \/ StopWrites(p) \/ StopEnds(p)
EndSteps(e)  == EndLists(e) \/ EndFlips(e)
Settling(s)  == SettleWrites(s) \/ SettleReleases(s)

Next ==
  \/ \E s \in Sessions : \/ StartReads(s) \/ StartClaims(s) \/ TracksLand(s)
                         \/ SettleReads(s) \/ Settling(s)
  \/ \E r \in Stops \cup {Sweep} : StopRequested(r)
  \/ \E p \in Stoppers : StopSteps(p)
  \/ \E e \in Ends : EndReads(e) \/ EndSteps(e)
  \/ ReapReads \/ ReapWrites
  \/ \E j \in Joins : JoinReads(j) \/ JoinFlips(j)

\* The sweep runs on a timer and stops orphans, and what has begun goes on.
Fairness ==
  /\ \A p \in Stoppers : WF_vars(StopSteps(p))
  /\ \A e \in Ends : WF_vars(EndSteps(e))
  /\ WF_vars(SweepOrphans)

Spec     == Init /\ [][Next]_vars
FairSpec == Spec /\ Fairness

-----------------------------------------------------------------------------
\* One take at a time: as long as no stale write has happened, a space never
\* has two sessions in ACTIVE.
OneActive == raced = {} => \A s, t \in Active : s = t

\* The same, whatever the finalizer settles meanwhile: a start takes the lock in
\* the transaction that makes the session (startRecordingSession 416-420).
OneTake == raced \subseteq {"settle"} => \A s, t \in Active : s = t

\* The lock is never left behind: while it says RECORDING some session runs,
\* so the host of a live space can always start the next take.
LockNotLeaked == lock = "RECORDING" => Active # {}

\* The lock protects the running take: while the space is live, and no stale
\* write has happened, a session is ACTIVE only under the lock.
ActiveIsLocked == raced = {} /\ space = "LIVE" /\ Active # {} => lock = "RECORDING"

\* A session that was settled is not turned back into a stopped one, but by a
\* stop that read it ACTIVE.
SettledStaysSettled ==
  [][\A s \in Sessions : "stop" \notin raced' /\ session[s] \in {"READY", "FAILED"}
                            => session'[s] # "STOPPED"]_vars

\* No session outlives its space for good: a start that slips in while the
\* space is being ended is found by the usage sweep.
OrphansStopped == space = "ENDED" ~> (Active = {} \/ space # "ENDED")

=============================================================================
