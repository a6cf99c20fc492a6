------------------------------- MODULE Rooms -------------------------------
(***************************************************************************)
(* Who is in a space.  A participant row says who holds a slot; LiveKit    *)
(* says who is connected, by webhooks that may be late, out of order or    *)
(* lost, and by a list the reconcile sweep asks for.  The host's plan caps *)
(* the slots, and while a take records somebody present must be able to    *)
(* stop it.                                                                *)
(***************************************************************************)
EXTENDS Naturals, FiniteSets

CONSTANTS
  People,       \* the participants, each with one LiveKit identity
  Host,         \* the space's host
  Caps,         \* the caps a plan may have (maxParticipants)
  MaxMoves,     \* join requests, connects and disconnects
  MaxRulings    \* kicks, role changes, starts and stops of a take

VARIABLES
  maxActive,    \* the cap of this host's plan
  active,       \* rows with isActive
  coHosts,      \* rows with role CO_HOST
  tokens,       \* people with a LiveKit token
  inRoom,       \* people LiveKit has in the room
  hooks,        \* webhooks not handled yet; a lost one is never handled
  request,      \* per person, its join request: none, holds, needs
  repair,       \* per person, its joined webhook: none, active, inactive
  recording,    \* an ACTIVE take exists
  picked,       \* successors read and not yet promoted
  listed,       \* what the sweep read of LiveKit, or {None}
  stale,        \* history: rows made active without a slot
  headless,     \* history: nobody could be made the take's controller
  moves, rulings

rowVars  == <<active, coHosts>>
roomVars == <<tokens, inRoom, hooks, moves>>
ctlVars  == <<recording, picked, headless, rulings>>
vars == <<maxActive, rowVars, roomVars, request, repair, ctlVars, listed, stale>>

None == "none"
ControllersIn(S) == S \cap (coHosts \cup {Host})
HasFreeSlot == Cardinality(active) < maxActive

Init ==
  /\ maxActive \in Caps
  /\ active = {} /\ coHosts = {} /\ tokens = {} /\ inRoom = {} /\ hooks = {}
  /\ request = [p \in People |-> None] /\ repair = [p \in People |-> None]
  /\ recording = FALSE /\ picked = {} /\ listed = {None}
  /\ stale = {} /\ headless = FALSE /\ moves = 0 /\ rulings = 0

----------------------------------------------------------------------------
(* joinSpace. *)

\* The row is read before the plan and the lock.
JoinReads(p) ==
  /\ request[p] = None /\ moves < MaxMoves /\ moves' = moves + 1
  /\ request' = [request EXCEPT ![p] = IF p \in active THEN "holds" ELSE "needs"]
  /\ UNCHANGED <<rowVars, tokens, inRoom, hooks, repair, ctlVars, listed, stale>>

\* withFreeSlot: count and take in one transaction, or SPACE_FULL.
JoinTakes(p) ==
  /\ request[p] = "needs"
  /\ IF HasFreeSlot
     THEN active' = active \cup {p} /\ tokens' = tokens \cup {p}
     ELSE UNCHANGED <<active, tokens>>
  /\ request' = [request EXCEPT ![p] = None]
  /\ UNCHANGED <<coHosts, inRoom, hooks, moves, repair, ctlVars, listed, stale>>

\* A row that was active when read is written without the lock.
JoinRejoins(p) ==
  /\ request[p] = "holds"
  /\ stale' = IF p \in active THEN stale ELSE stale \cup {p}
  /\ active' = active \cup {p} /\ tokens' = tokens \cup {p}
  /\ request' = [request EXCEPT ![p] = None]
  /\ UNCHANGED <<coHosts, inRoom, hooks, moves, repair, ctlVars, listed>>

----------------------------------------------------------------------------
(* LiveKit. *)

Connect(p) ==
  /\ p \in tokens \ inRoom /\ moves < MaxMoves /\ moves' = moves + 1
  /\ inRoom' = inRoom \cup {p} /\ hooks' = hooks \cup {<<"joined", p>>}
  /\ UNCHANGED <<rowVars, tokens, request, repair, ctlVars, listed, stale>>

Disconnect(p) ==
  /\ p \in inRoom /\ moves < MaxMoves /\ moves' = moves + 1
  /\ inRoom' = inRoom \ {p} /\ hooks' = hooks \cup {<<"left", p>>}
  /\ UNCHANGED <<rowVars, tokens, request, repair, ctlVars, listed, stale>>

----------------------------------------------------------------------------
(* Keeping a controller. *)

\* ensureRecordingController, of the rows active after the handler's write.
EnsureRecordingController(present) ==
  IF ~recording \/ ControllersIn(present) # {}
  THEN UNCHANGED <<picked, headless>>
  ELSE IF present = {} THEN headless' = TRUE /\ UNCHANGED picked
  ELSE \E s \in present : picked' = picked \cup {s} /\ UNCHANGED headless

\* updateParticipantRole of the successor, by id: it may have left.
Promote(s) ==
  /\ s \in picked /\ picked' = picked \ {s}
  /\ coHosts' = coHosts \cup {s}
  /\ headless' = (headless \/ s \notin active)
  /\ UNCHANGED <<active, roomVars, request, repair, recording, rulings, listed, stale>>

----------------------------------------------------------------------------
(* The webhooks. *)

\* Mutant: the successor is looked for before the leaver's row is written.
ParticipantLeftLate(p) ==
  /\ <<"left", p>> \in hooks /\ hooks' = hooks \ {<<"left", p>>}
  /\ active' = active \ {p}
  /\ EnsureRecordingController(active)
  /\ UNCHANGED <<coHosts, tokens, inRoom, moves, request, repair, recording,
                 rulings, listed, stale>>

\* handleParticipantLeft; only a leaver who was active hands control over.
ParticipantLeft(p) ==
  /\ <<"left", p>> \in hooks /\ hooks' = hooks \ {<<"left", p>>}
  /\ active' = active \ {p}
  /\ IF p \in ControllersIn(active)
     THEN EnsureRecordingController(active \ {p})
     ELSE UNCHANGED <<picked, headless>>
  /\ UNCHANGED <<coHosts, tokens, inRoom, moves, request, repair, recording,
                 rulings, listed, stale>>

\* handleParticipantJoined, up to the plan's lookup.
ParticipantJoined(p) ==
  /\ <<"joined", p>> \in hooks /\ repair[p] = None
  /\ hooks' = hooks \ {<<"joined", p>>}
  /\ repair' = [repair EXCEPT ![p] = IF p \in active THEN "active" ELSE "inactive"]
  /\ UNCHANGED <<rowVars, tokens, inRoom, moves, request, ctlVars, listed, stale>>

\* Mutant: whoever is back in the room is present again.
AdmitAnyone(p) ==
  /\ repair[p] = "inactive"
  /\ active' = active \cup {p}
  /\ repair' = [repair EXCEPT ![p] = None]
  /\ UNCHANGED <<coHosts, roomVars, request, ctlVars, listed, stale>>

\* The row was inactive: it needs a slot, or is removed from the room.
AdmitRejoin(p) ==
  /\ repair[p] = "inactive"
  /\ IF HasFreeSlot
     THEN active' = active \cup {p} /\ UNCHANGED <<inRoom, hooks>>
     ELSE /\ inRoom' = inRoom \ {p}
          /\ hooks' = IF p \in inRoom THEN hooks \cup {<<"left", p>>} ELSE hooks
          /\ UNCHANGED active
  /\ repair' = [repair EXCEPT ![p] = None]
  /\ UNCHANGED <<coHosts, tokens, moves, request, ctlVars, listed, stale>>

\* The row was active: written without the lock.
RefreshPresence(p) ==
  /\ repair[p] = "active"
  /\ stale' = IF p \in active THEN stale ELSE stale \cup {p}
  /\ active' = active \cup {p}
  /\ repair' = [repair EXCEPT ![p] = None]
  /\ UNCHANGED <<coHosts, roomVars, request, ctlVars, listed>>

----------------------------------------------------------------------------
(* The reconcile sweep. *)

ReconcileLists ==
  /\ listed = {None} /\ active # {}
  /\ listed' = inRoom
  /\ UNCHANGED <<rowVars, roomVars, request, repair, ctlVars, stale>>

\* Mutant: people LiveKit has but the rows do not know count as the stale ones.
ReconcileMarksUnknown ==
  LET gone == listed \ active IN
  /\ listed # {None} /\ listed' = {None}
  /\ active' = active \ gone
  /\ UNCHANGED <<coHosts, roomVars, request, repair, ctlVars, stale>>

\* Rows that were not in the list are marked by id.
ReconcileMarks ==
  LET gone == active \ listed IN
  /\ listed # {None} /\ listed' = {None}
  /\ active' = active \ gone
  /\ IF gone # {} THEN EnsureRecordingController(active \ gone)
     ELSE UNCHANGED <<picked, headless>>
  /\ UNCHANGED <<coHosts, roomVars, request, repair, recording, rulings, stale>>

----------------------------------------------------------------------------
(* The host and its co-hosts. *)

Ruling == rulings < MaxRulings /\ rulings' = rulings + 1

\* What a ruling of the host, present or not, may do to the take.
LeavesNobody == recording /\ active' \cap (coHosts' \cup {Host}) = {}

\* updateRoleController: the host only, of any row but its own.
UpdateRole(p, isCoHost) ==
  /\ p \in tokens \ {Host} /\ Ruling
  /\ coHosts' = IF isCoHost THEN coHosts \cup {p} ELSE coHosts \ {p}
  /\ UNCHANGED active
  /\ headless' = (headless \/ LeavesNobody)
  /\ UNCHANGED <<roomVars, request, repair, recording, picked, listed, stale>>

\* kickParticipant: the row first, then the room; no hand-over.
Kick(p) ==
  /\ p \in active \ {Host} /\ Ruling
  /\ active' = active \ {p} /\ inRoom' = inRoom \ {p}
  /\ hooks' = IF p \in inRoom THEN hooks \cup {<<"left", p>>} ELSE hooks
  /\ UNCHANGED coHosts
  /\ headless' = (headless \/ LeavesNobody)
  /\ UNCHANGED <<tokens, moves, request, repair, recording, picked, listed, stale>>

\* A present host or co-host starts and stops the take.
SetRecording(on) ==
  /\ recording # on /\ ControllersIn(active) # {} /\ Ruling
  /\ recording' = on /\ headless' = FALSE
  /\ UNCHANGED <<rowVars, roomVars, request, repair, picked, listed, stale>>

----------------------------------------------------------------------------
Next ==
  /\ UNCHANGED maxActive
  /\ \/ \E p \in People :
          \/ JoinReads(p) \/ JoinTakes(p) \/ JoinRejoins(p)
          \/ Connect(p) \/ Disconnect(p) \/ Kick(p) \/ Promote(p)
          \/ ParticipantLeft(p) \/ ParticipantJoined(p) \/ AdmitRejoin(p) \/ RefreshPresence(p)
          \/ \E isCoHost \in BOOLEAN : UpdateRole(p, isCoHost)
     \/ ReconcileLists \/ ReconcileMarks
     \/ \E on \in BOOLEAN : SetRecording(on)

Spec == Init /\ [][Next]_vars

----------------------------------------------------------------------------
(* What a space promises. *)

\* The plan's cap: joins, rejoins over an old token, webhooks and the sweep
\* never fill more slots than it has, except for a row that was active when it
\* was read and was written, without the lock, after it had left.
CapRespected == Cardinality(active \ stale) <= maxActive

\* While a take records and somebody is present, a controller is present or
\* being promoted, unless the room was empty when the last one left, the
\* successor left before its promotion, or the host, away, kicked or demoted
\* the last one.
SomebodyCanStop ==
  (recording /\ active # {} /\ ~headless /\ picked = {}) => ControllersIn(active) # {}

\* Who is not in the room does not keep a slot for ever, whatever webhooks
\* were lost.
GhostsLeave == \A p \in People :
  (p \in active \ inRoom) ~> (p \notin active \/ p \in inRoom)
=============================================================================
