---------------------------- MODULE CloudEgress ----------------------------
(***************************************************************************)
(* The cloud backup of a take: one LiveKit egress per participant, started *)
(* and stopped in the background, and a CLOUD output row that must end     *)
(* READY when the egress wrote its file.  The row is written by the start, *)
(* by the stop, by LiveKit's egress_ended webhook and by a poll, each from *)
(* what it read before a call of LiveKit.                                  *)
(***************************************************************************)
EXTENDS Naturals

CONSTANTS
  Present,      \* the participants the start finds in the room
  MaxLost       \* webhooks LiveKit fails to deliver

VARIABLES
  session,      \* ACTIVE or STOPPED
  startedFor,   \* participants the start loop has dealt with
  unregistered, \* participants whose egress runs and whose row is not written
  egress,       \* at LiveKit: none, running, complete, failed, aborted
  row,          \* the CLOUD output: none, QUEUED, PROCESSING, READY, FAILED
  hook,         \* egress_ended webhooks not delivered yet
  stopping,     \* rows the stop read and has not dealt with, or {NotYet}
  asked,       \* rows the poll read and has not dealt with
  answer,       \* the poll's answer about one of them, or none
  forgotten,    \* egresses LiveKit no longer lists
  lost          \* webhooks lost

vars == <<session, startedFor, unregistered, egress, row, hook, stopping,
          asked, answer, forgotten, lost>>

NotYet == "not yet"
Ended  == {"complete", "failed", "aborted"}
PendingRow(p) == row[p] \in {"QUEUED", "PROCESSING"}

Init ==
  /\ session = "ACTIVE" /\ startedFor = {} /\ unregistered = {}
  /\ egress = [p \in Present |-> "none"] /\ row = [p \in Present |-> "none"]
  /\ hook = {} /\ stopping = {NotYet} /\ asked = {}
  /\ answer = <<>> /\ forgotten = {} /\ lost = 0

----------------------------------------------------------------------------
(* startParticipantCloudRecordings, in the background of the start. *)

\* The egress starts, or cannot be started (then there is no row).
StartEgress(p) ==
  /\ p \notin startedFor /\ unregistered = {}
  /\ startedFor' = startedFor \cup {p}
  /\ \/ egress' = [egress EXCEPT ![p] = "running"] /\ unregistered' = {p}
     \/ UNCHANGED <<egress, unregistered>>
  /\ UNCHANGED <<session, row, hook, stopping, asked, answer, forgotten, lost>>

RegisterOutput(p) ==
  /\ p \in unregistered /\ unregistered' = {}
  /\ row' = [row EXCEPT ![p] = "QUEUED"]
  /\ UNCHANGED <<session, startedFor, egress, hook, stopping, asked, answer,
                 forgotten, lost>>

----------------------------------------------------------------------------
(* stopParticipantCloudRecordings, in the background of the stop. *)

StopSession ==
  /\ session = "ACTIVE" /\ session' = "STOPPED"
  /\ UNCHANGED <<startedFor, unregistered, egress, row, hook, stopping, asked,
                 answer, forgotten, lost>>

\* Rows the start registers later are not in this list.
StopReads ==
  /\ session = "STOPPED" /\ stopping = {NotYet}
  /\ stopping' = {p \in Present : PendingRow(p)}
  /\ UNCHANGED <<session, startedFor, unregistered, egress, row, hook, asked,
                 answer, forgotten, lost>>

\* LiveKit ends an egress: stopped, out of people, failed, or aborted.
EndEgress(p, outcome) ==
  /\ egress[p] = "running"
  /\ egress' = [egress EXCEPT ![p] = outcome]
  /\ hook' = hook \cup {p}
  /\ UNCHANGED <<session, startedFor, unregistered, row, stopping, asked,
                 answer, forgotten, lost>>

\* stopEgress was called, and may have failed; the row is written by id.
MarkProcessing(p) ==
  /\ p \in stopping \ {NotYet}
  /\ row' = [row EXCEPT ![p] = "PROCESSING"]
  /\ stopping' = stopping \ {p}
  /\ UNCHANGED <<session, startedFor, unregistered, egress, hook, asked,
                 answer, forgotten, lost>>

----------------------------------------------------------------------------
(* The webhook. *)

LoseHook(p) ==
  /\ p \in hook /\ lost < MaxLost /\ lost' = lost + 1
  /\ hook' = hook \ {p}
  /\ UNCHANGED <<session, startedFor, unregistered, egress, row, stopping,
                 asked, answer, forgotten>>

\* handleEgressEnded: no row yet, or READY already: nothing to do.
HandleEgressEnded(p) ==
  /\ p \in hook /\ hook' = hook \ {p}
  /\ row' = IF row[p] \in {"none", "READY"} THEN row
            ELSE [row EXCEPT ![p] = IF egress[p] = "complete" THEN "READY" ELSE "FAILED"]
  /\ UNCHANGED <<session, startedFor, unregistered, egress, stopping, asked,
                 answer, forgotten, lost>>

----------------------------------------------------------------------------
(* reconcilePendingEgress. *)

\* Mutant: rows the stop has marked are left to the webhook.
PollQueued ==
  /\ asked = {} /\ answer = <<>>
  /\ asked' = {p \in Present : row[p] = "QUEUED"} /\ asked' # {}
  /\ UNCHANGED <<session, startedFor, unregistered, egress, row, hook, stopping,
                 answer, forgotten, lost>>

PollReads ==
  /\ asked = {} /\ answer = <<>>
  /\ asked' = {p \in Present : PendingRow(p)} /\ asked' # {}
  /\ UNCHANGED <<session, startedFor, unregistered, egress, row, hook, stopping,
                 answer, forgotten, lost>>

\* getEgressStatus.
PollAsks(p) ==
  /\ p \in asked /\ answer = <<>> /\ asked' = asked \ {p}
  /\ answer' = <<p, IF p \in forgotten THEN "not found" ELSE egress[p]>>
  /\ UNCHANGED <<session, startedFor, unregistered, egress, row, hook, stopping,
                 forgotten, lost>>

\* The row is written by id; a running or aborted egress is left alone.
PollWrites ==
  /\ answer # <<>> /\ answer' = <<>>
  /\ row' = CASE answer[2] = "complete" -> [row EXCEPT ![answer[1]] = "READY"]
              [] answer[2] \in {"failed", "not found"} -> [row EXCEPT ![answer[1]] = "FAILED"]
              [] OTHER -> row
  /\ UNCHANGED <<session, startedFor, unregistered, egress, hook, stopping,
                 asked, forgotten, lost>>

\* LiveKit keeps ended egresses for a while only.
Forget(p) ==
  /\ egress[p] \in Ended /\ p \notin forgotten
  /\ forgotten' = forgotten \cup {p}
  /\ UNCHANGED <<session, startedFor, unregistered, egress, row, hook, stopping,
                 asked, answer, lost>>

----------------------------------------------------------------------------
Poll == PollReads \/ PollWrites \/ \E p \in Present : PollAsks(p)
Background == \E p \in Present : RegisterOutput(p) \/ MarkProcessing(p)

Next ==
  \/ StopSession \/ StopReads \/ PollReads \/ PollWrites
  \/ \E p \in Present :
       \/ StartEgress(p) \/ RegisterOutput(p) \/ MarkProcessing(p)
       \/ \E outcome \in Ended : EndEgress(p, outcome)
       \/ LoseHook(p) \/ HandleEgressEnded(p) \/ PollAsks(p) \/ Forget(p)

Spec == Init /\ [][Next]_vars

----------------------------------------------------------------------------
\* A backup whose file was written ends READY and stays so, whichever of the
\* start, the stop, the webhook and the poll writes last, and whether or not
\* the webhook arrives; as long as LiveKit still lists the egress.
BackupBecomesReady == \A p \in Present :
  <>[](egress[p] = "complete" /\ p \notin forgotten => row[p] = "READY")
=============================================================================
