----------------------------- MODULE ServicesMC -----------------------------
(***************************************************************************)
(* Ten small parts of the system side by side.  They share no state, so    *)
(* one behaviour runs one of them: the run is their disjoint sum.          *)
(***************************************************************************)
EXTENDS Naturals, Sequences, FiniteSets

CONSTANTS a, b, host, guest,
  Jobs, MaxTries, MaxOutages, People, Host, Caps, MaxMoves, MaxRulings,
  Present, MaxLost, Tracks, MaxLate, MaxKicks, MaxRuns, MaxCrashes,
  MaxTakes, MaxFlips, MaxDrops, MaxTime, Period, DemoWindow, ProWindow, MaxEvents,
  Keys, Masters, Batch, MaxUses, MaxLosses,
  MaxSegments, MaxGone, Length, Silences, Strays, Origins, NoOrigin, Jump, Tolerance, Window, MaxLead,
  Mics, Blacks, Cameras, NoCamera, Codecs, MaxRetries, MaxParts, MaxErrors, MaxPauses

VARIABLES part,
  job, call, tries, process, drain, consuming, wakeRequested, failedPoll,
  stranded, outages,
  maxActive, active, coHosts, tokens, inRoom, hooks, request, repair, recording,
  picked, listed, stale, headless, moves, rulings,
  session, startedFor, unregistered, egress, row, hook, stopping, asked, answer,
  forgotten, lost,
  status, track, output, run, decision, overtaken, nobody, late, kicks,
  camera, pcm, outputs, failedRow, attached, wav, seen, cameraRuns, pcmRuns, crashes,
  take, live, paused, flips, socket, replay, channel, flight, polled, tab, slow,
  drops,
  now, polar, events, sent, processed, handling, newest, plan, periodEnd, lapsed,
  clobbered, stoppedAt, purged,
  object, inUse, score, touching, queued, sweep, batch, spared, oldKeys, uses, losses,
  caught, untracked,
  segments, origin, stage, previous, broken, chunks, index, building, runs, cursor, placed,
  video, over, activeRef, pausedRef, lastStream, partRef, fatalRetries, failedMimes, parts,
  chain, doing, timers, errors, pauses, astray, gaveUp

Drain  == INSTANCE WorkerDrain
Room   == INSTANCE Rooms
Egress == INSTANCE CloudEgress
Settle == INSTANCE SessionSettle
Link   == INSTANCE PcmLink
Follow == INSTANCE RecordingTab
Billing == INSTANCE Subscription
Cache  == INSTANCE DownloadCache WITH stale <- oldKeys
Audio  == INSTANCE AudioTimeline WITH run <- building
Recorder == INSTANCE LocalRecorder

drainVars  == <<job, call, tries, process, drain, consuming, wakeRequested,
                failedPoll, stranded, outages>>
roomVars   == <<maxActive, active, coHosts, tokens, inRoom, hooks, request, repair,
                recording, picked, listed, stale, headless, moves, rulings>>
egressVars == <<session, startedFor, unregistered, egress, row, hook, stopping,
                asked, answer, forgotten, lost>>
settleVars == <<status, track, output, run, decision, overtaken, nobody, late, kicks>>
linkVars   == <<camera, pcm, outputs, failedRow, attached, wav, seen, cameraRuns,
                pcmRuns, crashes>>
followVars == <<take, live, paused, flips, socket, replay, channel, flight, polled,
                tab, slow, drops>>
billingVars == <<now, polar, events, sent, processed, handling, newest, plan, periodEnd,
                 lapsed, clobbered, stoppedAt, purged>>
cacheVars  == <<object, inUse, score, touching, queued, sweep, batch, spared, oldKeys,
                uses, losses, caught, untracked>>
audioVars  == <<segments, origin, stage, previous, broken, chunks, index, building, runs,
                cursor, placed>>
recorderVars == <<video, over, activeRef, pausedRef, lastStream, partRef, fatalRetries,
                  failedMimes, parts, chain, doing, timers, errors, pauses, astray, gaveUp>>
vars == <<part, drainVars, roomVars, egressVars, settleVars, linkVars, followVars,
          billingVars, cacheVars, audioVars, recorderVars>>

\* A step of one part.
Only(p) ==
  /\ part = p /\ UNCHANGED part
  /\ (p = "drain"  \/ UNCHANGED drainVars)
  /\ (p = "room"   \/ UNCHANGED roomVars)
  /\ (p = "egress" \/ UNCHANGED egressVars)
  /\ (p = "settle" \/ UNCHANGED settleVars)
  /\ (p = "link"   \/ UNCHANGED linkVars)
  /\ (p = "follow" \/ UNCHANGED followVars)
  /\ (p = "billing" \/ UNCHANGED billingVars)
  /\ (p = "cache"  \/ UNCHANGED cacheVars)
  /\ (p = "audio"  \/ UNCHANGED audioVars)
  /\ (p = "recorder" \/ UNCHANGED recorderVars)

Init ==
  /\ part \in {"drain", "room", "egress", "settle", "link", "follow", "billing", "cache",
              "audio", "recorder"}
  /\ Drain!Init /\ Room!Init /\ Egress!Init /\ Settle!Init /\ Link!Init /\ Follow!Init
  /\ Billing!Init /\ Cache!Init /\ Audio!Init /\ Recorder!Init
  /\ part # "room" => maxActive = CHOOSE c \in Caps : TRUE
  /\ part # "audio" => /\ segments = Audio!Captured({}, 0, 0, 0, 0)
                       /\ origin = NoOrigin
  /\ part # "recorder" => ~pausedRef

Next ==
  \/ Only("drain")  /\ Drain!Next
  \/ Only("room")   /\ Room!Next
  \/ Only("egress") /\ Egress!Next
  \/ Only("settle") /\ Settle!Next
  \/ Only("link")   /\ Link!Next
  \/ Only("follow") /\ Follow!Next
  \/ Only("billing") /\ Billing!Next
  \/ Only("cache")  /\ Cache!Next
  \/ Only("audio")  /\ Audio!Next
  \/ Only("recorder") /\ Recorder!Next

Spec == Init /\ [][Next]_vars

\* The worker's loop, process and queue run, and its callers call.
DrainFair ==
  /\ WF_drainVars(part = "drain" /\ Drain!Loop)
  /\ WF_drainVars(part = "drain" /\ Drain!Exit)
  /\ WF_drainVars(part = "drain" /\ Drain!Restart)
  /\ \A j \in Jobs : /\ WF_drainVars(part = "drain" /\ Drain!TakeJob(j))
                     /\ WF_drainVars(part = "drain" /\ Drain!FinishJob(j))
                     /\ WF_drainVars(part = "drain" /\ Drain!SweepAdds(j))
  /\ WF_drainVars(part = "drain" /\ \E j \in Jobs : Drain!WakeAnswered(j) \/ Drain!WakeBoots(j))

\* The reconcile sweeps run, and LiveKit answers them.
RoomFair ==
  /\ WF_roomVars(part = "room" /\ Room!ReconcileLists /\ UNCHANGED maxActive)
  /\ WF_roomVars(part = "room" /\ Room!ReconcileMarks /\ UNCHANGED maxActive)

EgressFair ==
  /\ WF_egressVars(part = "egress" /\ Egress!Poll)
  /\ \A p \in Present : /\ WF_egressVars(part = "egress" /\ Egress!RegisterOutput(p))
                        /\ WF_egressVars(part = "egress" /\ Egress!MarkProcessing(p))

\* The tab's timers fire, its polls answer and their effects run.
FollowFair ==
  /\ WF_followVars(part = "follow" /\ Follow!CountdownEnds)
  /\ WF_followVars(part = "follow" /\ Follow!BeginRecording)
  /\ WF_followVars(part = "follow" /\ Follow!CaptureStopped)
  /\ WF_followVars(part = "follow" /\ Follow!Drained)
  /\ WF_followVars(part = "follow" /\ Follow!Receive)
  /\ WF_followVars(part = "follow" /\ Follow!PollAsks)
  /\ WF_followVars(part = "follow" /\ Follow!PollLands)
  /\ WF_followVars(part = "follow" /\ Follow!PollStarts)
  /\ WF_followVars(part = "follow" /\ Follow!PollStops)

CacheFair == WF_cacheVars(part = "cache" /\ Cache!Expire)

FairSpec == Spec /\ DrainFair /\ RoomFair /\ EgressFair /\ FollowFair /\ CacheFair

\* See the modules for what each says.
AcknowledgedIsDrained == Drain!AcknowledgedIsDrained
JobsAreDone           == Drain!JobsAreDone
CapRespected          == Room!CapRespected
SomebodyCanStop       == Room!SomebodyCanStop
GhostsLeave           == Room!GhostsLeave
BackupBecomesReady    == Egress!BackupBecomesReady
DownloadableIsReady   == Settle!DownloadableIsReady
WavIsAttached         == Link!WavIsAttached
NeverAbandons         == Follow!NeverAbandons
FollowsTake           == Follow!FollowsTake
PlanFollowsPolar      == Billing!PlanFollowsPolar
MasterKept            == Cache!MasterKept
CachesExpire          == Cache!CachesExpire
AudioInPlace          == Audio!AudioInPlace
RecordsExactly        == Recorder!RecordsExactly
=============================================================================
