---------------------------- MODULE RecordingTab ----------------------------
(***************************************************************************)
(* How a participant's browser follows a take.  The server broadcasts      *)
(* start, stop and pause to the sockets of the room, replays the running   *)
(* take to a socket that joins, and answers a poll every five seconds.     *)
(* The tab counts down, captures, stops and flushes; it must record every  *)
(* take that lasts, for exactly as long as it lasts, whatever it missed.   *)
(***************************************************************************)
EXTENDS Naturals, Sequences

CONSTANTS
  MaxTakes,     \* takes started in the space
  MaxFlips,     \* pauses and resumes
  MaxDrops      \* socket disconnections

VARIABLES
  take, live, paused, flips,    \* the server: last take, whether it runs, is paused
  socket,       \* out, joining, in
  replay,       \* what join-room has read
  channel,      \* events on their way to the tab, in order
  flight,       \* the poll's answer on its way, or <<>>
  polled,       \* the last answer: running take (or 0), paused, flips, takes then
  tab,          \* the recording manager's refs and its recordingState
  slow,         \* history: a start took longer than a lead-in to be handled
  drops

server == <<take, live, paused, flips>>
net    == <<socket, replay, channel, drops>>
poll   == <<flight, polled>>
vars   == <<server, net, poll, tab, slow>>

Running == IF live THEN take ELSE 0
Reading == <<Running, live /\ paused, flips, take>>

Init ==
  /\ take = 0 /\ live = FALSE /\ paused = FALSE /\ flips = 0
  /\ socket = "out" /\ replay = <<>> /\ channel = <<>> /\ drops = 0
  /\ flight = <<>> /\ polled = <<0, FALSE, 0, 0>>
  /\ tab = [active |-> 0, capturing |-> 0, counting |-> FALSE, timer |-> 0, beginning |-> 0,
            stopping |-> 0, flushing |-> 0, finished |-> {}, state |-> "idle",
            knows |-> FALSE, paused |-> FALSE]
  /\ slow = FALSE

----------------------------------------------------------------------------
(* The server. *)

Broadcast(e) == channel' = IF socket = "in" THEN Append(channel, e) ELSE channel

StartTake ==
  /\ ~live /\ take < MaxTakes
  /\ take' = take + 1 /\ live' = TRUE /\ paused' = FALSE
  /\ Broadcast(<<"started", take + 1, FALSE>>)
  /\ UNCHANGED <<flips, socket, replay, drops, poll, tab, slow>>

StopTake ==
  /\ live /\ live' = FALSE
  /\ Broadcast(<<"stopped", take, FALSE>>)
  /\ UNCHANGED <<take, paused, flips, socket, replay, drops, poll, tab, slow>>

SetPaused ==
  /\ live /\ flips < MaxFlips /\ flips' = flips + 1
  /\ paused' = ~paused
  /\ Broadcast(<<"paused", take, ~paused>>)
  /\ UNCHANGED <<take, live, socket, replay, drops, poll, tab, slow>>

\* join-room reads the running take, then enters the room and replays it.
JoinRoomReads ==
  /\ socket = "out" /\ socket' = "joining" /\ replay' = Reading
  /\ UNCHANGED <<server, channel, drops, poll, tab, slow>>

JoinRoomLands ==
  /\ socket = "joining" /\ socket' = "in" /\ replay' = <<>>
  /\ channel' = IF replay[1] = 0 THEN channel
                ELSE Append(channel, <<"started", replay[1], replay[2]>>)
  /\ UNCHANGED <<server, drops, poll, tab, slow>>

\* The socket drops; what was on its way is lost.
SocketDrops ==
  /\ socket = "in" /\ drops < MaxDrops /\ drops' = drops + 1
  /\ socket' = "out" /\ channel' = <<>>
  /\ UNCHANGED <<server, replay, poll, tab, slow>>

----------------------------------------------------------------------------
(* The tab's handlers, as functions of its state. *)

OwnsUi(t, n) == t.active \in {0, n}

\* handleRecordingStopped, up to its first wait.
Stopped(t, n) ==
  LET current  == IF t.active # 0 THEN t.active ELSE t.capturing
      done     == [t EXCEPT !.finished = @ \cup {n}]
      stale    == current \notin {0, n} /\ t.capturing # n
  IN IF stale \/ t.stopping = n THEN t
     ELSE IF n \notin {t.active, t.capturing} THEN done
     ELSE IF t.capturing # n \/ (t.counting /\ t.active = n)
          THEN [done EXCEPT !.active = 0, !.counting = FALSE, !.timer = 0,
                            !.state = "complete"]
     ELSE [done EXCEPT !.stopping = n, !.flushing = n,
                       !.state = IF OwnsUi(t, n) THEN "stopping" ELSE @]

\* handleRecordingStarted: a countdown, or at once when it is over.
Started(t, n, isPaused, late) ==
  LET old == IF t.capturing \notin {0, n} THEN Stopped(t, t.capturing) ELSE t
  IN IF t.active = n \/ n \in t.finished THEN t
     ELSE [old EXCEPT !.active = n, !.knows = isPaused,
                      !.counting = IF late THEN @ ELSE TRUE,
                      !.timer = IF late THEN 0 ELSE n,
                      !.beginning = IF late /\ @ = 0 THEN n ELSE @,
                      !.state = IF late THEN @ ELSE "countdown"]

\* applyPauseState.
PauseChanged(t, n, isPaused) ==
  IF n # t.active THEN t
  ELSE [t EXCEPT !.knows = isPaused,
                 !.paused = IF t.capturing # 0 THEN isPaused ELSE @]

\* The start was handled after a newer take's, while an older take was still
\* beginning, or (by the socket) after a poll had reported it and been ignored.
MarkSlow(n, told) ==
  slow' = (slow \/ n < tab.active \/ n < tab.capturing
                \/ (tab.active # n /\ (tab.beginning # 0 \/ told)))

Receive ==
  LET e == Head(channel) IN
  /\ channel # <<>> /\ channel' = Tail(channel)
  /\ CASE e[1] = "started" -> (\E late \in BOOLEAN : tab' = Started(tab, e[2], e[3], late))
                                 /\ MarkSlow(e[2], polled[1] = e[2])
       [] e[1] = "stopped" -> tab' = Stopped(tab, e[2]) /\ UNCHANGED slow
       [] e[1] = "paused"  -> tab' = PauseChanged(tab, e[2], e[3]) /\ UNCHANGED slow
  /\ UNCHANGED <<server, socket, replay, drops, poll>>

----------------------------------------------------------------------------
(* Beginning and ending a capture. *)

\* The countdown's timer; a begin that is still running drops it.
CountdownEnds ==
  /\ tab.timer # 0
  /\ tab' = [tab EXCEPT !.timer = 0, !.beginning = IF @ = 0 THEN tab.timer ELSE @]
  /\ UNCHANGED <<server, net, poll, slow>>

\* beginRecording after the wait for the previous capture: it clears the
\* countdown, waits for sources and the clock, and records unless the take was
\* stopped or replaced (before the clearing, or after it) meanwhile.
BeginRecording ==
  LET n       == tab.beginning
      ended   == [tab EXCEPT !.beginning = 0]
      cleared == [ended EXCEPT !.counting = FALSE, !.timer = 0]
  IN
  /\ n # 0 /\ tab.flushing = 0
  /\ \/ tab.capturing # 0 /\ tab' = ended
     \/ tab.capturing = 0 /\ tab.active # n /\ tab' \in {ended, cleared}
     \/ /\ tab.capturing = 0 /\ tab.active = n
        /\ tab' = [cleared EXCEPT !.capturing = n, !.state = "recording", !.paused = tab.knows]
  /\ UNCHANGED <<server, net, poll, slow>>

\* The recorders have stopped and the tracks are reported.
CaptureStopped ==
  LET n == tab.flushing IN
  /\ n # 0
  /\ tab' = [tab EXCEPT !.flushing = 0, !.capturing = 0, !.paused = FALSE,
                        !.active = IF @ = n THEN 0 ELSE @,
                        !.state = IF OwnsUi(tab, n) THEN "uploading" ELSE @]
  /\ UNCHANGED <<server, net, poll, slow>>

\* waitUntilDrained.
Drained ==
  /\ tab.stopping # 0 /\ tab.flushing # tab.stopping
  /\ tab' = [tab EXCEPT !.stopping = 0,
                        !.state = IF tab.active = 0 /\ tab.capturing = 0 THEN "complete" ELSE @]
  /\ UNCHANGED <<server, net, poll, slow>>

----------------------------------------------------------------------------
(* The poll and its three effects. *)

\* Mutant: only an idle tab looks at the poll; one that has recorded before
\* is "complete".
MissedStartIdle(n) ==
  n # 0 /\ n # tab.active /\ n \notin tab.finished /\ tab.state = "idle"

\* Missed the start: the tab is not busy with another take.
MissedStart(n) ==
  /\ n # 0 /\ n # tab.active /\ n \notin tab.finished
  /\ tab.state \in {"idle", "error", "complete", "uploading"}

\* Missed a pause: it runs only when the answer differs from the last one.
FollowPause(t) ==
  IF SubSeq(flight, 1, 3) # SubSeq(polled, 1, 3) /\ flight[1] # 0 /\ flight[2] # t.knows
  THEN PauseChanged(t, flight[1], flight[2]) ELSE t

\* The effects of a new answer: start, then pause.
PollLands ==
  /\ flight # <<>> /\ flight' = <<>> /\ polled' = flight
  /\ IF MissedStart(flight[1])
     THEN /\ \E late \in BOOLEAN : tab' = FollowPause(Started(tab, flight[1], flight[2], late))
          /\ MarkSlow(flight[1], FALSE)
     ELSE tab' = FollowPause(tab) /\ UNCHANGED slow
  /\ UNCHANGED <<server, net>>

\* The start effect also runs when the recordingState changed.
PollStarts ==
  /\ MissedStart(polled[1])
  /\ \E late \in BOOLEAN : tab' = Started(tab, polled[1], polled[2], late)
  /\ MarkSlow(polled[1], FALSE)
  /\ UNCHANGED <<server, net, poll>>

Captured == IF tab.capturing # 0 THEN tab.capturing ELSE tab.active

\* Mutant: no grace for a take that has just started.
MissedStopAtOnce ==
  /\ Captured \notin {0, polled[1]}
  /\ tab.state \in {"countdown", "recording", "error"}

\* Missed the stop: the last answer knows of this take or a newer one, and
\* does not have it running.  (The code's grace of five seconds is the poll's
\* interval: it lets an answer from before the take pass.)
MissedStop ==
  /\ Captured \notin {0, polled[1]} /\ polled[4] >= Captured
  /\ tab.state \in {"countdown", "recording", "error"}

PollStops ==
  /\ flight = <<>> /\ MissedStop
  /\ tab' = Stopped(tab, Captured)
  /\ UNCHANGED <<server, net, poll, slow>>

\* Every five seconds; what the last answer asked for has been done by then.
PollAsks ==
  /\ flight = <<>> /\ ~MissedStart(polled[1]) /\ ~MissedStop
  /\ flight' = Reading
  /\ UNCHANGED <<server, net, polled, tab, slow>>

----------------------------------------------------------------------------
Next ==
  \/ StartTake \/ StopTake \/ SetPaused
  \/ JoinRoomReads \/ JoinRoomLands \/ SocketDrops
  \/ Receive \/ CountdownEnds \/ BeginRecording \/ CaptureStopped \/ Drained
  \/ PollAsks \/ PollLands \/ PollStarts \/ PollStops

Spec == Init /\ [][Next]_vars

----------------------------------------------------------------------------
(* What the tab promises. *)

\* A take that still runs is never written off: whatever stale replay, answer
\* or late stop the tab handles, only takes that are over are finished.
NeverAbandons == ~slow => Running \notin tab.finished

\* A take that lasts is captured, one that is over is no longer, and the
\* recorder pauses and resumes with the take, although events are lost; unless
\* a start came while an older take was still beginning.
FollowsTake ==
  /\ (Running \notin {0, tab.capturing}) ~> (Running \in {0, tab.capturing} \/ slow)
  /\ (tab.capturing \notin {0, Running}) ~> (tab.capturing \in {0, Running})
  /\ (tab.capturing # 0 /\ tab.paused # paused) ~>
       (tab.capturing = 0 \/ tab.paused = paused \/ Running # tab.capturing \/ slow)
=============================================================================
