--------------------------- MODULE LocalRecorder ---------------------------
(***************************************************************************)
(* How a tab records its own camera and microphone during one take.  A      *)
(* MediaRecorder is bound to the tracks it was started with, so the take is *)
(* recorded in parts: whenever the call's tracks change a new part starts   *)
(* and the old one stops.  Rotations, retries and the stop run one after    *)
(* the other on a chain; a pause, an encoder's error and the first data do  *)
(* not wait for it.                                                        *)
(*                                                                         *)
(* MediaRecorder is external: an error makes it inactive at once, its event *)
(* comes later, and its last data comes before its stop event.             *)
(***************************************************************************)
EXTENDS Naturals, Sequences, FiniteSets

CONSTANTS
  Mics,         \* the tracks that are live throughout
  Blacks,       \* what stands in for a camera that is off (createBlackVideoTrack)
  Cameras,      \* camera tracks: each is used until it is turned off
  NoCamera,
  Codecs,       \* the length of the ladder; the last is the browser's default
  MaxRetries,   \* MAX_FATAL_RETRIES
  MaxParts, MaxErrors, MaxPauses  \* bounds

VARIABLES
  video, over,                   \* the camera of the call; the tracks that have ended
  activeRef, pausedRef, lastStream, partRef, fatalRetries, failedMimes,
  parts,                         \* every part of the take so far; its recorder is none,
                                 \* recording, paused, stopping (told to) or inactive
  chain,                         \* what waits on opChainRef
  doing,                         \* where the operation at its head is
  timers,                        \* parts whose retry is due, oldest first
  errors, pauses,         \* how much of the bounds is used
  astray,                        \* history: fallbacks on a part that should not record
  gaveUp                         \* history: the current part is dead, and its last retry
                                 \* or replacement was refused, as the retries were used up

sourceVars == <<video, over>>
refVars    == <<activeRef, pausedRef, lastStream>>
workVars   == <<partRef, fatalRetries, failedMimes, parts, chain, doing, timers>>
vars == <<sourceVars, refVars, workVars, errors, pauses, astray, gaveUp>>

\* The tracks the recorder should be on (liveTracks, combinedTracksFor).
Source == Mics \cup (IF video = NoCamera THEN Blacks ELSE {video})

Idle == [at |-> "idle"]
Init ==
  /\ video = NoCamera /\ over = {}
  /\ activeRef = TRUE /\ pausedRef \in BOOLEAN /\ lastStream = {}
  /\ partRef = 0 /\ fatalRetries = 0 /\ failedMimes = {} /\ parts = <<>>
  /\ chain = <<>> /\ doing = Idle /\ timers = <<>>
  /\ errors = 0 /\ pauses = 0 /\ astray = {} /\ gaveUp = FALSE

----------------------------------------------------------------------------
(* The call's tracks, and the manager that points the recorder at them.    *)

\* The camera is turned on, off, or replaced by another track (what happens to
\* it after the take does not matter here).
CameraChanges ==
  /\ activeRef
  /\ \E c \in (Cameras \ over) \cup {NoCamera} : c # video /\ video' = c
  /\ over' = over \cup ({video} \ {NoCamera})
  /\ UNCHANGED <<refVars, workVars, errors, pauses, astray, gaveUp>>

PartTracks == IF partRef = 0 THEN {} ELSE parts[partRef].tracks
Drift == PartTracks # Source

\* syncSources: when the tracks have changed, and every second while the part is
\* not on them.  That look finds the chain empty: an operation takes milliseconds.
SyncSources ==
  /\ activeRef
  /\ lastStream # Source \/ (Drift /\ chain = <<>> /\ doing = Idle)
  /\ lastStream' = Source /\ chain' = Append(chain, [kind |-> "set", stream |-> Source])
  /\ UNCHANGED <<sourceVars, activeRef, pausedRef, partRef, fatalRetries, failedMimes, parts,
                 doing, timers, errors, pauses, astray, gaveUp>>

\* The recorder of the current part is stopped with the others when the take is paused.
Pause ==
  /\ activeRef /\ ~pausedRef /\ pauses < MaxPauses /\ pauses' = pauses + 1
  /\ pausedRef' = TRUE
  /\ parts' = [p \in DOMAIN parts |->
                 IF p = partRef /\ ~parts[p].dead /\ parts[p].recorder = "recording"
                 THEN [parts[p] EXCEPT !.recorder = "paused"] ELSE parts[p]]
  /\ UNCHANGED <<sourceVars, activeRef, lastStream, partRef, fatalRetries, failedMimes, chain,
                 doing, timers, errors, astray, gaveUp>>

\* A resume that comes too late for the clock gives the part up, so that the
\* operation it adds starts a fresh one; otherwise the recorder goes on.
Resume(rotate) ==
  /\ activeRef /\ pausedRef /\ pausedRef' = FALSE
  /\ parts' = [p \in DOMAIN parts |->
                 IF p = partRef /\ rotate THEN [parts[p] EXCEPT !.dead = TRUE]
                 ELSE IF p = partRef /\ ~parts[p].dead /\ parts[p].recorder = "paused"
                 THEN [parts[p] EXCEPT !.recorder = "recording"] ELSE parts[p]]
  /\ chain' = Append(chain, [kind |-> "resume"])
  /\ UNCHANGED <<sourceVars, activeRef, lastStream, partRef, fatalRetries, failedMimes, doing,
                 timers, errors, pauses, astray, gaveUp>>

StopRecording ==
  /\ activeRef /\ activeRef' = FALSE
  /\ chain' = Append(chain, [kind |-> "stop"])
  /\ UNCHANGED <<sourceVars, pausedRef, lastStream, partRef, fatalRetries, failedMimes, parts,
                 doing, timers, errors, pauses, astray, gaveUp>>

\* A stopped part whose recorder is done: nothing of it is read again.
Ended == [tracks |-> {}, ladder |-> {}, codec |-> 0, recorder |-> "inactive",
          data |-> FALSE, error |-> FALSE, stopped |-> TRUE, dead |-> FALSE]

Runs(q) == q.recorder \in {"recording", "paused"}

\* Part p is told to stop: if its recorder runs, a stop event is due.
StopIn(given, p) ==
  [q \in DOMAIN given |->
     IF q # p THEN given[q]
     ELSE IF Runs(given[q]) THEN [given[q] EXCEPT !.stopped = TRUE, !.recorder = "stopping"]
     ELSE IF given[q].error THEN [given[q] EXCEPT !.stopped = TRUE]
     ELSE Ended]

\* The page goes away: the part is stopped at once, whatever the chain does.
Unmount ==
  /\ activeRef /\ activeRef' = FALSE /\ partRef' = 0
  /\ parts' = StopIn(parts, partRef)
  /\ UNCHANGED <<sourceVars, pausedRef, lastStream, fatalRetries, failedMimes, chain, doing,
                 timers, errors, pauses, astray, gaveUp>>

----------------------------------------------------------------------------
(* The chain: replacePart and the operations around it.                    *)

\* Part p cannot record: try again in two seconds, unless it was replaced or
\* there were too many tries already (then onCombinedUnavailable says so).
Retry(p, current) ==
  IF p # current THEN UNCHANGED <<fatalRetries, timers, gaveUp>>
  ELSE IF fatalRetries < MaxRetries
  THEN fatalRetries' = fatalRetries + 1 /\ timers' = Append(timers, p) /\ gaveUp' = FALSE
  ELSE gaveUp' = TRUE /\ UNCHANGED <<fatalRetries, timers>>

\* The operation waits for the stop event of part `old`, if one is due, and goes
\* on with part `next` (0: none); `given` are the parts before the stop.
Await(given, old, next) ==
  IF old # 0 /\ Runs(given[old])
  THEN [at |-> "stopping", old |-> old, next |-> next] ELSE Idle

\* Part `next` takes the place of the current one, which is told to stop.
Swap(next, given) ==
  /\ partRef' = next /\ parts' = StopIn(given, partRef)
  /\ doing' = Await(given, partRef, next)
  /\ IF doing' = Idle /\ next # 0 /\ given[next].dead THEN Retry(next, next)
     ELSE gaveUp' = FALSE /\ UNCHANGED <<fatalRetries, timers>>

\* replacePart up to the await of capCamera; `given` are the parts by then.
Replace(stream, given) ==
  LET live == stream \ over
      same == partRef # 0 /\ given[partRef].tracks = live
      dead == partRef # 0 /\ given[partRef].dead
      on   == activeRef /\ ~pausedRef
      keep == same /\ (~dead \/ fatalRetries >= MaxRetries)
  IN /\ fatalRetries' = IF on /\ ~same THEN 0 ELSE fatalRetries
     /\ gaveUp' = IF on THEN keep /\ dead ELSE gaveUp
     /\ UNCHANGED timers
     /\ \/ /\ ~on \/ keep
           /\ doing' = Idle /\ parts' = given /\ UNCHANGED partRef
        \/ /\ on /\ ~keep /\ live # {}
           /\ doing' = [at |-> "starting", tracks |-> live]
           /\ parts' = given /\ UNCHANGED partRef
        \/ /\ on /\ ~keep /\ live = {}
           /\ doing' = Await(given, partRef, 0)
           /\ parts' = StopIn(given, partRef) /\ partRef' = 0

Is(kind) == doing = Idle /\ chain # <<>> /\ Head(chain).kind = kind

SetCombinedStream == Is("set") /\ Replace(Head(chain).stream, parts) /\ UNCHANGED failedMimes

ResumePart == Is("resume") /\ Replace(lastStream, parts) /\ UNCHANGED failedMimes

Stale == partRef # Head(chain).part \/ ~activeRef

Dropped == UNCHANGED <<parts, partRef, fatalRetries, timers, doing, failedMimes, gaveUp>>

\* An encoder that died after its first data: the same tracks on the next codec.
RotateAfterFailure ==
  /\ Is("fail")
  /\ \/ Stale /\ Dropped
     \/ /\ ~Stale /\ UNCHANGED failedMimes
        /\ Replace(PartTracks, [parts EXCEPT ![partRef].dead = TRUE])

RetryAfterFatal ==
  /\ Is("retry")
  /\ \/ Stale /\ Dropped
     \/ /\ ~Stale /\ failedMimes' = {}
        /\ Replace(IF lastStream = {} THEN PartTracks ELSE lastStream, parts)

StopPart ==
  /\ Is("stop") /\ Swap(0, parts) /\ UNCHANGED failedMimes

RunOp ==
  /\ SetCombinedStream \/ ResumePart \/ RotateAfterFailure \/ RetryAfterFatal \/ StopPart
  /\ chain' = Tail(chain)
  /\ UNCHANGED <<sourceVars, refVars, errors, pauses, astray>>

\* startFrom(n) of part q: the first codec of its ladder from n on records, or,
\* which is an error, a later one or none (0).
StartFrom(q, n, c) ==
  LET ladder == {k \in q.ladder : k >= n}
      first  == CHOOSE k \in ladder : \A l \in ladder : k <= l
  IN /\ c \in ladder \cup {0}
     /\ IF ladder = {} \/ c = first THEN UNCHANGED errors
        ELSE errors < MaxErrors /\ errors' = errors + 1

\* Mutant: the new part records, whatever happened during the await.
StartedRunning == "recording"

\* If the take was paused during the await, the new part is.
StartedAs == IF activeRef /\ pausedRef THEN "paused" ELSE "recording"

\* The new part starts and takes the place of the old one; whether the take was
\* stopped or paused during the await is looked at here.
StartPart ==
  /\ doing.at = "starting" /\ Len(parts) < MaxParts
  /\ \E c \in 0..Codecs :
       LET codecs == {k \in 1..Codecs : k = Codecs \/ k \notin failedMimes}
           part   == [tracks |-> doing.tracks, ladder |-> codecs, codec |-> c,
                      recorder |-> IF c = 0 THEN "none" ELSE StartedAs,
                      data |-> FALSE, error |-> FALSE, stopped |-> FALSE, dead |-> c = 0]
           next   == Len(parts) + 1
       IN /\ StartFrom(part, 1, c)
          /\ IF activeRef THEN Swap(next, Append(parts, part))
             ELSE /\ parts' = StopIn(Append(parts, part), next)
                  /\ doing' = Await(Append(parts, part), next, 0)
                  /\ UNCHANGED <<partRef, fatalRetries, timers, gaveUp>>
  /\ UNCHANGED <<sourceVars, refVars, failedMimes, chain, pauses, astray>>

\* The stop event of the old part, or the three seconds it is waited for.
OldPartStops ==
  /\ doing.at = "stopping" /\ doing' = Idle
  /\ parts' = [parts EXCEPT ![doing.old] = Ended]
  /\ IF doing.next # 0 /\ parts[doing.next].dead THEN Retry(doing.next, partRef)
     ELSE UNCHANGED <<fatalRetries, timers, gaveUp>>
  /\ UNCHANGED <<sourceVars, refVars, partRef, failedMimes, chain, errors, pauses, astray>>

RetryTimer ==
  /\ timers # <<>> /\ timers' = Tail(timers)
  /\ chain' = Append(chain, [kind |-> "retry", part |-> Head(timers)])
  /\ UNCHANGED <<sourceVars, refVars, partRef, fatalRetries, failedMimes, parts, doing, errors,
                 pauses, astray, gaveUp>>

----------------------------------------------------------------------------
(* The recorders.                                                          *)

\* The first data of a part, if only what it held when it was paused or stopped.
FirstData(p) ==
  /\ parts[p].recorder \in {"recording", "paused", "stopping"} /\ ~parts[p].data
  /\ parts' = [parts EXCEPT ![p].data = TRUE] /\ fatalRetries' = 0
  /\ UNCHANGED <<sourceVars, refVars, partRef, failedMimes, chain, doing, timers, errors,
                 pauses, astray, gaveUp>>

EncoderFails(p) ==
  /\ parts[p].recorder \in {"recording", "paused"}
  /\ errors < MaxErrors /\ errors' = errors + 1
  /\ parts' = [parts EXCEPT ![p].recorder = "inactive", ![p].error = TRUE]
  /\ UNCHANGED <<sourceVars, refVars, partRef, fatalRetries, failedMimes, chain, doing, timers,
                 pauses, astray, gaveUp>>

\* After data: the part is saved, and replaced unless it was stopped.
FailsMidSession(p) ==
  /\ parts[p].error /\ parts[p].data
  /\ parts' = [parts EXCEPT ![p] = IF @.stopped THEN Ended ELSE [@ EXCEPT !.error = FALSE]]
  /\ IF parts[p].stopped THEN UNCHANGED <<failedMimes, chain>>
     ELSE /\ failedMimes' = failedMimes \cup {parts[p].codec}
          /\ chain' = Append(chain, [kind |-> "fail", part |-> p])
  /\ UNCHANGED <<sourceVars, refVars, partRef, fatalRetries, doing, timers, errors, pauses,
                 astray, gaveUp>>

\* Before data: the next codec that starts records the part, whether or not it
\* should still record; if none does, or the error is another, the part is dead.
FailsBeforeData(p) ==
  /\ parts[p].error /\ ~parts[p].data
  /\ \E c \in 0..Codecs :
       /\ \/ c = 0 /\ UNCHANGED errors
          \/ StartFrom(parts[p], parts[p].codec + 1, c)
       /\ parts' = [parts EXCEPT ![p] =
            [parts[p] EXCEPT !.error = FALSE, !.codec = IF c = 0 THEN @ ELSE c,
                             !.recorder = IF c = 0 THEN "inactive" ELSE "recording",
                             !.dead = @ \/ c = 0]]
       /\ IF c = 0 /\ ~parts[p].stopped THEN Retry(p, partRef)
          ELSE UNCHANGED <<fatalRetries, timers, gaveUp>>
       /\ astray' = IF c # 0 /\ (parts[p].stopped \/ parts[p].dead \/ pausedRef)
                    THEN astray \cup {p} ELSE astray
  /\ UNCHANGED <<sourceVars, refVars, partRef, failedMimes, chain, doing, pauses>>

Next ==
  \/ CameraChanges \/ SyncSources
  \/ Pause \/ (\E rotate \in BOOLEAN : Resume(rotate))
  \/ StopRecording \/ Unmount
  \/ RunOp \/ StartPart \/ OldPartStops \/ RetryTimer
  \/ \E p \in DOMAIN parts : \/ FirstData(p) \/ EncoderFails(p)
                             \/ FailsMidSession(p) \/ FailsBeforeData(p)

Spec == Init /\ [][Next]_vars

----------------------------------------------------------------------------

\* Nothing is under way, and the manager sees no reason to sync.
AtRest ==
  /\ chain = <<>> /\ doing = Idle /\ timers = <<>>
  /\ \A p \in DOMAIN parts : ~parts[p].error
  /\ activeRef /\ ~pausedRef => ~Drift

Recording == {p \in DOMAIN parts : parts[p].recorder = "recording"}

\* At rest exactly what should be recorded is: the part on the call's tracks while
\* the take runs, unless its retries are used up, and nothing while it is paused
\* or once it has stopped.  An error before a part's first data starts its next
\* codec whatever happened meanwhile; the property speaks of the takes in which
\* that met no pause and no stop (useLocalRecording, recorderCodecs).
RecordsExactly ==
  AtRest /\ astray = {} =>
    IF activeRef /\ ~pausedRef /\ Source # {} /\ ~gaveUp
    THEN partRef # 0 /\ Recording = {partRef}
    ELSE Recording = {}
=============================================================================
