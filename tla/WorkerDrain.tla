---------------------------- MODULE WorkerDrain ----------------------------
(***************************************************************************)
(* A serverless media worker.  Producers add a job to Redis and then call  *)
(* the worker's wake endpoint.  The worker consumes until its queues were  *)
(* empty for a while, closes every connection, and may then be put to      *)
(* sleep by the platform; the next call starts it again.  Two sweeps of    *)
(* the API add a job that is still there once more, which only repeats the *)
(* call.                                                                   *)
(***************************************************************************)
EXTENDS Naturals, FiniteSets

CONSTANTS
  Jobs,         \* the jobs producers add
  MaxTries,     \* calls of one wakeWorker (RETRY_DELAYS_MS)
  MaxOutages    \* lost calls, failed polls, crashes and restarts

VARIABLES
  job,            \* per job: none, waiting, active, done
  call,           \* per job, its producer's wake call: idle, calling, acked, gaveUp
  tries,          \* per job: calls made
  process,        \* up, ending (shuttingDown), asleep, restarting
  drain,          \* where requestDrain's loop is: none, poll, grace, close, end
  consuming,      \* whether the consumers take jobs
  wakeRequested,
  failedPoll,     \* whether this drain ended in an error
  stranded,       \* history: the last drain ended in an error
  outages         \* outages so far

drainVars == <<drain, consuming, wakeRequested, failedPoll>>
callVars  == <<call, tries>>
vars == <<job, callVars, process, drainVars, stranded, outages>>

Outage       == outages < MaxOutages /\ outages' = outages + 1
Pending      == {j \in Jobs : job[j] \in {"waiting", "active"}}
ShuttingDown == process = "ending"

Init ==
  /\ job = [j \in Jobs |-> "none"]
  /\ call = [j \in Jobs |-> "idle"] /\ tries = [j \in Jobs |-> 0]
  /\ process = "asleep" /\ drain = "none" /\ consuming = FALSE
  /\ wakeRequested = FALSE /\ failedPoll = FALSE
  /\ stranded = FALSE /\ outages = 0

----------------------------------------------------------------------------
(* The worker's loop. *)

\* One pass of the loop: take the wake, create the consumers, poll.
BeginCycle == /\ drain' = "poll" /\ consuming' = TRUE
              /\ wakeRequested' = FALSE /\ stranded' = FALSE

\* requestDrain, in a running process: start the loop unless it runs.
RequestDrain ==
  /\ IF drain # "none" \/ ShuttingDown
     THEN wakeRequested' = TRUE /\ UNCHANGED <<drain, consuming, stranded>>
     ELSE BeginCycle
  /\ UNCHANGED failedPoll

\* A new process drains once at boot.
Boot == /\ process' = "up" /\ drain' = "poll" /\ consuming' = TRUE
        /\ wakeRequested' = FALSE /\ failedPoll' = FALSE /\ stranded' = FALSE

\* waitUntilQueuesAreQuiet: the queues must be seen empty again and again.
Poll ==
  /\ drain \in {"poll", "grace"} /\ process = "up"
  /\ drain' = IF Pending # {} THEN "poll"
              ELSE IF drain = "poll" THEN "grace" ELSE "close"
  /\ UNCHANGED <<job, callVars, process, consuming, wakeRequested, failedPoll,
                 stranded, outages>>

\* Redis cannot be read: the drain ends in an error, the jobs stay.
PollFails ==
  /\ drain \in {"poll", "grace"} /\ process = "up" /\ Outage
  /\ drain' = "close" /\ failedPoll' = TRUE /\ stranded' = TRUE
  /\ UNCHANGED <<job, callVars, process, consuming, wakeRequested>>

\* A shutdown ends the wait.
PollStops ==
  /\ drain \in {"poll", "grace"} /\ ShuttingDown
  /\ drain' = "close"
  /\ UNCHANGED <<job, callVars, process, consuming, wakeRequested, failedPoll,
                 stranded, outages>>

\* The consumers take no new job and are closed when the active ones ended.
CloseConsumers ==
  /\ drain = "close"
  /\ IF consuming THEN consuming' = FALSE /\ UNCHANGED drain
     ELSE /\ \A j \in Jobs : job[j] # "active"
          /\ drain' = "end" /\ UNCHANGED consuming
  /\ UNCHANGED <<job, callVars, process, wakeRequested, failedPoll, stranded, outages>>

\* Mutant: the loop does not look for a wake that came during the cycle.
LoopOnce ==
  /\ drain = "end" /\ wakeRequested /\ ~ShuttingDown /\ ~failedPoll
  /\ drain' = "none" /\ wakeRequested' = FALSE
  /\ UNCHANGED <<job, callVars, process, consuming, failedPoll, stranded, outages>>

\* The loop's condition: a wake that came meanwhile starts the next cycle.
LoopAgain ==
  /\ drain = "end" /\ wakeRequested /\ ~ShuttingDown /\ ~failedPoll
  /\ BeginCycle
  /\ UNCHANGED <<job, callVars, process, failedPoll, outages>>

\* The loop is over and its promise is cleared; a wake that came after the
\* loop's last look, or during a drain that failed, starts a new one.
LoopEnds ==
  /\ drain = "end" /\ (~wakeRequested \/ ShuttingDown \/ failedPoll)
  /\ failedPoll' = FALSE
  /\ IF wakeRequested /\ ~ShuttingDown THEN BeginCycle
     ELSE drain' = "none" /\ UNCHANGED <<consuming, wakeRequested, stranded>>
  /\ UNCHANGED <<job, callVars, process, outages>>

----------------------------------------------------------------------------
(* The process. *)

\* No traffic for a while: the platform puts the container to sleep.
Sleep ==
  /\ process = "up" /\ drain = "none"
  /\ process' = "asleep"
  /\ UNCHANGED <<job, callVars, drainVars, stranded, outages>>

\* SIGTERM of a deploy.
Shutdown ==
  /\ process = "up" /\ Outage
  /\ process' = "ending" /\ consuming' = FALSE
  /\ UNCHANGED <<job, callVars, drain, wakeRequested, failedPoll, stranded>>

\* Its jobs and its drain have ended: the process exits.
Exit ==
  /\ ShuttingDown /\ drain = "none" /\ \A j \in Jobs : job[j] # "active"
  /\ process' = "restarting" /\ wakeRequested' = FALSE
  /\ UNCHANGED <<job, callVars, drain, consuming, failedPoll, stranded, outages>>

Crash ==
  /\ process \in {"up", "ending"} /\ Outage
  /\ process' = "restarting" /\ drain' = "none" /\ consuming' = FALSE
  /\ wakeRequested' = FALSE /\ failedPoll' = FALSE
  /\ UNCHANGED <<job, callVars, stranded>>

Restart ==
  /\ process = "restarting" /\ Boot
  /\ UNCHANGED <<job, callVars, outages>>

----------------------------------------------------------------------------
(* Jobs.  A job whose worker died is active until the stalled check. *)

TakeJob(j) ==
  /\ consuming /\ job[j] = "waiting"
  /\ job' = [job EXCEPT ![j] = "active"]
  /\ UNCHANGED <<callVars, process, drainVars, stranded, outages>>

\* The job ends (for good, or in its last failed attempt); a job the process
\* lost in a crash ends after the stalled check handed it out again.
FinishJob(j) ==
  /\ job[j] = "active" /\ process \in {"up", "ending"}
  /\ job' = [job EXCEPT ![j] = "done"]
  /\ UNCHANGED <<callVars, process, drainVars, stranded, outages>>

----------------------------------------------------------------------------
(* Producers. *)

\* The job is in Redis before its worker is called.
AddJob(j) ==
  /\ job[j] = "none"
  /\ job' = [job EXCEPT ![j] = "waiting"]
  /\ call' = [call EXCEPT ![j] = "calling"]
  /\ UNCHANGED <<tries, process, drainVars, stranded, outages>>

\* Mutant: a job that is still queued is left to the call that queued it.
SweepLeavesQueued(j) ==
  /\ j \in Pending /\ call[j] = "idle"
  /\ call' = [call EXCEPT ![j] = "calling"]
  /\ tries' = [tries EXCEPT ![j] = 0]
  /\ UNCHANGED <<job, process, drainVars, stranded, outages>>

\* A sweep adds it again: deduplicated, but the worker is called once more.
SweepAdds(j) ==
  /\ j \in Pending /\ call[j] \in {"acked", "gaveUp"}
  /\ call' = [call EXCEPT ![j] = "calling"]
  /\ tries' = [tries EXCEPT ![j] = 0]
  /\ UNCHANGED <<job, process, drainVars, stranded, outages>>

\* The endpoint answers 202 (also in a process that is shutting down).
WakeAnswered(j) ==
  /\ call[j] = "calling" /\ process \in {"up", "ending"}
  /\ RequestDrain
  /\ call' = [call EXCEPT ![j] = "acked"]
  /\ UNCHANGED <<job, tries, process, outages>>

\* The call starts the sleeping container, which drains at boot.
WakeBoots(j) ==
  /\ call[j] = "calling" /\ process = "asleep"
  /\ Boot
  /\ call' = [call EXCEPT ![j] = "acked"]
  /\ UNCHANGED <<job, tries, outages>>

\* The call fails: tried again, up to MaxTries times.
WakeFails(j) ==
  /\ call[j] = "calling" /\ Outage
  /\ tries' = [tries EXCEPT ![j] = @ + 1]
  /\ IF tries[j] + 1 = MaxTries
     THEN call' = [call EXCEPT ![j] = "gaveUp"]
     ELSE UNCHANGED call
  /\ UNCHANGED <<job, process, drainVars, stranded>>

----------------------------------------------------------------------------
Loop == Poll \/ PollStops \/ CloseConsumers \/ LoopAgain \/ LoopEnds

Next ==
  \/ Poll \/ PollFails \/ PollStops \/ CloseConsumers \/ LoopAgain \/ LoopEnds
  \/ Sleep \/ Shutdown \/ Exit \/ Crash \/ Restart
  \/ \E j \in Jobs : \/ TakeJob(j) \/ FinishJob(j) \/ AddJob(j) \/ SweepAdds(j)
                     \/ WakeAnswered(j) \/ WakeBoots(j) \/ WakeFails(j)

Spec == Init /\ [][Next]_vars

----------------------------------------------------------------------------
(* What the worker promises. *)

\* The worker never rests on a job whose wake it acknowledged: between the
\* loop's last look at the wake, its cleanup and the next call, no wake is
\* lost, and none counts for a job that was added after the last poll.
AcknowledgedIsDrained ==
  (process \in {"up", "asleep"} /\ drain = "none" /\ ~stranded)
    => \A j \in Jobs : call[j] = "acked" => job[j] = "done"

\* Every job is consumed in the end, through crashes, restarts, failed polls
\* and lost calls, as long as a sweep calls again.
JobsAreDone == \A j \in Jobs : (job[j] # "none") ~> (job[j] = "done")
=============================================================================
