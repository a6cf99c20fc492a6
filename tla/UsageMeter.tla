----------------------------- MODULE UsageMeter -----------------------------
(***************************************************************************)
(* Metering one take of a space: the seconds it has run are credited to    *)
(* its owner's usage period, pauses left out, and the take is stopped when *)
(* the credit is spent.  The meter is run by the client's heartbeat, by    *)
(* the usage sweep, by every stop and by every pause.  It reads the        *)
(* session, notes the time, claims the stretch since lastMeteredAt (if      *)
(* that has not moved) and then credits it: two writes to two tables.      *)
(*                                                                         *)
(* A tick is a second.  Times count from the start of the take, which is    *)
(* where lastMeteredAt begins; the credit is what the owner has left.      *)
(***************************************************************************)
EXTENDS Naturals

CONSTANTS
  Beats,     \* heartbeat requests of the client
  Sweep,     \* the usage sweep
  Hosts,     \* hosts and co-hosts, who pause, resume and stop the take
  Lead,      \* how long before a pause or resume takes effect
  Credit,    \* seconds the owner may still record
  MaxTime,   \* the clock stops there (a bound)
  MaxCrashes,\* how many requests may die or fail (a bound)
  None

Meters == Beats \cup {Sweep}
Actors == Meters \cup Hosts

ASSUME NumbersAssumption ==
  /\ Lead \in Nat /\ Credit \in Nat /\ MaxTime \in Nat /\ MaxCrashes \in Nat
  /\ None \notin Nat
ASSUME ActorsAssumption == Sweep \notin Beats /\ Meters \cap Hosts = {}

VARIABLES
  clock,
  status,    \* RecordingSession.status
  last,      \* lastMeteredAt
  metered,   \* meteredSeconds
  pausedAt,  \* pausedAt, which may lie Lead ahead
  pausedFor, \* pausedMs
  used,      \* UsagePeriod.secondsUsed, from the start of the take on
  endedAt,   \* when the space left LIVE
  at, job,   \* actors: where each is, and what it does after metering
  seen,      \* actors: the session row as it was read
  now,       \* actors: the time noted for the meter
  effect,    \* actors: when their pause or resume takes effect
  live,      \* actors: whether the space was LIVE when the meter looked
  delta,     \* actors: a stretch claimed and not yet credited
  crashes, lost, \* crashes left, and the claimed seconds they cost
  races      \* the stale writes that happened, which the code does not know

(* pausedClaim: a meter that read the take before a pause, and looked at    *)
(*              the clock after it, claimed the time it saw;                *)
(* slowPause:   a meter had passed the moment a pause was asked for when    *)
(*              the pause was written;                                     *)
(* staleResume: lastMeteredAt had moved since the resume read it.          *)
RaceKinds == {"pausedClaim", "slowPause", "staleResume"}

session == <<status, last, metered, pausedAt, pausedFor>>
actor   == <<at, job, seen, now, effect, live, delta>>
vars    == <<clock, session, used, endedAt, actor, crashes, lost, races>>

TheRow == [status |-> status, last |-> last, pausedAt |-> pausedAt]
NoRow  == [status |-> "STOPPED", last |-> 0, pausedAt |-> None]

TypeOK ==
  /\ clock \in Nat /\ status \in {"ACTIVE", "STOPPED"}
  /\ last \in Nat /\ metered \in Nat /\ pausedFor \in Nat
  /\ pausedAt \in Nat \cup {None} /\ endedAt \in Nat \cup {None}
  /\ used \in Nat /\ crashes \in Nat /\ lost \in Nat /\ races \subseteq RaceKinds
  /\ at \in [Actors -> {"idle", "look", "ask", "claim", "credit", "write"}]
  /\ job \in [Actors -> {"meter", "pause", "resume", "stop"}]
  /\ seen \in [Actors -> [status : {"ACTIVE", "STOPPED"}, last : Nat,
                          pausedAt : Nat \cup {None}]]
  /\ now \in [Actors -> Nat] /\ effect \in [Actors -> Nat] /\ live \in [Actors -> BOOLEAN]
  /\ delta \in [Actors -> Nat]

Init ==
  /\ clock = 0 /\ status = "ACTIVE" /\ last = 0 /\ metered = 0
  /\ pausedAt = None /\ pausedFor = 0 /\ used = 0 /\ endedAt = None
  /\ at = [a \in Actors |-> "idle"] /\ job = [a \in Actors |-> "meter"]
  /\ seen = [a \in Actors |-> NoRow] /\ now = [a \in Actors |-> 0]
  /\ effect = [a \in Actors |-> 0]
  /\ live = [a \in Actors |-> FALSE] /\ delta = [a \in Actors |-> 0]
  /\ crashes = MaxCrashes /\ lost = 0 /\ races = {}

Go(a, phase) == at' = [at EXCEPT ![a] = phase]

\* An actor whose meter is done, or that returns, forgets what it read.
Forget(a) ==
  /\ seen' = [seen EXCEPT ![a] = NoRow] /\ now' = [now EXCEPT ![a] = 0]
  /\ live' = [live EXCEPT ![a] = FALSE] /\ delta' = [delta EXCEPT ![a] = 0]

Return(a) ==
  /\ Go(a, "idle") /\ job' = [job EXCEPT ![a] = "meter"]
  /\ effect' = [effect EXCEPT ![a] = 0] /\ Forget(a)

-----------------------------------------------------------------------------
(* meterSession.                                                           *)

\* heartbeatSession and sweepActiveRecordingUsage read the session first and
\* meter it later; the sweep stops a take whose space is not LIVE instead.
BeatReads(m) ==
  /\ at[m] = "idle"
  /\ \/ /\ m = Sweep /\ status = "ACTIVE" /\ endedAt # None
        /\ Go(m, "ask") /\ job' = [job EXCEPT ![m] = "stop"] /\ UNCHANGED seen
     \/ /\ m = Sweep => status = "ACTIVE" /\ endedAt = None
        /\ Go(m, "look") /\ seen' = [seen EXCEPT ![m] = TheRow] /\ UNCHANGED job
  /\ UNCHANGED <<clock, session, used, endedAt, now, effect, live, delta, crashes, lost, races>>

\* Mutant: the space is not asked for.
LooksAnyway(a) ==
  /\ now' = [now EXCEPT ![a] = clock] /\ live' = [live EXCEPT ![a] = TRUE]
  /\ Go(a, "claim")

\* The meter notes the time, then reads whether the space is LIVE.
Looks(a) ==
  /\ now' = [now EXCEPT ![a] = clock] /\ live' = [live EXCEPT ![a] = endedAt = None]
  /\ Go(a, "claim")

BeatLooks(m) ==
  /\ at[m] = "look" /\ Looks(m)
  /\ UNCHANGED <<clock, session, used, endedAt, job, seen, effect, delta, crashes, lost, races>>

\* meterSessionById, of a stop or a pause: read and meter.  A stop that finds
\* the take stopped does nothing more; its read and the meter's are one step,
\* since a meter of a stopped take credits nothing.
MeterReads(a) ==
  /\ at[a] = "ask"
  /\ \/ /\ job[a] = "stop" /\ status # "ACTIVE" /\ Return(a)
     \/ /\ job[a] = "stop" => status = "ACTIVE"
        /\ seen' = [seen EXCEPT ![a] = TheRow] /\ Looks(a)
        /\ UNCHANGED <<job, effect, delta>>
  /\ UNCHANGED <<clock, session, used, endedAt, crashes, lost, races>>

\* Mutant: spent credit stops nothing.
OnlyReports(a, u) ==
  \/ job[a] # "meter" /\ Go(a, "write") /\ Forget(a) /\ UNCHANGED <<job, effect>>
  \/ job[a] = "meter" /\ Return(a)

\* What follows the meter, with the period's seconds it returned: the pause or
\* stop it belongs to, or a stop because the credit is spent.
After(a, u) ==
  LET spent == u >= Credit /\ seen[a].status = "ACTIVE"
  IN  \/ job[a] # "meter" /\ Go(a, "write") /\ Forget(a) /\ UNCHANGED <<job, effect>>
      \/ /\ job[a] = "meter" /\ spent /\ Forget(a) /\ UNCHANGED effect
         /\ Go(a, "ask") /\ job' = [job EXCEPT ![a] = "stop"]
      \/ job[a] = "meter" /\ ~spent /\ Return(a)

\* There is something to credit, by what the meter knows.
Creditable(a) ==
  /\ seen[a].last < now[a] /\ seen[a].status = "ACTIVE"
  /\ seen[a].pausedAt = None /\ live[a]

\* races gains the race if there is one.
Note(race, happens) == races' = IF happens THEN races \cup {race} ELSE races

\* Mutant: the claim does not ask whether lastMeteredAt has moved.
UnlessStopped(a) == Creditable(a) /\ status = "ACTIVE"

CanClaim(a) == Creditable(a) /\ status = "ACTIVE" /\ last = seen[a].last

Skips(a) ==
  /\ at[a] = "claim" /\ ~CanClaim(a) /\ After(a, used)
  /\ UNCHANGED <<clock, session, used, endedAt, crashes, lost, races>>

Claims(a) ==
  LET d == now[a] - seen[a].last
  IN  /\ at[a] = "claim" /\ CanClaim(a) /\ Go(a, "credit")
      /\ last' = now[a] /\ metered' = metered + d
      /\ delta' = [delta EXCEPT ![a] = d]
      /\ Note("pausedClaim", pausedAt # None /\ ~(now[a] + Lead <= pausedAt))
      /\ UNCHANGED <<clock, status, pausedAt, pausedFor, used, endedAt, job, seen, now,
                     effect, live, crashes, lost>>

\* Mutant: the period is set to what the session has metered.
CreditsTotal(a) ==
  /\ at[a] = "credit" /\ used' = used + metered /\ After(a, used')
  /\ UNCHANGED <<clock, session, endedAt, crashes, lost, races>>

Credits(a) ==
  /\ at[a] = "credit" /\ used' = used + delta[a] /\ After(a, used')
  /\ UNCHANGED <<clock, session, endedAt, crashes, lost, races>>

-----------------------------------------------------------------------------
(* setSpaceSessionPaused and stopRecordingSession.                         *)

\* The moment the pause takes effect is fixed before the meter runs.
PauseReads(h) ==
  /\ at[h] = "idle" /\ status = "ACTIVE" /\ pausedAt = None
  /\ Go(h, "ask") /\ job' = [job EXCEPT ![h] = "pause"]
  /\ effect' = [effect EXCEPT ![h] = clock + Lead]
  /\ UNCHANGED <<clock, session, used, endedAt, seen, now, live, delta, crashes, lost, races>>

\* The pause is written after the meter, unless another one was first.
CanPause(h) == status = "ACTIVE" /\ pausedAt = None

PauseWrites(h) ==
  /\ at[h] = "write" /\ job[h] = "pause" /\ Return(h)
  /\ pausedAt' = IF CanPause(h) THEN effect[h] ELSE pausedAt
  /\ Note("slowPause", CanPause(h) /\ ~(last + Lead <= effect[h]))
  /\ UNCHANGED <<clock, status, last, metered, pausedFor, used, endedAt, crashes, lost>>

ResumeReads(h) ==
  /\ at[h] = "idle" /\ status = "ACTIVE" /\ pausedAt # None
  /\ Go(h, "write") /\ job' = [job EXCEPT ![h] = "resume"]
  /\ seen' = [seen EXCEPT ![h] = TheRow]
  /\ effect' = [effect EXCEPT ![h] = clock + Lead]
  /\ UNCHANGED <<clock, session, used, endedAt, now, live, delta, crashes, lost, races>>

CanResume(h) == status = "ACTIVE" /\ pausedAt = seen[h].pausedAt

\* A pause that is resumed within the lead time lasted no time at all.
PauseLength(h) == IF effect[h] < seen[h].pausedAt THEN 0 ELSE effect[h] - seen[h].pausedAt

\* The meter skips the pause.
ResumeWrites(h) ==
  /\ at[h] = "write" /\ job[h] = "resume" /\ Return(h)
  /\ IF CanResume(h)
     THEN /\ pausedAt' = None /\ pausedFor' = pausedFor + PauseLength(h)
          /\ last' = seen[h].last + PauseLength(h)
     ELSE UNCHANGED <<pausedAt, pausedFor, last>>
  /\ Note("staleResume", CanResume(h) /\ last # seen[h].last)
  /\ UNCHANGED <<clock, status, metered, used, endedAt, crashes, lost>>

StopAsked(h) ==
  /\ at[h] = "idle" /\ status = "ACTIVE"
  /\ Go(h, "ask") /\ job' = [job EXCEPT ![h] = "stop"]
  /\ UNCHANGED <<clock, session, used, endedAt, seen, now, effect, live, delta,
                 crashes, lost, races>>

StopWrites(a) ==
  /\ at[a] = "write" /\ job[a] = "stop" /\ Return(a)
  /\ status' = "STOPPED"
  /\ UNCHANGED <<clock, last, metered, pausedAt, pausedFor, used, endedAt, crashes, lost, races>>

-----------------------------------------------------------------------------
(* The space leaves LIVE without stopping the take; time passes; a request  *)
(* dies, perhaps between the claim and the credit.                          *)

SpaceEnds ==
  /\ endedAt = None /\ endedAt' = clock
  /\ UNCHANGED <<clock, session, used, actor, crashes, lost, races>>

Tick ==
  /\ clock < MaxTime /\ clock' = clock + 1
  /\ UNCHANGED <<session, used, endedAt, actor, crashes, lost, races>>

Dies(a) ==
  /\ at[a] # "idle" /\ crashes > 0 /\ crashes' = crashes - 1
  /\ lost' = lost + delta[a] /\ Return(a)
  /\ UNCHANGED <<clock, session, used, endedAt, races>>

\* A stop goes on when its meter fails.
MeterFails(a) ==
  /\ job[a] = "stop" /\ at[a] \in {"claim", "credit"} /\ crashes > 0 /\ crashes' = crashes - 1
  /\ lost' = lost + delta[a] /\ Go(a, "write") /\ Forget(a)
  /\ UNCHANGED <<clock, session, used, endedAt, job, effect, races>>

-----------------------------------------------------------------------------
Metering(a) == BeatLooks(a) \/ MeterReads(a) \/ Skips(a) \/ Claims(a) \/ Credits(a)
Writing(a)  == StopWrites(a) \/ PauseWrites(a) \/ ResumeWrites(a)

Next ==
  \/ \E m \in Meters : BeatReads(m)
  \/ \E a \in Actors : Metering(a) \/ Writing(a) \/ Dies(a) \/ MeterFails(a)
  \/ \E h \in Hosts : PauseReads(h) \/ ResumeReads(h) \/ StopAsked(h)
  \/ SpaceEnds \/ Tick

\* The sweep runs on its timer and its queries return.
Fairness == WF_vars(BeatReads(Sweep)) /\ WF_vars(Metering(Sweep) \/ Writing(Sweep))

Spec     == Init /\ [][Next]_vars
FairSpec == Spec /\ Fairness

-----------------------------------------------------------------------------
\* The time since a pause took effect.
Pausing == IF pausedAt # None /\ pausedAt < clock THEN clock - pausedAt ELSE 0

\* A take is never metered for more than it has recorded, by the formula all
\* recorders share: no stretch is claimed twice, and no pause.  It takes a
\* write that rests on a stale read to break this.
NeverOverbilled == races = {} => metered + pausedFor + Pausing <= clock

\* Time after the space left LIVE is not charged.
OrphanIsFree == [][metered' > metered /\ endedAt # None => last' <= endedAt]_vars

\* The owner's period never runs ahead of what the take has claimed, and they
\* agree when nobody is at work, but for what a crash has cost.
BooksAgree ==
  /\ used + lost <= metered
  /\ (\A a \in Actors : at[a] = "idle") => used + lost = metered

\* A take whose owner has no credit left is stopped.
SpentTakeStops == used >= Credit ~> status = "STOPPED"

=============================================================================
