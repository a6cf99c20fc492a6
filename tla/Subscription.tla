---------------------------- MODULE Subscription ----------------------------
(***************************************************************************)
(* A user's plan.  Polar bills a subscription and tells of every change by *)
(* a webhook, which it repeats until it is answered; deliveries may be     *)
(* handled out of order, twice, or by a process that dies.  What the user  *)
(* may do is decided from the row and the clock, lapsed plans are written  *)
(* back lazily, and the retention sweep deletes recordings by it.          *)
(***************************************************************************)
EXTENDS Naturals, Sequences

CONSTANTS
  MaxTime,      \* of the clock
  Period,       \* of a subscription
  DemoWindow,   \* how long a recording is kept without a plan
  ProWindow,    \* and with one
  MaxEvents     \* changes of the subscription

VARIABLES
  now,
  polar,        \* at Polar: status, end of the paid period, ends with it
  events,       \* the subscription after each change, with the event's type
  sent,         \* deliveries Polar has no answer for
  processed,    \* ProcessedWebhookEvent
  handling,     \* deliveries stored and not applied yet
  newest,       \* the delivery applied last
  plan, periodEnd,
  lapsed,       \* a getEntitlements has read a lapsed PRO and not written it
  clobbered,    \* history: it was written over a newer PRO
  stoppedAt,    \* a take recorded under PRO: 0 for none
  purged

polarVars == <<polar, events>>
hookVars  == <<sent, processed, handling, newest>>
userVars  == <<plan, periodEnd>>
takeVars  == <<stoppedAt, purged>>
vars == <<now, polarVars, hookVars, userVars, lapsed, clobbered, takeVars>>

Init ==
  /\ now = 1
  /\ polar = [status |-> "none", end |-> 0, ending |-> FALSE]
  /\ events = <<>> /\ sent = {} /\ processed = {} /\ handling = {} /\ newest = 0
  /\ plan = "DEMO" /\ periodEnd = 0 /\ lapsed = FALSE /\ clobbered = FALSE
  /\ stoppedAt = 0 /\ purged = FALSE

Tick ==
  /\ now < MaxTime /\ now' = now + 1
  /\ UNCHANGED <<polarVars, hookVars, userVars, lapsed, clobbered, takeVars>>

----------------------------------------------------------------------------
(* Polar. *)

Change(type, status, end, ending) ==
  /\ Len(events) < MaxEvents
  /\ polar' = [status |-> status, end |-> end, ending |-> ending]
  /\ events' = Append(events, [type |-> type, sub |-> polar'])
  /\ sent' = sent \cup {Len(events')}
  /\ UNCHANGED <<now, processed, handling, newest, userVars, lapsed, clobbered, takeVars>>

Subscribe == polar.status = "none" /\ Change("active", "active", now + Period, FALSE)
Cancel    == polar.status = "active" /\ ~polar.ending
               /\ Change("canceled", "active", polar.end, TRUE)
Uncancel  == polar.status = "active" /\ polar.ending /\ now < polar.end
               /\ Change("uncanceled", "active", polar.end, FALSE)
Renew     == polar.status \in {"active", "past_due"} /\ ~polar.ending /\ now >= polar.end
               /\ Change("order.paid", "active", polar.end + Period, FALSE)
PayFails  == polar.status = "active" /\ ~polar.ending /\ now >= polar.end
               /\ Change("updated", "past_due", polar.end, FALSE)
\* A refund, the end of dunning, or of a canceled period.
Revoke    == polar.status \in {"active", "past_due"}
               /\ Change("revoked", "canceled", polar.end, polar.ending)

----------------------------------------------------------------------------
(* processPolarWebhook. *)

\* The delivery's id is stored first; one that is known is only answered.
StoreDelivery(i) ==
  /\ i \in sent
  /\ IF i \in processed
     THEN i \notin handling /\ sent' = sent \ {i} /\ UNCHANGED <<processed, handling>>
     ELSE /\ processed' = processed \cup {i} /\ handling' = handling \cup {i}
          /\ UNCHANGED sent
  /\ UNCHANGED <<now, polarVars, newest, userVars, lapsed, clobbered, takeVars>>

\* The process dies, or the write fails: Polar repeats a delivery that is known.
HandlerDies(i) ==
  /\ i \in handling /\ handling' = handling \ {i}
  /\ UNCHANGED <<now, polarVars, sent, processed, newest, userVars, lapsed, clobbered,
                 takeVars>>

\* Mutant: a canceled subscription is taken away at once.
AppliedAtOnce(e) ==
  IF e.type \in {"revoked", "canceled"} THEN <<"DEMO", periodEnd>>
  ELSE <<IF e.sub.status = "active" THEN "PRO" ELSE plan, e.sub.end>>

\* applySubscription: the row's plan and period after the event.
Applied(e) ==
  IF e.type = "revoked" THEN <<"DEMO", periodEnd>>
  ELSE <<IF e.sub.status \in {"active", "canceled"} \/ e.sub.ending THEN "PRO" ELSE plan,
         e.sub.end>>

Apply(i) ==
  /\ i \in handling /\ handling' = handling \ {i} /\ sent' = sent \ {i}
  /\ plan' = Applied(events[i])[1] /\ periodEnd' = Applied(events[i])[2]
  /\ newest' = i /\ clobbered' = FALSE
  /\ UNCHANGED <<now, polarVars, processed, lapsed, takeVars>>

----------------------------------------------------------------------------
(* Entitlements. *)

IsProActive == plan = "PRO" /\ periodEnd > now

\* getEntitlements reads a PRO past its period, and writes DEMO by id.
ReadsLapsed ==
  /\ ~lapsed /\ plan = "PRO" /\ ~IsProActive /\ lapsed' = TRUE
  /\ UNCHANGED <<now, polarVars, hookVars, userVars, clobbered, takeVars>>

WritesLapsed ==
  /\ lapsed /\ lapsed' = FALSE /\ plan' = "DEMO"
  /\ clobbered' = (clobbered \/ IsProActive)
  /\ UNCHANGED <<now, polarVars, hookVars, periodEnd, takeVars>>

----------------------------------------------------------------------------
(* Retention. *)

RecordTake ==
  /\ stoppedAt = 0 /\ IsProActive /\ stoppedAt' = now
  /\ UNCHANGED <<now, polarVars, hookVars, userVars, lapsed, clobbered, purged>>

\* sweepExpiredRecordings: the window of the plan the owner has now.
SweepExpired ==
  /\ stoppedAt # 0 /\ ~purged
  /\ stoppedAt + (IF IsProActive THEN ProWindow ELSE DemoWindow) <= now
  /\ purged' = TRUE
  /\ UNCHANGED <<now, polarVars, hookVars, userVars, lapsed, clobbered, stoppedAt>>

----------------------------------------------------------------------------
Next ==
  \/ Tick \/ Subscribe \/ Cancel \/ Uncancel \/ Renew \/ PayFails \/ Revoke
  \/ \E i \in 1..MaxEvents : StoreDelivery(i) \/ HandlerDies(i) \/ Apply(i)
  \/ ReadsLapsed \/ WritesLapsed \/ RecordTake \/ SweepExpired

Spec == Init /\ [][Next]_vars

----------------------------------------------------------------------------
\* When the newest change was the last one applied, nobody has PRO who did not
\* pay for this day, and whoever did has it, whatever happened to the older
\* deliveries; except after a lazy downgrade that was read before a renewal and
\* written after it.
UpToDate == newest = Len(events) /\ handling = {} /\ ~clobbered /\ ~lapsed

PlanFollowsPolar == UpToDate =>
  /\ IsProActive => polar.status \in {"active", "past_due"} /\ now < polar.end
  /\ polar.status = "active" /\ now < polar.end => IsProActive

\* "recordings auto-delete once they outlive their owner's plan window":
\* a take recorded under PRO is not deleted within PRO's window while the
\* subscription is paid for.
PaidKeepsRecordings ==
  [][~purged /\ purged' =>
       ~(polar.status = "active" /\ now < polar.end /\ now < stoppedAt + ProWindow)]_vars
=============================================================================
