------------------------- MODULE UsageMeter_proofs -------------------------
(***************************************************************************)
(* Proofs about UsageMeter, for any lead time, credit and number of        *)
(* heartbeats and hosts.                                                   *)
(*                                                                         *)
(* That a take is never overbilled rests on two facts about lastMeteredAt:  *)
(* it is the metered plus the paused time, and it is never ahead of the    *)
(* clock or, during a pause, of the moment the pause was asked for.  The   *)
(* second one is lost when a write rests on a stale read.                  *)
(***************************************************************************)
EXTENDS UsageMeter, Integers, WellFoundedInduction, TLAPS

\* A resume has read a paused take and goes straight to its write.
Resuming ==
  \A a \in Actors : job[a] = "resume" => at[a] = "write" /\ seen[a].pausedAt \in Nat

LEMMA MeterTypeInit == Init => TypeOK /\ Resuming
  BY NumbersAssumption DEF Init, TypeOK, NoRow, Resuming

LEMMA ReturnType ==
  ASSUME TypeOK, NEW a \in Actors, Return(a)
  PROVE  /\ at' \in [Actors -> {"idle", "look", "ask", "claim", "credit", "write"}]
         /\ job' \in [Actors -> {"meter", "pause", "resume", "stop"}]
         /\ seen' \in [Actors -> [status : {"ACTIVE", "STOPPED"}, last : Nat,
                                  pausedAt : Nat \cup {None}]]
         /\ now' \in [Actors -> Nat] /\ effect' \in [Actors -> Nat]
         /\ live' \in [Actors -> BOOLEAN] /\ delta' \in [Actors -> Nat]
  BY DEF TypeOK, Return, Forget, Go, NoRow

LEMMA AfterType ==
  ASSUME TypeOK, NEW a \in Actors, NEW u \in Nat, After(a, u)
  PROVE  /\ at' \in [Actors -> {"idle", "look", "ask", "claim", "credit", "write"}]
         /\ job' \in [Actors -> {"meter", "pause", "resume", "stop"}]
         /\ seen' \in [Actors -> [status : {"ACTIVE", "STOPPED"}, last : Nat,
                                  pausedAt : Nat \cup {None}]]
         /\ now' \in [Actors -> Nat] /\ effect' \in [Actors -> Nat]
         /\ live' \in [Actors -> BOOLEAN] /\ delta' \in [Actors -> Nat]
<1>1. CASE Return(a) BY <1>1, ReturnType
<1>2. CASE Go(a, "write") /\ Forget(a) /\ UNCHANGED <<job, effect>>
  BY <1>2 DEF TypeOK, Forget, Go, NoRow
<1>3. CASE /\ Go(a, "ask") /\ job' = [job EXCEPT ![a] = "stop"]
           /\ Forget(a) /\ UNCHANGED effect
  BY <1>3 DEF TypeOK, Forget, Go, NoRow
<1> QED BY <1>1, <1>2, <1>3 DEF After

LEMMA MeterTypeStep == TypeOK /\ Resuming /\ [Next]_vars => TypeOK'
<1> SUFFICES ASSUME TypeOK, Resuming, [Next]_vars PROVE TypeOK'
  OBVIOUS
<1> USE NumbersAssumption
<1>1. ASSUME NEW m \in Meters, BeatReads(m) PROVE TypeOK'
  BY <1>1 DEF TypeOK, BeatReads, Go, TheRow, session, Actors
<1>2. ASSUME NEW a \in Actors, BeatLooks(a) PROVE TypeOK'
  BY <1>2 DEF TypeOK, BeatLooks, Looks, Go, session
<1>3. ASSUME NEW a \in Actors, MeterReads(a) PROVE TypeOK'
  <2>1. CASE Return(a) BY <1>3, <2>1, ReturnType DEF TypeOK, MeterReads, session
  <2>2. CASE /\ seen' = [seen EXCEPT ![a] = TheRow] /\ Looks(a)
             /\ UNCHANGED <<job, effect, delta>>
    <3>1. TheRow \in [status : {"ACTIVE", "STOPPED"}, last : Nat, pausedAt : Nat \cup {None}]
      BY DEF TypeOK, TheRow
    <3> QED BY <1>3, <2>2, <3>1 DEF TypeOK, MeterReads, Looks, Go, session
  <2> QED BY <1>3, <2>1, <2>2 DEF MeterReads
<1>4. ASSUME NEW a \in Actors, Skips(a) PROVE TypeOK'
  <2>1. used \in Nat BY DEF TypeOK
  <2> QED BY <1>4, <2>1, AfterType DEF TypeOK, Skips, session
<1>5. ASSUME NEW a \in Actors, Claims(a) PROVE TypeOK'
  BY <1>5 DEF TypeOK, Claims, CanClaim, Creditable, Go, Note, RaceKinds
<1>6. ASSUME NEW a \in Actors, Credits(a) PROVE TypeOK'
  <2>1. used' \in Nat BY <1>6 DEF TypeOK, Credits
  <2> QED BY <1>6, <2>1, AfterType DEF TypeOK, Credits, session
<1>7. ASSUME NEW a \in Actors, Writing(a) PROVE TypeOK'
  <2>1. CASE StopWrites(a) BY <2>1, ReturnType DEF TypeOK, StopWrites
  <2>2. CASE PauseWrites(a) BY <2>2, ReturnType DEF TypeOK, PauseWrites, Note, RaceKinds
  <2>3. CASE ResumeWrites(a)
    <3>1. seen[a].pausedAt \in Nat BY <2>3 DEF ResumeWrites, Resuming
    <3>2. PauseLength(a) \in Nat BY <3>1 DEF TypeOK, PauseLength
    <3> QED BY <2>3, <3>2, ReturnType DEF TypeOK, ResumeWrites, Note, RaceKinds
  <2> QED BY <1>7, <2>1, <2>2, <2>3 DEF Writing
<1>8. ASSUME NEW a \in Actors, Dies(a) PROVE TypeOK'
  BY <1>8, ReturnType DEF TypeOK, Dies, session
<1>12. ASSUME NEW a \in Actors, MeterFails(a) PROVE TypeOK'
  BY <1>12 DEF TypeOK, MeterFails, Forget, Go, NoRow, session
<1>9. ASSUME NEW h \in Hosts, PauseReads(h) \/ ResumeReads(h) \/ StopAsked(h) PROVE TypeOK'
  BY <1>9 DEF TypeOK, PauseReads, ResumeReads, StopAsked, Go, TheRow, session, Actors
<1>10. CASE SpaceEnds \/ Tick BY <1>10 DEF TypeOK, SpaceEnds, Tick, session, actor
<1>11. CASE UNCHANGED vars BY <1>11 DEF TypeOK, vars, session, actor
<1> QED
  BY <1>1, <1>2, <1>3, <1>4, <1>5, <1>6, <1>7, <1>8, <1>9, <1>10, <1>11, <1>12
  DEF Next, Metering

\* What an actor does next never leaves it resuming.
LEMMA ReturnResuming ==
  ASSUME TypeOK, Resuming, NEW a \in Actors, Return(a)
  PROVE  Resuming'
  BY DEF TypeOK, Resuming, Return, Forget, Go

LEMMA AfterResuming ==
  ASSUME TypeOK, Resuming, NEW a \in Actors, NEW u, After(a, u), at[a] # "write"
  PROVE  Resuming'
<1>1. CASE Return(a) BY <1>1, ReturnResuming
<1>2. CASE ~Return(a) BY <1>2 DEF TypeOK, Resuming, After, Forget, Go
<1> QED BY <1>1, <1>2

LEMMA ResumingStep == TypeOK /\ Resuming /\ [Next]_vars => Resuming'
<1> SUFFICES ASSUME TypeOK, Resuming, [Next]_vars PROVE Resuming'
  OBVIOUS
<1>1. ASSUME NEW m \in Meters, BeatReads(m) PROVE Resuming'
  BY <1>1 DEF TypeOK, Resuming, BeatReads, Go, Actors
<1>2. ASSUME NEW a \in Actors, BeatLooks(a) \/ Claims(a) PROVE Resuming'
  BY <1>2 DEF TypeOK, Resuming, BeatLooks, Looks, Claims, Go
<1>3. ASSUME NEW a \in Actors, MeterReads(a) PROVE Resuming'
  <2>1. CASE Return(a) BY <2>1, ReturnResuming
  <2>2. CASE ~Return(a) BY <1>3, <2>2 DEF TypeOK, Resuming, MeterReads, Looks, Go
  <2> QED BY <2>1, <2>2
<1>4. ASSUME NEW a \in Actors, Skips(a) \/ Credits(a) PROVE Resuming'
  BY <1>4, AfterResuming DEF Skips, Credits
<1>5. ASSUME NEW a \in Actors, Writing(a) \/ Dies(a) PROVE Resuming'
  BY <1>5, ReturnResuming DEF Writing, StopWrites, PauseWrites, ResumeWrites, Dies
<1>6. ASSUME NEW a \in Actors, MeterFails(a) PROVE Resuming'
  BY <1>6 DEF TypeOK, Resuming, MeterFails, Forget, Go
<1>7. ASSUME NEW h \in Hosts, PauseReads(h) \/ StopAsked(h) PROVE Resuming'
  BY <1>7 DEF TypeOK, Resuming, PauseReads, StopAsked, Go, Actors
<1>8. ASSUME NEW h \in Hosts, ResumeReads(h) PROVE Resuming'
  <2>1. h \in Actors /\ pausedAt \in Nat BY <1>8 DEF ResumeReads, TypeOK, Actors
  <2> QED BY <1>8, <2>1 DEF TypeOK, Resuming, ResumeReads, Go, TheRow
<1>9. CASE SpaceEnds \/ Tick BY <1>9 DEF Resuming, SpaceEnds, Tick, actor
<1>10. CASE UNCHANGED vars BY <1>10 DEF Resuming, vars, actor
<1> QED
  BY <1>1, <1>2, <1>3, <1>4, <1>5, <1>6, <1>7, <1>8, <1>9, <1>10 DEF Next, Metering

\* Type correctness of the meter, its callers and the rows they share.
THEOREM MeterTypeCorrect == Spec => []TypeOK
<1>1. Init => TypeOK /\ Resuming BY MeterTypeInit
<1>2. TypeOK /\ Resuming /\ [Next]_vars => TypeOK' /\ Resuming'
  BY MeterTypeStep, ResumingStep
<1> QED BY <1>1, <1>2, PTL DEF Spec

-----------------------------------------------------------------------------
(* What the actors hold of the clock.                                      *)

\* A meter's time is past, and before the end of a space it saw LIVE; a pause
\* or resume takes effect at most Lead from now.
Times ==
  \A a \in Actors :
    /\ now[a] <= clock /\ effect[a] <= clock + Lead
    /\ live[a] /\ endedAt # None => now[a] <= endedAt

LEMMA TimesInit == Init => Times
  BY NumbersAssumption DEF Init, Times

\* What an actor keeps or forgets is no newer than it was.
LEMMA TimesKept ==
  ASSUME TypeOK, Times, NEW a \in Actors, UNCHANGED <<clock, endedAt>>,
         now' \in {now, [now EXCEPT ![a] = 0]}, effect' \in {effect, [effect EXCEPT ![a] = 0]},
         live' \in {live, [live EXCEPT ![a] = FALSE]}
  PROVE  Times'
  BY NumbersAssumption DEF TypeOK, Times

LEMMA TimesStep == TypeOK /\ Times /\ [Next]_vars => Times'
<1> SUFFICES ASSUME TypeOK, Times, [Next]_vars PROVE Times'
  OBVIOUS
<1> USE NumbersAssumption
<1>1. ASSUME NEW m \in Meters, BeatReads(m) PROVE Times'
  BY <1>1 DEF Times, BeatReads
<1>2. ASSUME NEW a \in Actors, Looks(a), UNCHANGED <<clock, endedAt, effect>> PROVE Times'
  <2> SUFFICES ASSUME NEW b \in Actors
      PROVE /\ now'[b] <= clock /\ effect[b] <= clock + Lead
            /\ live'[b] /\ endedAt # None => now'[b] <= endedAt
    BY <1>2 DEF Times
  <2>1. CASE b = a
    <3>1. now'[a] = clock BY <1>2 DEF TypeOK, Looks
    <3>2. live'[a] => endedAt = None BY <1>2 DEF TypeOK, Looks
    <3> QED BY <2>1, <3>1, <3>2 DEF TypeOK, Times
  <2>2. CASE b # a
    <3>1. now'[b] = now[b] BY <1>2, <2>2 DEF TypeOK, Looks
    <3>2. live'[b] = live[b] BY <1>2, <2>2 DEF TypeOK, Looks
    <3> QED BY <3>1, <3>2 DEF Times
  <2> QED BY <2>1, <2>2
<1>3. ASSUME NEW a \in Actors, Return(a), UNCHANGED <<clock, endedAt>> PROVE Times'
  BY <1>3, TimesKept DEF Return, Forget
<1>4. ASSUME NEW a \in Actors, NEW u, After(a, u), UNCHANGED <<clock, endedAt>> PROVE Times'
  <2>1. CASE Return(a) BY <1>4, <1>3, <2>1
  <2>2. CASE ~Return(a) BY <1>4, <2>2, TimesKept DEF After, Forget
  <2> QED BY <2>1, <2>2
<1>5. ASSUME NEW a \in Actors, Metering(a) PROVE Times'
  <2>1. CASE BeatLooks(a) BY <1>2, <2>1 DEF BeatLooks
  <2>2. CASE MeterReads(a) BY <1>2, <1>3, <2>2 DEF MeterReads
  <2>3. CASE Skips(a) \/ Credits(a) BY <1>4, <2>3 DEF Skips, Credits
  <2>4. CASE Claims(a) BY <2>4, TimesKept DEF Claims
  <2> QED BY <1>5, <2>1, <2>2, <2>3, <2>4 DEF Metering
<1>6. ASSUME NEW a \in Actors, Writing(a) \/ Dies(a) PROVE Times'
  BY <1>3, <1>6 DEF Writing, StopWrites, PauseWrites, ResumeWrites, Dies
<1>7. ASSUME NEW a \in Actors, MeterFails(a) PROVE Times'
  BY <1>7, TimesKept DEF MeterFails, Forget
<1>8. ASSUME NEW h \in Hosts, PauseReads(h) \/ ResumeReads(h) PROVE Times'
  BY <1>8 DEF TypeOK, Times, PauseReads, ResumeReads, Actors
<1>9. ASSUME NEW h \in Hosts, StopAsked(h) PROVE Times'
  BY <1>9 DEF Times, StopAsked
<1>10. CASE SpaceEnds BY <1>10 DEF TypeOK, Times, SpaceEnds, actor
<1>11. CASE Tick BY <1>11 DEF TypeOK, Times, Tick, actor
<1>12. CASE UNCHANGED vars BY <1>12 DEF Times, vars, actor
<1> QED
  BY <1>1, <1>5, <1>6, <1>7, <1>8, <1>9, <1>10, <1>11, <1>12 DEF Next

-----------------------------------------------------------------------------
(* lastMeteredAt, the metered time and the pauses.                         *)

\* Without a stale write, lastMeteredAt is the metered and the paused time; a
\* running take's is past, a paused one's is at least Lead before the pause.
Order ==
  races = {} =>
    /\ last = metered + pausedFor
    /\ pausedAt = None => last <= clock
    /\ pausedAt # None => last + Lead <= pausedAt /\ pausedAt <= clock + Lead

LEMMA OrderInit == Init => Order
  BY NumbersAssumption DEF Init, Order

LEMMA OrderStep == TypeOK /\ Resuming /\ Times /\ Order /\ [Next]_vars => Order'
<1> SUFFICES ASSUME TypeOK, Resuming, Times, Order, [Next]_vars PROVE Order'
  OBVIOUS
<1> USE NumbersAssumption
<1>1. ASSUME UNCHANGED <<clock, last, metered, pausedAt, pausedFor, races>> PROVE Order'
  BY <1>1 DEF Order
<1>2. ASSUME NEW a \in Actors, Claims(a) PROVE Order'
  <2>1. /\ now[a] \in Nat /\ last \in Nat /\ metered \in Nat /\ pausedFor \in Nat
        /\ clock \in Nat /\ pausedAt \in Nat \cup {None} /\ now[a] <= clock
    BY DEF TypeOK, Times
  <2>2. /\ last = seen[a].last /\ last < now[a]
        /\ last' = now[a] /\ metered' = metered + (now[a] - last)
        /\ UNCHANGED <<clock, pausedAt, pausedFor>>
    BY <1>2 DEF Claims, CanClaim, Creditable
  <2>3. races' = {} => races = {} /\ (pausedAt # None => now[a] + Lead <= pausedAt)
    BY <1>2 DEF Claims, Note
  <2> QED BY <2>1, <2>2, <2>3 DEF Order
<1>3. ASSUME NEW h \in Actors, PauseWrites(h) PROVE Order'
  <2>1. effect[h] \in Nat /\ effect[h] <= clock + Lead BY DEF TypeOK, Times
  <2>2. races' = {} => races = {} /\ (CanPause(h) => last + Lead <= effect[h])
    BY <1>3 DEF PauseWrites, Note
  <2>3. pausedAt' = IF CanPause(h) THEN effect[h] ELSE pausedAt
    BY <1>3 DEF PauseWrites
  <2>4. UNCHANGED <<clock, last, metered, pausedFor>> BY <1>3 DEF PauseWrites
  <2> QED BY <2>1, <2>2, <2>3, <2>4 DEF Order
<1>4. ASSUME NEW h \in Actors, ResumeWrites(h) PROVE Order'
  <2>1. CASE ~CanResume(h) BY <1>4, <2>1 DEF ResumeWrites, Note, Order
  <2>2. CASE CanResume(h)
    <3>1. /\ effect[h] \in Nat /\ effect[h] <= clock + Lead /\ clock \in Nat
          /\ last \in Nat /\ metered \in Nat /\ pausedFor \in Nat
      BY DEF TypeOK, Times
    <3>2. pausedAt \in Nat /\ pausedAt = seen[h].pausedAt
      BY <1>4, <2>2 DEF Resuming, ResumeWrites, CanResume
    <3>3. races' = {} => races = {} /\ last = seen[h].last
      BY <1>4, <2>2 DEF ResumeWrites, Note
    <3>4. /\ pausedAt' = None /\ UNCHANGED <<clock, metered>>
          /\ pausedFor' = pausedFor + PauseLength(h)
          /\ last' = seen[h].last + PauseLength(h)
      BY <1>4, <2>2 DEF ResumeWrites
    <3>5. CASE effect[h] < pausedAt
      BY <3>1, <3>2, <3>3, <3>4, <3>5 DEF Order, PauseLength
    <3>6. CASE ~(effect[h] < pausedAt)
      BY <3>1, <3>2, <3>3, <3>4, <3>6 DEF Order, PauseLength
    <3> QED BY <3>5, <3>6
  <2> QED BY <2>1, <2>2
<1>5. CASE Tick BY <1>5 DEF TypeOK, Order, Tick, session
<1>6. ASSUME NEW a \in Actors, Metering(a) \/ Writing(a) \/ Dies(a) \/ MeterFails(a)
      PROVE Order'
  BY <1>1, <1>2, <1>3, <1>4, <1>6
  DEF Metering, Writing, BeatLooks, MeterReads, Skips, Credits, StopWrites, Dies,
      MeterFails, session
<1>7. ASSUME NEW a, BeatReads(a) \/ PauseReads(a) \/ ResumeReads(a) \/ StopAsked(a)
      PROVE Order'
  BY <1>1, <1>7 DEF BeatReads, PauseReads, ResumeReads, StopAsked, session
<1>8. CASE SpaceEnds BY <1>1, <1>8 DEF SpaceEnds, session
<1>9. CASE UNCHANGED vars BY <1>1, <1>9 DEF vars, session
<1> QED BY <1>5, <1>6, <1>7, <1>8, <1>9 DEF Next

MeterInv == TypeOK /\ Resuming /\ Times /\ Order

LEMMA MeterInvariant == Spec => []MeterInv
<1>1. Init => MeterInv BY MeterTypeInit, TimesInit, OrderInit DEF MeterInv
<1>2. MeterInv /\ [Next]_vars => MeterInv'
  BY MeterTypeStep, ResumingStep, TimesStep, OrderStep DEF MeterInv
<1> QED BY <1>1, <1>2, PTL DEF Spec

\* However many heartbeats, hosts and crashes: unless a write rests on a stale
\* read, the metered and the paused time never exceed the age of the take.
THEOREM TakeNeverOverbilled == Spec => []NeverOverbilled
<1>1. MeterInv => NeverOverbilled
  <2> SUFFICES ASSUME MeterInv, races = {} PROVE metered + pausedFor + Pausing <= clock
    BY DEF NeverOverbilled
  <2>1. /\ clock \in Nat /\ metered \in Nat /\ pausedFor \in Nat /\ last \in Nat
        /\ pausedAt \in Nat \cup {None} /\ Lead \in Nat
    BY NumbersAssumption DEF MeterInv, TypeOK
  <2>2. CASE pausedAt = None BY <2>1, <2>2 DEF MeterInv, Order, Pausing
  <2>3. CASE pausedAt # None BY <2>1, <2>3 DEF MeterInv, Order, Pausing
  <2> QED BY <2>2, <2>3
<1> QED BY <1>1, MeterInvariant, PTL

\* Whatever races: no claim reaches past the end of the space.
THEOREM OrphanNotCharged == Spec => OrphanIsFree
<1> DEFINE Free == metered' > metered /\ endedAt # None => last' <= endedAt
<1>1. MeterInv /\ [Next]_vars => [Free]_vars
  <2> SUFFICES ASSUME MeterInv, Next PROVE Free
    OBVIOUS
  <2>1. metered \in Nat BY DEF MeterInv, TypeOK
  <2>2. ASSUME NEW a \in Actors, Claims(a) PROVE Free
    BY <2>2 DEF MeterInv, Times, Claims, CanClaim, Creditable
  <2>3. ASSUME metered' = metered PROVE Free
    BY <2>1, <2>3
  <2>4. ASSUME NEW a \in Actors, Metering(a) \/ Writing(a) \/ Dies(a) \/ MeterFails(a)
        PROVE Free
    BY <2>2, <2>3, <2>4
    DEF Metering, Writing, BeatLooks, MeterReads, Skips, Credits, StopWrites, PauseWrites,
        ResumeWrites, Dies, MeterFails, session
  <2>5. ASSUME NEW a, BeatReads(a) \/ PauseReads(a) \/ ResumeReads(a) \/ StopAsked(a)
        PROVE Free
    BY <2>3, <2>5 DEF BeatReads, PauseReads, ResumeReads, StopAsked, session
  <2>6. CASE SpaceEnds \/ Tick BY <2>3, <2>6 DEF SpaceEnds, Tick, session
  <2> QED BY <2>4, <2>5, <2>6 DEF Next
<1> QED BY <1>1, MeterInvariant, PTL DEF Spec, OrphanIsFree

-----------------------------------------------------------------------------
(* What has been claimed and not yet credited, summed over the actors.  The *)
(* sum is that of a list with every actor that owes something in it once.  *)

Listed(d, total, n, e, p) ==
  /\ \A i \in 1 .. n : \A j \in 1 .. n : e[i] = e[j] => i = j
  /\ \A a \in Actors : d[a] # 0 => \E i \in 1 .. n : e[i] = a
  /\ p[0] = 0 /\ \A i \in 1 .. n : p[i] = p[i - 1] + d[e[i]]
  /\ p[n] = total

SumsTo(d, total) ==
  \E n \in Nat : \E e \in [1 .. n -> Actors], p \in [0 .. n -> Int] : Listed(d, total, n, e, p)

\* If something goes wrong along a list, it goes wrong at a first place.
LEMMA FirstPlace ==
  ASSUME NEW S \in SUBSET Nat, S # {}
  PROVE  \E i \in S : \A j \in S : i <= j
<1>1. \E x \in S : \A y \in S : ~ (<<y, x>> \in OpToRel(<, Nat))
  BY NatLessThanWellFounded, WFMin, Zenon
<1>2. PICK x \in S : \A y \in S : ~(y < x) BY <1>1 DEF OpToRel
<1> QED BY <1>2

LEMMA NothingSumsToZero ==
  ASSUME NEW d \in [Actors -> Nat], \A a \in Actors : d[a] = 0
  PROVE  SumsTo(d, 0)
<1> DEFINE e == [i \in 1 .. 0 |-> Sweep]
           p == [i \in 0 .. 0 |-> 0]
<1>1. e \in [1 .. 0 -> Actors] /\ p \in [0 .. 0 -> Int] /\ p[0] = 0 OBVIOUS
<1>2. 1 .. 0 = {} OBVIOUS
<1> HIDE DEF e, p
<1>3. Listed(d, 0, 0, e, p) BY <1>1, <1>2 DEF Listed
<1> QED BY <1>1, <1>3 DEF SumsTo

\* A sum of natural numbers is one, and that of zeros is zero.
LEMMA SumIsNatural ==
  ASSUME NEW d \in [Actors -> Nat], NEW total, SumsTo(d, total)
  PROVE  total \in Nat /\ ((\A a \in Actors : d[a] = 0) => total = 0)
<1>1. PICK n \in Nat : \E e \in [1 .. n -> Actors], p \in [0 .. n -> Int] :
        Listed(d, total, n, e, p)
  BY DEF SumsTo
<1>0. PICK e \in [1 .. n -> Actors], p \in [0 .. n -> Int] : Listed(d, total, n, e, p) BY <1>1
<1>2. /\ p[0] = 0 /\ \A i \in 1 .. n : p[i] = p[i - 1] + d[e[i]]
      /\ p[n] = total
  BY <1>0 DEF Listed
<1> DEFINE Good(i) == p[i] >= 0 /\ ((\A a \in Actors : d[a] = 0) => p[i] = 0)
           Bad == {i \in 0 .. n : ~Good(i)}
<1>3. Bad = {}
  <2> SUFFICES ASSUME Bad # {} PROVE FALSE OBVIOUS
  <2>1. Bad \in SUBSET Nat OBVIOUS
  <2>2. PICK i \in Bad : \A j \in Bad : i <= j BY <2>1, FirstPlace
  <2>3. i \in 1 .. n BY <1>2
  <2>4. i - 1 \in 0 .. n /\ ~(i <= i - 1) BY <2>3
  <2>5. Good(i - 1) BY <2>2, <2>4
  <2>6. e[i] \in Actors BY <2>3
  <2>7. p[i] = p[i - 1] + d[e[i]] /\ d[e[i]] \in Nat /\ p[i - 1] \in Int BY <1>2, <2>3, <2>4, <2>6
  <2>8. Good(i) BY <2>5, <2>6, <2>7
  <2> QED BY <2>8
<1>4. n \in 0 .. n OBVIOUS
<1>5. Good(n) /\ p[n] \in Int BY <1>3, <1>4
<1> QED BY <1>2, <1>5

\* A sum follows what one actor owes.
LEMMA SumFollows ==
  ASSUME NEW d \in [Actors -> Nat], NEW total \in Int, SumsTo(d, total),
         NEW a \in Actors, NEW v \in Nat
  PROVE  SumsTo([d EXCEPT ![a] = v], total + v - d[a])
<1>1. PICK n \in Nat : \E e \in [1 .. n -> Actors], p \in [0 .. n -> Int] :
        Listed(d, total, n, e, p)
  BY DEF SumsTo
<1>0. PICK e \in [1 .. n -> Actors], p \in [0 .. n -> Int] : Listed(d, total, n, e, p) BY <1>1
<1>2. /\ \A i \in 1 .. n : \A j \in 1 .. n : e[i] = e[j] => i = j
      /\ \A b \in Actors : d[b] # 0 => \E i \in 1 .. n : e[i] = b
      /\ p[0] = 0 /\ \A i \in 1 .. n : p[i] = p[i - 1] + d[e[i]]
      /\ p[n] = total
  BY <1>0 DEF Listed
<1> DEFINE c == [d EXCEPT ![a] = v]
<1>3. c \in [Actors -> Nat] /\ c[a] = v /\ \A b \in Actors \ {a} : c[b] = d[b] OBVIOUS
<1>4. d[a] \in Nat OBVIOUS
<1> HIDE DEF c
\* It is in the list: all sums from its place on change.
<1>5. CASE \E k \in 1 .. n : e[k] = a
  <2>1. PICK k \in 1 .. n : e[k] = a BY <1>5
  <2> DEFINE q == [i \in 0 .. n |-> IF k <= i THEN p[i] + v - d[a] ELSE p[i]]
  <2>2. q \in [0 .. n -> Int] BY <1>4
  <2>3. q[0] = 0 BY <1>2, <2>1
  <2>4. ASSUME NEW i \in 1 .. n PROVE q[i] = q[i - 1] + c[e[i]]
    <3>0. /\ i - 1 \in 0 .. n /\ i \in 0 .. n /\ p[i] \in Int /\ p[i - 1] \in Int
          /\ p[i] = p[i - 1] + d[e[i]] /\ e[i] \in Actors /\ d[e[i]] \in Nat /\ k \in Nat
      BY <1>2, <2>4
    <3>1. CASE i = k
      <4>1. q[i] = p[i] + v - d[a] /\ q[i - 1] = p[i - 1] BY <3>0, <3>1
      <4>2. c[e[i]] = v /\ d[e[i]] = d[a] BY <2>1, <3>1, <1>3
      <4> HIDE DEF q
      <4> QED BY <3>0, <4>1, <4>2, <1>4
    <3>2. CASE i # k
      <4>1. e[i] # a BY <1>2, <2>1, <3>2
      <4>2. c[e[i]] = d[e[i]] BY <4>1, <3>0, <1>3
      <4>3. CASE i < k
        <5>1. q[i] = p[i] /\ q[i - 1] = p[i - 1] BY <3>0, <4>3
        <5> QED BY <3>0, <4>2, <5>1
      <4>4. CASE k < i
        <5>1. q[i] = p[i] + v - d[a] /\ q[i - 1] = p[i - 1] + v - d[a] BY <3>0, <4>4
        <5> HIDE DEF q
        <5> QED BY <3>0, <4>2, <5>1, <1>4
      <4> QED BY <3>0, <3>2, <4>3, <4>4
    <3> QED BY <3>1, <3>2
  <2>5. q[n] = total + v - d[a] BY <1>2, <2>1
  <2>6. \A b \in Actors : c[b] # 0 => \E i \in 1 .. n : e[i] = b BY <1>2, <1>3, <2>1
  <2> HIDE DEF q
  <2>7. Listed(c, total + v - d[a], n, e, q) BY <1>2, <2>3, <2>4, <2>5, <2>6 DEF Listed
  <2>8. SumsTo(c, total + v - d[a]) BY <2>2, <2>7 DEF SumsTo
  <2> QED BY <2>8 DEF c
\* It is not: it owed nothing, and is added to the list.
<1>6. CASE \A k \in 1 .. n : e[k] # a
  <2>1. d[a] = 0 BY <1>2, <1>6
  <2> DEFINE f == [i \in 1 .. (n + 1) |-> IF i = n + 1 THEN a ELSE e[i]]
             q == [i \in 0 .. (n + 1) |-> IF i = n + 1 THEN total + v ELSE p[i]]
  <2>2. f \in [1 .. (n + 1) -> Actors] /\ q \in [0 .. (n + 1) -> Int] OBVIOUS
  <2>3. f[n + 1] = a /\ \A i \in 1 .. n : f[i] = e[i] /\ i \in 1 .. (n + 1) OBVIOUS
  <2>4. q[n + 1] = total + v /\ \A i \in 0 .. n : q[i] = p[i] OBVIOUS
  <2>5. \A i \in 1 .. (n + 1) : i = n + 1 \/ i \in 1 .. n OBVIOUS
  <2>6. n + 1 \in Nat /\ n + 1 \in 1 .. (n + 1) /\ n \in 0 .. n /\ 0 \in 0 .. n OBVIOUS
  <2> HIDE DEF f, q
  <2>7. \A i \in 1 .. (n + 1) : \A j \in 1 .. (n + 1) : f[i] = f[j] => i = j
    <3> SUFFICES ASSUME NEW i \in 1 .. (n + 1), NEW j \in 1 .. (n + 1), f[i] = f[j] PROVE i = j
      OBVIOUS
    <3>1. CASE i \in 1 .. n /\ j \in 1 .. n BY <3>1, <1>2, <2>3
    <3>2. CASE i = n + 1 /\ j \in 1 .. n BY <3>2, <1>6, <2>3
    <3>3. CASE j = n + 1 /\ i \in 1 .. n BY <3>3, <1>6, <2>3
    <3> QED BY <2>5, <3>1, <3>2, <3>3
  <2>8. \A b \in Actors : c[b] # 0 => \E i \in 1 .. (n + 1) : f[i] = b
    <3> SUFFICES ASSUME NEW b \in Actors, c[b] # 0 PROVE \E i \in 1 .. (n + 1) : f[i] = b
      OBVIOUS
    <3>1. CASE b = a BY <3>1, <2>3, <2>6
    <3>2. CASE b # a
      <4>1. PICK i \in 1 .. n : e[i] = b BY <3>2, <1>2, <1>3
      <4> QED BY <4>1, <2>3
    <3> QED BY <3>1, <3>2
  <2>9. ASSUME NEW i \in 1 .. (n + 1) PROVE q[i] = q[i - 1] + c[f[i]]
    <3>1. CASE i = n + 1
      <4>1. i - 1 = n BY <3>1
      <4>2. q[i] = total + v /\ q[i - 1] = total /\ c[f[i]] = v
        BY <3>1, <4>1, <1>2, <1>3, <2>3, <2>4, <2>6
      <4> QED BY <4>2
    <3>2. CASE i \in 1 .. n
      <4>1. i \in 0 .. n /\ i - 1 \in 0 .. n BY <3>2
      <4>2. q[i] = p[i] /\ q[i - 1] = p[i - 1] /\ f[i] = e[i] BY <3>2, <4>1, <2>3, <2>4
      <4>3. e[i] \in Actors /\ e[i] # a BY <3>2, <1>6
      <4>4. c[f[i]] = d[e[i]] BY <4>2, <4>3, <1>3
      <4> QED BY <3>2, <4>2, <4>4, <1>2
    <3> QED BY <3>1, <3>2, <2>5
  <2>10. q[0] = 0 BY <2>4, <2>6, <1>2
  <2>11. Listed(c, total + v, n + 1, f, q) BY <2>4, <2>7, <2>8, <2>9, <2>10 DEF Listed
  <2>12. SumsTo(c, total + v) BY <2>2, <2>6, <2>11 DEF SumsTo
  <2>13. total + v - d[a] = total + v BY <2>1
  <2> QED BY <2>12, <2>13 DEF c
<1> QED BY <1>5, <1>6

\* What is claimed is credited, lost, or owed by an actor at its credit.
Ledger ==
  /\ \A a \in Actors : at[a] # "credit" => delta[a] = 0
  /\ SumsTo(delta, metered - used - lost)

LEMMA LedgerInit == Init => Ledger
<1> SUFFICES ASSUME Init PROVE Ledger OBVIOUS
<1>1. delta \in [Actors -> Nat] /\ \A a \in Actors : delta[a] = 0 BY DEF Init
<1>2. metered - used - lost = 0 BY DEF Init
<1>3. SumsTo(delta, 0) BY <1>1, NothingSumsToZero
<1> QED BY <1>1, <1>2, <1>3 DEF Ledger

\* A step that changes what one actor owes, and the books with it.
LEMMA LedgerChange ==
  ASSUME TypeOK, Ledger, NEW a \in Actors, NEW v \in Nat, NEW phase,
         delta' = [delta EXCEPT ![a] = v], at' = [at EXCEPT ![a] = phase],
         phase # "credit" => v = 0,
         metered' - used' - lost' = metered - used - lost + v - delta[a]
  PROVE  Ledger'
<1>1. /\ delta \in [Actors -> Nat] /\ metered - used - lost \in Int
      /\ SumsTo(delta, metered - used - lost)
  BY DEF TypeOK, Ledger
<1>2. SumsTo([delta EXCEPT ![a] = v], metered - used - lost + v - delta[a]) BY <1>1, SumFollows
<1>3. SumsTo(delta', metered' - used' - lost') BY <1>2
<1>4. \A b \in Actors : at'[b] # "credit" => delta'[b] = 0
  <2>1. ASSUME NEW b \in Actors, at'[b] # "credit" PROVE delta'[b] = 0
    <3>1. CASE b = a BY <2>1, <3>1 DEF TypeOK
    <3>2. CASE b # a BY <2>1, <3>2 DEF TypeOK, Ledger
    <3> QED BY <3>1, <3>2
  <2> QED BY <2>1
<1> QED BY <1>3, <1>4 DEF Ledger

\* An actor that owes nothing goes on, or forgets.
LEMMA LedgerKept ==
  ASSUME TypeOK, Ledger, NEW a \in Actors, NEW phase, phase # "credit",
         at' = [at EXCEPT ![a] = phase],
         delta' \in {delta, [delta EXCEPT ![a] = 0]}, at[a] # "credit",
         UNCHANGED <<metered, used, lost>>
  PROVE  Ledger'
<1>1. delta[a] = 0 /\ delta \in [Actors -> Nat] BY DEF Ledger, TypeOK
<1>2. delta' = [delta EXCEPT ![a] = 0] BY <1>1
<1>3. metered \in Nat /\ used \in Nat /\ lost \in Nat BY DEF TypeOK
<1>4. metered' - used' - lost' = metered - used - lost + 0 - delta[a] BY <1>1, <1>3
<1> QED BY <1>2, <1>4, LedgerChange

\* An actor at its credit is done with it: what it owed is credited or lost.
LEMMA LedgerSettled ==
  ASSUME TypeOK, Ledger, NEW a \in Actors, NEW phase, phase # "credit",
         at' = [at EXCEPT ![a] = phase], delta' = [delta EXCEPT ![a] = 0],
         metered' = metered, used' + lost' = used + lost + delta[a],
         used' \in Nat, lost' \in Nat
  PROVE  Ledger'
<1>1. metered \in Nat /\ used \in Nat /\ lost \in Nat /\ delta[a] \in Nat BY DEF TypeOK
<1>2. metered' - used' - lost' = metered - used - lost + 0 - delta[a] BY <1>1
<1> QED BY <1>2, LedgerChange

LEMMA LedgerStep == TypeOK /\ Ledger /\ [Next]_vars => Ledger'
<1> SUFFICES ASSUME TypeOK, Ledger, [Next]_vars PROVE Ledger'
  OBVIOUS
<1> USE DEF session, actor, Go, Forget, Return
<1>n. Meters \subseteq Actors /\ Hosts \subseteq Actors BY DEF Actors
\* Where an actor is after its meter.
<1>a. ASSUME NEW a, NEW u, After(a, u)
      PROVE  /\ delta' = [delta EXCEPT ![a] = 0]
             /\ \E phase \in {"write", "ask", "idle"} : at' = [at EXCEPT ![a] = phase]
  BY <1>a DEF After
<1>1. ASSUME NEW m \in Meters, BeatReads(m) PROVE Ledger'
  <2>1. PICK phase \in {"ask", "look"} : at' = [at EXCEPT ![m] = phase] BY <1>1 DEF BeatReads
  <2>2. at[m] # "credit" /\ UNCHANGED <<delta, metered, used, lost>> BY <1>1 DEF BeatReads
  <2> QED BY <2>1, <2>2, <1>n, LedgerKept
<1>2. ASSUME NEW a \in Actors, BeatLooks(a) PROVE Ledger'
  <2>1. /\ at' = [at EXCEPT ![a] = "claim"] /\ at[a] # "credit"
        /\ UNCHANGED <<delta, metered, used, lost>>
    BY <1>2 DEF BeatLooks, Looks
  <2> QED BY <2>1, LedgerKept
<1>3. ASSUME NEW a \in Actors, MeterReads(a) PROVE Ledger'
  <2>1. PICK phase \in {"idle", "claim"} : at' = [at EXCEPT ![a] = phase]
    BY <1>3 DEF MeterReads, Looks
  <2>2. /\ at[a] # "credit" /\ UNCHANGED <<metered, used, lost>>
        /\ delta' \in {delta, [delta EXCEPT ![a] = 0]}
    BY <1>3 DEF MeterReads
  <2> QED BY <2>1, <2>2, LedgerKept
<1>4. ASSUME NEW a \in Actors, Skips(a) PROVE Ledger'
  <2>1. After(a, used) /\ at[a] # "credit" /\ UNCHANGED <<metered, used, lost>> BY <1>4 DEF Skips
  <2>2. PICK phase \in {"write", "ask", "idle"} : at' = [at EXCEPT ![a] = phase] BY <2>1, <1>a
  <2> QED BY <2>1, <2>2, <1>a, LedgerKept
<1>5. ASSUME NEW a \in Actors, Claims(a) PROVE Ledger'
  <2> DEFINE d == now[a] - seen[a].last
  <2>1. /\ at' = [at EXCEPT ![a] = "credit"] /\ at[a] = "claim"
        /\ delta' = [delta EXCEPT ![a] = d] /\ metered' = metered + d
        /\ UNCHANGED <<used, lost>> /\ seen[a].last < now[a]
    BY <1>5 DEF Claims, CanClaim, Creditable
  <2>2. now[a] \in Nat /\ seen[a].last \in Nat BY DEF TypeOK
  <2>3. d \in Nat BY <2>1, <2>2
  <2>4. delta[a] = 0 BY <2>1 DEF Ledger
  <2>5. metered \in Nat /\ used \in Nat /\ lost \in Nat BY DEF TypeOK
  <2> HIDE DEF d
  <2>6. metered' - used' - lost' = metered - used - lost + d - delta[a]
    BY <2>1, <2>3, <2>4, <2>5
  <2> QED BY <2>1, <2>3, <2>6, LedgerChange
<1>6. ASSUME NEW a \in Actors, Credits(a) PROVE Ledger'
  <2>1. After(a, used') /\ UNCHANGED <<metered, lost>> /\ used' = used + delta[a]
    BY <1>6 DEF Credits
  <2>2. PICK phase \in {"write", "ask", "idle"} : at' = [at EXCEPT ![a] = phase] BY <2>1, <1>a
  <2>3. used \in Nat /\ lost \in Nat /\ delta[a] \in Nat BY DEF TypeOK
  <2>4. used' \in Nat /\ lost' \in Nat /\ used' + lost' = used + lost + delta[a] BY <2>1, <2>3
  <2> QED BY <2>1, <2>2, <2>4, <1>a, LedgerSettled
<1>7. ASSUME NEW a \in Actors, Writing(a) PROVE Ledger'
  <2>1. /\ at[a] # "credit" /\ UNCHANGED <<metered, used, lost>>
        /\ at' = [at EXCEPT ![a] = "idle"] /\ delta' = [delta EXCEPT ![a] = 0]
    BY <1>7 DEF Writing, StopWrites, PauseWrites, ResumeWrites
  <2> QED BY <2>1, LedgerKept
<1>8. ASSUME NEW a \in Actors, Dies(a) \/ MeterFails(a) PROVE Ledger'
  <2>1. PICK phase \in {"idle", "write"} : at' = [at EXCEPT ![a] = phase]
    BY <1>8 DEF Dies, MeterFails
  <2>2. /\ delta' = [delta EXCEPT ![a] = 0] /\ lost' = lost + delta[a]
        /\ UNCHANGED <<metered, used>>
    BY <1>8 DEF Dies, MeterFails
  <2>3. used \in Nat /\ lost \in Nat /\ delta[a] \in Nat BY DEF TypeOK
  <2>4. used' \in Nat /\ lost' \in Nat /\ used' + lost' = used + lost + delta[a] BY <2>2, <2>3
  <2> QED BY <2>1, <2>2, <2>4, LedgerSettled
<1>9. ASSUME NEW h \in Hosts, PauseReads(h) \/ ResumeReads(h) \/ StopAsked(h) PROVE Ledger'
  <2>1. PICK phase \in {"ask", "write"} : at' = [at EXCEPT ![h] = phase]
    BY <1>9 DEF PauseReads, ResumeReads, StopAsked
  <2>2. at[h] # "credit" /\ UNCHANGED <<delta, metered, used, lost>>
    BY <1>9 DEF PauseReads, ResumeReads, StopAsked
  <2> QED BY <2>1, <2>2, <1>n, LedgerKept
<1>10. CASE SpaceEnds \/ Tick \/ UNCHANGED vars
  BY <1>10 DEF Ledger, SpaceEnds, Tick, vars
<1> QED
  BY <1>1, <1>2, <1>3, <1>4, <1>5, <1>6, <1>7, <1>8, <1>9, <1>10 DEF Next, Metering

\* However many callers meter, pause, stop and die between their two writes: the
\* owner's period is never ahead of what the take has claimed, and when nobody is
\* at work they agree, but for what was lost with a request that died.
THEOREM BooksAlwaysAgree == Spec => []BooksAgree
<1>1. TypeOK /\ Ledger => BooksAgree
  <2> SUFFICES ASSUME TypeOK, Ledger PROVE BooksAgree OBVIOUS
  <2>1. delta \in [Actors -> Nat] /\ metered \in Nat /\ used \in Nat /\ lost \in Nat
    BY DEF TypeOK
  <2>2. /\ metered - used - lost \in Nat
        /\ (\A a \in Actors : delta[a] = 0) => metered - used - lost = 0
    BY <2>1, SumIsNatural DEF Ledger
  <2>3. (\A a \in Actors : at[a] = "idle") => \A a \in Actors : delta[a] = 0 BY DEF Ledger
  <2> QED BY <2>1, <2>2, <2>3 DEF BooksAgree
<1>2. Init => TypeOK /\ Resuming /\ Ledger BY MeterTypeInit, LedgerInit
<1>3. TypeOK /\ Resuming /\ Ledger /\ [Next]_vars => TypeOK' /\ Resuming' /\ Ledger'
  BY MeterTypeStep, ResumingStep, LedgerStep
<1> QED BY <1>1, <1>2, <1>3, PTL DEF Spec

=============================================================================
