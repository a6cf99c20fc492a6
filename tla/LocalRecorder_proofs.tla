------------------------ MODULE LocalRecorder_proofs ------------------------
(***************************************************************************)
(* At rest exactly what should be recorded is, for any tracks, codecs,      *)
(* retries, errors and pauses.  The invariant has three parts.  PartsInv:   *)
(* all parts but the current one were told to stop, and only the current    *)
(* one records.  FailInv: a part that an operation asks to replace is gone. *)
(* CurrentInv: if the current part is dead or its recorder failed, then     *)
(* something that is under way replaces it, or its retries are used up.     *)
(***************************************************************************)
EXTENDS LocalRecorder, Integers, TLAPS

\* All the tracks a stream can have.
AllTracks == Mics \cup Blacks \cup Cameras \cup {NoCamera}

\* What a part, and an operation of the chain, looks like.
PartSet ==
  [tracks : SUBSET AllTracks, ladder : SUBSET (1..Codecs), codec : {0} \cup (0..Codecs),
   recorder : {"none", "recording", "paused", "stopping", "inactive"},
   data : BOOLEAN, error : BOOLEAN, stopped : BOOLEAN, dead : BOOLEAN]

OpSet ==
  [kind : {"set"}, stream : SUBSET AllTracks] \cup [kind : {"resume", "stop"}]
    \cup [kind : {"fail", "retry"}, part : Nat]

RecorderType ==
  /\ activeRef \in BOOLEAN /\ pausedRef \in BOOLEAN /\ gaveUp \in BOOLEAN
  /\ video \in Cameras \cup {NoCamera} /\ lastStream \subseteq AllTracks
  /\ fatalRetries \in Nat /\ timers \in Seq(Nat)
  /\ parts \in Seq(PartSet) /\ partRef \in 0..Len(parts)
  /\ chain \in Seq(OpSet)
  /\ doing \in {Idle} \cup [at : {"starting"}, tracks : (SUBSET AllTracks) \ {{}}]
                \cup [at : {"stopping"}, old : Nat, next : Nat]
  /\ doing.at = "stopping" =>
       /\ doing.old \in 1..Len(parts) /\ doing.next \in 0..Len(parts)
       /\ doing.old # doing.next /\ doing.old # partRef

\* Only the current part is not told to stop, and while no fallback went astray only it
\* records, unless it is dead or the take is paused.
PartsInv ==
  \A p \in DOMAIN parts :
    /\ parts[p].stopped <=> p # partRef
    /\ parts[p].recorder = "stopping" => parts[p].stopped
    /\ parts[p].error => parts[p].recorder = "inactive"
    /\ astray = {} /\ parts[p].recorder = "recording" =>
         p = partRef /\ ~parts[p].dead /\ ~(activeRef /\ pausedRef)

\* An operation waits on the chain (for part p).
Asked(kind) == \E i \in DOMAIN chain : chain[i].kind = kind
AskedFor(kind, p) == \E i \in DOMAIN chain : chain[i].kind = kind /\ chain[i].part = p

\* What replaces the current part if it is dead, or the reason why nothing does.
Revived ==
  \/ gaveUp \/ pausedRef \/ Asked("resume") \/ AskedFor("retry", partRef)
  \/ \E i \in DOMAIN timers : timers[i] = partRef
  \/ doing.at = "starting"
  \/ doing.at = "stopping" /\ doing.next = partRef

\* A take that is over has stopped its part, or will.  The current part has tracks; if
\* it is dead it is revived, if it is paused the take is, and if its recorder failed
\* this was seen, or will be.
CurrentInv ==
  /\ ~activeRef => partRef = 0 \/ Asked("stop")
  /\ partRef # 0 =>
       /\ parts[partRef].tracks # {}
       /\ gaveUp \/ parts[partRef].recorder = "none" => parts[partRef].dead
       /\ activeRef =>
            /\ parts[partRef].dead => Revived
            /\ parts[partRef].recorder = "paused" => parts[partRef].dead \/ pausedRef
            /\ parts[partRef].recorder = "inactive" =>
                 parts[partRef].dead \/ parts[partRef].error \/ AskedFor("fail", partRef)
\* What changing one field of a part leaves alone.
LEMMA ChangedRecorder ==
  ASSUME NEW q \in PartSet, NEW r \in {"none", "recording", "paused", "stopping", "inactive"},
         NEW n, n = [q EXCEPT !.recorder = r]
  PROVE  /\ n \in PartSet /\ n.recorder = r
         /\ n.tracks = q.tracks /\ n.stopped = q.stopped /\ n.error = q.error
         /\ n.dead = q.dead
  BY DEF PartSet

LEMMA KilledPart ==
  ASSUME NEW q \in PartSet, NEW n, n = [q EXCEPT !.dead = TRUE]
  PROVE  /\ n \in PartSet /\ n.dead
         /\ n.tracks = q.tracks /\ n.stopped = q.stopped /\ n.error = q.error
         /\ n.recorder = q.recorder
  BY DEF PartSet

\* What telling a part to stop does.
LEMMA SwappedPart ==
  ASSUME NEW given \in Seq(PartSet), NEW p \in 0..Len(given),
         \A q \in DOMAIN given : given[q].error => given[q].recorder = "inactive"
  PROVE  /\ StopIn(given, p) \in Seq(PartSet)
         /\ Len(StopIn(given, p)) = Len(given) /\ DOMAIN StopIn(given, p) = DOMAIN given
         /\ \A q \in DOMAIN given : q # p => StopIn(given, p)[q] = given[q]
         /\ p # 0 => /\ StopIn(given, p)[p].stopped
                     /\ StopIn(given, p)[p].recorder \in {"stopping", "inactive"}
                     /\ StopIn(given, p)[p].error =>
                          StopIn(given, p)[p].recorder = "inactive"
<1> DEFINE new == StopIn(given, p)
<1>1. DOMAIN new = DOMAIN given /\ \A q \in DOMAIN given : q # p => new[q] = given[q]
  BY DEF StopIn
<1>2. ASSUME p # 0
      PROVE  /\ new[p] \in PartSet /\ new[p].stopped
             /\ new[p].recorder \in {"stopping", "inactive"}
             /\ new[p].error => new[p].recorder = "inactive"
  <2>1. p \in DOMAIN given /\ given[p] \in PartSet BY <1>2
  <2>2. CASE Runs(given[p])
    <3>1. new[p] = [given[p] EXCEPT !.stopped = TRUE, !.recorder = "stopping"]
      BY <2>1, <2>2 DEF StopIn
    <3>2. ~given[p].error BY <2>1, <2>2 DEF Runs
    <3> QED BY <2>1, <3>1, <3>2 DEF PartSet
  <2>3. CASE ~Runs(given[p]) /\ given[p].error
    <3>1. new[p] = [given[p] EXCEPT !.stopped = TRUE] BY <2>1, <2>3 DEF StopIn
    <3> QED BY <2>1, <2>3, <3>1 DEF PartSet
  <2>4. CASE ~Runs(given[p]) /\ ~given[p].error
    <3>1. new[p] = Ended BY <2>1, <2>4 DEF StopIn
    <3> QED BY <3>1 DEF Ended, PartSet
  <2> QED BY <2>2, <2>3, <2>4
<1>3. \A q \in 1..Len(given) : new[q] \in PartSet BY <1>1, <1>2
<1>4. new = [q \in 1..Len(given) |-> new[q]] BY <1>1 DEF StopIn
<1>5. new \in Seq(PartSet) BY <1>3, <1>4
<1>6. Len(new) = Len(given) BY <1>4, <1>5, <1>1
<1> QED BY <1>1, <1>2, <1>5, <1>6

RecInv == RecorderType /\ PartsInv /\ CurrentInv

\* What the chain asks for after its head is taken off, or an operation is added.
LEMMA TailAsks ==
  ASSUME chain \in Seq(OpSet), chain # <<>>, chain' = Tail(chain)
  PROVE  /\ chain' \in Seq(OpSet) /\ Head(chain) \in OpSet
         /\ \A k : Asked(k) => Head(chain).kind = k \/ Asked(k)'
         /\ \A k, p : AskedFor(k, p) =>
              (Head(chain).kind = k /\ Head(chain).part = p) \/ AskedFor(k, p)'
<1>1. \A i \in DOMAIN chain : chain[i] = Head(chain) \/
        (i - 1 \in DOMAIN chain' /\ chain'[i - 1] = chain[i])
  OBVIOUS
<1>2. chain' \in Seq(OpSet) /\ Head(chain) \in OpSet OBVIOUS
<1> QED BY <1>1, <1>2 DEF Asked, AskedFor

LEMMA AppendAsks ==
  ASSUME chain \in Seq(OpSet), NEW op \in OpSet, chain' = Append(chain, op)
  PROVE  /\ chain' \in Seq(OpSet)
         /\ \A k : Asked(k) => Asked(k)'
         /\ \A k, p : AskedFor(k, p) => AskedFor(k, p)'
         /\ Asked(op.kind)' /\ AskedFor(op.kind, op.part)'
<1>1. \A i \in DOMAIN chain : i \in DOMAIN chain' /\ chain'[i] = chain[i] OBVIOUS
<1>2. Len(chain') \in DOMAIN chain' /\ chain'[Len(chain')] = op OBVIOUS
<1>3. chain' \in Seq(OpSet) OBVIOUS
<1> QED BY <1>1, <1>2, <1>3 DEF Asked, AskedFor

\* An operation that replaces the part, up to its first await.
LEMMA ReplaceKeeps ==
  ASSUME RecInv, NEW stream \in SUBSET AllTracks, NEW given \in Seq(PartSet),
         doing = Idle, chain # <<>>, chain' = Tail(chain), Head(chain).kind # "stop",
         Len(given) = Len(parts),
         \A p \in DOMAIN given :
           /\ given[p].stopped <=> p # partRef
           /\ given[p].recorder = "stopping" => given[p].stopped
           /\ given[p].error => given[p].recorder = "inactive"
           /\ astray = {} /\ given[p].recorder = "recording" =>
                p = partRef /\ ~given[p].dead /\ ~(activeRef /\ pausedRef),
         partRef # 0 =>
           /\ given[partRef].tracks # {}
           /\ gaveUp \/ given[partRef].recorder = "none" => given[partRef].dead
           /\ activeRef =>
                /\ given[partRef].recorder = "paused" => given[partRef].dead \/ pausedRef
                /\ given[partRef].recorder = "inactive" =>
                     \/ given[partRef].dead \/ given[partRef].error
                     \/ \E i \in DOMAIN chain' :
                          chain'[i].kind = "fail" /\ chain'[i].part = partRef,
         Replace(stream, given), UNCHANGED <<sourceVars, refVars, astray>>
  PROVE  RecInv'
<1> DEFINE ongoing == stream \ over
           same == partRef # 0 /\ given[partRef].tracks = ongoing
           dead == partRef # 0 /\ given[partRef].dead
           on   == activeRef /\ ~pausedRef
           keep == same /\ (~dead \/ fatalRetries >= MaxRetries)
<1> USE DEF RecInv
<1>1. /\ chain' \in Seq(OpSet)
      /\ \A k : Asked(k) => Head(chain).kind = k \/ Asked(k)'
  BY TailAsks DEF RecorderType
<1>2. ~activeRef => partRef = 0 \/ Asked("stop")' BY <1>1 DEF CurrentInv
<1>3. /\ fatalRetries' = IF on /\ ~same THEN 0 ELSE fatalRetries
      /\ gaveUp' = IF on THEN keep /\ dead ELSE gaveUp
      /\ timers' = timers
  BY DEF Replace
<1>4. /\ fatalRetries' \in Nat /\ gaveUp' \in BOOLEAN /\ timers' \in Seq(Nat)
      /\ activeRef' \in BOOLEAN /\ pausedRef' \in BOOLEAN
      /\ video' \in Cameras \cup {NoCamera} /\ lastStream' \subseteq AllTracks
  BY <1>3 DEF RecorderType, sourceVars, refVars
<1>5. UNCHANGED <<activeRef, pausedRef, astray>> BY DEF refVars
<1>6. CASE ~on \/ keep
  <2>1. doing' = Idle /\ parts' = given /\ partRef' = partRef BY <1>6 DEF Replace
  <2>2. RecorderType' BY <1>1, <1>4, <2>1 DEF RecorderType, Idle
  <2>3. PartsInv' BY <1>5, <2>1 DEF PartsInv
  <2>4. partRef # 0 /\ gaveUp' => given[partRef].dead BY <1>3
  <2>5. partRef # 0 /\ activeRef /\ given[partRef].dead => Revived'
    <3>1. CASE on
      <4> SUFFICES ASSUME partRef # 0, given[partRef].dead PROVE gaveUp'
        BY DEF Revived
      <4>1. gaveUp' = (keep /\ dead) BY <1>3, <3>1
      <4> QED BY <1>6, <3>1, <4>1
    <3>2. CASE ~on BY <1>5, <3>2 DEF Revived
    <3> QED BY <3>1, <3>2
  <2> QED BY <1>2, <1>5, <2>1, <2>2, <2>3, <2>4, <2>5 DEF CurrentInv, AskedFor
<1>7. CASE on /\ ~keep /\ ongoing # {}
  <2>1. doing' = [at |-> "starting", tracks |-> ongoing] /\ parts' = given /\ partRef' = partRef
    BY <1>7 DEF Replace
  <2>2. ongoing \in (SUBSET AllTracks) \ {{}} BY <1>7
  <2>3. RecorderType' BY <1>1, <1>4, <2>1, <2>2 DEF RecorderType
  <2>4. PartsInv' BY <1>5, <2>1 DEF PartsInv
  <2>5. ~gaveUp' BY <1>3, <1>7
  <2>6. Revived' BY <2>1 DEF Revived
  <2> QED BY <1>2, <1>5, <2>1, <2>3, <2>4, <2>5, <2>6 DEF CurrentInv, AskedFor
<1>8. CASE on /\ ~keep /\ ongoing = {}
  <2>1. doing' = Await(given, partRef, 0) /\ parts' = StopIn(given, partRef) /\ partRef' = 0
    BY <1>8 DEF Replace
  <2>2. partRef \in 0..Len(given) BY DEF RecorderType
  <2>3. /\ parts' \in Seq(PartSet) /\ Len(parts') = Len(given) /\ DOMAIN parts' = DOMAIN given
        /\ \A q \in DOMAIN given : q # partRef => parts'[q] = given[q]
        /\ partRef # 0 => /\ parts'[partRef].stopped
                          /\ parts'[partRef].recorder \in {"stopping", "inactive"}
                          /\ parts'[partRef].error => parts'[partRef].recorder = "inactive"
    BY <2>1, <2>2, SwappedPart
  <2>4. \/ doing' = Idle
        \/ partRef # 0 /\ doing' = [at |-> "stopping", old |-> partRef, next |-> 0]
    BY <2>1 DEF Await
  <2>5. RecorderType' BY <1>1, <1>4, <2>1, <2>2, <2>3, <2>4 DEF RecorderType, Idle
  <2>6. PartsInv' BY <1>5, <2>1, <2>3 DEF PartsInv
  <2> QED BY <2>1, <2>5, <2>6 DEF CurrentInv
<1> QED BY <1>6, <1>7, <1>8

\* After a refused retry the take has given up; otherwise a timer is due.
LEMMA RetryFacts ==
  ASSUME MaxRetries \in Nat, fatalRetries \in Nat, timers \in Seq(Nat), gaveUp \in BOOLEAN,
         NEW p \in Nat, NEW current \in Nat, Retry(p, current)
  PROVE  /\ fatalRetries' \in Nat /\ timers' \in Seq(Nat) /\ gaveUp' \in BOOLEAN
         /\ \A q \in Nat : (\E i \in DOMAIN timers : timers[i] = q)
                      => (\E i \in DOMAIN timers' : timers'[i] = q)
         /\ p = current => gaveUp' \/ \E i \in DOMAIN timers' : timers'[i] = p
         /\ p # current => gaveUp' = gaveUp
<1>1. CASE p # current BY <1>1 DEF Retry
<1>2. CASE p = current /\ fatalRetries < MaxRetries
  <2>1. fatalRetries' = fatalRetries + 1 /\ timers' = Append(timers, p) /\ ~gaveUp'
        /\ gaveUp' \in BOOLEAN
    BY <1>2 DEF Retry
  <2>2. \A i \in DOMAIN timers : i \in DOMAIN timers' /\ timers'[i] = timers[i] BY <2>1
  <2>3. Len(timers') \in DOMAIN timers' /\ timers'[Len(timers')] = p BY <2>1
  <2> QED BY <1>2, <2>1, <2>2, <2>3
<1>3. CASE p = current /\ ~(fatalRetries < MaxRetries) BY <1>3 DEF Retry
<1> QED BY <1>1, <1>2, <1>3

\* Part `next`, or none, takes the place of the current one.
LEMMA SwapKeeps ==
  ASSUME MaxRetries \in Nat, RecInv, NEW given \in Seq(PartSet), NEW next \in 0..Len(given),
         partRef \in 0..Len(given), next # 0 => next # partRef /\ activeRef,
         \A q \in DOMAIN given :
           /\ given[q].stopped <=> q # partRef /\ q # next
           /\ given[q].recorder = "stopping" => given[q].stopped
           /\ given[q].error => given[q].recorder = "inactive"
           /\ astray = {} /\ given[q].recorder = "recording" =>
                (q = partRef \/ q = next) /\ ~given[q].dead /\ ~(activeRef /\ pausedRef),
         next # 0 =>
           /\ given[next].tracks # {}
           /\ given[next].recorder = "none" => given[next].dead
           /\ given[next].recorder = "paused" => pausedRef
           /\ given[next].recorder # "inactive",
         chain' \in Seq(OpSet),
         Swap(next, given), UNCHANGED <<sourceVars, refVars, astray>>
  PROVE  RecInv'
<1> USE DEF RecInv
<1>1. /\ partRef' = next /\ parts' = StopIn(given, partRef)
      /\ doing' = Await(given, partRef, next)
  BY DEF Swap
<1>2. /\ parts' \in Seq(PartSet) /\ Len(parts') = Len(given) /\ DOMAIN parts' = DOMAIN given
      /\ \A q \in DOMAIN given : q # partRef => parts'[q] = given[q]
      /\ partRef # 0 => /\ parts'[partRef].stopped
                        /\ parts'[partRef].recorder \in {"stopping", "inactive"}
                        /\ parts'[partRef].error => parts'[partRef].recorder = "inactive"
  BY <1>1, SwappedPart
<1>3. next # 0 => next \in DOMAIN given /\ parts'[next] = given[next] BY <1>2
<1>4. UNCHANGED <<activeRef, pausedRef, astray, video, lastStream>> BY DEF sourceVars, refVars
<1>5. \/ doing' = Idle
      \/ partRef # 0 /\ doing' = [at |-> "stopping", old |-> partRef, next |-> next]
  BY <1>1 DEF Await
<1>6. /\ fatalRetries' \in Nat /\ timers' \in Seq(Nat) /\ gaveUp' \in BOOLEAN
      /\ next # 0 /\ gaveUp' => given[next].dead
      /\ next # 0 /\ given[next].dead =>
           \/ gaveUp' \/ doing' # Idle
           \/ \E i \in DOMAIN timers' : timers'[i] = next
  <2> USE DEF RecorderType
  <2>1. CASE doing' = Idle /\ next # 0 /\ given[next].dead
    <3>1. Retry(next, next) BY <2>1 DEF Swap
    <3> QED BY <2>1, <3>1, RetryFacts
  <2>2. CASE ~(doing' = Idle /\ next # 0 /\ given[next].dead)
    <3>1. gaveUp' = FALSE /\ UNCHANGED <<fatalRetries, timers>> BY <2>2 DEF Swap
    <3> QED BY <2>2, <3>1
  <2> QED BY <2>1, <2>2
<1>7. RecorderType'
  <2>1. Idle.at # "stopping" BY DEF Idle
  <2>2. doing'.at = "stopping" =>
           /\ doing'.old \in 1..Len(parts') /\ doing'.next \in 0..Len(parts')
           /\ doing'.old # doing'.next /\ doing'.old # partRef'
    BY <1>1, <1>2, <1>5, <2>1
  <2>3. doing' \in {Idle} \cup [at : {"stopping"}, old : Nat, next : Nat] BY <1>5
  <2> QED BY <1>1, <1>2, <1>4, <1>6, <2>2, <2>3 DEF RecorderType
<1>8. PartsInv'
  <2>1. partRef # 0 => partRef \in DOMAIN given OBVIOUS
  <2> QED BY <1>1, <1>2, <1>4, <2>1 DEF PartsInv
<1>9. next # 0 /\ given[next].dead => Revived'
  BY <1>1, <1>5, <1>6 DEF Revived
<1> QED BY <1>1, <1>3, <1>4, <1>6, <1>7, <1>8, <1>9 DEF CurrentInv

LEMMA SameLength ==
  ASSUME NEW s \in Seq(PartSet), NEW t, t = [p \in DOMAIN s |-> t[p]],
         \A p \in DOMAIN s : t[p] \in PartSet
  PROVE  t \in Seq(PartSet) /\ Len(t) = Len(s)
<1>1. t = [p \in 1..Len(s) |-> t[p]] OBVIOUS
<1>2. \A p \in 1..Len(s) : t[p] \in PartSet OBVIOUS
<1> QED BY <1>1, <1>2

LEMMA TailNumbers ==
  ASSUME NEW s \in Seq(Nat), s # <<>>
  PROVE  /\ Tail(s) \in Seq(Nat)
         /\ \A i \in DOMAIN s :
              s[i] = Head(s) \/ (i - 1 \in DOMAIN Tail(s) /\ Tail(s)[i - 1] = s[i])
  OBVIOUS

LEMMA CallSteps ==
  ASSUME RecInv, CameraChanges \/ SyncSources PROVE RecInv'
<1> USE DEF RecInv
<1>1. CASE CameraChanges
  <2>1. /\ video' \in Cameras \cup {NoCamera}
        /\ UNCHANGED <<activeRef, pausedRef, lastStream, partRef, fatalRetries, parts, chain,
                       doing, timers, astray, gaveUp>>
    BY <1>1 DEF CameraChanges, refVars, workVars
  <2>2. RecorderType' BY <2>1 DEF RecorderType
  <2>3. PartsInv' BY <2>1 DEF PartsInv
  <2>4. CurrentInv' BY <2>1 DEF CurrentInv, Revived, Asked, AskedFor
  <2> QED BY <2>2, <2>3, <2>4
<1>2. CASE SyncSources
  <2> DEFINE op == [kind |-> "set", stream |-> Source]
  <2>1. Source \subseteq AllTracks BY DEF RecorderType, Source, AllTracks
  <2>2. op \in OpSet BY <2>1 DEF OpSet
  <2>3. /\ lastStream' = Source /\ chain' = Append(chain, op)
        /\ UNCHANGED <<video, activeRef, pausedRef, partRef, fatalRetries, parts, doing, timers,
                       astray, gaveUp>>
    BY <1>2 DEF SyncSources, sourceVars
  <2>4. chain' \in Seq(OpSet) /\ (\A k : Asked(k) => Asked(k)')
        /\ (\A k, p : AskedFor(k, p) => AskedFor(k, p)')
    BY <2>2, <2>3, AppendAsks DEF RecorderType
  <2>5. RecorderType' BY <2>1, <2>3, <2>4 DEF RecorderType
  <2>6. PartsInv' BY <2>3 DEF PartsInv
  <2>7. Revived => Revived' BY <2>3, <2>4 DEF Revived
  <2>8. CurrentInv' BY <2>3, <2>4, <2>7 DEF CurrentInv
  <2> QED BY <2>5, <2>6, <2>8
<1> QED BY <1>1, <1>2

LEMMA PauseSteps ==
  ASSUME RecInv, Pause \/ (\E rotate \in BOOLEAN : Resume(rotate)) PROVE RecInv'
<1> USE DEF RecInv
<1>1. CASE Pause
  <2>1. /\ pausedRef' = TRUE
        /\ UNCHANGED <<video, activeRef, lastStream, partRef, fatalRetries, chain, doing, timers,
                       astray, gaveUp>>
    BY <1>1 DEF Pause, sourceVars
  <2>2. /\ DOMAIN parts' = DOMAIN parts
        /\ \A p \in DOMAIN parts :
             \/ /\ p = partRef /\ ~parts[p].dead /\ parts[p].recorder = "recording"
                /\ parts'[p] = [parts[p] EXCEPT !.recorder = "paused"]
             \/ /\ ~(p = partRef /\ ~parts[p].dead /\ parts[p].recorder = "recording")
                /\ parts'[p] = parts[p]
    BY <1>1 DEF Pause
  <2>3. \A p \in DOMAIN parts :
          /\ parts[p] \in PartSet /\ parts'[p] \in PartSet
          /\ parts'[p].tracks = parts[p].tracks /\ parts'[p].stopped = parts[p].stopped
          /\ parts'[p].error = parts[p].error /\ parts'[p].dead = parts[p].dead
          /\ \/ parts'[p].recorder = parts[p].recorder
             \/ parts'[p].recorder = "paused" /\ parts[p].recorder = "recording"
          /\ p = partRef /\ ~parts[p].dead => parts'[p].recorder # "recording"
    <3> SUFFICES ASSUME NEW p \in DOMAIN parts PROVE <2>3!(p)
      OBVIOUS
    <3>1. parts[p] \in PartSet BY DEF RecorderType
    <3>2. CASE p = partRef /\ ~parts[p].dead /\ parts[p].recorder = "recording"
      BY <2>2, <3>1, <3>2, ChangedRecorder
    <3>3. CASE ~(p = partRef /\ ~parts[p].dead /\ parts[p].recorder = "recording")
      BY <2>2, <3>1, <3>3
    <3> QED BY <3>2, <3>3
  <2>4. parts' = [p \in DOMAIN parts |-> parts'[p]] BY <1>1, <2>2 DEF Pause
  <2>5. parts' \in Seq(PartSet) /\ Len(parts') = Len(parts)
    <3>1. parts \in Seq(PartSet) BY DEF RecorderType
    <3>2. \A p \in DOMAIN parts : parts'[p] \in PartSet BY <2>3
    <3> QED BY <2>4, <3>1, <3>2, SameLength
  <2>6. RecorderType' BY <2>1, <2>5 DEF RecorderType
  <2>7. PartsInv' BY <2>1, <2>2, <2>3 DEF PartsInv
  <2>8. Revived' BY <2>1 DEF Revived
  <2>9. partRef # 0 => partRef \in DOMAIN parts BY DEF RecorderType
  <2>10. activeRef' BY <1>1, <2>1 DEF Pause
  <2>11. \A k, p : AskedFor(k, p) => AskedFor(k, p)' BY <2>1 DEF AskedFor
  <2>12. CurrentInv' BY <2>1, <2>3, <2>8, <2>9, <2>10, <2>11 DEF CurrentInv
  <2> QED BY <2>6, <2>7, <2>12
<1>2. ASSUME NEW rotate \in BOOLEAN, Resume(rotate) PROVE RecInv'
  <2>1. /\ activeRef /\ pausedRef /\ pausedRef' = FALSE
        /\ chain' = Append(chain, [kind |-> "resume"])
        /\ UNCHANGED <<video, activeRef, lastStream, partRef, fatalRetries, doing, timers,
                       astray, gaveUp>>
    BY <1>2 DEF Resume, sourceVars
  <2>2. [kind |-> "resume"] \in OpSet BY DEF OpSet
  <2>3. chain' \in Seq(OpSet) /\ (\A k : Asked(k) => Asked(k)') /\ Asked("resume")'
        /\ (\A k, p : AskedFor(k, p) => AskedFor(k, p)')
    BY <2>1, <2>2, AppendAsks DEF RecorderType
  <2>4. /\ DOMAIN parts' = DOMAIN parts
        /\ \A p \in DOMAIN parts :
             parts'[p] =
               IF p = partRef /\ rotate THEN [parts[p] EXCEPT !.dead = TRUE]
               ELSE IF p = partRef /\ ~parts[p].dead /\ parts[p].recorder = "paused"
               THEN [parts[p] EXCEPT !.recorder = "recording"] ELSE parts[p]
    BY <1>2 DEF Resume
  <2>5. \A p \in DOMAIN parts :
          /\ parts[p] \in PartSet /\ parts'[p] \in PartSet
          /\ parts'[p].tracks = parts[p].tracks /\ parts'[p].stopped = parts[p].stopped
          /\ parts'[p].error = parts[p].error /\ (parts[p].dead => parts'[p].dead)
          /\ p # partRef => parts'[p] = parts[p]
          /\ \/ parts'[p].recorder = parts[p].recorder
             \/ /\ parts'[p].recorder = "recording" /\ parts[p].recorder = "paused"
                /\ p = partRef /\ ~parts'[p].dead
          /\ p = partRef /\ parts'[p].recorder = "paused" => parts'[p].dead
    <3> SUFFICES ASSUME NEW p \in DOMAIN parts PROVE <2>5!(p)
      OBVIOUS
    <3>1. parts[p] \in PartSet BY DEF RecorderType
    <3>2. CASE p = partRef /\ rotate
      <4>1. parts'[p] = [parts[p] EXCEPT !.dead = TRUE] BY <2>4, <3>2
      <4> QED BY <3>1, <3>2, <4>1, KilledPart
    <3>3. CASE ~(p = partRef /\ rotate) /\ p = partRef /\ ~parts[p].dead
               /\ parts[p].recorder = "paused"
      <4>1. parts'[p] = [parts[p] EXCEPT !.recorder = "recording"] BY <2>4, <3>3
      <4> QED BY <3>1, <3>3, <4>1, ChangedRecorder
    <3>4. CASE ~(p = partRef /\ rotate)
               /\ ~(p = partRef /\ ~parts[p].dead /\ parts[p].recorder = "paused")
      <4>1. parts'[p] = parts[p] BY <2>4, <3>4
      <4> QED BY <3>1, <3>4, <4>1
    <3> QED BY <3>2, <3>3, <3>4
  <2>6. parts' = [p \in DOMAIN parts |-> parts'[p]] BY <1>2, <2>4 DEF Resume
  <2>7. parts' \in Seq(PartSet) /\ Len(parts') = Len(parts)
    <3>1. parts \in Seq(PartSet) BY DEF RecorderType
    <3>2. \A p \in DOMAIN parts : parts'[p] \in PartSet BY <2>5
    <3> QED BY <2>6, <3>1, <3>2, SameLength
  <2>8. RecorderType' BY <2>1, <2>3, <2>7 DEF RecorderType
  <2>9. PartsInv' BY <2>1, <2>4, <2>5 DEF PartsInv
  <2>10. Revived' BY <2>3 DEF Revived
  <2>11. partRef # 0 => partRef \in DOMAIN parts BY DEF RecorderType
  <2>12. CurrentInv' BY <2>1, <2>3, <2>5, <2>10, <2>11 DEF CurrentInv
  <2> QED BY <2>8, <2>9, <2>12
<1> QED BY <1>1, <1>2

LEMMA EndSteps ==
  ASSUME RecInv, StopRecording \/ Unmount PROVE RecInv'
<1> USE DEF RecInv
<1>1. CASE StopRecording
  <2>1. /\ activeRef' = FALSE /\ chain' = Append(chain, [kind |-> "stop"])
        /\ UNCHANGED <<video, pausedRef, lastStream, partRef, fatalRetries, parts, doing, timers,
                       astray, gaveUp>>
    BY <1>1 DEF StopRecording, sourceVars
  <2>2. [kind |-> "stop"] \in OpSet BY DEF OpSet
  <2>3. chain' \in Seq(OpSet) /\ Asked("stop")'
    BY <2>1, <2>2, AppendAsks DEF RecorderType
  <2>4. RecorderType' BY <2>1, <2>3 DEF RecorderType
  <2>5. PartsInv' BY <2>1 DEF PartsInv
  <2>6. CurrentInv' BY <2>1, <2>3 DEF CurrentInv
  <2> QED BY <2>4, <2>5, <2>6
<1>2. CASE Unmount
  <2>1. /\ activeRef' = FALSE /\ partRef' = 0 /\ parts' = StopIn(parts, partRef)
        /\ UNCHANGED <<video, pausedRef, lastStream, fatalRetries, chain, doing, timers,
                       astray, gaveUp>>
    BY <1>2 DEF Unmount, sourceVars
  <2>2. /\ parts' \in Seq(PartSet) /\ Len(parts') = Len(parts) /\ DOMAIN parts' = DOMAIN parts
        /\ \A q \in DOMAIN parts : q # partRef => parts'[q] = parts[q]
        /\ partRef # 0 => /\ parts'[partRef].stopped
                          /\ parts'[partRef].recorder \in {"stopping", "inactive"}
                          /\ parts'[partRef].error => parts'[partRef].recorder = "inactive"
    BY <2>1, SwappedPart DEF RecorderType, PartsInv
  <2>3. RecorderType'
    <3>1. partRef' \in 0..Len(parts') /\ (doing'.at = "stopping" =>
            /\ doing'.old \in 1..Len(parts') /\ doing'.next \in 0..Len(parts')
            /\ doing'.old # doing'.next /\ doing'.old # partRef')
      BY <2>1, <2>2 DEF RecorderType
    <3> QED BY <2>1, <2>2, <3>1 DEF RecorderType
  <2>4. PartsInv'
    <3>1. \A q \in DOMAIN parts : q # 0 BY DEF RecorderType
    <3> QED BY <2>1, <2>2, <3>1 DEF PartsInv
  <2>5. CurrentInv' BY <2>1 DEF CurrentInv
  <2> QED BY <2>3, <2>4, <2>5
<1> QED BY <1>1, <1>2

\* The part an encoder's failure asks to replace records no more.
Gone(p) == p \in DOMAIN parts /\ parts[p].recorder = "inactive" /\ ~parts[p].error
FailInv == \A i \in DOMAIN chain : chain[i].kind = "fail" => Gone(chain[i].part)

LEMMA ReplaceAsIs ==
  ASSUME RecInv, NEW stream \in SUBSET AllTracks, doing = Idle, chain # <<>>, chain' = Tail(chain),
         Head(chain).kind \notin {"stop", "fail"},
         Replace(stream, parts), UNCHANGED <<sourceVars, refVars, astray>>
  PROVE  RecInv'
<1>1. \A p : AskedFor("fail", p) =>
        \E i \in DOMAIN chain' : chain'[i].kind = "fail" /\ chain'[i].part = p
  <2>1. \A k, p : AskedFor(k, p) =>
          (Head(chain).kind = k /\ Head(chain).part = p) \/ AskedFor(k, p)'
    BY TailAsks DEF RecInv, RecorderType
  <2>2. Head(chain).kind # "fail" OBVIOUS
  <2>3. \A p : AskedFor("fail", p) => AskedFor("fail", p)' BY <2>1, <2>2
  <2> QED BY <2>3 DEF AskedFor
<1>2. parts \in Seq(PartSet) BY DEF RecInv, RecorderType
<1>3. partRef # 0 =>
        /\ parts[partRef].tracks # {}
        /\ gaveUp \/ parts[partRef].recorder = "none" => parts[partRef].dead
        /\ activeRef =>
             /\ parts[partRef].recorder = "paused" => parts[partRef].dead \/ pausedRef
             /\ parts[partRef].recorder = "inactive" =>
                  \/ parts[partRef].dead \/ parts[partRef].error
                  \/ \E i \in DOMAIN chain' :
                       chain'[i].kind = "fail" /\ chain'[i].part = partRef
  BY <1>1 DEF RecInv, CurrentInv
<1> QED BY <1>2, <1>3, ReplaceKeeps DEF RecInv, PartsInv

\* An operation for a part that was replaced does nothing.
LEMMA DroppedKeeps ==
  ASSUME RecInv, doing = Idle, chain # <<>>, chain' = Tail(chain),
         Head(chain).kind \in {"fail", "retry"}, Stale, Dropped,
         UNCHANGED <<sourceVars, refVars, astray>>
  PROVE  RecInv'
<1> USE DEF RecInv
<1>1. /\ chain' \in Seq(OpSet)
      /\ \A k : Asked(k) => Head(chain).kind = k \/ Asked(k)'
      /\ \A k, p : AskedFor(k, p) =>
           (Head(chain).kind = k /\ Head(chain).part = p) \/ AskedFor(k, p)'
  BY TailAsks DEF RecorderType
<1>2. UNCHANGED <<activeRef, pausedRef, video, lastStream, astray, parts, partRef, fatalRetries,
                  timers, doing, gaveUp>>
  BY DEF Dropped, sourceVars, refVars
<1>3. activeRef => \A k : AskedFor(k, partRef) => AskedFor(k, partRef)' BY <1>1, <1>2 DEF Stale
<1>4. RecorderType' BY <1>1, <1>2 DEF RecorderType
<1>5. PartsInv' BY <1>2 DEF PartsInv
<1>6. activeRef /\ Revived => Revived' BY <1>1, <1>2, <1>3 DEF Revived
<1>7. CurrentInv' BY <1>1, <1>2, <1>3, <1>6 DEF CurrentInv
<1> QED BY <1>4, <1>5, <1>7

LEMMA OpSteps ==
  ASSUME MaxRetries \in Nat, RecInv, FailInv, RunOp PROVE RecInv'
<1>1. /\ chain' = Tail(chain) /\ chain # <<>> /\ doing = Idle
      /\ UNCHANGED <<sourceVars, refVars, astray>>
  BY DEF RunOp, Is, SetCombinedStream, ResumePart, RotateAfterFailure, RetryAfterFatal, StopPart
<1>2. Head(chain) \in OpSet /\ chain' \in Seq(OpSet) /\ Head(chain) = chain[1] /\ 1 \in DOMAIN chain
  BY <1>1 DEF RecInv, RecorderType
<1>3. lastStream \in SUBSET AllTracks /\ partRef \in Nat /\ parts \in Seq(PartSet)
      /\ (partRef # 0 => partRef \in DOMAIN parts /\ parts[partRef] \in PartSet)
      /\ partRef \in 0..Len(parts)
  BY DEF RecInv, RecorderType
<1>4. PartTracks \in SUBSET AllTracks BY <1>3 DEF PartTracks, PartSet
<1>5. CASE SetCombinedStream
  <2>1. Head(chain).kind = "set" /\ Replace(Head(chain).stream, parts)
    BY <1>5 DEF SetCombinedStream, Is
  <2>2. Head(chain).stream \in SUBSET AllTracks BY <1>2, <2>1 DEF OpSet
  <2> QED BY <1>1, <2>1, <2>2, ReplaceAsIs
<1>6. CASE ResumePart
  <2>1. Head(chain).kind = "resume" /\ Replace(lastStream, parts) BY <1>6 DEF ResumePart, Is
  <2> QED BY <1>1, <1>3, <2>1, ReplaceAsIs
<1>7. CASE RetryAfterFatal
  <2>1. Head(chain).kind = "retry" BY <1>7 DEF RetryAfterFatal, Is
  <2>2. CASE Stale /\ Dropped BY <1>1, <2>1, <2>2, DroppedKeeps
  <2>3. CASE Replace(IF lastStream = {} THEN PartTracks ELSE lastStream, parts)
    <3>1. (IF lastStream = {} THEN PartTracks ELSE lastStream) \in SUBSET AllTracks BY <1>3, <1>4
    <3> QED BY <1>1, <2>1, <2>3, <3>1, ReplaceAsIs
  <2> QED BY <1>7, <2>2, <2>3 DEF RetryAfterFatal
<1>8. CASE RotateAfterFailure
  <2>1. Head(chain).kind = "fail" BY <1>8 DEF RotateAfterFailure, Is
  <2>2. CASE Stale /\ Dropped BY <1>1, <2>1, <2>2, DroppedKeeps
  <2>3. CASE ~Stale /\ Replace(PartTracks, [parts EXCEPT ![partRef].dead = TRUE])
    <3> DEFINE given == [parts EXCEPT ![partRef].dead = TRUE]
    <3>1. partRef = Head(chain).part /\ activeRef BY <2>3 DEF Stale
    <3>2. partRef \in DOMAIN parts /\ parts[partRef].recorder = "inactive"
      BY <1>2, <2>1, <3>1 DEF FailInv, Gone
    <3>3. /\ DOMAIN given = DOMAIN parts
          /\ \A p \in DOMAIN parts : p # partRef => given[p] = parts[p]
          /\ given[partRef] = [parts[partRef] EXCEPT !.dead = TRUE]
      BY <3>2
    <3>4. /\ given[partRef] \in PartSet /\ given[partRef].dead
          /\ given[partRef].tracks = parts[partRef].tracks
          /\ given[partRef].stopped = parts[partRef].stopped
          /\ given[partRef].error = parts[partRef].error
          /\ given[partRef].recorder = "inactive"
      <4>1. parts[partRef] \in PartSet BY <1>3, <3>2
      <4> QED BY <3>2, <3>3, <4>1, KilledPart
    <3>5. given \in Seq(PartSet) /\ Len(given) = Len(parts)
      BY <1>3, <3>2, <3>3, <3>4
    <3>6. \A p \in DOMAIN given :
            /\ given[p].stopped <=> p # partRef
            /\ given[p].recorder = "stopping" => given[p].stopped
            /\ given[p].error => given[p].recorder = "inactive"
            /\ astray = {} /\ given[p].recorder = "recording" =>
                 p = partRef /\ ~given[p].dead /\ ~(activeRef /\ pausedRef)
      BY <3>2, <3>3, <3>4 DEF RecInv, PartsInv
    <3>7. given[partRef].tracks # {}
      <4>1. partRef # 0 BY <1>3, <3>2
      <4>2. parts[partRef].tracks # {} BY <4>1 DEF RecInv, CurrentInv
      <4> QED BY <3>4, <4>2
    <3>8. Replace(PartTracks, given) BY <2>3
    <3> HIDE DEF given
    <3> QED BY <1>1, <1>4, <2>1, <3>4, <3>5, <3>6, <3>7, <3>8, ReplaceKeeps
  <2> QED BY <1>8, <2>2, <2>3 DEF RotateAfterFailure
<1>9. CASE StopPart
  <2>1. Swap(0, parts) BY <1>9 DEF StopPart
  <2>2. 0 \in 0..Len(parts) BY <1>3
  <2>3. \A q \in DOMAIN parts : q # 0 BY <1>3
  <2>4. \A q \in DOMAIN parts :
          /\ parts[q].stopped <=> q # partRef /\ q # 0
          /\ parts[q].recorder = "stopping" => parts[q].stopped
          /\ parts[q].error => parts[q].recorder = "inactive"
          /\ astray = {} /\ parts[q].recorder = "recording" =>
               (q = partRef \/ q = 0) /\ ~parts[q].dead /\ ~(activeRef /\ pausedRef)
    BY <2>3 DEF RecInv, PartsInv
  <2> QED BY <1>1, <1>2, <1>3, <2>1, <2>2, <2>4, SwapKeeps
<1> QED BY <1>5, <1>6, <1>7, <1>8, <1>9 DEF RunOp

LEMMA StartSteps ==
  ASSUME MaxRetries \in Nat, RecInv, StartPart PROVE RecInv'
<1>1. /\ doing.at = "starting"
      /\ UNCHANGED <<sourceVars, refVars, chain, astray>>
      /\ parts \in Seq(PartSet) /\ partRef \in 0..Len(parts) /\ chain \in Seq(OpSet)
      /\ activeRef \in BOOLEAN /\ pausedRef \in BOOLEAN
  BY DEF StartPart, RecInv, RecorderType
<1> PICK c \in 0..Codecs :
      LET codecs == {k \in 1..Codecs : k = Codecs \/ k \notin failedMimes}
          fresh  == [tracks |-> doing.tracks, ladder |-> codecs, codec |-> c,
                     recorder |-> IF c = 0 THEN "none" ELSE StartedAs,
                     data |-> FALSE, error |-> FALSE, stopped |-> FALSE, dead |-> c = 0]
          next   == Len(parts) + 1
      IN IF activeRef THEN Swap(next, Append(parts, fresh))
         ELSE /\ parts' = StopIn(Append(parts, fresh), next)
              /\ doing' = Await(Append(parts, fresh), next, 0)
              /\ UNCHANGED <<partRef, fatalRetries, timers, gaveUp>>
  BY DEF StartPart
<1> DEFINE codecs == {k \in 1..Codecs : k = Codecs \/ k \notin failedMimes}
           fresh  == [tracks |-> doing.tracks, ladder |-> codecs, codec |-> c,
                      recorder |-> IF c = 0 THEN "none" ELSE StartedAs,
                      data |-> FALSE, error |-> FALSE, stopped |-> FALSE, dead |-> c = 0]
           next   == Len(parts) + 1
           given  == Append(parts, fresh)
<1>2. doing.tracks \in SUBSET AllTracks /\ doing.tracks # {}
  BY <1>1 DEF RecInv, RecorderType, Idle
<1>3. StartedAs \in {"recording", "paused"} /\ (StartedAs = "paused" => pausedRef)
      /\ (StartedAs = "recording" => ~(activeRef /\ pausedRef))
  BY DEF StartedAs
<1>4. /\ fresh \in PartSet /\ fresh.tracks # {} /\ ~fresh.stopped /\ ~fresh.error
      /\ fresh.recorder \in {"none", "recording", "paused"}
      /\ fresh.recorder = "none" => fresh.dead
      /\ fresh.recorder = "paused" => pausedRef
      /\ fresh.recorder = "recording" => ~fresh.dead /\ ~(activeRef /\ pausedRef)
  BY <1>2, <1>3 DEF PartSet
<1>5. /\ given \in Seq(PartSet) /\ Len(given) = next /\ given[next] = fresh
      /\ DOMAIN given = DOMAIN parts \cup {next} /\ next \notin DOMAIN parts
      /\ \A q \in DOMAIN parts : given[q] = parts[q]
      /\ next \in 0..Len(given) /\ partRef \in 0..Len(given) /\ next # partRef /\ next # 0
  <2> HIDE DEF fresh
  <2> QED BY <1>1, <1>4
<1> HIDE DEF fresh, given, next
<1>6. \A q \in DOMAIN given :
        /\ given[q].stopped <=> q # partRef /\ q # next
        /\ given[q].recorder = "stopping" => given[q].stopped
        /\ given[q].error => given[q].recorder = "inactive"
        /\ astray = {} /\ given[q].recorder = "recording" =>
             (q = partRef \/ q = next) /\ ~given[q].dead /\ ~(activeRef /\ pausedRef)
  BY <1>4, <1>5 DEF RecInv, PartsInv
<1>7. CASE activeRef
  <2>1. Swap(next, given) BY <1>7 DEF next, given, fresh
  <2>2. /\ given[next].tracks # {}
        /\ given[next].recorder = "none" => given[next].dead
        /\ given[next].recorder = "paused" => pausedRef
        /\ given[next].recorder # "inactive"
    BY <1>4, <1>5
  <2>3. chain' \in Seq(OpSet) BY <1>1
  <2> QED BY <1>1, <1>5, <1>6, <1>7, <2>1, <2>2, <2>3, SwapKeeps
<1>8. CASE ~activeRef
  <2> USE DEF RecInv
  <2>1. /\ parts' = StopIn(given, next) /\ doing' = Await(given, next, 0)
        /\ UNCHANGED <<partRef, fatalRetries, timers, gaveUp, activeRef, pausedRef, video,
                       lastStream, chain, astray>>
    BY <1>1, <1>8 DEF next, given, fresh, sourceVars, refVars
  <2>2. /\ parts' \in Seq(PartSet) /\ Len(parts') = Len(given) /\ DOMAIN parts' = DOMAIN given
        /\ \A q \in DOMAIN given : q # next => parts'[q] = given[q]
        /\ parts'[next].stopped
        /\ parts'[next].recorder \in {"stopping", "inactive"}
        /\ parts'[next].error => parts'[next].recorder = "inactive"
    BY <1>5, <1>6, <2>1, SwappedPart
  <2>3. doing' = Idle \/ doing' = [at |-> "stopping", old |-> next, next |-> 0]
    BY <2>1 DEF Await
  <2>4. /\ doing' \in {Idle} \cup [at : {"stopping"}, old : Nat, next : Nat]
        /\ doing'.at = "stopping" =>
             /\ doing'.old \in 1..Len(parts') /\ doing'.next \in 0..Len(parts')
             /\ doing'.old # doing'.next /\ doing'.old # partRef'
    <3>1. Idle.at # "stopping" BY DEF Idle
    <3>2. next \in Nat /\ next # 0 /\ next # partRef BY <1>1, <1>5
    <3>3. Len(parts') = next BY <1>5, <2>2
    <3> QED BY <2>1, <2>2, <2>3, <3>1, <3>2, <3>3
  <2>5. partRef' \in 0..Len(parts') BY <1>5, <2>1, <2>2
  <2>6. RecorderType' BY <2>1, <2>2, <2>4, <2>5 DEF RecorderType
  <2>7. PartsInv' BY <1>5, <1>6, <2>1, <2>2 DEF PartsInv
  <2>8. partRef # 0 => partRef \in DOMAIN parts BY <1>1
  <2>9. partRef # 0 => parts'[partRef] = parts[partRef] BY <1>5, <2>2, <2>8
  <2>10. Asked("stop")' = Asked("stop") BY <2>1 DEF Asked
  <2>11. CurrentInv' BY <1>8, <2>1, <2>9, <2>10 DEF CurrentInv
  <2> QED BY <2>6, <2>7, <2>11
<1> QED BY <1>1, <1>7, <1>8

LEMMA OldPartSteps ==
  ASSUME MaxRetries \in Nat, RecInv, OldPartStops PROVE RecInv'
<1> USE DEF RecInv
<1>1. /\ doing.at = "stopping" /\ doing' = Idle /\ parts' = [parts EXCEPT ![doing.old] = Ended]
      /\ UNCHANGED <<activeRef, pausedRef, video, lastStream, partRef, chain, astray>>
  BY DEF OldPartStops, sourceVars, refVars
<1>2. /\ doing.old \in DOMAIN parts /\ doing.next \in 0..Len(parts) /\ doing.next \in Nat
      /\ doing.old # doing.next /\ doing.old # partRef /\ parts \in Seq(PartSet)
      /\ partRef \in 0..Len(parts) /\ partRef \in Nat
  BY <1>1 DEF RecorderType
<1>3. Ended \in PartSet /\ Ended.stopped /\ Ended.recorder = "inactive" /\ ~Ended.error
  BY DEF Ended, PartSet
<1>4. /\ parts' \in Seq(PartSet) /\ Len(parts') = Len(parts) /\ DOMAIN parts' = DOMAIN parts
      /\ parts'[doing.old] = Ended /\ \A q \in DOMAIN parts : q # doing.old => parts'[q] = parts[q]
  <2> HIDE DEF RecInv
  <2> QED BY <1>1, <1>2, <1>3
<1>5. /\ fatalRetries' \in Nat /\ timers' \in Seq(Nat) /\ gaveUp' \in BOOLEAN
      /\ gaveUp' => gaveUp \/ parts[partRef].dead
      /\ (\E i \in DOMAIN timers : timers[i] = partRef)
           => (\E i \in DOMAIN timers' : timers'[i] = partRef)
      /\ partRef # 0 /\ doing.next = partRef /\ parts[partRef].dead =>
           gaveUp' \/ \E i \in DOMAIN timers' : timers'[i] = partRef
      /\ gaveUp => gaveUp' \/ doing.next = partRef
  <2> USE DEF RecorderType
  <2>1. CASE doing.next # 0 /\ parts[doing.next].dead
    <3>1. Retry(doing.next, partRef) BY <2>1 DEF OldPartStops
    <3> QED BY <1>2, <2>1, <3>1, RetryFacts
  <2>2. CASE ~(doing.next # 0 /\ parts[doing.next].dead)
    <3>1. UNCHANGED <<fatalRetries, timers, gaveUp>> BY <2>2 DEF OldPartStops
    <3> QED BY <2>2, <3>1
  <2> QED BY <2>1, <2>2
<1>6. RecorderType'
  <2>1. Idle.at # "stopping" BY DEF Idle
  <2> QED BY <1>1, <1>2, <1>4, <1>5, <2>1 DEF RecorderType
<1>7. PartsInv' BY <1>1, <1>2, <1>3, <1>4 DEF PartsInv
<1>8. partRef # 0 => parts'[partRef] = parts[partRef] BY <1>2, <1>4
<1>9. partRef # 0 /\ parts[partRef].dead /\ Revived => Revived'
  <2> SUFFICES ASSUME partRef # 0, parts[partRef].dead, Revived PROVE Revived'
    OBVIOUS
  <2>1. CASE doing.next = partRef BY <1>1, <1>5, <2>1 DEF Revived
  <2>2. CASE doing.next # partRef
    <3>1. Asked("resume") => Asked("resume")' BY <1>1 DEF Asked
    <3>2. AskedFor("retry", partRef) => AskedFor("retry", partRef)' BY <1>1 DEF AskedFor
    <3> QED BY <1>1, <1>5, <2>2, <3>1, <3>2 DEF Revived
  <2> QED BY <2>1, <2>2
<1>10. CurrentInv'
  <2>1. Asked("stop") => Asked("stop")' BY <1>1 DEF Asked
  <2>2. AskedFor("fail", partRef) => AskedFor("fail", partRef)' BY <1>1 DEF AskedFor
  <2> QED BY <1>1, <1>5, <1>8, <1>9, <2>1, <2>2 DEF CurrentInv
<1> QED BY <1>6, <1>7, <1>10

LEMMA TimerSteps ==
  ASSUME RecInv, RetryTimer PROVE RecInv'
<1> USE DEF RecInv
<1>0. timers # <<>> /\ Head(timers) \in Nat BY DEF RetryTimer, RecorderType
<1> PICK due \in Nat : due = Head(timers) BY <1>0
<1> DEFINE op == [kind |-> "retry", part |-> due]
<1>1. /\ timers # <<>> /\ timers' = Tail(timers) /\ chain' = Append(chain, op)
      /\ UNCHANGED <<video, activeRef, pausedRef, lastStream, partRef, fatalRetries, parts, doing,
                     astray, gaveUp>>
  BY DEF RetryTimer, sourceVars, refVars
<1>2. timers' \in Seq(Nat)
      /\ \A i \in DOMAIN timers : timers[i] = due \/
           (i - 1 \in DOMAIN timers' /\ timers'[i - 1] = timers[i])
  <2>1. timers \in Seq(Nat) BY DEF RecorderType
  <2> QED BY <1>1, <2>1, TailNumbers
<1>3. op \in OpSet BY DEF OpSet
<1>4. chain' \in Seq(OpSet) /\ (\A k : Asked(k) => Asked(k)')
      /\ (\A k, p : AskedFor(k, p) => AskedFor(k, p)') /\ AskedFor("retry", due)'
  BY <1>1, <1>3, AppendAsks DEF RecorderType
<1>5. RecorderType' BY <1>1, <1>2, <1>4 DEF RecorderType
<1>6. PartsInv' BY <1>1 DEF PartsInv
<1>7. Revived => Revived'
  <2>1. (\E i \in DOMAIN timers : timers[i] = partRef) =>
          partRef = due \/ \E i \in DOMAIN timers' : timers'[i] = partRef
    BY <1>2
  <2>2. partRef = due => AskedFor("retry", partRef)' BY <1>1, <1>4 DEF AskedFor
  <2> QED BY <1>1, <1>4, <2>1, <2>2 DEF Revived
<1>8. CurrentInv' BY <1>1, <1>4, <1>7 DEF CurrentInv
<1> QED BY <1>5, <1>6, <1>8

\* Something happens to one recorder.
LEMMA OnePartChanges ==
  ASSUME RecInv, NEW p \in DOMAIN parts, NEW q \in PartSet, parts' = [parts EXCEPT ![p] = q],
         UNCHANGED <<sourceVars, refVars, partRef, doing>>,
         fatalRetries' \in Nat, timers' \in Seq(Nat), gaveUp' \in BOOLEAN, chain' \in Seq(OpSet),
         q.stopped = parts[p].stopped, q.recorder = "stopping" => q.stopped,
         q.error => q.recorder = "inactive",
         astray' = {} => astray = {},
         astray' = {} /\ q.recorder = "recording" =>
           p = partRef /\ ~q.dead /\ ~(activeRef /\ pausedRef),
         \A k : Asked(k) => Asked(k)',
         \A k, n : AskedFor(k, n) => AskedFor(k, n)',
         p # partRef => UNCHANGED <<timers, gaveUp>>,
         p = partRef =>
           /\ q.tracks = parts[p].tracks
           /\ gaveUp' \/ q.recorder = "none" => q.dead
           /\ activeRef =>
                /\ q.dead => Revived'
                /\ q.recorder = "paused" => q.dead \/ pausedRef
                /\ q.recorder = "inactive" => q.dead \/ q.error \/ AskedFor("fail", partRef)'
  PROVE  RecInv'
<1> USE DEF RecInv
<1>1. parts \in Seq(PartSet) /\ partRef \in 0..Len(parts) BY DEF RecorderType
<1>2. /\ parts' \in Seq(PartSet) /\ Len(parts') = Len(parts) /\ DOMAIN parts' = DOMAIN parts
      /\ parts'[p] = q /\ \A r \in DOMAIN parts : r # p => parts'[r] = parts[r]
  <2> HIDE DEF RecInv
  <2> QED BY <1>1
<1>3. UNCHANGED <<video, activeRef, pausedRef, lastStream>> BY DEF sourceVars, refVars
<1>4. RecorderType' BY <1>2, <1>3 DEF RecorderType
<1>5. PartsInv' BY <1>2, <1>3 DEF PartsInv
<1>6. CASE p = partRef
  <2>1. partRef # 0 /\ parts'[partRef] = q BY <1>1, <1>2, <1>6
  <2>2. parts[partRef].tracks # {} BY <2>1 DEF CurrentInv
  <2> QED BY <1>3, <1>4, <1>5, <1>6, <2>1, <2>2 DEF CurrentInv
<1>7. CASE p # partRef
  <2>1. partRef # 0 => parts'[partRef] = parts[partRef] BY <1>1, <1>2, <1>7
  <2>2. Revived => Revived' BY <1>3, <1>7 DEF Revived
  <2>3. AskedFor("fail", partRef) => AskedFor("fail", partRef)'
    <3>1. partRef' = partRef OBVIOUS
    <3> QED BY <3>1
  <2>4. CurrentInv' BY <1>3, <1>7, <2>1, <2>2, <2>3 DEF CurrentInv
  <2> QED BY <1>4, <1>5, <2>4
<1> QED BY <1>6, <1>7

LEMMA RecorderSteps ==
  ASSUME MaxRetries \in Nat, RecInv, NEW p \in DOMAIN parts,
         FirstData(p) \/ EncoderFails(p) \/ FailsMidSession(p) \/ FailsBeforeData(p)
  PROVE  RecInv'
<1>1. /\ parts[p] \in PartSet /\ chain \in Seq(OpSet) /\ p \in Nat /\ partRef \in Nat
      /\ gaveUp \in BOOLEAN /\ fatalRetries \in Nat /\ timers \in Seq(Nat)
      /\ activeRef \in BOOLEAN /\ pausedRef \in BOOLEAN
  BY DEF RecInv, RecorderType
<1>2. /\ parts[p].stopped <=> p # partRef
      /\ parts[p].recorder = "stopping" => parts[p].stopped
      /\ parts[p].error => parts[p].recorder = "inactive"
      /\ astray = {} /\ parts[p].recorder = "recording" =>
           p = partRef /\ ~parts[p].dead /\ ~(activeRef /\ pausedRef)
      /\ p = partRef =>
           /\ gaveUp => parts[p].dead
           /\ parts[p].recorder = "none" => parts[p].dead
           /\ activeRef =>
                /\ parts[p].dead => Revived
                /\ parts[p].recorder = "paused" => parts[p].dead \/ pausedRef
                /\ parts[p].recorder = "inactive" =>
                     parts[p].dead \/ parts[p].error \/ AskedFor("fail", p)
  <2>1. p # 0 BY <1>1 DEF RecInv, RecorderType
  <2> QED BY <2>1 DEF RecInv, PartsInv, CurrentInv
<1>3. chain' = chain => (\A k : Asked(k) => Asked(k)') /\ (\A k, n : AskedFor(k, n) => AskedFor(k, n)')
  BY DEF Asked, AskedFor
<1>4. CASE FirstData(p)
  <2> DEFINE q == [parts[p] EXCEPT !.data = TRUE]
  <2>1. /\ parts' = [parts EXCEPT ![p] = q] /\ fatalRetries' = 0 /\ parts[p].recorder # "inactive"
        /\ UNCHANGED <<sourceVars, refVars, partRef, chain, doing, timers, astray, gaveUp>>
    BY <1>4 DEF FirstData
  <2>2. /\ q \in PartSet /\ q.stopped = parts[p].stopped /\ q.error = parts[p].error
        /\ q.recorder = parts[p].recorder /\ q.dead = parts[p].dead /\ q.tracks = parts[p].tracks
    BY <1>1 DEF PartSet
  <2>3. Revived => Revived' BY <1>3, <2>1 DEF Revived, refVars
  <2> HIDE DEF q
  <2> QED BY <1>1, <1>2, <1>3, <2>1, <2>2, <2>3, OnePartChanges
<1>5. CASE EncoderFails(p)
  <2> DEFINE q == [parts[p] EXCEPT !.recorder = "inactive", !.error = TRUE]
  <2>1. /\ parts' = [parts EXCEPT ![p] = q]
        /\ UNCHANGED <<sourceVars, refVars, partRef, fatalRetries, chain, doing, timers, astray,
                       gaveUp>>
        /\ parts[p].recorder # "none"
    BY <1>5 DEF EncoderFails
  <2>2. /\ q \in PartSet /\ q.stopped = parts[p].stopped /\ q.error
        /\ q.recorder = "inactive" /\ q.dead = parts[p].dead /\ q.tracks = parts[p].tracks
    BY <1>1 DEF PartSet
  <2>3. Revived => Revived' BY <1>3, <2>1 DEF Revived, refVars
  <2> HIDE DEF q
  <2> QED BY <1>1, <1>2, <1>3, <2>1, <2>2, <2>3, OnePartChanges
<1>6. CASE FailsMidSession(p) /\ parts[p].stopped
  <2>1. /\ parts' = [parts EXCEPT ![p] = Ended]
        /\ UNCHANGED <<sourceVars, refVars, partRef, fatalRetries, chain, doing, timers, astray,
                       gaveUp>>
    BY <1>6 DEF FailsMidSession
  <2>2. /\ Ended \in PartSet /\ Ended.stopped /\ ~Ended.error /\ Ended.recorder = "inactive"
    BY DEF Ended, PartSet
  <2>3. p # partRef /\ Ended.stopped = parts[p].stopped BY <1>2, <1>6, <2>2 DEF PartSet, Ended
  <2> QED BY <1>1, <1>2, <1>3, <2>1, <2>2, <2>3, OnePartChanges
<1>7. CASE FailsMidSession(p) /\ ~parts[p].stopped
  <2> DEFINE q == [parts[p] EXCEPT !.error = FALSE]
             op == [kind |-> "fail", part |-> p]
  <2>1. /\ parts' = [parts EXCEPT ![p] = q] /\ parts[p].error
        /\ chain' = Append(chain, op)
        /\ UNCHANGED <<sourceVars, refVars, partRef, fatalRetries, doing, timers, astray, gaveUp>>
    BY <1>7 DEF FailsMidSession
  <2>2. /\ q \in PartSet /\ q.stopped = parts[p].stopped /\ ~q.error
        /\ q.recorder = parts[p].recorder /\ q.dead = parts[p].dead /\ q.tracks = parts[p].tracks
    BY <1>1 DEF PartSet
  <2>3. op \in OpSet /\ op.kind = "fail" /\ op.part = p BY <1>1 DEF OpSet
  <2>4. chain' \in Seq(OpSet) /\ (\A k : Asked(k) => Asked(k)')
        /\ (\A k, n : AskedFor(k, n) => AskedFor(k, n)') /\ AskedFor("fail", p)'
    BY <1>1, <2>1, <2>3, AppendAsks
  <2>5. Revived => Revived' BY <2>1, <2>4 DEF Revived, refVars
  <2>6. p = partRef => AskedFor("fail", partRef)' BY <2>1, <2>4 DEF AskedFor
  <2> HIDE DEF q, op
  <2> QED BY <1>1, <1>2, <2>1, <2>2, <2>4, <2>5, <2>6, OnePartChanges
<1>8. CASE FailsBeforeData(p)
  <2>1. PICK c \in 0..Codecs :
          /\ parts' = [parts EXCEPT ![p] =
               [parts[p] EXCEPT !.error = FALSE, !.codec = IF c = 0 THEN @ ELSE c,
                         !.recorder = IF c = 0 THEN "inactive" ELSE "recording",
                         !.dead = @ \/ c = 0]]
          /\ IF c = 0 /\ ~parts[p].stopped THEN Retry(p, partRef)
             ELSE UNCHANGED <<fatalRetries, timers, gaveUp>>
          /\ astray' = IF c # 0 /\ (parts[p].stopped \/ parts[p].dead \/ pausedRef)
                       THEN astray \cup {p} ELSE astray
    BY <1>8 DEF FailsBeforeData
  <2>2. parts[p].error /\ UNCHANGED <<sourceVars, refVars, partRef, chain, doing>>
    BY <1>8 DEF FailsBeforeData
  <2> DEFINE q == [parts[p] EXCEPT !.error = FALSE, !.codec = IF c = 0 THEN @ ELSE c,
                         !.recorder = IF c = 0 THEN "inactive" ELSE "recording",
                         !.dead = @ \/ c = 0]
  <2>3. parts' = [parts EXCEPT ![p] = q] BY <2>1
  <2>4. /\ q \in PartSet /\ q.stopped = parts[p].stopped /\ ~q.error
        /\ q.recorder = IF c = 0 THEN "inactive" ELSE "recording"
        /\ q.dead <=> parts[p].dead \/ c = 0
        /\ q.tracks = parts[p].tracks
    BY <1>1 DEF PartSet
  <2>5. /\ fatalRetries' \in Nat /\ timers' \in Seq(Nat) /\ gaveUp' \in BOOLEAN
        /\ p # partRef => UNCHANGED <<timers, gaveUp>>
        /\ c = 0 /\ p = partRef => gaveUp' \/ \E i \in DOMAIN timers' : timers'[i] = p
        /\ c # 0 => UNCHANGED <<timers, gaveUp>>
    <3>1. CASE c = 0 /\ ~parts[p].stopped
      <4>1. Retry(p, partRef) BY <2>1, <3>1
      <4> QED BY <1>1, <1>2, <3>1, <4>1, RetryFacts
    <3>2. CASE ~(c = 0 /\ ~parts[p].stopped) BY <1>1, <1>2, <2>1, <3>2
    <3> QED BY <3>1, <3>2
  <2>6. p = partRef /\ activeRef /\ q.dead => Revived'
    <3> SUFFICES ASSUME p = partRef, activeRef, q.dead PROVE Revived'
      OBVIOUS
    <3>1. CASE c = 0 BY <2>2, <2>5, <3>1 DEF Revived
    <3>2. CASE c # 0
      <4>1. parts[p].dead BY <2>4, <3>2
      <4>2. Revived BY <1>2, <4>1
      <4> QED BY <1>3, <2>2, <2>5, <3>2, <4>2 DEF Revived, refVars
    <3> QED BY <3>1, <3>2
  <2>7. /\ astray' = {} => astray = {}
        /\ astray' = {} /\ q.recorder = "recording" =>
             p = partRef /\ ~q.dead /\ ~(activeRef /\ pausedRef)
    <3>1. CASE c # 0 /\ (parts[p].stopped \/ parts[p].dead \/ pausedRef)
      <4>1. p \in astray' BY <2>1, <3>1
      <4> QED BY <4>1
    <3>2. CASE ~(c # 0 /\ (parts[p].stopped \/ parts[p].dead \/ pausedRef))
      <4>1. astray' = astray BY <2>1, <3>2
      <4> QED BY <1>2, <2>4, <3>2, <4>1
    <3> QED BY <3>1, <3>2
  <2>8. p = partRef => (gaveUp' \/ q.recorder = "none" => q.dead)
    <3>1. CASE c = 0 BY <2>4, <3>1
    <3>2. CASE c # 0
      <4>1. gaveUp' = gaveUp BY <2>5, <3>2
      <4>2. q.recorder # "none" BY <2>4, <3>2
      <4>3. q.dead <=> parts[p].dead BY <2>4, <3>2
      <4> HIDE DEF q
      <4> QED BY <1>2, <4>1, <4>2, <4>3
    <3> QED BY <3>1, <3>2
  <2> HIDE DEF q
  <2> QED BY <1>1, <1>2, <1>3, <2>2, <2>3, <2>4, <2>5, <2>6, <2>7, <2>8, OnePartChanges
<1> QED BY <1>4, <1>5, <1>6, <1>7, <1>8

\* A part that is gone stays so when parts are told to stop.
LEMMA GoneStays ==
  ASSUME NEW given, NEW p, NEW q \in DOMAIN given, given[q].recorder = "inactive", ~given[q].error
  PROVE  /\ q \in DOMAIN StopIn(given, p)
         /\ StopIn(given, p)[q].recorder = "inactive" /\ ~StopIn(given, p)[q].error
  BY DEF StopIn, Runs, Ended

LEMMA ReplaceGone ==
  ASSUME NEW stream, NEW given, Replace(stream, given), NEW q \in DOMAIN given,
         given[q].recorder = "inactive", ~given[q].error
  PROVE  Gone(q)'
<1>1. parts' = given \/ parts' = StopIn(given, partRef) BY DEF Replace
<1> QED BY <1>1, GoneStays DEF Gone

LEMMA GoneSteps ==
  ASSUME RecInv, Next PROVE \A q : Gone(q) => Gone(q)'
<1> SUFFICES ASSUME NEW q, Gone(q) PROVE Gone(q)'
  OBVIOUS
<1>1. q \in DOMAIN parts /\ parts[q].recorder = "inactive" /\ ~parts[q].error BY DEF Gone
<1>2. parts \in Seq(PartSet) /\ parts[q] \in PartSet BY <1>1 DEF RecInv, RecorderType
<1>3. CASE UNCHANGED parts BY <1>3 DEF Gone
<1>4. CASE \/ CameraChanges \/ SyncSources \/ StopRecording \/ RetryTimer
  BY <1>3, <1>4 DEF CameraChanges, SyncSources, StopRecording, RetryTimer, workVars
<1>5. CASE Pause BY <1>1, <1>5 DEF Pause, Gone
<1>6. ASSUME NEW rotate \in BOOLEAN, Resume(rotate) PROVE Gone(q)'
  <2>1. /\ q \in DOMAIN parts'
        /\ parts'[q] = IF q = partRef /\ rotate THEN [parts[q] EXCEPT !.dead = TRUE] ELSE parts[q]
    BY <1>1, <1>6 DEF Resume
  <2>2. parts'[q].recorder = "inactive" /\ ~parts'[q].error BY <1>1, <1>2, <2>1, KilledPart
  <2> QED BY <2>1, <2>2 DEF Gone
<1>7. CASE Unmount
  <2>1. parts' = StopIn(parts, partRef) BY <1>7 DEF Unmount
  <2> QED BY <1>1, <2>1, GoneStays DEF Gone
<1>8. CASE RunOp
  <2>1. CASE UNCHANGED parts BY <1>3, <2>1
  <2>2. CASE StopPart
    <3>1. parts' = StopIn(parts, partRef) BY <2>2 DEF StopPart, Swap
    <3> QED BY <1>1, <3>1, GoneStays DEF Gone
  <2>3. ASSUME NEW stream, Replace(stream, parts) PROVE Gone(q)' BY <1>1, <2>3, ReplaceGone
  <2>4. ASSUME NEW stream, Replace(stream, [parts EXCEPT ![partRef].dead = TRUE]) PROVE Gone(q)'
    <3> DEFINE given == [parts EXCEPT ![partRef].dead = TRUE]
    <3>1. q \in DOMAIN given
          /\ given[q] = IF q = partRef THEN [parts[q] EXCEPT !.dead = TRUE] ELSE parts[q]
      BY <1>1
    <3>2. given[q].recorder = "inactive" /\ ~given[q].error BY <1>1, <1>2, <3>1, KilledPart
    <3>3. Replace(stream, given) BY <2>4
    <3> HIDE DEF given
    <3> QED BY <3>1, <3>2, <3>3, ReplaceGone
  <2>5. CASE SetCombinedStream BY <2>3, <2>5 DEF SetCombinedStream
  <2>6. CASE ResumePart BY <2>3, <2>6 DEF ResumePart
  <2>7. CASE RetryAfterFatal BY <2>1, <2>3, <2>7 DEF RetryAfterFatal, Dropped
  <2>8. CASE RotateAfterFailure BY <2>1, <2>4, <2>8 DEF RotateAfterFailure, Dropped
  <2> QED BY <1>8, <2>2, <2>5, <2>6, <2>7, <2>8 DEF RunOp
<1>9. CASE StartPart
  <2>1. PICK fresh, next : parts' = StopIn(Append(parts, fresh), partRef)
                          \/ parts' = StopIn(Append(parts, fresh), next)
    BY <1>9 DEF StartPart, Swap
  <2>2. q \in DOMAIN Append(parts, fresh) /\ Append(parts, fresh)[q] = parts[q] BY <1>1, <1>2
  <2> DEFINE given == Append(parts, fresh)
  <2>3. given[q].recorder = "inactive" /\ ~given[q].error /\ q \in DOMAIN given BY <1>1, <2>2
  <2> HIDE DEF given
  <2>4. CASE parts' = StopIn(given, partRef) BY <2>3, <2>4, GoneStays DEF Gone
  <2>5. CASE parts' = StopIn(given, next) BY <2>3, <2>5, GoneStays DEF Gone
  <2> QED BY <2>1, <2>4, <2>5 DEF given
<1>10. CASE OldPartStops
  <2>1. parts' = [parts EXCEPT ![doing.old] = Ended] BY <1>10 DEF OldPartStops
  <2>2. Ended.recorder = "inactive" /\ ~Ended.error BY DEF Ended
  <2> QED BY <1>1, <2>1, <2>2 DEF Gone
<1>11. ASSUME NEW p \in DOMAIN parts,
              FirstData(p) \/ EncoderFails(p) \/ FailsMidSession(p) \/ FailsBeforeData(p)
       PROVE  Gone(q)'
  <2>1. p # q BY <1>1, <1>11 DEF FirstData, EncoderFails, FailsMidSession, FailsBeforeData
  <2>2. q \in DOMAIN parts' /\ parts'[q] = parts[q]
    BY <1>1, <1>11, <2>1 DEF FirstData, EncoderFails, FailsMidSession, FailsBeforeData
  <2> QED BY <1>1, <2>2 DEF Gone
<1> QED BY <1>4, <1>5, <1>6, <1>7, <1>8, <1>9, <1>10, <1>11 DEF Next

LEMMA FailSteps ==
  ASSUME RecInv, FailInv, Next PROVE FailInv'
<1>1. chain \in Seq(OpSet) BY DEF RecInv, RecorderType
<1>2. CASE \E op : chain' = Append(chain, op) /\ op.kind # "fail"
  <2> PICK op : chain' = Append(chain, op) /\ op.kind # "fail" BY <1>2
  <2>1. \A i \in DOMAIN chain' : (i \in DOMAIN chain /\ chain'[i] = chain[i]) \/ chain'[i] = op
    BY <1>1
  <2> QED BY <2>1, GoneSteps DEF FailInv
<1>3. CASE UNCHANGED chain BY <1>3, GoneSteps DEF FailInv
<1>4. CASE RunOp
  <2>1. chain # <<>> /\ chain' = Tail(chain)
    BY <1>4 DEF RunOp, Is, SetCombinedStream, ResumePart, RotateAfterFailure, RetryAfterFatal,
                StopPart
  <2>2. \A i \in DOMAIN chain' : i + 1 \in DOMAIN chain /\ chain'[i] = chain[i + 1]
    BY <1>1, <2>1
  <2> QED BY <2>2, GoneSteps DEF FailInv
<1>5. ASSUME NEW p \in DOMAIN parts, FailsMidSession(p), ~parts[p].stopped PROVE FailInv'
  <2> DEFINE op == [kind |-> "fail", part |-> p]
  <2>1. chain' = Append(chain, op) /\ parts' = [parts EXCEPT ![p] = [parts[p] EXCEPT !.error = FALSE]]
        /\ parts[p].error
    BY <1>5 DEF FailsMidSession
  <2>2. parts[p] \in PartSet /\ parts[p].recorder = "inactive"
    BY <2>1 DEF RecInv, RecorderType, PartsInv
  <2>3. Gone(p)' BY <2>1, <2>2 DEF PartSet, Gone
  <2>4. \A i \in DOMAIN chain' : (i \in DOMAIN chain /\ chain'[i] = chain[i]) \/ chain'[i].part = p
    BY <1>1, <2>1
  <2> QED BY <2>3, <2>4, GoneSteps DEF FailInv
<1>6. CASE \/ CameraChanges \/ Pause \/ Unmount \/ StartPart \/ OldPartStops
  BY <1>3, <1>6 DEF CameraChanges, Pause, Unmount, StartPart, OldPartStops, workVars
<1>7. CASE \/ SyncSources \/ (\E rotate \in BOOLEAN : Resume(rotate)) \/ StopRecording \/ RetryTimer
  BY <1>2, <1>7 DEF SyncSources, Resume, StopRecording, RetryTimer
<1>8. ASSUME NEW p \in DOMAIN parts,
             \/ FirstData(p) \/ EncoderFails(p) \/ FailsBeforeData(p)
             \/ FailsMidSession(p) /\ parts[p].stopped
      PROVE  FailInv'
  BY <1>3, <1>8 DEF FirstData, EncoderFails, FailsMidSession, FailsBeforeData
<1> QED BY <1>4, <1>5, <1>6, <1>7, <1>8 DEF Next

RecorderInv == RecInv /\ FailInv

LEMMA RecorderInvStep ==
  ASSUME MaxRetries \in Nat PROVE RecorderInv /\ [Next]_vars => RecorderInv'
<1> SUFFICES ASSUME RecorderInv, [Next]_vars PROVE RecorderInv'
  OBVIOUS
<1>1. CASE Next
  <2>1. RecInv'
    BY <1>1, CallSteps, PauseSteps, EndSteps, OpSteps, StartSteps, OldPartSteps, TimerSteps,
       RecorderSteps
       DEF Next, RecorderInv
  <2> QED BY <1>1, <2>1, FailSteps DEF RecorderInv
<1>2. CASE UNCHANGED vars
  <2>1. UNCHANGED <<video, activeRef, pausedRef, lastStream, partRef, fatalRetries, parts, chain,
                    doing, timers, astray, gaveUp>>
    BY <1>2 DEF vars, sourceVars, refVars, workVars
  <2>2. RecorderType' BY <2>1 DEF RecorderInv, RecInv, RecorderType
  <2>3. PartsInv' BY <2>1 DEF RecorderInv, RecInv, PartsInv
  <2>4. CurrentInv' BY <2>1 DEF RecorderInv, RecInv, CurrentInv, Revived, Asked, AskedFor
  <2>5. FailInv' BY <2>1 DEF RecorderInv, FailInv, Gone
  <2> QED BY <2>2, <2>3, <2>4, <2>5 DEF RecorderInv, RecInv
<1> QED BY <1>1, <1>2

LEMMA RecorderInvInit == Init => RecorderInv
<1> SUFFICES ASSUME Init PROVE RecorderInv
  OBVIOUS
<1>1. parts = <<>> /\ chain = <<>> /\ timers = <<>> /\ doing = Idle BY DEF Init
<1>2. RecorderType
  <2>1. <<>> \in Seq(PartSet) /\ <<>> \in Seq(OpSet) /\ <<>> \in Seq(Nat) /\ Len(<<>>) = 0
    OBVIOUS
  <2>2. Idle.at # "stopping" BY DEF Idle
  <2>3. activeRef \in BOOLEAN /\ pausedRef \in BOOLEAN /\ gaveUp \in BOOLEAN BY DEF Init
  <2>4. video \in Cameras \cup {NoCamera} /\ lastStream \subseteq AllTracks /\ fatalRetries \in Nat
        /\ partRef = 0
    BY DEF Init
  <2>5. partRef \in 0..Len(parts) /\ doing.at # "stopping" /\ doing \in {Idle}
    BY <1>1, <2>1, <2>2, <2>4
  <2> QED BY <1>1, <2>1, <2>3, <2>4, <2>5 DEF RecorderType
<1> QED BY <1>1, <1>2 DEF Init, RecorderInv, RecInv, PartsInv, CurrentInv, FailInv

LEMMA RecordsExactlyHolds == RecorderInv => RecordsExactly
<1> SUFFICES ASSUME RecorderInv, AtRest, astray = {}
             PROVE  IF activeRef /\ ~pausedRef /\ Source # {} /\ ~gaveUp
                    THEN partRef # 0 /\ Recording = {partRef} ELSE Recording = {}
  BY DEF RecordsExactly
<1> USE DEF RecorderInv, RecInv
<1>1. Recording \subseteq {partRef} BY DEF Recording, PartsInv
<1>2. chain = <<>> /\ timers = <<>> /\ doing.at = "idle" BY DEF AtRest, Idle
<1>3. /\ \A k, p : ~Asked(k) /\ ~AskedFor(k, p)
      /\ ~\E i \in DOMAIN timers : timers[i] = partRef
  BY <1>2 DEF Asked, AskedFor
<1>4. partRef # 0 => partRef \in DOMAIN parts /\ parts[partRef] \in PartSet
  BY DEF RecorderType
<1>5. partRef = 0 => Recording = {} BY <1>1 DEF Recording, RecorderType
<1>6. CASE partRef # 0 /\ activeRef /\ ~pausedRef /\ Source # {} /\ ~gaveUp
  <2>1. ~parts[partRef].dead BY <1>2, <1>3, <1>6 DEF CurrentInv, Revived
  <2>2. ~parts[partRef].error BY <1>4, <1>6 DEF AtRest
  <2>3. /\ parts[partRef].recorder \in {"none", "recording", "paused", "stopping", "inactive"}
    BY <1>4, <1>6 DEF PartSet
  <2>4. parts[partRef].recorder \notin {"none", "paused", "inactive"}
    BY <1>3, <1>6, <2>1, <2>2 DEF CurrentInv
  <2>5. parts[partRef].recorder # "stopping" BY <1>4, <1>6 DEF PartsInv
  <2>6. parts[partRef].recorder = "recording" BY <2>3, <2>4, <2>5
  <2> QED BY <1>1, <1>4, <1>6, <2>6 DEF Recording
<1>7. CASE partRef = 0
  <2>1. ~(activeRef /\ ~pausedRef /\ Source # {})
    BY <1>7 DEF AtRest, Drift, PartTracks
  <2> QED BY <1>5, <1>7, <2>1
<1>8. CASE partRef # 0 /\ ~(activeRef /\ ~pausedRef /\ Source # {} /\ ~gaveUp)
  <2>1. activeRef BY <1>3, <1>8 DEF CurrentInv
  <2>2. CASE pausedRef BY <1>1, <1>4, <1>8, <2>1, <2>2 DEF Recording, PartsInv
  <2>3. CASE ~pausedRef /\ gaveUp
    <3>1. parts[partRef].dead BY <1>8, <2>3 DEF CurrentInv
    <3> QED BY <1>1, <1>4, <1>8, <2>3, <3>1 DEF Recording, PartsInv
  <2>4. CASE ~pausedRef /\ Source = {}
    <3>1. PartTracks = {} BY <2>1, <2>4 DEF AtRest, Drift
    <3> QED BY <1>8, <3>1 DEF CurrentInv, PartTracks
  <2> QED BY <1>8, <2>1, <2>2, <2>3, <2>4
<1> QED BY <1>6, <1>7, <1>8

\* At rest the part on the call's tracks records and no other, unless its retries are
\* used up, and nothing records while the take is paused or over, but for a fallback
\* that started on a part which should not record (useLocalRecording).
THEOREM RecorderExact == ASSUME MaxRetries \in Nat PROVE Spec => []RecordsExactly
<1>1. RecorderInv /\ [Next]_vars => RecorderInv' BY RecorderInvStep
<1> QED BY <1>1, RecorderInvInit, RecordsExactlyHolds, PTL DEF Spec
=============================================================================
