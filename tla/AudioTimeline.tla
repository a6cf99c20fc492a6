---------------------------- MODULE AudioTimeline ----------------------------
(***************************************************************************)
(* The lossless audio of a participant, put together from PCM chunks.      *)
(* Chunks may be lost, the audio context may be suspended, and a timestamp *)
(* may be wrong.  The chunks that are readable are cut into runs of        *)
(* continuous capture, and each run is placed where its timestamps say,    *)
(* with silence between.  One frame lasts one unit of time here: the clock *)
(* of a run is fitted only when it lasts a minute or more, and a run that  *)
(* short is copied as it is.                                               *)
(***************************************************************************)
EXTENDS Integers, Sequences, FiniteSets, SequencesExt

CONSTANTS
  MaxSegments,  \* segments of the track
  MaxGone,      \* segments that are lost, or whose object cannot be read
  Length,       \* of a chunk
  Silences,     \* how long the capture may be suspended
  Strays,       \* how far a timestamp may be off, either way
  Origins,      \* where the camera's video starts; NoOrigin if there is none
  NoOrigin,
  Jump,         \* PCM_JUMP_MS
  Tolerance,    \* toleranceMs
  Window,       \* BASELINE_WINDOW
  MaxLead       \* maxLeadPadMs

VARIABLES
  segments,     \* rows not read yet, in sequence order
  origin,
  stage,        \* read, plan, place, done, failed
  previous,     \* sequence number of the last row, 0 for none
  broken,       \* the last row's object could not be read
  chunks,       \* those that were read
  index,        \* the chunk to plan, the run to place
  run,          \* the run that is being built: its first chunk, its offsets
  runs,         \* the runs: first and last chunk, where it starts
  cursor,       \* of the AudioTimelineWriter
  placed        \* per run: where its first frame is (or would be), frames cut

vars == <<segments, origin, stage, previous, broken, chunks, index, run, runs, cursor,
          placed>>

Abs(x) == IF x < 0 THEN -x ELSE x
NoRun == [first |-> 0, offsets |-> <<>>]

\* What is at place k when s is sorted: fewer than k are smaller, k are not greater.
Nth(s, k) ==
  CHOOSE x \in Range(s) : /\ Cardinality({i \in DOMAIN s : s[i] < x}) < k
                          /\ k <= Cardinality({i \in DOMAIN s : s[i] <= x})

\* The runs' quantities are even, and so are their half sums.
Median(s) ==
  LET mid == Len(s) \div 2
  IN  IF Len(s) % 2 = 1 THEN Nth(s, mid + 1) ELSE (Nth(s, mid) + Nth(s, mid + 1)) \div 2

----------------------------------------------------------------------------
(* What was captured: some segments are lost, and there are at most one     *)
(* suspension and one wrong timestamp.                                     *)

Captured(unreadable, suspendedAt, silence, strayAt, by) ==
  [n \in 1..MaxSegments |->
    LET from == n * Length + (IF suspendedAt \in 1..n THEN silence ELSE 0)
    IN  [seq |-> n, kind |-> IF n \in unreadable THEN "unreadable" ELSE "ok", from |-> from,
         stamp |-> from + IF n = strayAt THEN by ELSE 0]]

\* The segments that have a row, in order, and those whose object cannot be read.
Kept == {q \in UNION {[1..n -> 1..MaxSegments] :
                        n \in {m \in 0..MaxSegments : MaxSegments - m <= MaxGone}} :
           \A k, l \in DOMAIN q : k < l => q[k] < q[l]}
Unreadable(q) == {u \in SUBSET (1..MaxSegments) :
                    MaxSegments - Len(q) + Cardinality(u) <= MaxGone}

Init ==
  /\ \E q \in Kept : \E unreadable \in Unreadable(q),
        suspendedAt, strayAt \in 0..MaxSegments,
        silence \in Silences, by \in Strays \cup {-x : x \in Strays} :
       LET all == Captured(unreadable, suspendedAt, silence, strayAt, by)
       IN  segments = [k \in DOMAIN q |-> all[q[k]]]
  /\ origin \in Origins
  /\ stage = "read" /\ previous = 0 /\ broken = FALSE /\ chunks = <<>>
  /\ index = 1 /\ run = NoRun /\ runs = <<>> /\ cursor = 0 /\ placed = <<>>

----------------------------------------------------------------------------
(* Reading. *)

ReadSegment ==
  LET s    == Head(segments)
      lost == previous # 0 /\ s.seq # previous + 1
  IN  /\ stage = "read" /\ segments # <<>>
      /\ segments' = Tail(segments) /\ previous' = s.seq
      /\ IF s.kind = "unreadable" THEN broken' = TRUE /\ UNCHANGED chunks
         ELSE /\ broken' = FALSE
              /\ chunks' = Append(chunks, [from |-> s.from, startMs |-> s.stamp,
                                           breakBefore |-> broken \/ lost])
      /\ UNCHANGED <<origin, stage, index, run, runs, cursor, placed>>

EndReading ==
  /\ stage = "read" /\ segments = <<>>
  /\ stage' = IF chunks = <<>> THEN "failed" ELSE "plan"
  /\ UNCHANGED <<segments, origin, previous, broken, chunks, index, run, runs, cursor, placed>>

----------------------------------------------------------------------------
(* planAudioRuns. *)

\* Where chunk i would have started the run, had the run no break up to it.
Offset(i) == chunks[i].startMs - (i - run.first) * Length
Baseline  == LET n == Len(run.offsets)
             IN  Median(SubSeq(run.offsets, IF n > Window THEN n - Window + 1 ELSE 1, n))
IsFar(i)  == Abs(Offset(i) - Baseline) > Jump

\* Mutant: every jump is a break.
NoStray(i) == FALSE

\* Only this timestamp is off: the chunk after it agrees with the run again.
StrayStamp(i) == i < Len(chunks) /\ ~chunks[i + 1].breakBefore /\ ~IsFar(i + 1)

\* fitRun of a run that is too short to have a slope.
FitRun(last) == [first |-> run.first, last |-> last, startMs |-> Median(run.offsets)]

PlanChunk ==
  LET c      == chunks[index]
      starts == run = NoRun \/ c.breakBefore \/ (IsFar(index) /\ ~StrayStamp(index))
  IN  /\ stage = "plan" /\ index <= Len(chunks) /\ index' = index + 1
      /\ runs' = IF starts /\ run # NoRun THEN Append(runs, FitRun(index - 1)) ELSE runs
      /\ run' = IF starts THEN [first |-> index, offsets |-> <<c.startMs>>]
                ELSE IF IsFar(index) THEN run
                ELSE [run EXCEPT !.offsets = Append(@, Offset(index))]
      /\ UNCHANGED <<segments, origin, stage, previous, broken, chunks, cursor, placed>>

EndPlanning ==
  /\ stage = "plan" /\ index > Len(chunks)
  /\ runs' = Append(runs, FitRun(Len(chunks)))
  /\ run' = NoRun /\ index' = 1 /\ stage' = "place"
  /\ UNCHANGED <<segments, origin, previous, broken, chunks, cursor, placed>>

----------------------------------------------------------------------------
(* composePcmTimeline's layout, and placeRun. *)

AtLeast0(x) == IF x < 0 THEN 0 ELSE x
LeadPad == IF origin = NoOrigin THEN 0
           ELSE LET ahead == AtLeast0(runs[1].startMs - origin)
                IN  IF ahead < MaxLead THEN ahead ELSE MaxLead

\* Near the cursor: append; beyond it: silence first; before it: cut the overlap.
PlaceRun ==
  LET r     == runs[index]
      at    == AtLeast0(LeadPad + r.startMs - runs[1].startMs)
      skip  == IF at < cursor - Tolerance THEN cursor - at ELSE 0
      start == IF at > cursor + Tolerance THEN at ELSE cursor
      count == (r.last - r.first + 1) * Length - skip
  IN  /\ stage = "place" /\ index <= Len(runs) /\ index' = index + 1
      /\ cursor' = start + AtLeast0(count)
      /\ placed' = Append(placed, [at |-> start - skip, cut |-> skip])
      /\ UNCHANGED <<segments, origin, stage, previous, broken, chunks, run, runs>>

EndPlacing ==
  /\ stage = "place" /\ index > Len(runs) /\ stage' = "done"
  /\ UNCHANGED <<segments, origin, previous, broken, chunks, index, run, runs, cursor, placed>>

----------------------------------------------------------------------------
Next == ReadSegment \/ EndReading \/ PlanChunk \/ EndPlanning \/ PlaceRun \/ EndPlacing

Spec == Init /\ [][Next]_vars

----------------------------------------------------------------------------
\* A wrong timestamp that can be told: the capture went on around it.
Continuous(i) == i > Len(chunks) \/ i < 2 \/ (/\ ~chunks[i].breakBefore
                                             /\ chunks[i].from = chunks[i - 1].from + Length)
Tellable(i) == /\ i > 1 /\ i < Len(chunks)
               /\ \A k \in {i - 1, i, i + 1} : Continuous(k)

\* Where the output has the audio of chunk i, and whether all of it.
RunOf(i)  == CHOOSE k \in DOMAIN runs : i \in runs[k].first..runs[k].last
Heard(i)  == placed[RunOf(i)].at + (i - runs[RunOf(i)].first) * Length
IsWhole(i) == placed[RunOf(i)].cut <= (i - runs[RunOf(i)].first) * Length
OutputStart == runs[1].startMs - LeadPad

\* Whatever is lost before it, however long the capture was suspended and
\* although a timestamp is wrong: a chunk is heard whole, at its time, in
\* step with the video; unless a wrong timestamp stands next to a break.  The
\* output starts with the video, unless the audio begins too late to be padded.
AudioInPlace ==
  (stage = "done" /\ \A i \in DOMAIN chunks :
       chunks[i].startMs # chunks[i].from => Tellable(i))
    => /\ (/\ origin # NoOrigin /\ origin <= chunks[1].from
           /\ runs[1].startMs - origin <= MaxLead) => OutputStart = origin
       /\ \A i \in DOMAIN chunks :
            IsWhole(i) /\ Abs(Heard(i) - (chunks[i].from - OutputStart)) <= Jump + Tolerance
=============================================================================
