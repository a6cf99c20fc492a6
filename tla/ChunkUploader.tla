--------------------------- MODULE ChunkUploader ---------------------------
(***************************************************************************)
(* How the chunks of one resumable track reach the server from a browser.  *)
(* A tab records, asks the server for the track's row, numbers its chunks  *)
(* from the answer and from what its browser still buffers, writes each    *)
(* one to IndexedDB and uploads it: a PUT to storage, the registration,    *)
(* and only then the deletion from the buffer.  Any tab also uploads what  *)
(* a closed tab left in the buffer; a lock per chunk keeps two uploaders   *)
(* apart.  A newer tab takes the recording over from an older one.         *)
(*                                                                         *)
(* One uploader stands for the two queues of a tab, the recorder's and the *)
(* app-wide drainer's.  The age of a chunk is not modelled: any buffered   *)
(* chunk may be old enough for the drainer, or for the purge (a fault).    *)
(***************************************************************************)
EXTENDS Integers, FiniteSets, FiniteSetsExt

CONSTANTS
  Tabs,          \* the tabs the participant opens, each records at most once
  BrowserOf,     \* the browser (its IndexedDB and its locks) of each tab
  MaxChunks,     \* chunks a tab records
  Concurrency,   \* uploads of one tab at a time
  MaxHard,       \* refusals before a chunk is set aside (MAX_HARD_FAILURES)
  MaxFaults,     \* closed tabs, failed requests and writes, purges, deletions
  None

ASSUME UploaderAssumption ==
  /\ IsFiniteSet(Tabs) /\ MaxChunks \in Nat \ {0} /\ Concurrency \in Nat \ {0}
  /\ MaxHard \in Nat \ {0} /\ MaxFaults \in Nat

Browsers == {BrowserOf[t] : t \in Tabs}
Chunks   == [tab : Tabs, k : 0..(MaxChunks - 1)]

ASSUME NoneAssumption == None \notin Chunks

Numbers  == 0..(Cardinality(Tabs) * MaxChunks - 1)
Buffered == [seq : Numbers, body : Chunks]

\* What an item of an upload queue is waiting for.
Stages == {"queued", "put", "register", "forget"}
Items  == [seq : Numbers, body : Chunks, persisted : BOOLEAN, sent : BOOLEAN,
           hard : 0..MaxHard, at : Stages]

VARIABLES
  phase,      \* per tab: closed, idle, capturing, stopping
  route,      \* per tab, the row of its track: none, asked, answered, open,
              \* left (the page is gone), abandoned
  answer,     \* per tab: nextSequenceNumber of the server's answer
  base,       \* per tab: baseSequence
  made,       \* per tab: chunks recorded so far
  saving,     \* per tab: chunks whose enqueue waits for IndexedDB
  items,      \* per tab: the upload queue
  snap,       \* per tab: what resumeOrphans read from IndexedDB
  setAside,   \* per tab: numbers it gave up on for now
  db,         \* per browser: the buffered chunks
  object,     \* per number: what storage holds under its key
  rows,       \* numbers registered on the server
  gone,       \* whether the recording was deleted
  pardoned,   \* history: chunks that were lost for a reason
  raced,      \* history: how a tab came to start from a stale number
  faults      \* faults so far

tabVars    == <<phase, route, answer, base, made>>
queueVars  == <<saving, items, snap, setAside>>
serverVars == <<object, rows, gone>>
vars == <<tabVars, queueVars, db, serverVars, pardoned, raced, faults>>

----------------------------------------------------------------------------
(* The chunks and where they are. *)

Of(t)        == {c \in Chunks : c.tab = t /\ c.k < made[t]}
Recorded     == UNION {Of(t) : t \in Tabs}
Numbered(c)  == route[c.tab] \in {"open", "left"}
Number(c)    == base[c.tab] + c.k
Copy(c)      == [seq |-> Number(c), body |-> c]
Max0(S)      == Max(S \cup {-1})

\* The chunks that only the memory of the tab has: not routed yet, being
\* written, or queued after a failed write.
OnlyIn(t) ==
  (IF route[t] \in {"asked", "answered"} THEN Of(t) ELSE {})
    \cup saving[t]
    \cup {i.body : i \in {j \in items[t] : ~j.persisted}}

Held(c) == \/ \E t \in Tabs : c \in OnlyIn(t) \/ \E i \in items[t] : i.body = c
           \/ \E b \in Browsers : \E e \in db[b] : e.body = c

Delivered(c) == Numbered(c) /\ Number(c) \in rows /\ object[Number(c)] = c

Clashes(c) == \E d \in Recorded \ {c} :
                Numbered(c) /\ Numbered(d) /\ Number(c) = Number(d)

Open(t)    == phase[t] # "closed"
MayFail    == faults < MaxFaults
Fault      == MayFail /\ faults' = faults + 1

Init ==
  /\ phase = [t \in Tabs |-> "closed"] /\ route = [t \in Tabs |-> "none"]
  /\ answer = [t \in Tabs |-> 0] /\ base = [t \in Tabs |-> 0]
  /\ made = [t \in Tabs |-> 0]
  /\ saving = [t \in Tabs |-> {}] /\ items = [t \in Tabs |-> {}]
  /\ snap = [t \in Tabs |-> {}] /\ setAside = [t \in Tabs |-> {}]
  /\ db = [b \in Browsers |-> {}]
  /\ object = [n \in Numbers |-> None] /\ rows = {} /\ gone = FALSE
  /\ pardoned = {} /\ raced = {} /\ faults = 0

----------------------------------------------------------------------------
(* A tab and its recorder. *)

OpenTab(t) ==
  /\ phase[t] = "closed"
  /\ phase' = [phase EXCEPT ![t] = "idle"]
  /\ UNCHANGED <<route, answer, base, made, queueVars, db, serverVars,
                 pardoned, raced, faults>>

\* The recorder starts and steals the recorder lock: another tab of the
\* browser that captures stops and flushes what it has.
BeginRecording(t) ==
  LET robbed(u) == BrowserOf[u] = BrowserOf[t] /\ phase[u] = "capturing"
  IN  /\ phase[t] = "idle" /\ made[t] = 0 /\ route[t] = "none" /\ ~gone
      /\ phase' = [u \in Tabs |-> IF u = t THEN "capturing"
                                  ELSE IF robbed(u) THEN "stopping" ELSE phase[u]]
      /\ route' = [route EXCEPT ![t] = "asked"]
      /\ UNCHANGED <<answer, base, made, queueVars, db, serverVars, pardoned,
                     raced, faults>>

\* A chunk is ready: it waits for the row, or its enqueue begins.
RouteChunk(t) ==
  LET c == [tab |-> t, k |-> made[t]]
  IN  /\ made[t] < MaxChunks
      /\ made' = [made EXCEPT ![t] = @ + 1]
      /\ saving' = IF route[t] = "open" THEN [saving EXCEPT ![t] = @ \cup {c}]
                                        ELSE saving
      /\ pardoned' = IF route[t] = "abandoned" THEN pardoned \cup {c} ELSE pardoned

Capture(t) ==
  /\ phase[t] = "capturing" /\ RouteChunk(t)
  /\ UNCHANGED <<phase, route, answer, base, items, snap, setAside,
                 db, serverVars, raced, faults>>

\* The take ends for this tab (a stop, leaving, a stop it had missed), or it
\* was robbed of the lock: the last partial chunk, if any, is flushed.
StopCapture(t) ==
  /\ phase[t] \in {"capturing", "stopping"}
  /\ phase' = [phase EXCEPT ![t] = "idle"]
  /\ RouteChunk(t) \/ UNCHANGED <<made, saving, pardoned>>
  /\ UNCHANGED <<route, answer, base, items, snap, setAside, db,
                 serverVars, raced, faults>>

\* The server creates the row or finds it, and says which number comes next.
AskForRow(t) ==
  /\ Open(t) /\ route[t] = "asked" /\ ~gone
  /\ route' = [route EXCEPT ![t] = "answered"]
  /\ answer' = [answer EXCEPT ![t] = Max0(rows) + 1]
  /\ UNCHANGED <<phase, base, made, queueVars, db, serverVars, pardoned, raced,
                 faults>>

\* The session is over, or registering failed for too long.
AbandonRoute(t) ==
  /\ Open(t) /\ route[t] = "asked"
  /\ IF gone THEN UNCHANGED faults ELSE Fault
  /\ route' = [route EXCEPT ![t] = "abandoned"]
  /\ pardoned' = pardoned \cup Of(t)
  /\ UNCHANGED <<phase, answer, base, made, queueVars, db, serverVars, raced>>

\* A tab that may still add to the chunks the buffer and the server show.
Unfinished(t) == phase[t] \in {"capturing", "stopping"} \/ OnlyIn(t) # {}

\* Why a tab that continues from number first may meet a number in use: a
\* chunk was registered, and left the buffer, after the server's answer; the
\* tab it took over from is not done; or another device has chunks.
Hidden(t, first) ==
  LET others == Tabs \ {t}
      here   == {u \in others : BrowserOf[u] = BrowserOf[t]}
      unseen(u) == Unfinished(u) \/ db[BrowserOf[u]] # {}
  IN  {w \in {"uploaded", "takeover", "device"} :
         \/ w = "uploaded" /\ Max0(rows) >= first
         \/ w = "takeover" /\ \E u \in here : Unfinished(u)
         \/ w = "device"   /\ \E u \in others \ here : unseen(u)}

\* Mutant: the tab continues past what the server has, whatever is buffered.
ContinueAfterServer(t) ==
  /\ Open(t) /\ route[t] = "answered"
  /\ route' = [route EXCEPT ![t] = "open"]
  /\ base' = [base EXCEPT ![t] = answer[t]]
  /\ answer' = [answer EXCEPT ![t] = 0]
  /\ saving' = [saving EXCEPT ![t] = Of(t)]
  /\ raced' = raced \cup Hidden(t, answer[t])
  /\ UNCHANGED <<phase, made, items, snap, setAside, db,
                 serverVars, pardoned, faults>>

\* The tab continues past what the server has and what the browser buffers.
OpenRoute(t) ==
  LET buffered == Max0({e.seq : e \in db[BrowserOf[t]]})
      first    == Max({answer[t], buffered + 1})
  IN  /\ Open(t) /\ route[t] = "answered"
      /\ route' = [route EXCEPT ![t] = "open"]
      /\ base' = [base EXCEPT ![t] = first]
      /\ answer' = [answer EXCEPT ![t] = 0]
      /\ saving' = [saving EXCEPT ![t] = Of(t)]
      /\ raced' = raced \cup Hidden(t, first)
      /\ UNCHANGED <<phase, made, items, snap, setAside, db,
                     serverVars, pardoned, faults>>

\* The tab is closed, reloaded or crashes: its memory is gone.
CloseTab(t) ==
  /\ Open(t) /\ Fault
  /\ phase' = [phase EXCEPT ![t] = "closed"]
  /\ route' = [route EXCEPT ![t] = CASE @ \in {"open", "left"} -> "left"
                                     [] @ = "none" -> "none"
                                     [] OTHER -> "abandoned"]
  /\ pardoned' = pardoned \cup {c \in OnlyIn(t) : ~Delivered(c)}
  /\ answer' = [answer EXCEPT ![t] = 0]
  /\ saving' = [saving EXCEPT ![t] = {}]
  /\ items' = [items EXCEPT ![t] = {}]
  /\ snap' = [snap EXCEPT ![t] = {}]
  /\ setAside' = [setAside EXCEPT ![t] = {}]
  /\ UNCHANGED <<base, made, db, serverVars, raced>>

----------------------------------------------------------------------------
(* The buffer. *)

NewItem(e, isSaved) ==
  [seq |-> e.seq, body |-> e.body, persisted |-> isSaved, sent |-> FALSE,
   hard |-> 0, at |-> "queued"]

Queued(t)      == {i.seq : i \in items[t]}
Without(b, n)  == {e \in db[b] : e.seq # n}
InFlight(t)    == {i \in items[t] : i.at # "queued"}

\* enqueue, from the IndexedDB write on: a failed write uploads from memory.
Enqueue(t, c) ==
  LET b == BrowserOf[t]
      push(isSaved) ==
        items' = IF Number(c) \in Queued(t) THEN items
                 ELSE [items EXCEPT ![t] = @ \cup {NewItem(Copy(c), isSaved)}]
  IN  /\ c \in saving[t]
      /\ saving' = [saving EXCEPT ![t] = @ \ {c}]
      /\ \/ /\ db' = [db EXCEPT ![b] = Without(b, Number(c)) \cup {Copy(c)}]
            /\ push(TRUE) /\ UNCHANGED faults
         \/ Fault /\ push(FALSE) /\ UNCHANGED db
      /\ UNCHANGED <<tabVars, snap, setAside, serverVars, pardoned, raced>>

\* resumeOrphans reads the buffer ...
ScanBuffer(t) ==
  /\ Open(t) /\ snap[t] = {} /\ db[BrowserOf[t]] # {}
  /\ snap' = [snap EXCEPT ![t] = db[BrowserOf[t]]]
  /\ UNCHANGED <<tabVars, saving, items, setAside, db, serverVars,
                 pardoned, raced, faults>>

\* ... and queues what it found and neither has queued nor set aside.
AdoptOrphans(t) ==
  LET found == {e \in snap[t] : e.seq \notin Queued(t) \cup setAside[t]}
  IN  /\ Open(t) /\ snap[t] # {}
      /\ items' = [items EXCEPT ![t] = @ \cup {NewItem(e, TRUE) : e \in found}]
      /\ snap' = [snap EXCEPT ![t] = {}]
      /\ UNCHANGED <<tabVars, saving, setAside, db, serverVars,
                     pardoned, raced, faults>>

\* A chunk older than three days is removed from the buffer, unsent.
PurgeStale(t) ==
  /\ Open(t) /\ Fault
  /\ \E e \in db[BrowserOf[t]] :
       /\ db' = [db EXCEPT ![BrowserOf[t]] = @ \ {e}]
       /\ pardoned' = pardoned \cup {e.body}
  /\ UNCHANGED <<tabVars, queueVars, serverVars, raced>>

----------------------------------------------------------------------------
(* One upload. *)

\* i of t becomes j.
Becomes(t, i, j)  == items' = [items EXCEPT ![t] = (@ \ {i}) \cup {j}]
Leaves(t, i)      == items' = [items EXCEPT ![t] = @ \ {i}]
IsBuffered(t, i)  == \E e \in db[BrowserOf[t]] : e.seq = i.seq
Forgotten(t, i)   == db' = [db EXCEPT ![BrowserOf[t]] = Without(BrowserOf[t], i.seq)]
\* Mutant: a tab that merely has the chunk queued blocks the others.
LockedByQueue(t, i) == \E u \in Tabs \ {t} : i.seq \in Queued(u)
Locked(t, i)      == \E u \in Tabs : /\ BrowserOf[u] = BrowserOf[t]
                                     /\ \E j \in InFlight(u) : j.seq = i.seq

\* A chunk that is not in the buffer any more was uploaded by another tab.
AlreadyDone(t, i) == i.persisted /\ ~IsBuffered(t, i)

\* Mutant: a chunk that another uploader holds counts as done.
BusyIsDone(t, i) ==
  /\ i.at = "queued" /\ Cardinality(InFlight(t)) < Concurrency
  /\ IF AlreadyDone(t, i) \/ Locked(t, i) THEN Leaves(t, i)
     ELSE Becomes(t, i, [i EXCEPT !.at = IF i.sent THEN "register" ELSE "put"])
  /\ UNCHANGED <<tabVars, saving, snap, setAside, db, serverVars,
                 pardoned, raced, faults>>

\* pump and runItem: take the chunk's lock, then look whether it is still
\* buffered.  A lock that is held means: try again later.
StartUpload(t, i) ==
  /\ i.at = "queued" /\ Cardinality(InFlight(t)) < Concurrency /\ ~Locked(t, i)
  /\ IF AlreadyDone(t, i) THEN Leaves(t, i)
     ELSE Becomes(t, i, [i EXCEPT !.at = IF i.sent THEN "register" ELSE "put"])
  /\ UNCHANGED <<tabVars, saving, snap, setAside, db, serverVars,
                 pardoned, raced, faults>>

\* Mutant: the chunk leaves the buffer with the PUT, before its registration.
PutAndForget(t, i) ==
  /\ i.at = "put" /\ ~gone
  /\ object' = [object EXCEPT ![i.seq] = i.body]
  /\ Becomes(t, i, [i EXCEPT !.at = "register", !.sent = TRUE])
  /\ Forgotten(t, i)
  /\ UNCHANGED <<tabVars, saving, snap, setAside, rows, gone,
                 pardoned, raced, faults>>

\* The PUT to the presigned URL overwrites what the key held.
Put(t, i) ==
  /\ i.at = "put" /\ ~gone
  /\ object' = [object EXCEPT ![i.seq] = i.body]
  /\ Becomes(t, i, [i EXCEPT !.at = "register", !.sent = TRUE])
  /\ UNCHANGED <<tabVars, saving, snap, setAside, db, rows, gone,
                 pardoned, raced, faults>>

\* A registration of a number that has a row returns that row.
Register(t, i) ==
  /\ i.at = "register" /\ ~gone
  /\ rows' = rows \cup {i.seq}
  /\ Becomes(t, i, [i EXCEPT !.at = "forget"])
  /\ UNCHANGED <<tabVars, saving, snap, setAside, db, object, gone,
                 pardoned, raced, faults>>

\* Only a registered chunk leaves the buffer, and then the queue.
Forget(t, i) ==
  /\ i.at = "forget"
  /\ Forgotten(t, i) /\ Leaves(t, i)
  /\ UNCHANGED <<tabVars, saving, snap, setAside, serverVars,
                 pardoned, raced, faults>>

\* The recording does not exist any more: the chunk can never be uploaded.
Drop(t, i) ==
  /\ i.at \in {"put", "register"} /\ gone
  /\ Forgotten(t, i) /\ Leaves(t, i)
  /\ pardoned' = pardoned \cup {i.body}
  /\ UNCHANGED <<tabVars, saving, snap, setAside, serverVars, raced,
                 faults>>

\* The request fails, or its answer is lost after it took effect: it is tried
\* again, from the PUT unless that one went through.
Retry(t, i) ==
  /\ i.at \in {"put", "register"} /\ ~gone /\ Fault
  /\ \/ i.at = "register" /\ rows' = rows \cup {i.seq} /\ UNCHANGED object
     \/ i.at = "put" /\ object' = [object EXCEPT ![i.seq] = i.body] /\ UNCHANGED rows
     \/ UNCHANGED <<object, rows>>
  /\ Becomes(t, i, [i EXCEPT !.at = "queued"])
  /\ UNCHANGED <<tabVars, saving, snap, setAside, db, gone, pardoned, raced>>

\* The request is refused (a bad signature, no authorization): tried again,
\* and after MaxHard refusals set aside.  The buffer keeps what it has.
Refused(t, i) ==
  LET hard == i.hard + 1
  IN  /\ i.at \in {"put", "register"} /\ ~gone /\ Fault
      /\ IF hard < MaxHard
         THEN /\ Becomes(t, i, [i EXCEPT !.at = "queued", !.hard = hard])
              /\ UNCHANGED <<setAside, pardoned>>
         ELSE /\ Leaves(t, i)
              /\ setAside' = [setAside EXCEPT ![t] = @ \cup {i.seq}]
              /\ pardoned' = IF i.persisted THEN pardoned ELSE pardoned \cup {i.body}
      /\ UNCHANGED <<tabVars, saving, snap, db, serverVars, raced>>

----------------------------------------------------------------------------
(* The owner deletes the recording. *)

\* The server deletes the rows and every object under the recording's prefix,
\* whatever the tabs are doing.
DeleteRecording ==
  /\ ~gone /\ Fault
  /\ gone' = TRUE /\ rows' = {} /\ object' = [n \in Numbers |-> None]
  /\ pardoned' = Chunks
  /\ UNCHANGED <<tabVars, queueVars, db, raced>>

----------------------------------------------------------------------------
Upload(t) == \E i \in items[t] :
  StartUpload(t, i) \/ Put(t, i) \/ Register(t, i) \/ Forget(t, i) \/ Drop(t, i)

Next ==
  \/ DeleteRecording
  \/ \E t \in Tabs :
    \/ OpenTab(t) \/ BeginRecording(t) \/ Capture(t) \/ StopCapture(t)
    \/ AskForRow(t) \/ AbandonRoute(t) \/ OpenRoute(t) \/ CloseTab(t)
    \/ \E c \in saving[t] : Enqueue(t, c)
    \/ ScanBuffer(t) \/ AdoptOrphans(t) \/ PurgeStale(t)
    \/ \E i \in items[t] : \/ StartUpload(t, i) \/ Put(t, i) \/ Register(t, i)
                           \/ Forget(t, i) \/ Drop(t, i)
                           \/ Retry(t, i) \/ Refused(t, i)

Spec == Init /\ [][Next]_vars

\* The browser completes what was started, timers fire, and the participant
\* opens the app again.
FairSpec ==
  /\ Spec
  /\ \A t \in Tabs :
       /\ WF_vars(OpenTab(t)) /\ WF_vars(ScanBuffer(t)) /\ WF_vars(AdoptOrphans(t))
       /\ WF_vars(phase[t] = "stopping" /\ StopCapture(t))
       /\ WF_vars(AskForRow(t)) /\ WF_vars(OpenRoute(t))
       /\ WF_vars(\E c \in saving[t] : Enqueue(t, c))
       /\ WF_vars(Upload(t))

----------------------------------------------------------------------------
(* What the uploader promises. *)

TypeOK ==
  /\ phase \in [Tabs -> {"closed", "idle", "capturing", "stopping"}]
  /\ route \in [Tabs -> {"none", "asked", "answered", "open", "left",
                      "abandoned"}]
  /\ answer \in [Tabs -> 0..Cardinality(Numbers)]
  /\ base \in [Tabs -> 0..Cardinality(Numbers)]
  /\ made \in [Tabs -> 0..MaxChunks]
  /\ saving \in [Tabs -> SUBSET Chunks] /\ items \in [Tabs -> SUBSET Items]
  /\ snap \in [Tabs -> SUBSET Buffered] /\ setAside \in [Tabs -> SUBSET Numbers]
  /\ db \in [Browsers -> SUBSET Buffered]
  /\ \A t \in Tabs : /\ saving[t] \subseteq Of(t)
                     /\ \A i, j \in items[t] : i.seq = j.seq => i = j
  /\ \A b \in Browsers : \A e, f \in db[b] : e.seq = f.seq => e = f
  /\ object \in [Numbers -> Chunks \cup {None}]
  /\ rows \subseteq Numbers /\ gone \in BOOLEAN
  /\ pardoned \subseteq Chunks /\ raced \subseteq {"uploaded", "takeover", "device"}
  /\ faults \in 0..MaxFaults

\* A chunk, wherever it is.
Fate(c) == IF c \notin Recorded THEN "unrecorded"
           ELSE IF Delivered(c) THEN "stored"
           ELSE IF Held(c)      THEN "held" ELSE "lost"

\* Every chunk is held by the browser until the server has it, and stays on
\* the server: the deletion from IndexedDB follows the registration, two
\* uploaders of one chunk do not undo each other, and only the events
\* the code accepts (or two chunks under one number) lose a chunk.
Promise == INSTANCE Delivery WITH
  fate <- [c \in Chunks |-> Fate(c)],
  pardoned <- pardoned \cup {c \in Recorded : Clashes(c)}
KeepsChunks == Promise!Spec

Distinct == \A c \in Recorded \ pardoned : Clashes(c) =>
              \E d \in pardoned : Numbered(d) /\ Number(d) = Number(c)

\* Two chunks of a track get one number only if a tab started from a stale
\* one: after the three races the code leaves open, and never by itself,
\* whatever is registered, buffered, closed or adopted.
NumberedOnce == raced = {} => Distinct

\* A refreshed tab, which has no other tab or device beside it, numbers its
\* chunks past those that were uploaded or are buffered.
RefreshContinues == raced \subseteq {"uploaded"} => Distinct

\* waitUntilDrained: when a tab that stopped has an empty queue, the server
\* has everything the tab recorded, or the tab knows that it set it aside.
DrainedIsSafe ==
  \A t \in Tabs :
    (/\ phase[t] = "idle" /\ route[t] = "open" /\ saving[t] = {} /\ items[t] = {})
      => \A c \in Of(t) : \/ Delivered(c) \/ c \in pardoned \/ Clashes(c)
                          \/ Number(c) \in setAside[t]

\* What is buffered is uploaded in the end, if the app is opened again and
\* the faults end; unless every open tab set it aside.
ChunksArrive ==
  \A c \in Chunks :
    (\E b \in Browsers : \E e \in db[b] : e.body = c)
      ~> (\/ Delivered(c) \/ c \in pardoned \/ Clashes(c)
          \/ Numbered(c) /\ \E t \in Tabs : Number(c) \in setAside[t])

=============================================================================
