------------------------ MODULE ChunkUploader_proofs ------------------------
(***************************************************************************)
(* Proofs about ChunkUploader, for any number of tabs, browsers, chunks    *)
(* and faults.  A chunk is excused when it is pardoned or shares its       *)
(* number with another.  What is inductive: whatever names a chunk, in a    *)
(* buffer, a queue or the store, names one that was recorded, under its     *)
(* number (Entries); what was sent is stored, and a chunk that is not        *)
(* excused is on the server, in its tab's memory or in its browser's        *)
(* buffer (Kept).  The refinement of Delivery is read off that; that a      *)
(* drained tab has lost nothing rests on Covered, and that numbers are      *)
(* used once on NumberInv.                                                  *)
(***************************************************************************)
EXTENDS ChunkUploader, FiniteSetTheorems, WellFoundedInduction, TLAPS

----------------------------------------------------------------------------
(* Numbers.                                                                *)

LEMMA Counts ==
  /\ MaxChunks \in Nat \ {0} /\ MaxHard \in Nat \ {0} /\ MaxFaults \in Nat
  /\ IsFiniteSet(Tabs) /\ Cardinality(Tabs) \in Nat
  BY UploaderAssumption, FS_CardinalityType

LEMMA ProductStep == ASSUME NEW m \in Nat, NEW n \in Nat PROVE (m + 1) * n = m * n + n
  OBVIOUS

LEMMA ProductGrows ==
  ASSUME NEW m \in Nat, NEW n \in Nat, NEW k \in Nat, m <= k
  PROVE  m * n \in Nat /\ m * n <= k * n
  OBVIOUS

\* A set of numbers, with -1, that is bounded has a largest element.
LEMMA MaxIsLargest ==
  ASSUME NEW S \in SUBSET Int, NEW x \in S, NEW n \in Int, \A y \in S : y <= n
  PROVE  Max(S) \in S /\ \A y \in S : y <= Max(S)
<1> DEFINE T == {d \in Nat : n - d \in S}
<1>1. n - x \in T
  <2>1. n - x \in Nat /\ n - (n - x) = x OBVIOUS
  <2> QED BY <2>1
<1>2. \E d \in T : \A e \in T : ~(<<e, d>> \in OpToRel(<, Nat))
  BY <1>1, NatLessThanWellFounded, WFMin, Zenon
<1>3. PICK d \in T : \A e \in T : ~(e < d)
  BY <1>2 DEF OpToRel
<1>4. ASSUME NEW y \in S PROVE n - d >= y
  <2>1. n - y \in Nat /\ n - (n - y) = y OBVIOUS
  <2>2. n - y \in T BY <2>1
  <2> QED BY <1>3, <2>2
<1>5. n - d \in S OBVIOUS
<1> QED BY <1>4, <1>5 DEF Max

LEMMA Max0Fits ==
  ASSUME NEW S \in SUBSET Nat, NEW n \in Nat, \A x \in S : x < n
  PROVE  /\ Max0(S) \in Int /\ Max0(S) + 1 \in 0..n
         /\ \A x \in S : x <= Max0(S)
<1> DEFINE T == S \cup {-1}
<1>1. T \in SUBSET Int /\ -1 \in T /\ n \in Int /\ \A y \in T : y <= n OBVIOUS
<1>2. Max(T) \in T /\ \A y \in T : y <= Max(T)
  <2> HIDE DEF T
  <2> QED BY <1>1, MaxIsLargest
<1>3. Max0(S) = Max(T) BY DEF Max0
<1>4. Max0(S) = -1 \/ Max0(S) \in S BY <1>2, <1>3
<1>5. \A x \in S : x <= Max0(S) BY <1>2, <1>3
<1>6. \A m \in Nat : m < n => m \in Int /\ m + 1 \in 0..n OBVIOUS
<1>7. -1 \in Int /\ -1 + 1 \in 0..n OBVIOUS
<1> QED BY <1>4, <1>5, <1>6, <1>7, Zenon

----------------------------------------------------------------------------
(* The invariant, in parts.                                                *)

Excused(c) == c \in pardoned \/ Clashes(c)

\* The tabs that number their chunks, and the numbers they may have used.
Placed == {t \in Tabs : route[t] \in {"open", "left"}}
Used   == Cardinality(Placed) * MaxChunks

Bounded ==
  /\ \A n \in rows : n < Used
  /\ \A t \in Tabs : answer[t] <= Used
  /\ \A t \in Placed : base[t] + MaxChunks <= Used

\* A tab captures only for a row it asked for, and writes only under a number.
Routes ==
  \A t \in Tabs :
    /\ phase[t] \in {"capturing", "stopping"}
         => route[t] \in {"asked", "answered", "open", "abandoned"}
    /\ saving[t] # {} => route[t] = "open"
    /\ made[t] > 0 => route[t] # "none"

\* A copy of a chunk: recorded, under its number, and written once.
IsCopy(e, b) ==
  /\ e.body \in Recorded /\ Numbered(e.body) /\ e.seq = Number(e.body)
  /\ e.body \notin saving[e.body.tab] /\ BrowserOf[e.body.tab] = b

Entries ==
  /\ \A b \in Browsers : \A e \in db[b] : IsCopy(e, b)
  /\ \A t \in Tabs : \A e \in snap[t] : IsCopy(e, BrowserOf[t])
  /\ \A t \in Tabs : \A e, f \in snap[t] : e.seq = f.seq => e = f
  /\ \A t \in Tabs : \A i \in items[t] : /\ IsCopy(i, BrowserOf[t])
                                         /\ ~i.persisted => i.body.tab = t

TypeInv == TypeOK /\ Bounded /\ Routes /\ Entries

\* What an upload has done is there, up to its last step.
SentItem(i) ==
  /\ i.at \in {"register", "forget"} => i.sent
  /\ i.sent => object[i.seq] = i.body \/ Excused(i.body)
  /\ i.at = "forget" => i.seq \in rows \/ Excused(i.body)

Sent ==
  /\ \A n \in Numbers : object[n] \in Recorded \cup {None}
  /\ \A t \in Tabs : \A i \in items[t] : SentItem(i)

Buffers(c) == \E e \in db[BrowserOf[c.tab]] : e.body = c

KeptOne(c) == Excused(c) \/ Delivered(c) \/ c \in OnlyIn(c.tab) \/ Buffers(c)
Kept       == \A c \in Recorded : KeptOne(c)

KeptInv == TypeInv /\ Sent /\ Kept

\* What a numbering tab has recorded it will upload, or has set aside.
CoveredOne(t, c) == \/ Excused(c) \/ Delivered(c) \/ c \in saving[t]
                    \/ \E i \in items[t] : i.body = c
                    \/ Number(c) \in setAside[t]
Covered == \A t \in Tabs : route[t] = "open" => \A c \in Of(t) : CoveredOne(t, c)

\* Numbers: while no tab started from a stale one, one tab at a time adds
\* chunks, and it does so past every number that no pardoned chunk has.
Busy(t)    == route[t] = "open" /\ phase[t] \in {"capturing", "stopping"}
Spoilt(n)  == \E d \in pardoned : Numbered(d) /\ Number(d) = n
OneBusy    == \A t, u \in Tabs : Busy(t) /\ Busy(u) => t = u
Past(t)    == \A c \in Recorded : c.tab # t /\ Numbered(c) =>
                                    Number(c) < base[t] \/ Spoilt(Number(c))
NumberInv  == raced = {} => Distinct /\ OneBusy /\ \A t \in Tabs : Busy(t) => Past(t)

----------------------------------------------------------------------------
(* Chunks and their numbers.                                               *)

LEMMA ChunkFields ==
  /\ \A c \in Chunks : c.tab \in Tabs /\ c.k \in Nat /\ c.k < MaxChunks
  /\ \A t \in Tabs, k \in Nat : k < MaxChunks => [tab |-> t, k |-> k] \in Chunks
  /\ \A c, d \in Chunks : c.tab = d.tab /\ c.k = d.k => c = d
<1> DEFINE K == 0..(MaxChunks - 1)
<1>1. \A k : k \in K <=> k \in Nat /\ k < MaxChunks BY Counts
<1>2. Chunks = [tab : Tabs, k : K] BY DEF Chunks
<1> HIDE DEF K
<1> QED BY <1>1, <1>2

LEMMA RecordedMeans ==
  /\ Recorded = {c \in Chunks : c.k < made[c.tab]}
  /\ \A t \in Tabs : Of(t) = {c \in Recorded : c.tab = t}
  BY ChunkFields DEF Recorded, Of

LEMMA NumbersAre ==
  /\ Cardinality(Numbers) \in Nat
  /\ Numbers = 0..(Cardinality(Numbers) - 1)
  /\ Cardinality(Numbers) = Cardinality(Tabs) * MaxChunks
<1>1. Cardinality(Tabs) * MaxChunks \in Nat BY Counts, ProductGrows
<1> QED BY <1>1, FS_Interval DEF Numbers

LEMMA UsedFits ==
  /\ IsFiniteSet(Placed) /\ Cardinality(Placed) \in Nat
  /\ Used \in Nat /\ Used <= Cardinality(Numbers)
<1>1. IsFiniteSet(Placed) /\ Cardinality(Placed) <= Cardinality(Tabs)
  BY Counts, FS_Subset DEF Placed
<1>2. Cardinality(Placed) \in Nat BY <1>1, FS_CardinalityType
<1> QED BY <1>1, <1>2, Counts, NumbersAre, ProductGrows DEF Used

LEMMA NumbersFit ==
  ASSUME TypeOK, Bounded, NEW c \in Recorded, Numbered(c)
  PROVE  Number(c) \in Numbers /\ Number(c) < Used
<1>1. c \in Chunks /\ c.tab \in Tabs /\ c.k \in Nat /\ c.k < MaxChunks
  BY RecordedMeans, ChunkFields
<1>2. base[c.tab] \in Nat /\ base[c.tab] + MaxChunks <= Used
  BY <1>1, NumbersAre DEF TypeOK, Bounded, Numbered, Placed
<1>3. Number(c) \in Nat /\ Number(c) < Used BY <1>1, <1>2, Counts, UsedFits DEF Number
<1>4. \A m, n, k \in Nat : m < n /\ n <= k => m \in 0..(k - 1) OBVIOUS
<1> QED BY <1>3, <1>4, UsedFits, NumbersAre, Zenon

\* A step that leaves the tabs alone leaves the chunks and their numbers alone.
LEMMA StillSame ==
  ASSUME UNCHANGED tabVars
  PROVE  /\ Recorded' = Recorded /\ Placed' = Placed /\ Used' = Used
         /\ \A t \in Tabs : Of(t)' = Of(t)
         /\ \A c \in Chunks : Numbered(c)' = Numbered(c) /\ Number(c)' = Number(c)
<1>1. \A t \in Tabs : Of(t)' = Of(t) BY DEF tabVars, Of
<1>2. Recorded' = Recorded BY <1>1 DEF Recorded
<1>3. Placed' = Placed BY DEF tabVars, Placed
<1>4. Used' = Used BY <1>3 DEF Used
<1>5. \A c \in Chunks : Numbered(c)' = Numbered(c) BY DEF tabVars, Numbered
<1>6. \A c \in Chunks : Number(c)' = Number(c) BY DEF tabVars, Number
<1> QED BY <1>1, <1>2, <1>3, <1>4, <1>5, <1>6

----------------------------------------------------------------------------
(* Types.                                                                  *)

LEMMA NewItems ==
  ASSUME NEW e \in Buffered
  PROVE  /\ NewItem(e, TRUE) \in Items /\ NewItem(e, FALSE) \in Items
         /\ NewItem(e, TRUE).seq = e.seq /\ NewItem(e, FALSE).seq = e.seq
  BY Counts DEF Items, Buffered, NewItem, Stages

\* The items a step of an upload leaves in the queues.
ItemsFollow ==
  /\ items' \in [Tabs -> SUBSET Items]
  /\ \A t \in Tabs : \A x, y \in items'[t] : x.seq = y.seq => x = y
  /\ \A t \in Tabs : \A x \in items'[t] : \E y \in items[t] :
        x.seq = y.seq /\ x.body = y.body /\ x.persisted = y.persisted

LEMMA LeavesFollows ==
  ASSUME TypeOK, NEW t \in Tabs, NEW i, Leaves(t, i)
  PROVE  ItemsFollow
  BY DEF TypeOK, Leaves, ItemsFollow

LEMMA BecomesFollows ==
  ASSUME TypeOK, NEW t \in Tabs, NEW i \in items[t], NEW j \in Items, Becomes(t, i, j),
         j.seq = i.seq, j.body = i.body, j.persisted = i.persisted
  PROVE  ItemsFollow
<1>1. items \in [Tabs -> SUBSET Items] BY DEF TypeOK
<1>2. items' = [items EXCEPT ![t] = (items[t] \ {i}) \cup {j}] BY DEF Becomes
<1>3. items' \in [Tabs -> SUBSET Items] BY <1>1, <1>2
<1>4. \A u \in Tabs : u # t => items'[u] = items[u] BY <1>1, <1>2
<1>5. items'[t] = (items[t] \ {i}) \cup {j} BY <1>1, <1>2
<1>6. \A u \in Tabs : \A x, y \in items[u] : x.seq = y.seq => x = y BY DEF TypeOK
<1> QED BY <1>3, <1>4, <1>5, <1>6 DEF ItemsFollow

LEMMA ItemFields ==
  \A i \in Items : /\ i.seq \in Numbers /\ i.body \in Chunks /\ i.hard \in 0..MaxHard
                   /\ i.at \in Stages
  BY DEF Items

\* One upload: the item changes its place, the rest of the queues does not.
UploadSteps(t, i) == \/ StartUpload(t, i) \/ Put(t, i) \/ Register(t, i)
                     \/ Forget(t, i) \/ Drop(t, i) \/ Retry(t, i) \/ Refused(t, i)

LEMMA UploadFollows ==
  ASSUME TypeOK, NEW t \in Tabs, NEW i \in items[t], UploadSteps(t, i)
  PROVE  ItemsFollow /\ UNCHANGED tabVars
<1>i. i \in Items BY DEF TypeOK
<1>s. {"queued", "put", "register", "forget"} \subseteq Stages BY DEF Stages
<1>1. CASE StartUpload(t, i)
  <2>1. CASE Leaves(t, i) BY <1>1, <2>1, LeavesFollows DEF StartUpload
  <2>2. CASE Becomes(t, i, [i EXCEPT !.at = IF i.sent THEN "register" ELSE "put"])
    <3> DEFINE s == IF i.sent THEN "register" ELSE "put"
    <3>1. s \in Stages BY <1>s
    <3> HIDE DEF s
    <3> DEFINE j == [i EXCEPT !.at = s]
    <3>2. j \in Items BY <1>i, <3>1 DEF Items
    <3>3. j.seq = i.seq /\ j.body = i.body /\ j.persisted = i.persisted BY <1>i DEF Items
    <3>4. Becomes(t, i, j) BY <2>2 DEF s
    <3> HIDE DEF j
    <3> QED BY <1>1, <3>2, <3>3, <3>4, BecomesFollows DEF StartUpload
  <2> QED BY <1>1, <2>1, <2>2 DEF StartUpload
<1>2. CASE Put(t, i)
  <2> DEFINE j == [i EXCEPT !.at = "register", !.sent = TRUE]
  <2>1. j \in Items BY <1>i, <1>s DEF Items
  <2>2. j.seq = i.seq /\ j.body = i.body /\ j.persisted = i.persisted BY <1>i DEF Items
  <2>3. Becomes(t, i, j) BY <1>2 DEF Put
  <2> HIDE DEF j
  <2> QED BY <1>2, <2>1, <2>2, <2>3, BecomesFollows DEF Put
<1>3. CASE Register(t, i)
  <2> DEFINE j == [i EXCEPT !.at = "forget"]
  <2>1. j \in Items BY <1>i, <1>s DEF Items
  <2>2. j.seq = i.seq /\ j.body = i.body /\ j.persisted = i.persisted BY <1>i DEF Items
  <2>3. Becomes(t, i, j) BY <1>3 DEF Register
  <2> HIDE DEF j
  <2> QED BY <1>3, <2>1, <2>2, <2>3, BecomesFollows DEF Register
<1>4. CASE Forget(t, i) BY <1>4, LeavesFollows DEF Forget
<1>5. CASE Drop(t, i) BY <1>5, LeavesFollows DEF Drop
<1>6. CASE Retry(t, i)
  <2> DEFINE j == [i EXCEPT !.at = "queued"]
  <2>1. j \in Items BY <1>i, <1>s DEF Items
  <2>2. j.seq = i.seq /\ j.body = i.body /\ j.persisted = i.persisted BY <1>i DEF Items
  <2>3. Becomes(t, i, j) BY <1>6 DEF Retry
  <2> HIDE DEF j
  <2> QED BY <1>6, <2>1, <2>2, <2>3, BecomesFollows DEF Retry
<1>7. CASE Refused(t, i)
  <2> DEFINE j == [i EXCEPT !.at = "queued", !.hard = i.hard + 1]
  <2>1. CASE i.hard + 1 < MaxHard
    <3>1. i.hard + 1 \in 0..MaxHard BY <1>i, <2>1, ItemFields, Counts
    <3>2. j \in Items BY <1>i, <1>s, <3>1 DEF Items
    <3>3. j.seq = i.seq /\ j.body = i.body /\ j.persisted = i.persisted BY <1>i DEF Items
    <3>4. Becomes(t, i, j) BY <1>7, <2>1 DEF Refused
    <3> HIDE DEF j
    <3> QED BY <1>7, <3>2, <3>3, <3>4, BecomesFollows DEF Refused
  <2>2. CASE ~(i.hard + 1 < MaxHard) BY <1>7, <2>2, LeavesFollows DEF Refused
  <2> QED BY <2>1, <2>2
<1> QED BY <1>1, <1>2, <1>3, <1>4, <1>5, <1>6, <1>7 DEF UploadSteps

LEMMA UploadTypes ==
  ASSUME TypeOK, NEW t \in Tabs, NEW i \in items[t], UploadSteps(t, i)
  PROVE  TypeOK'
<1>i. i \in Items /\ i.seq \in Numbers /\ i.body \in Chunks BY ItemFields DEF TypeOK
<1>f. ItemsFollow /\ UNCHANGED tabVars BY UploadFollows
<1>1. UNCHANGED <<saving, snap, raced>>
  BY DEF UploadSteps, StartUpload, Put, Register, Forget, Drop, Retry, Refused, serverVars
<1>2. setAside' \in [Tabs -> SUBSET Numbers]
  <2>1. setAside' = setAside \/ setAside' = [setAside EXCEPT ![t] = @ \cup {i.seq}]
    BY DEF UploadSteps, StartUpload, Put, Register, Forget, Drop, Retry, Refused, serverVars
  <2> QED BY <1>i, <2>1 DEF TypeOK
<1>b. BrowserOf[t] \in Browsers BY DEF Browsers
<1>d. db' = db \/ Forgotten(t, i)
  BY DEF UploadSteps, StartUpload, Put, Register, Forget, Drop, Retry, Refused, serverVars
<1>3. \A b \in Browsers : db'[b] \subseteq db[b]
  BY <1>b, <1>d DEF TypeOK, Forgotten, Without
<1>4. db' \in [Browsers -> SUBSET Buffered]
  BY <1>b, <1>d DEF TypeOK, Forgotten, Without
<1>5. object' \in [Numbers -> Chunks \cup {None}]
  <2>1. object' = object \/ object' = [object EXCEPT ![i.seq] = i.body]
    BY DEF UploadSteps, StartUpload, Put, Register, Forget, Drop, Retry, Refused, serverVars
  <2> QED BY <1>i, <2>1 DEF TypeOK
<1>6. rows' \subseteq Numbers
  BY <1>i DEF TypeOK, UploadSteps, StartUpload, Put, Register, Forget, Drop, Retry, Refused, serverVars
<1>7. pardoned' \subseteq Chunks
  BY <1>i DEF TypeOK, UploadSteps, StartUpload, Put, Register, Forget, Drop, Retry, Refused, serverVars
<1>8. faults' \in 0..MaxFaults
  BY Counts DEF TypeOK, UploadSteps, StartUpload, Put, Register, Forget, Drop, Retry, Refused, serverVars,
     Fault, MayFail
<1>9. gone' = gone
  BY DEF UploadSteps, StartUpload, Put, Register, Forget, Drop, Retry, Refused, serverVars
<1>10. \A u \in Tabs : saving'[u] \subseteq Of(u)'
  BY <1>f, <1>1, StillSame DEF TypeOK
<1>11. \A u \in Tabs : \A x, y \in items'[u] : x.seq = y.seq => x = y
  BY <1>f DEF ItemsFollow
<1>12. \A b \in Browsers : \A e, f \in db'[b] : e.seq = f.seq => e = f
  BY <1>3 DEF TypeOK
<1>13. items' \in [Tabs -> SUBSET Items] BY <1>f DEF ItemsFollow
<1> QED
  BY <1>f, <1>1, <1>2, <1>4, <1>5, <1>6, <1>7, <1>8, <1>9, <1>10, <1>11, <1>12, <1>13
  DEF TypeOK, tabVars

BufferSteps(t) == \/ \E c \in saving[t] : Enqueue(t, c)
                  \/ ScanBuffer(t) \/ AdoptOrphans(t) \/ PurgeStale(t)

LEMMA BrowserIs == \A t \in Tabs : BrowserOf[t] \in Browsers
  BY DEF Browsers

LEMMA EnqueueTypes ==
  ASSUME TypeInv, NEW t \in Tabs, NEW c \in saving[t], Enqueue(t, c)
  PROVE  TypeOK' /\ UNCHANGED tabVars /\ Copy(c) \in Buffered
<1>1. c \in Recorded /\ c.tab = t /\ Numbered(c)
  BY RecordedMeans DEF TypeInv, TypeOK, Routes, Numbered
<1>2. Number(c) \in Numbers /\ c \in Chunks
  BY <1>1, NumbersFit, RecordedMeans DEF TypeInv
<1>3. Copy(c) \in Buffered /\ Copy(c).seq = Number(c) /\ Copy(c).body = c
  BY <1>2 DEF Copy, Buffered
<1>4. UNCHANGED tabVars /\ UNCHANGED <<snap, setAside, object, rows, gone, pardoned, raced>>
  BY DEF Enqueue, serverVars
<1>5. saving' \in [Tabs -> SUBSET Chunks] /\ \A u \in Tabs : saving'[u] \subseteq saving[u]
  BY DEF Enqueue, TypeInv, TypeOK
<1>6. \A u \in Tabs : saving'[u] \subseteq Of(u)'
  BY <1>4, <1>5, StillSame DEF TypeInv, TypeOK
<1>7. /\ items' \in [Tabs -> SUBSET Items]
      /\ \A u \in Tabs : \A i, j \in items'[u] : i.seq = j.seq => i = j
  <2> DEFINE push(j) == items' = IF Number(c) \in Queued(t) THEN items
                                 ELSE [items EXCEPT ![t] = @ \cup {j}]
  <2>1. PICK j \in {NewItem(Copy(c), TRUE), NewItem(Copy(c), FALSE)} : push(j)
    BY Zenon DEF Enqueue
  <2>2. j \in Items /\ j.seq = Number(c) BY <1>3, <2>1, NewItems
  <2>3. CASE Number(c) \in Queued(t)
    <3>1. items' = items BY <2>1, <2>3
    <3> QED BY <3>1 DEF TypeInv, TypeOK
  <2>4. CASE Number(c) \notin Queued(t)
    <3>1. items' = [items EXCEPT ![t] = @ \cup {j}] BY <2>1, <2>4
    <3>2. \A i \in items[t] : i.seq # j.seq BY <2>2, <2>4 DEF Queued
    <3> HIDE DEF push
    <3> QED BY <2>2, <3>1, <3>2 DEF TypeInv, TypeOK
  <2> QED BY <2>3, <2>4
<1>8. db' = db \/ db' = [db EXCEPT ![BrowserOf[t]] = Without(BrowserOf[t], Number(c)) \cup {Copy(c)}]
  BY DEF Enqueue
<1>9. /\ db' \in [Browsers -> SUBSET Buffered]
      /\ \A b \in Browsers : \A e, f \in db'[b] : e.seq = f.seq => e = f
  BY <1>3, <1>8, BrowserIs DEF TypeInv, TypeOK, Without
<1>10. faults' \in 0..MaxFaults
  <2>1. faults' = faults \/ (faults < MaxFaults /\ faults' = faults + 1)
    BY DEF Enqueue, Fault, MayFail
  <2> QED BY <2>1, Counts DEF TypeInv, TypeOK
<1> QED
  BY <1>3, <1>4, <1>5, <1>6, <1>7, <1>9, <1>10 DEF TypeInv, TypeOK, tabVars

LEMMA ScanTypes ==
  ASSUME TypeOK, NEW t \in Tabs, ScanBuffer(t)
  PROVE  TypeOK' /\ UNCHANGED tabVars
<1>1. UNCHANGED tabVars
      /\ UNCHANGED <<saving, items, setAside, db, object, rows, gone, pardoned, raced, faults>>
  BY DEF ScanBuffer, serverVars
<1>2. snap' \in [Tabs -> SUBSET Buffered] BY BrowserIs DEF ScanBuffer, TypeOK
<1>3. \A u \in Tabs : Of(u)' = Of(u) BY <1>1, StillSame
<1> QED BY <1>1, <1>2, <1>3 DEF TypeOK, tabVars

LEMMA AdoptTypes ==
  ASSUME TypeInv, NEW t \in Tabs, AdoptOrphans(t)
  PROVE  TypeOK' /\ UNCHANGED tabVars
<1>1. UNCHANGED tabVars
      /\ UNCHANGED <<saving, setAside, db, object, rows, gone, pardoned, raced, faults>>
  BY DEF AdoptOrphans, serverVars
<1>2. snap' \in [Tabs -> SUBSET Buffered] BY DEF AdoptOrphans, TypeInv, TypeOK
<1>3. \A u \in Tabs : Of(u)' = Of(u) BY <1>1, StillSame
<1> DEFINE found == {e \in snap[t] : e.seq \notin Queued(t) \cup setAside[t]}
           new == {NewItem(e, TRUE) : e \in found}
<1>a. \A e \in snap[t] : NewItem(e, TRUE) \in Items /\ NewItem(e, TRUE).seq = e.seq
  <2>1. \A e \in snap[t] : e \in Buffered BY DEF TypeInv, TypeOK
  <2> QED BY <2>1, NewItems
<1>4. new \subseteq Items BY <1>a
<1>5. \A i, j \in new : i.seq = j.seq => i = j
  <2>1. \A e, f \in snap[t] : e.seq = f.seq => e = f BY DEF TypeInv, Entries
  <2>2. ASSUME NEW i \in new, NEW j \in new, i.seq = j.seq PROVE i = j
    <3>1. PICK e \in snap[t] : i = NewItem(e, TRUE) OBVIOUS
    <3>2. PICK f \in snap[t] : j = NewItem(f, TRUE) OBVIOUS
    <3>3. e.seq = f.seq BY <1>a, <2>2, <3>1, <3>2
    <3>4. e = f BY <2>1, <3>3
    <3> QED BY <3>1, <3>2, <3>4
  <2> QED BY <2>2, Zenon
<1>6. \A i \in new, j \in items[t] : i.seq # j.seq BY <1>a DEF Queued
<1>7. items' = [items EXCEPT ![t] = @ \cup new] BY DEF AdoptOrphans
<1> HIDE DEF new
<1>8. /\ items' \in [Tabs -> SUBSET Items]
      /\ \A u \in Tabs : \A i, j \in items'[u] : i.seq = j.seq => i = j
  BY <1>4, <1>5, <1>6, <1>7 DEF TypeInv, TypeOK
<1> QED BY <1>1, <1>2, <1>3, <1>8 DEF TypeInv, TypeOK, tabVars

LEMMA PurgeTypes ==
  ASSUME TypeOK, NEW t \in Tabs, PurgeStale(t)
  PROVE  TypeOK' /\ UNCHANGED tabVars
<1>1. UNCHANGED tabVars
      /\ UNCHANGED <<saving, items, snap, setAside, object, rows, gone, raced>>
  BY DEF PurgeStale, serverVars, queueVars
<1>2. PICK e \in db[BrowserOf[t]] : /\ db' = [db EXCEPT ![BrowserOf[t]] = @ \ {e}]
                                   /\ pardoned' = pardoned \cup {e.body}
  BY DEF PurgeStale
<1>3. e.body \in Chunks BY BrowserIs DEF TypeOK, Buffered
<1>4. /\ db' \in [Browsers -> SUBSET Buffered]
      /\ \A b \in Browsers : \A x, y \in db'[b] : x.seq = y.seq => x = y
  BY <1>2, BrowserIs DEF TypeOK
<1>5. pardoned' \subseteq Chunks BY <1>2, <1>3 DEF TypeOK
<1>6. faults' \in 0..MaxFaults BY Counts DEF PurgeStale, Fault, MayFail, TypeOK
<1>7. \A u \in Tabs : Of(u)' = Of(u) BY <1>1, StillSame
<1> QED BY <1>1, <1>4, <1>5, <1>6, <1>7 DEF TypeOK, tabVars

LEMMA DeleteTypes ==
  ASSUME TypeOK, DeleteRecording
  PROVE  TypeOK' /\ UNCHANGED tabVars
<1>1. UNCHANGED tabVars
      /\ UNCHANGED <<saving, items, snap, setAside, db, raced>>
  BY DEF DeleteRecording, queueVars
<1>2. \A u \in Tabs : Of(u)' = Of(u) BY <1>1, StillSame
<1>3. faults' \in 0..MaxFaults BY Counts DEF DeleteRecording, Fault, MayFail, TypeOK
<1>4. object' \in [Numbers -> Chunks \cup {None}] /\ rows' \subseteq Numbers
      /\ pardoned' \subseteq Chunks
  BY DEF DeleteRecording
<1>5. gone' \in BOOLEAN BY DEF DeleteRecording
<1> QED BY <1>1, <1>2, <1>3, <1>4, <1>5 DEF TypeOK, tabVars

TabSteps(t) == \/ OpenTab(t) \/ BeginRecording(t) \/ Capture(t) \/ StopCapture(t)
               \/ AskForRow(t) \/ AbandonRoute(t) \/ OpenRoute(t) \/ CloseTab(t)

LEMMA OfGrows ==
  ASSUME TypeOK, made' \in [Tabs -> 0..MaxChunks], \A u \in Tabs : made[u] <= made'[u]
  PROVE  /\ \A u \in Tabs : Of(u) \subseteq Of(u)'
         /\ Recorded \subseteq Recorded'
<1>1. ASSUME NEW u \in Tabs PROVE Of(u) \subseteq Of(u)'
  BY Counts, ChunkFields DEF Of, TypeOK
<1> QED BY <1>1 DEF Recorded

LEMMA MaxOfTwo ==
  ASSUME NEW x \in Int, NEW y \in Int
  PROVE  /\ Max({x, y}) \in {x, y} /\ Max({x, y}) >= x /\ Max({x, y}) >= y
<1>1. Max({x, y}) = CHOOSE m \in {x, y} : \A z \in {x, y} : m >= z BY DEF Max
<1>2. \E m \in {x, y} : \A z \in {x, y} : m >= z
  <2>1. x >= y \/ y >= x OBVIOUS
  <2> QED BY <2>1
<1> QED BY <1>1, <1>2

\* Where a tab continues: past the answer and past what its browser buffers.
First(t) == Max({answer[t], Max0({e.seq : e \in db[BrowserOf[t]]}) + 1})

LEMMA FirstIs ==
  ASSUME TypeInv, NEW t \in Tabs
  PROVE  /\ First(t) \in Nat /\ First(t) <= Used /\ First(t) >= answer[t]
         /\ \A e \in db[BrowserOf[t]] : e.seq < First(t)
<1> DEFINE S == {e.seq : e \in db[BrowserOf[t]]}
<1>1. \A e \in db[BrowserOf[t]] : e.seq \in Nat /\ e.seq < Used
  <2>1. \A e \in db[BrowserOf[t]] : IsCopy(e, BrowserOf[t])
    BY BrowserIs DEF TypeInv, Entries
  <2>2. \A c \in Recorded : Numbered(c) => Number(c) \in Numbers /\ Number(c) < Used
    BY NumbersFit DEF TypeInv
  <2>3. Numbers \subseteq Nat BY NumbersAre
  <2> QED BY <2>1, <2>2, <2>3 DEF IsCopy
<1>2. S \in SUBSET Nat /\ \A x \in S : x < Used BY <1>1
<1> HIDE DEF S
<1>3. PICK m : m = Max0(S) OBVIOUS
<1>4. m \in Int /\ m + 1 \in 0..Used /\ \A x \in S : x <= m
  BY <1>2, <1>3, UsedFits, Max0Fits
<1>5. answer[t] \in Nat /\ answer[t] <= Used BY NumbersAre DEF TypeInv, TypeOK, Bounded
<1>6. First(t) = Max({answer[t], m + 1}) BY <1>3 DEF First, S
<1>7. First(t) \in {answer[t], m + 1} /\ First(t) >= answer[t] /\ First(t) >= m + 1
  <2>1. answer[t] \in Int /\ m + 1 \in Int BY <1>4, <1>5
  <2> QED BY <2>1, <1>6, MaxOfTwo, Zenon
<1>8. First(t) \in Nat /\ First(t) <= Used BY <1>4, <1>5, <1>7, UsedFits
<1>9. ASSUME NEW e \in db[BrowserOf[t]] PROVE e.seq < First(t)
  <2>1. e.seq \in S BY DEF S
  <2> QED BY <2>1, <1>1, <1>4, <1>7, <1>8
<1> QED BY <1>7, <1>8, <1>9

LEMMA RouteChunkTypes ==
  ASSUME TypeOK, NEW t \in Tabs, RouteChunk(t)
  PROVE  /\ made' \in [Tabs -> 0..MaxChunks] /\ \A u \in Tabs : made[u] <= made'[u]
         /\ \A u \in Tabs : u # t => made'[u] = made[u]
         /\ saving' \in [Tabs -> SUBSET Chunks]
         /\ \A u \in Tabs : saving'[u] \subseteq Of(u)'
         /\ pardoned' \subseteq Chunks
<1> DEFINE c == [tab |-> t, k |-> made[t]]
<1>1. made[t] \in Nat /\ made[t] < MaxChunks BY Counts DEF RouteChunk, TypeOK
<1>2. c \in Chunks BY <1>1, ChunkFields
<1>3. made' = [made EXCEPT ![t] = @ + 1] BY DEF RouteChunk
<1>4. /\ made' \in [Tabs -> 0..MaxChunks] /\ \A u \in Tabs : made[u] <= made'[u]
      /\ \A u \in Tabs : u # t => made'[u] = made[u]
  BY <1>1, <1>3, Counts DEF TypeOK
<1>5. c \in Of(t)' BY <1>1, <1>2, <1>3 DEF Of, TypeOK
<1>6. saving' = saving \/ saving' = [saving EXCEPT ![t] = @ \cup {c}] BY DEF RouteChunk
<1>7. pardoned' = pardoned \/ pardoned' = pardoned \cup {c} BY DEF RouteChunk
<1>8. \A u \in Tabs : Of(u) \subseteq Of(u)' BY <1>4, OfGrows
<1> HIDE DEF c
<1>9. saving' \in [Tabs -> SUBSET Chunks] BY <1>2, <1>6 DEF TypeOK
<1>10. \A u \in Tabs : saving'[u] \subseteq Of(u)' BY <1>5, <1>6, <1>8 DEF TypeOK
<1>11. pardoned' \subseteq Chunks BY <1>2, <1>7 DEF TypeOK
<1> QED BY <1>4, <1>9, <1>10, <1>11

LEMMA TabTypes ==
  ASSUME TypeInv, NEW t \in Tabs, TabSteps(t)
  PROVE  TypeOK' /\ \A u \in Tabs : made[u] <= made'[u]
<1>t. TypeOK BY DEF TypeInv
<1>m. \A u \in Tabs : made[u] <= made[u] BY Counts DEF TypeInv, TypeOK
<1>1. CASE OpenTab(t)
  BY <1>t, <1>1, <1>m DEF OpenTab, TypeOK, queueVars, serverVars, Of
<1>2. CASE BeginRecording(t)
  BY <1>t, <1>2, <1>m DEF BeginRecording, TypeOK, queueVars, serverVars, Of
<1>3. CASE Capture(t)
  <2>1. UNCHANGED <<phase, route, answer, base, items, snap, setAside, db, serverVars, raced, faults>>
        /\ RouteChunk(t)
    BY <1>3 DEF Capture
  <2> QED BY <1>t, <2>1, RouteChunkTypes DEF TypeOK, serverVars
<1>4. CASE StopCapture(t)
  <2>1. UNCHANGED <<route, answer, base, items, snap, setAside, db, serverVars, raced, faults>>
        /\ phase' \in [Tabs -> {"closed", "idle", "capturing", "stopping"}]
    BY <1>t, <1>4 DEF StopCapture, TypeOK
  <2>2. CASE RouteChunk(t)
    BY <1>t, <2>1, <2>2, RouteChunkTypes DEF TypeOK, serverVars
  <2>3. CASE UNCHANGED <<made, saving, pardoned>>
    BY <1>t, <2>1, <2>3, <1>m DEF TypeOK, serverVars, Of
  <2> QED BY <1>4, <2>2, <2>3 DEF StopCapture
<1>5. CASE AskForRow(t)
  <2>1. rows \in SUBSET Nat /\ \A n \in rows : n < Used
    BY NumbersAre DEF TypeInv, TypeOK, Bounded
  <2>2. Max0(rows) + 1 \in 0..Used BY <2>1, UsedFits, Max0Fits
  <2>3. Max0(rows) + 1 \in 0..Cardinality(Numbers) BY <2>2, UsedFits, NumbersAre
  <2>4. answer' = [answer EXCEPT ![t] = Max0(rows) + 1]
        /\ route' = [route EXCEPT ![t] = "answered"]
        /\ UNCHANGED <<phase, base, made, queueVars, db, serverVars, pardoned, raced, faults>>
    BY <1>5 DEF AskForRow
  <2> QED BY <1>t, <1>m, <2>3, <2>4 DEF TypeOK, queueVars, serverVars, Of
<1>6. CASE AbandonRoute(t)
  <2>1. route' = [route EXCEPT ![t] = "abandoned"] /\ pardoned' = pardoned \cup Of(t)
        /\ UNCHANGED <<phase, answer, base, made, queueVars, db, serverVars, raced>>
    BY <1>6 DEF AbandonRoute
  <2>2. faults' = faults \/ (faults < MaxFaults /\ faults' = faults + 1)
    BY <1>6 DEF AbandonRoute, Fault, MayFail
  <2>3. faults' \in 0..MaxFaults BY <2>2, Counts, <1>t DEF TypeOK
  <2>4. Of(t) \subseteq Chunks BY DEF Of
  <2> QED BY <1>t, <1>m, <2>1, <2>3, <2>4 DEF TypeOK, queueVars, serverVars, Of
<1>7. CASE OpenRoute(t)
  <2>1. /\ route' = [route EXCEPT ![t] = "open"] /\ base' = [base EXCEPT ![t] = First(t)]
        /\ answer' = [answer EXCEPT ![t] = 0] /\ saving' = [saving EXCEPT ![t] = Of(t)]
        /\ raced' = raced \cup Hidden(t, First(t))
        /\ UNCHANGED <<phase, made, items, snap, setAside, db, serverVars, pardoned, faults>>
    BY <1>7 DEF OpenRoute, First
  <2>2. First(t) \in 0..Cardinality(Numbers) BY FirstIs, UsedFits, NumbersAre
  <2>3. Hidden(t, First(t)) \subseteq {"uploaded", "takeover", "device"} BY DEF Hidden
  <2>4. Of(t) \subseteq Chunks BY DEF Of
  <2>5. raced' \subseteq {"uploaded", "takeover", "device"} BY <1>t, <2>1, <2>3 DEF TypeOK
  <2>6. answer' \in [Tabs -> 0..Cardinality(Numbers)] BY <1>t, <2>1, NumbersAre DEF TypeOK
  <2>7. base' \in [Tabs -> 0..Cardinality(Numbers)] BY <1>t, <2>1, <2>2 DEF TypeOK
  <2>8. \A u \in Tabs : Of(u)' = Of(u) BY <2>1 DEF Of
  <2>9. saving' \in [Tabs -> SUBSET Chunks] /\ \A u \in Tabs : saving'[u] \subseteq Of(u)'
    BY <1>t, <2>1, <2>4, <2>8 DEF TypeOK
  <2>10. route' \in [Tabs -> {"none", "asked", "answered", "open", "left", "abandoned"}]
    BY <1>t, <2>1 DEF TypeOK
  <2> QED BY <1>t, <1>m, <2>1, <2>5, <2>6, <2>7, <2>9, <2>10 DEF TypeOK, serverVars
<1>8. CASE CloseTab(t)
  <2>1. /\ phase' = [phase EXCEPT ![t] = "closed"]
        /\ answer' = [answer EXCEPT ![t] = 0]
        /\ saving' = [saving EXCEPT ![t] = {}] /\ items' = [items EXCEPT ![t] = {}]
        /\ snap' = [snap EXCEPT ![t] = {}] /\ setAside' = [setAside EXCEPT ![t] = {}]
        /\ UNCHANGED <<base, made, db, serverVars, raced>>
    BY <1>8 DEF CloseTab
  <2>2. route' \in [Tabs -> {"none", "asked", "answered", "open", "left", "abandoned"}]
    <3>1. PICK r \in {"none", "left", "abandoned"} : route' = [route EXCEPT ![t] = r]
      BY <1>8 DEF CloseTab
    <3> QED BY <1>t, <3>1 DEF TypeOK
  <2>3. pardoned' \subseteq Chunks
    <3>1. pardoned' = pardoned \cup {c \in OnlyIn(t) : ~Delivered(c)} BY <1>8 DEF CloseTab
    <3>2. OnlyIn(t) \subseteq Chunks BY <1>t, ItemFields DEF OnlyIn, Of, TypeOK
    <3> QED BY <1>t, <3>1, <3>2 DEF TypeOK
  <2>4. faults' \in 0..MaxFaults
    <3>1. faults < MaxFaults /\ faults' = faults + 1 BY <1>8 DEF CloseTab, Fault, MayFail
    <3> QED BY <3>1, Counts, <1>t DEF TypeOK
  <2>5. answer' \in [Tabs -> 0..Cardinality(Numbers)] BY <1>t, <2>1, NumbersAre DEF TypeOK
  <2>6. \A u \in Tabs : Of(u)' = Of(u) BY <2>1 DEF Of
  <2>7. \A u \in Tabs : saving'[u] \subseteq Of(u)' BY <1>t, <2>1, <2>6 DEF TypeOK
  <2>8. \A u \in Tabs : \A i, j \in items'[u] : i.seq = j.seq => i = j BY <1>t, <2>1 DEF TypeOK
  <2> QED BY <1>t, <1>m, <2>1, <2>2, <2>3, <2>4, <2>5, <2>7, <2>8 DEF TypeOK, serverVars
<1> QED BY <1>1, <1>2, <1>3, <1>4, <1>5, <1>6, <1>7, <1>8 DEF TabSteps

----------------------------------------------------------------------------
(* What a step of a tab leaves as it was.                                  *)

LEMMA TabFrame ==
  ASSUME TypeInv, NEW t \in Tabs, TabSteps(t)
  PROVE  /\ UNCHANGED <<db, object, rows, gone>> /\ pardoned \subseteq pardoned'
         /\ \A u \in Tabs : u # t => /\ made'[u] = made[u] /\ route'[u] = route[u]
                                     /\ base'[u] = base[u] /\ saving'[u] = saving[u]
         /\ UNCHANGED <<items, snap, setAside>> \/ CloseTab(t)
<1>1. UNCHANGED <<db, object, rows, gone>>
  BY DEF TabSteps, OpenTab, BeginRecording, Capture, StopCapture, AskForRow, AbandonRoute,
     OpenRoute, CloseTab, queueVars, serverVars
<1>2. pardoned \subseteq pardoned'
  BY DEF TabSteps, OpenTab, BeginRecording, Capture, StopCapture, AskForRow, AbandonRoute,
     OpenRoute, CloseTab, RouteChunk
<1>3. \A u \in Tabs : u # t => /\ made'[u] = made[u] /\ route'[u] = route[u]
                              /\ base'[u] = base[u] /\ saving'[u] = saving[u]
  BY DEF TabSteps, OpenTab, BeginRecording, Capture, StopCapture, AskForRow, AbandonRoute,
     OpenRoute, CloseTab, RouteChunk, queueVars, TypeInv, TypeOK
<1>4. UNCHANGED <<items, snap, setAside>> \/ CloseTab(t)
  BY DEF TabSteps, OpenTab, BeginRecording, Capture, StopCapture, AskForRow, AbandonRoute,
     OpenRoute, queueVars
<1> QED BY <1>1, <1>2, <1>3, <1>4

\* The row of a track that numbers chunks stays, and so does its first number.
LEMMA TabPlaced ==
  ASSUME TypeInv, NEW t \in Tabs, TabSteps(t)
  PROVE  /\ Placed \subseteq Placed' /\ \A u \in Placed : base'[u] = base[u]
         /\ Placed' = Placed \/ (t \notin Placed /\ Placed' = Placed \cup {t} /\ OpenRoute(t))
<1>1. route[t] \in {"open", "left"} => route'[t] \in {"open", "left"} /\ base'[t] = base[t]
  <2>1. CASE route'[t] = route[t] /\ base'[t] = base[t] BY <2>1
  <2>2. CASE AskForRow(t) \/ AbandonRoute(t) \/ BeginRecording(t) \/ OpenRoute(t)
    BY <2>2 DEF AskForRow, AbandonRoute, BeginRecording, OpenRoute
  <2>3. CASE CloseTab(t) BY <2>3 DEF CloseTab, TypeInv, TypeOK
  <2> QED
    BY <2>1, <2>2, <2>3 DEF TabSteps, OpenTab, Capture, StopCapture
<1>2. route'[t] \in {"open", "left"} => route[t] \in {"open", "left"} \/ OpenRoute(t)
  <2>1. CASE route'[t] = route[t] BY <2>1
  <2>2. CASE AskForRow(t) \/ AbandonRoute(t) \/ BeginRecording(t)
    BY <2>2 DEF AskForRow, AbandonRoute, BeginRecording, TypeInv, TypeOK
  <2>3. CASE CloseTab(t) BY <2>3 DEF CloseTab, TypeInv, TypeOK
  <2> QED
    BY <2>1, <2>2, <2>3 DEF TabSteps, OpenTab, Capture, StopCapture
<1>3. \A u \in Tabs : u # t => route'[u] = route[u] /\ base'[u] = base[u] BY TabFrame
<1>4. Placed \subseteq Placed' BY <1>1, <1>3 DEF Placed
<1>5. \A u \in Placed : base'[u] = base[u] BY <1>1, <1>3 DEF Placed
<1>6. Placed' \subseteq Placed \cup {t} BY <1>3 DEF Placed
<1>7. t \in Placed' => t \in Placed \/ OpenRoute(t) BY <1>2 DEF Placed
<1> QED BY <1>4, <1>5, <1>6, <1>7

LEMMA TabChunks ==
  ASSUME TypeInv, NEW t \in Tabs, TabSteps(t)
  PROVE  /\ Recorded \subseteq Recorded'
         /\ \A c \in Chunks : Numbered(c) => Numbered(c)' /\ Number(c)' = Number(c)
         /\ \A c \in Recorded : Numbered(c) /\ c \in saving'[c.tab] => c \in saving[c.tab]
<1>1. Recorded \subseteq Recorded' BY TabTypes, OfGrows DEF TypeOK, TypeInv
<1>2. \A c \in Chunks : Numbered(c) <=> c.tab \in Placed BY ChunkFields DEF Numbered, Placed
<1>3. \A c \in Chunks : Numbered(c)' <=> c.tab \in Placed' BY ChunkFields DEF Numbered, Placed
<1>4. \A c \in Chunks : Numbered(c) => Numbered(c)' /\ Number(c)' = Number(c)
  BY <1>2, <1>3, TabPlaced DEF Number
<1>5. ASSUME NEW c \in Recorded, Numbered(c), c \in saving'[c.tab] PROVE c \in saving[c.tab]
  <2>1. c \in Chunks /\ c.tab \in Tabs /\ c.k < made[c.tab] BY RecordedMeans, ChunkFields
  <2>2. CASE c.tab # t BY <1>5, <2>1, <2>2, TabFrame
  <2>3. CASE c.tab = t
    <3>1. CASE OpenRoute(t) BY <1>5, <2>3, <3>1 DEF OpenRoute, Numbered
    <3>2. CASE CloseTab(t) BY <1>5, <2>1, <2>3, <3>2 DEF CloseTab, TypeInv, TypeOK
    <3>3. CASE RouteChunk(t)
      <4>1. saving' = saving \/ saving' = [saving EXCEPT ![t] = @ \cup {[tab |-> t, k |-> made[t]]}]
        BY <3>3 DEF RouteChunk
      <4>2. c # [tab |-> t, k |-> made[t]]
        <5>1. made[t] \in Nat /\ c.k < made[t] BY <2>1, <2>3, Counts DEF TypeInv, TypeOK
        <5>2. c.k \in Nat /\ c.k # made[t] BY <5>1, <2>1, ChunkFields
        <5> QED BY <5>2
      <4> QED BY <1>5, <2>1, <2>3, <4>1, <4>2 DEF TypeInv, TypeOK
    <3>4. CASE saving' = saving BY <1>5, <3>4
    <3> QED
      BY <3>1, <3>2, <3>3, <3>4 DEF TabSteps, OpenTab, BeginRecording, Capture, StopCapture,
         AskForRow, AbandonRoute, queueVars
  <2> QED BY <2>2, <2>3
<1> QED BY <1>1, <1>4, <1>5

----------------------------------------------------------------------------
(* Bounds, routes and entries.                                             *)

LEMMA TabBounded ==
  ASSUME TypeInv, NEW t \in Tabs, TabSteps(t)
  PROVE  Bounded'
<1>1. Used \in Nat /\ Used' \in Nat /\ Used <= Used'
      /\ (t \notin Placed /\ Placed' = Placed \cup {t} => Used' = Used + MaxChunks)
  <2>1. CASE Placed' = Placed BY <2>1, UsedFits DEF Used
  <2>2. CASE t \notin Placed /\ Placed' = Placed \cup {t}
    <3>1. Cardinality(Placed') = Cardinality(Placed) + 1 BY <2>2, UsedFits, FS_AddElement
    <3>2. Used' = (Cardinality(Placed) + 1) * MaxChunks BY <3>1 DEF Used
    <3>3. Used' = Used + MaxChunks BY <3>2, UsedFits, Counts, ProductStep DEF Used
    <3> QED BY <3>3, <2>2, UsedFits, Counts
  <2> QED BY <2>1, <2>2, TabPlaced
<1>2. rows' = rows BY TabFrame
<1>3. \A n \in rows' : n < Used'
  BY <1>1, <1>2, NumbersAre DEF TypeInv, TypeOK, Bounded
<1>4. \A u \in Tabs : answer'[u] <= Used'
  <2>1. \A u \in Tabs : answer'[u] \in Nat /\ answer'[u] <= Used
    <3>1. CASE answer' = answer BY <3>1, NumbersAre DEF TypeInv, TypeOK, Bounded
    <3>2. CASE answer' = [answer EXCEPT ![t] = 0]
      BY <3>2, <1>1, NumbersAre DEF TypeInv, TypeOK, Bounded
    <3>3. CASE AskForRow(t)
      <4>1. rows \in SUBSET Nat /\ \A n \in rows : n < Used
        BY NumbersAre DEF TypeInv, TypeOK, Bounded
      <4>2. PICK m : m = Max0(rows) + 1 OBVIOUS
      <4>3. m \in 0..Used BY <4>1, <4>2, UsedFits, Max0Fits
      <4>4. answer' = [answer EXCEPT ![t] = m] BY <3>3, <4>2 DEF AskForRow
      <4> QED BY <4>3, <4>4, NumbersAre, <1>1 DEF TypeInv, TypeOK, Bounded
    <3> QED
      BY <3>1, <3>2, <3>3 DEF TabSteps, OpenTab, BeginRecording, Capture, StopCapture,
         AbandonRoute, OpenRoute, CloseTab
  <2> QED BY <2>1, <1>1
<1>5. ASSUME NEW u \in Placed' PROVE base'[u] + MaxChunks <= Used'
  <2>1. CASE u \in Placed
    <3>1. base'[u] = base[u] BY <2>1, TabPlaced
    <3>2. base[u] \in Nat /\ base[u] + MaxChunks <= Used
      BY <2>1, NumbersAre DEF TypeInv, TypeOK, Bounded, Placed
    <3> QED BY <3>1, <3>2, <1>1, Counts
  <2>2. CASE u \notin Placed
    <3>1. u = t /\ OpenRoute(t) /\ t \notin Placed /\ Placed' = Placed \cup {t}
      BY <1>5, <2>2, TabPlaced
    <3>2. base'[t] = First(t) BY <3>1 DEF OpenRoute, First, TypeInv, TypeOK
    <3> QED BY <3>1, <3>2, FirstIs, <1>1, Counts
  <2> QED BY <2>1, <2>2
<1> QED BY <1>3, <1>4, <1>5 DEF Bounded

LEMMA TabRoutes ==
  ASSUME TypeInv, NEW t \in Tabs, TabSteps(t)
  PROVE  Routes'
<1> USE DEF TypeInv, Routes
<1>1. CASE OpenTab(t) BY <1>1 DEF OpenTab, TypeOK, queueVars
<1>2. CASE BeginRecording(t) BY <1>2 DEF BeginRecording, TypeOK, queueVars
<1>3. CASE Capture(t) BY <1>3, Counts DEF Capture, RouteChunk, TypeOK
<1>4. CASE StopCapture(t) BY <1>4, Counts DEF StopCapture, RouteChunk, TypeOK
<1>5. CASE AskForRow(t) BY <1>5 DEF AskForRow, TypeOK, queueVars
<1>6. CASE AbandonRoute(t) BY <1>6 DEF AbandonRoute, TypeOK, queueVars
<1>7. CASE OpenRoute(t) BY <1>7 DEF OpenRoute, TypeOK
<1>8. CASE CloseTab(t) BY <1>8 DEF CloseTab, TypeOK
<1> QED BY <1>1, <1>2, <1>3, <1>4, <1>5, <1>6, <1>7, <1>8 DEF TabSteps

LEMMA CopyStays ==
  ASSUME TypeInv, NEW t \in Tabs, TabSteps(t), NEW e, NEW b, IsCopy(e, b)
  PROVE  IsCopy(e, b)'
<1>1. e.body \in Recorded /\ e.body \in Chunks BY RecordedMeans DEF IsCopy
<1> QED BY <1>1, TabChunks DEF IsCopy

LEMMA TabEntries ==
  ASSUME TypeInv, NEW t \in Tabs, TabSteps(t)
  PROVE  Entries'
<1>1. db' = db BY TabFrame
<1>2. \A u \in Tabs : items'[u] \subseteq items[u] /\ snap'[u] \subseteq snap[u]
  <2>1. CASE UNCHANGED <<items, snap, setAside>> BY <2>1
  <2>2. CASE CloseTab(t) BY <2>2 DEF CloseTab, TypeInv, TypeOK
  <2> QED BY <2>1, <2>2, TabFrame
<1>3. \A b \in Browsers : \A e \in db'[b] : IsCopy(e, b)'
  BY <1>1, CopyStays DEF TypeInv, Entries
<1>4. \A u \in Tabs : \A e \in snap'[u] : IsCopy(e, BrowserOf[u])'
  BY <1>2, CopyStays DEF TypeInv, Entries
<1>5. \A u \in Tabs : \A e, f \in snap'[u] : e.seq = f.seq => e = f
  BY <1>2 DEF TypeInv, Entries
<1>6. \A u \in Tabs : \A i \in items'[u] : IsCopy(i, BrowserOf[u])' /\ (~i.persisted => i.body.tab = u)
  BY <1>2, CopyStays DEF TypeInv, Entries
<1> QED BY <1>3, <1>4, <1>5, <1>6 DEF Entries

QueueSteps ==
  DeleteRecording \/ \E t \in Tabs : BufferSteps(t) \/ \E i \in items[t] : UploadSteps(t, i)

LEMMA QueueTypes ==
  ASSUME TypeInv, QueueSteps
  PROVE  TypeOK' /\ UNCHANGED tabVars /\ \A t \in Tabs : saving'[t] \subseteq saving[t]
<1>t. TypeOK BY DEF TypeInv
<1>1. CASE DeleteRecording BY <1>t, <1>1, DeleteTypes DEF DeleteRecording, queueVars
<1>2. ASSUME NEW t \in Tabs, NEW i \in items[t], UploadSteps(t, i)
      PROVE  TypeOK' /\ UNCHANGED tabVars /\ saving' = saving
  <2>1. saving' = saving
    BY <1>2 DEF UploadSteps, StartUpload, Put, Register, Forget, Drop, Retry, Refused
  <2> QED BY <1>t, <1>2, <2>1, UploadTypes, UploadFollows
<1>3. ASSUME NEW t \in Tabs, BufferSteps(t)
      PROVE  TypeOK' /\ UNCHANGED tabVars /\ \A u \in Tabs : saving'[u] \subseteq saving[u]
  <2>1. ASSUME NEW c \in saving[t], Enqueue(t, c)
        PROVE  TypeOK' /\ UNCHANGED tabVars /\ \A u \in Tabs : saving'[u] \subseteq saving[u]
    <3>1. \A u \in Tabs : saving'[u] \subseteq saving[u] BY <1>t, <2>1 DEF Enqueue, TypeOK
    <3> QED BY <2>1, <3>1, EnqueueTypes
  <2>2. CASE ScanBuffer(t) BY <1>t, <2>2, ScanTypes DEF ScanBuffer
  <2>3. CASE AdoptOrphans(t) BY <2>3, AdoptTypes DEF AdoptOrphans
  <2>4. CASE PurgeStale(t) BY <1>t, <2>4, PurgeTypes DEF PurgeStale, queueVars
  <2> QED BY <1>3, <2>1, <2>2, <2>3, <2>4 DEF BufferSteps
<1> QED BY <1>1, <1>2, <1>3 DEF QueueSteps

LEMMA QueueCopies ==
  ASSUME TypeInv, QueueSteps
  PROVE  /\ \A e, b : IsCopy(e, b) => IsCopy(e, b)'
         /\ Recorded' = Recorded /\ Used' = Used
         /\ \A c \in Chunks : Numbered(c)' = Numbered(c) /\ Number(c)' = Number(c)
<1>1. UNCHANGED tabVars BY QueueTypes
<1>2. /\ Recorded' = Recorded /\ Used' = Used
      /\ \A c \in Chunks : Numbered(c)' = Numbered(c) /\ Number(c)' = Number(c)
  BY <1>1, StillSame
<1>3. \A t \in Tabs : saving'[t] \subseteq saving[t] BY QueueTypes
<1>4. ASSUME NEW e, NEW b, IsCopy(e, b) PROVE IsCopy(e, b)'
  <2>1. e.body \in Chunks /\ e.body.tab \in Tabs BY <1>4, RecordedMeans, ChunkFields DEF IsCopy
  <2> QED BY <1>2, <1>3, <1>4, <2>1 DEF IsCopy
<1> QED BY <1>2, <1>4

LEMMA QueueRoutes ==
  ASSUME TypeInv, QueueSteps
  PROVE  Routes'
  BY QueueTypes DEF TypeInv, Routes, tabVars

LEMMA QueueBounded ==
  ASSUME TypeInv, QueueSteps
  PROVE  Bounded'
<1>1. UNCHANGED tabVars BY QueueTypes
<1>2. Placed' = Placed /\ Used' = Used BY <1>1, StillSame
<1>3. \A n \in rows' : n \in rows \/ \E t \in Tabs : \E i \in items[t] : n = i.seq
  <2>1. CASE DeleteRecording BY <2>1 DEF DeleteRecording
  <2>2. ASSUME NEW t \in Tabs, BufferSteps(t) PROVE rows' = rows
    BY <2>2 DEF BufferSteps, Enqueue, ScanBuffer, AdoptOrphans, PurgeStale, serverVars
  <2>3. ASSUME NEW t \in Tabs, NEW i \in items[t], UploadSteps(t, i)
        PROVE  rows' = rows \/ rows' = rows \cup {i.seq}
    BY <2>3 DEF UploadSteps, StartUpload, Put, Register, Forget, Drop, Retry, Refused, serverVars
  <2> QED BY <2>1, <2>2, <2>3 DEF QueueSteps
<1>4. \A t \in Tabs : \A i \in items[t] : i.seq < Used
  BY NumbersFit DEF TypeInv, Entries, IsCopy
<1> QED BY <1>1, <1>2, <1>3, <1>4 DEF TypeInv, Bounded, tabVars

LEMMA QueueEntries ==
  ASSUME TypeInv, QueueSteps
  PROVE  Entries'
<1> USE DEF TypeInv
<1>1. \A b \in Browsers : \A e \in db[b] : IsCopy(e, b)' BY QueueCopies DEF Entries
<1>2. \A t \in Tabs : \A e \in snap[t] : IsCopy(e, BrowserOf[t])' BY QueueCopies DEF Entries
<1>3. \A t \in Tabs : \A i \in items[t] : IsCopy(i, BrowserOf[t])' /\ (~i.persisted => i.body.tab = t)
  BY QueueCopies DEF Entries
<1>4. \A t \in Tabs : \A e, f \in snap[t] : e.seq = f.seq => e = f BY DEF Entries
<1>5. CASE DeleteRecording
  BY <1>1, <1>2, <1>3, <1>4, <1>5 DEF DeleteRecording, queueVars, Entries
<1>6. ASSUME NEW t \in Tabs, NEW i \in items[t], UploadSteps(t, i) PROVE Entries'
  <2>1. snap' = snap
    BY <1>6 DEF UploadSteps, StartUpload, Put, Register, Forget, Drop, Retry, Refused
  <2>2. db' = db \/ Forgotten(t, i)
    BY <1>6 DEF UploadSteps, StartUpload, Put, Register, Forget, Drop, Retry, Refused
  <2>3. \A b \in Browsers : db'[b] \subseteq db[b]
    BY <2>2, BrowserIs DEF TypeOK, Forgotten, Without
  <2>4. ASSUME NEW u \in Tabs, NEW x \in items'[u]
        PROVE  IsCopy(x, BrowserOf[u])' /\ (~x.persisted => x.body.tab = u)
    <3>1. PICK y \in items[u] : x.seq = y.seq /\ x.body = y.body /\ x.persisted = y.persisted
      BY <1>6, UploadFollows DEF ItemsFollow
    <3>2. IsCopy(y, BrowserOf[u])' /\ (~y.persisted => y.body.tab = u) BY <1>3
    <3> QED BY <3>1, <3>2 DEF IsCopy
  <2>5. \A b \in Browsers : \A e \in db'[b] : IsCopy(e, b)' BY <1>1, <2>3
  <2>6. \A u \in Tabs : \A e \in snap'[u] : IsCopy(e, BrowserOf[u])' BY <1>2, <2>1
  <2> QED BY <1>4, <2>1, <2>4, <2>5, <2>6 DEF Entries
<1>7. ASSUME NEW t \in Tabs, NEW c \in saving[t], Enqueue(t, c) PROVE Entries'
  <2>1. c \in Recorded /\ c.tab = t /\ Numbered(c) /\ c \in Chunks
    BY RecordedMeans DEF TypeOK, Routes, Numbered
  <2>2. c \notin saving'[t] BY <1>7 DEF Enqueue, TypeOK
  <2>3. snap' = snap BY <1>7 DEF Enqueue
  <2>4. \A e : e.body = c /\ e.seq = Number(c) => IsCopy(e, BrowserOf[t])'
    BY <2>1, <2>2, QueueCopies, <1>7 DEF QueueSteps, BufferSteps, IsCopy
  <2>5. Copy(c).body = c /\ Copy(c).seq = Number(c) BY DEF Copy
  <2>6. \A b \in Browsers : \A e \in db'[b] : e \in db[b] \/ (b = BrowserOf[t] /\ e = Copy(c))
    <3>1. db' = db \/ db' = [db EXCEPT ![BrowserOf[t]] = Without(BrowserOf[t], Number(c)) \cup {Copy(c)}]
      BY <1>7 DEF Enqueue
    <3> QED BY <3>1, BrowserIs DEF TypeOK, Without
  <2>7. \A b \in Browsers : \A e \in db'[b] : IsCopy(e, b)' BY <1>1, <2>4, <2>5, <2>6
  <2>8. \A p : /\ NewItem(Copy(c), p).body = c /\ NewItem(Copy(c), p).seq = Number(c)
    BY <2>5 DEF NewItem
  <2>9. \A u \in Tabs : \A i \in items'[u] :
           i \in items[u] \/ (u = t /\ \E p : i = NewItem(Copy(c), p))
    <3>1. PICK j \in {NewItem(Copy(c), TRUE), NewItem(Copy(c), FALSE)} :
            items' = IF Number(c) \in Queued(t) THEN items ELSE [items EXCEPT ![t] = @ \cup {j}]
      BY <1>7, Zenon DEF Enqueue
    <3>2. \A u \in Tabs : \A i \in items'[u] : i \in items[u] \/ (u = t /\ i = j)
      BY <3>1 DEF TypeOK
    <3>3. \E p : j = NewItem(Copy(c), p) BY Zenon
    <3> QED BY <3>2, <3>3, Zenon
  <2>10. \A u \in Tabs : \A i \in items'[u] : IsCopy(i, BrowserOf[u])' /\ (~i.persisted => i.body.tab = u)
    BY <1>3, <2>1, <2>4, <2>8, <2>9
  <2> QED BY <1>2, <1>4, <2>3, <2>7, <2>10 DEF Entries
<1>8. ASSUME NEW t \in Tabs, ScanBuffer(t) PROVE Entries'
  <2>1. /\ db' = db /\ items' = items
        /\ \A u \in Tabs : snap'[u] = snap[u] \/ snap'[u] = db[BrowserOf[u]]
    BY <1>8 DEF ScanBuffer, TypeOK
  <2>2. \A u \in Tabs : \A e, f \in db[BrowserOf[u]] : e.seq = f.seq => e = f
    BY BrowserIs DEF TypeOK
  <2>3. \A u \in Tabs : \A e \in db[BrowserOf[u]] : IsCopy(e, BrowserOf[u])' BY <1>1, BrowserIs
  <2>4. \A u \in Tabs : \A e \in snap'[u] : IsCopy(e, BrowserOf[u])' BY <1>2, <2>1, <2>3
  <2>5. \A u \in Tabs : \A e, f \in snap'[u] : e.seq = f.seq => e = f BY <1>4, <2>1, <2>2
  <2> QED BY <1>1, <1>3, <2>1, <2>4, <2>5 DEF Entries
<1>9. ASSUME NEW t \in Tabs, AdoptOrphans(t) PROVE Entries'
  <2>1. db' = db /\ \A u \in Tabs : snap'[u] \subseteq snap[u] BY <1>9 DEF AdoptOrphans, TypeOK
  <2>2. \A u \in Tabs : \A i \in items'[u] :
           i \in items[u] \/ \E e \in snap[u] : i = NewItem(e, TRUE)
    BY <1>9 DEF AdoptOrphans, TypeOK
  <2>3. \A e : /\ NewItem(e, TRUE).seq = e.seq /\ NewItem(e, TRUE).body = e.body
               /\ NewItem(e, TRUE).persisted
    BY DEF NewItem
  <2>4. ASSUME NEW u \in Tabs, NEW i \in items'[u]
        PROVE  IsCopy(i, BrowserOf[u])' /\ (~i.persisted => i.body.tab = u)
    <3>1. CASE i \in items[u] BY <1>3, <3>1
    <3>2. CASE \E e \in snap[u] : i = NewItem(e, TRUE)
      <4>1. PICK e \in snap[u] : i = NewItem(e, TRUE) BY <3>2
      <4>2. i.seq = e.seq /\ i.body = e.body /\ i.persisted BY <2>3, <4>1, Zenon
      <4> QED BY <1>2, <4>2 DEF IsCopy
    <3> QED BY <2>2, <3>1, <3>2
  <2>5. \A u \in Tabs : \A e \in snap'[u] : IsCopy(e, BrowserOf[u])' BY <1>2, <2>1
  <2>6. \A u \in Tabs : \A e, f \in snap'[u] : e.seq = f.seq => e = f BY <1>4, <2>1
  <2> QED BY <1>1, <2>1, <2>4, <2>5, <2>6 DEF Entries
<1>10. ASSUME NEW t \in Tabs, PurgeStale(t) PROVE Entries'
  <2>1. UNCHANGED <<items, snap>> BY <1>10 DEF PurgeStale, queueVars
  <2>2. \A b \in Browsers : db'[b] \subseteq db[b] BY <1>10, BrowserIs DEF PurgeStale, TypeOK
  <2>3. \A b \in Browsers : \A e \in db'[b] : IsCopy(e, b)' BY <1>1, <2>2
  <2> QED BY <1>2, <1>3, <1>4, <2>1, <2>3 DEF Entries
<1> QED BY <1>5, <1>6, <1>7, <1>8, <1>9, <1>10 DEF QueueSteps, BufferSteps

LEMMA NextCases == Next => QueueSteps \/ \E t \in Tabs : TabSteps(t)
  BY DEF Next, QueueSteps, BufferSteps, UploadSteps, TabSteps

LEMMA TypeInvInit == Init => TypeInv
<1> SUFFICES ASSUME Init PROVE TypeInv
  OBVIOUS
<1>1. Recorded = {} /\ Placed = {}
  <2>1. \A c \in Chunks : ~(c.k < made[c.tab]) BY ChunkFields DEF Init
  <2> QED BY <2>1, RecordedMeans DEF Init, Placed
<1>2. TypeOK
  <2>1. 0 \in 0..Cardinality(Numbers) /\ 0 \in 0..MaxChunks /\ 0 \in 0..MaxFaults
    BY Counts, NumbersAre
  <2>2. gone \in BOOLEAN BY Zenon DEF Init
  <2> QED BY <2>1, <2>2 DEF Init, TypeOK
<1>3. Bounded BY <1>1, UsedFits DEF Init, Bounded
<1>4. Routes BY DEF Init, Routes
<1>5. Entries BY DEF Init, Entries
<1> QED BY <1>2, <1>3, <1>4, <1>5 DEF TypeInv

LEMMA TypeInvStep == TypeInv /\ [Next]_vars => TypeInv'
<1> SUFFICES ASSUME TypeInv, [Next]_vars PROVE TypeInv'
  OBVIOUS
<1>1. CASE QueueSteps
  BY <1>1, QueueTypes, QueueBounded, QueueRoutes, QueueEntries DEF TypeInv
<1>2. ASSUME NEW t \in Tabs, TabSteps(t) PROVE TypeInv'
  BY <1>2, TabTypes, TabBounded, TabRoutes, TabEntries DEF TypeInv
<1>3. CASE UNCHANGED vars
  BY <1>3 DEF vars, tabVars, queueVars, serverVars, TypeInv, TypeOK, Of, Bounded, Used, Placed,
     Routes, Entries, IsCopy, Recorded, Numbered, Number
<1> QED BY <1>1, <1>2, <1>3, NextCases

\* The tabs, their queues, the buffers and the server keep their types; the
\* numbers of the chunks stay in their bound, and no queue or buffer holds
\* two chunks under one number, for any number of tabs, browsers and chunks.
THEOREM UploaderTypeCorrect == Spec => []TypeOK
<1>1. TypeInv => TypeOK BY DEF TypeInv
<1> QED BY <1>1, TypeInvInit, TypeInvStep, PTL DEF Spec

----------------------------------------------------------------------------
(* What no step takes back.                                                *)

LEMMA PardonsStay ==
  ASSUME TypeOK, QueueSteps
  PROVE  pardoned \subseteq pardoned'
<1>1. ASSUME NEW t \in Tabs, NEW i \in items[t], UploadSteps(t, i) PROVE pardoned \subseteq pardoned'
  BY <1>1 DEF UploadSteps, StartUpload, Put, Register, Forget, Drop, Retry, Refused
<1>2. ASSUME NEW t \in Tabs, BufferSteps(t) PROVE pardoned \subseteq pardoned'
  BY <1>2 DEF BufferSteps, Enqueue, ScanBuffer, AdoptOrphans, PurgeStale
<1>3. CASE DeleteRecording BY <1>3 DEF DeleteRecording, TypeOK
<1> QED BY <1>1, <1>2, <1>3 DEF QueueSteps

LEMMA Steady ==
  ASSUME TypeInv, [Next]_vars
  PROVE  /\ Recorded \subseteq Recorded' /\ pardoned \subseteq pardoned'
         /\ \A c \in Chunks : Numbered(c) => Numbered(c)' /\ Number(c)' = Number(c)
         /\ \A c \in Chunks : Excused(c) => Excused(c)'
<1>1. /\ Recorded \subseteq Recorded' /\ pardoned \subseteq pardoned'
      /\ \A c \in Chunks : Numbered(c) => Numbered(c)' /\ Number(c)' = Number(c)
  <2>1. CASE QueueSteps BY <2>1, PardonsStay, QueueCopies DEF TypeInv
  <2>2. ASSUME NEW t \in Tabs, TabSteps(t)
        PROVE  /\ Recorded \subseteq Recorded' /\ pardoned \subseteq pardoned'
               /\ \A c \in Chunks : Numbered(c) => Numbered(c)' /\ Number(c)' = Number(c)
    BY <2>2, TabFrame, TabChunks
  <2>3. CASE UNCHANGED vars
    <3>1. UNCHANGED tabVars /\ pardoned' = pardoned BY <2>3 DEF vars
    <3> QED BY <3>1, StillSame
  <2> QED BY <2>1, <2>2, <2>3, NextCases
<1>2. ASSUME NEW c \in Chunks, Clashes(c) PROVE Clashes(c)'
  <2>1. PICK d \in Recorded \ {c} : Numbered(c) /\ Numbered(d) /\ Number(c) = Number(d)
    BY <1>2 DEF Clashes
  <2>2. d \in Chunks BY <2>1, RecordedMeans
  <2> QED BY <1>1, <2>1, <2>2 DEF Clashes
<1> QED BY <1>1, <1>2 DEF Excused

\* Two copies under one number are of one chunk, or both chunks are excused.
LEMMA OneBody ==
  ASSUME NEW c \in Recorded, NEW d \in Recorded, Numbered(c), Numbered(d),
         Number(c) = Number(d)
  PROVE  c = d \/ (Excused(c) /\ Excused(d))
  BY DEF Excused, Clashes

LEMMA CopiesAre ==
  ASSUME TypeInv
  PROVE  /\ \A t \in Tabs : \A i \in items[t] :
              /\ i.body \in Recorded /\ i.body \in Chunks /\ Numbered(i.body)
              /\ i.seq = Number(i.body) /\ i.seq \in Numbers
              /\ i.body \notin saving[i.body.tab] /\ BrowserOf[i.body.tab] = BrowserOf[t]
         /\ \A b \in Browsers : \A e \in db[b] :
              /\ e.body \in Recorded /\ e.body \in Chunks /\ Numbered(e.body)
              /\ e.seq = Number(e.body) /\ BrowserOf[e.body.tab] = b
  BY RecordedMeans, NumbersFit DEF TypeInv, Entries, IsCopy

\* What a step leaves on the server: more, except for the deletion.
LEMMA ServerMoves ==
  ASSUME TypeInv, QueueSteps
  PROVE  \/ pardoned' = Chunks
         \/ /\ rows \subseteq rows'
            /\ \A n \in Numbers : \/ object'[n] = object[n]
                                  \/ \E d \in Recorded : /\ Numbered(d) /\ Number(d) = n
                                                        /\ object'[n] = d
<1>1. CASE DeleteRecording BY <1>1 DEF DeleteRecording
<1>2. ASSUME NEW t \in Tabs, BufferSteps(t) PROVE UNCHANGED <<object, rows>>
  BY <1>2 DEF BufferSteps, Enqueue, ScanBuffer, AdoptOrphans, PurgeStale, serverVars
<1>3. ASSUME NEW t \in Tabs, NEW i \in items[t], UploadSteps(t, i)
      PROVE  /\ rows \subseteq rows'
             /\ \A n \in Numbers : \/ object'[n] = object[n]
                                   \/ \E d \in Recorded : /\ Numbered(d) /\ Number(d) = n
                                                         /\ object'[n] = d
  <2>1. rows \subseteq rows'
    BY <1>3 DEF UploadSteps, StartUpload, Put, Register, Forget, Drop, Retry, Refused, serverVars
  <2>2. object' = object \/ object' = [object EXCEPT ![i.seq] = i.body]
    BY <1>3 DEF UploadSteps, StartUpload, Put, Register, Forget, Drop, Retry, Refused, serverVars
  <2>3. i.body \in Recorded /\ Numbered(i.body) /\ i.seq = Number(i.body) BY CopiesAre
  <2> QED BY <2>1, <2>2, <2>3 DEF TypeInv, TypeOK
<1> QED BY <1>1, <1>2, <1>3 DEF QueueSteps

LEMMA DeliveredStays ==
  ASSUME TypeInv, [Next]_vars, NEW c \in Recorded, Delivered(c)
  PROVE  Delivered(c)' \/ Excused(c)'
<1>c. c \in Chunks /\ Numbered(c) /\ Number(c) \in Numbers
  BY RecordedMeans, NumbersFit DEF Delivered, TypeInv
<1>n. Numbered(c)' /\ Number(c)' = Number(c) BY <1>c, Steady
<1>1. CASE QueueSteps
  <2>1. CASE pardoned' = Chunks BY <1>c, <2>1 DEF Excused
  <2>2. CASE rows \subseteq rows' /\ object'[Number(c)] = object[Number(c)]
    BY <1>n, <2>2 DEF Delivered
  <2>3. ASSUME NEW d \in Recorded, Numbered(d), Number(d) = Number(c),
               object'[Number(c)] = d, rows \subseteq rows'
        PROVE  Delivered(c)' \/ Excused(c)'
    <3>1. CASE d = c BY <1>n, <2>3, <3>1 DEF Delivered
    <3>2. CASE Excused(c) BY <1>c, <3>2, Steady
    <3> QED BY <1>c, <2>3, <3>1, <3>2, OneBody
  <2> QED BY <1>1, <1>c, <2>1, <2>2, <2>3, ServerMoves
<1>2. ASSUME NEW t \in Tabs, TabSteps(t) PROVE Delivered(c)'
  BY <1>n, <1>2, TabFrame DEF Delivered
<1>3. CASE UNCHANGED vars
  BY <1>n, <1>3 DEF Delivered, vars, serverVars
<1> QED BY <1>1, <1>2, <1>3, NextCases

----------------------------------------------------------------------------
(* What was sent is stored.                                                *)

LEMMA SentStays ==
  ASSUME TypeInv, [Next]_vars, NEW t \in Tabs, NEW i \in items[t], SentItem(i)
  PROVE  SentItem(i)'
<1>c. /\ i.body \in Recorded /\ i.body \in Chunks /\ Numbered(i.body)
      /\ i.seq = Number(i.body) /\ i.seq \in Numbers
  BY CopiesAre
<1>e. Excused(i.body) => Excused(i.body)' BY <1>c, Steady
<1>1. object[i.seq] = i.body => object'[i.seq] = i.body \/ Excused(i.body)'
  <2>1. CASE QueueSteps
    <3>1. CASE pardoned' = Chunks BY <1>c, <3>1 DEF Excused
    <3>2. CASE object'[i.seq] = object[i.seq] BY <3>2
    <3>3. ASSUME NEW d \in Recorded, Numbered(d), Number(d) = i.seq, object'[i.seq] = d
          PROVE  object'[i.seq] = i.body \/ Excused(i.body)'
      BY <1>c, <1>e, <3>3, OneBody
    <3> QED BY <1>c, <2>1, <3>1, <3>2, <3>3, ServerMoves
  <2>2. CASE object' = object BY <2>2
  <2> QED BY <2>1, <2>2, NextCases, TabFrame DEF vars, serverVars
<1>2. i.seq \in rows => i.seq \in rows' \/ Excused(i.body)'
  <2>1. CASE QueueSteps BY <1>c, <2>1, ServerMoves DEF Excused
  <2>2. CASE rows' = rows BY <2>2
  <2> QED BY <2>1, <2>2, NextCases, TabFrame DEF vars, serverVars
<1> QED BY <1>e, <1>1, <1>2 DEF SentItem

LEMMA ObjectsAre ==
  ASSUME TypeInv, Sent, [Next]_vars
  PROVE  \A n \in Numbers : object'[n] \in Recorded' \cup {None}
<1>r. Recorded \subseteq Recorded' BY Steady
<1>1. CASE DeleteRecording BY <1>1 DEF DeleteRecording
<1>2. ASSUME NEW t \in Tabs, NEW i \in items[t], UploadSteps(t, i)
      PROVE  \A n \in Numbers : object'[n] \in Recorded' \cup {None}
  <2>1. object' = object \/ object' = [object EXCEPT ![i.seq] = i.body]
    BY <1>2 DEF UploadSteps, StartUpload, Put, Register, Forget, Drop, Retry, Refused, serverVars
  <2>2. i.body \in Recorded BY CopiesAre
  <2> QED BY <1>r, <2>1, <2>2 DEF TypeInv, TypeOK, Sent
<1>3. CASE object' = object BY <1>r, <1>3 DEF Sent
<1>4. ASSUME NEW t \in Tabs, BufferSteps(t) PROVE object' = object
  BY <1>4 DEF BufferSteps, Enqueue, ScanBuffer, AdoptOrphans, PurgeStale, serverVars
<1> QED BY <1>1, <1>2, <1>3, <1>4, NextCases, TabFrame DEF QueueSteps, vars, serverVars

LEMMA SentStep ==
  ASSUME TypeInv, Sent, [Next]_vars
  PROVE  Sent'
<1>s. \A u \in Tabs : \A x \in items[u] : SentItem(x)' BY SentStays DEF Sent
<1> SUFFICES ASSUME NEW u \in Tabs, NEW x \in items'[u] PROVE SentItem(x)'
  BY ObjectsAre DEF Sent
<1>1. CASE x \in items[u] BY <1>s, <1>1
<1>2. ASSUME NEW e, NEW p, x = NewItem(e, p) PROVE SentItem(x)'
  <2>1. x.sent = FALSE /\ x.at = "queued" BY <1>2 DEF NewItem
  <2> QED BY <2>1, Zenon DEF SentItem
<1>3. ASSUME NEW t \in Tabs, NEW i \in items[t], UploadSteps(t, i), x \notin items[u]
      PROVE  SentItem(x)'
  <2>i. /\ i \in Items /\ i.seq \in Numbers /\ SentItem(i) /\ SentItem(i)'
    BY <1>s, CopiesAre DEF TypeInv, TypeOK, Sent
  <2>x. \A j : Becomes(t, i, j) => x = j BY <1>3 DEF TypeInv, TypeOK, Becomes
  <2>y. ~Leaves(t, i) BY <1>3 DEF TypeInv, TypeOK, Leaves
  <2>f. \A s \in {"queued", "put", "register", "forget"} :
          /\ [i EXCEPT !.at = s].at = s /\ [i EXCEPT !.at = s].seq = i.seq
          /\ [i EXCEPT !.at = s].body = i.body /\ [i EXCEPT !.at = s].sent = i.sent
    BY <2>i DEF Items
  <2>1. CASE StartUpload(t, i)
    <3>1. x = [i EXCEPT !.at = IF i.sent THEN "register" ELSE "put"]
      BY <2>1, <2>x, <2>y DEF StartUpload
    <3>2. CASE i.sent
      <4>1. x = [i EXCEPT !.at = "register"] BY <3>1, <3>2
      <4> QED BY <2>f, <2>i, <3>2, <4>1 DEF SentItem
    <3>3. CASE ~i.sent
      <4>1. x = [i EXCEPT !.at = "put"] BY <3>1, <3>3
      <4> QED BY <2>f, <2>i, <3>3, <4>1 DEF SentItem
    <3> QED BY <3>2, <3>3
  <2>2. CASE Put(t, i)
    <3>1. x = [i EXCEPT !.at = "register", !.sent = TRUE] BY <2>2, <2>x DEF Put
    <3>2. x.at = "register" /\ x.sent /\ x.seq = i.seq /\ x.body = i.body
      BY <2>i, <3>1 DEF Items
    <3>3. object'[i.seq] = i.body BY <2>i, <2>2 DEF Put, TypeInv, TypeOK
    <3> QED BY <3>2, <3>3 DEF SentItem
  <2>3. CASE Register(t, i)
    <3>1. x = [i EXCEPT !.at = "forget"] BY <2>3, <2>x DEF Register
    <3>2. i.at = "register" /\ i.seq \in rows' BY <2>3 DEF Register
    <3>3. i.sent /\ (object'[i.seq] = i.body \/ Excused(i.body)') BY <2>i, <3>2 DEF SentItem
    <3> QED BY <2>f, <3>1, <3>2, <3>3 DEF SentItem
  <2>4. CASE Retry(t, i)
    <3>1. x = [i EXCEPT !.at = "queued"] BY <2>4, <2>x DEF Retry
    <3> QED BY <2>f, <2>i, <3>1 DEF SentItem
  <2>5. CASE Refused(t, i)
    <3>1. x = [i EXCEPT !.at = "queued", !.hard = i.hard + 1] BY <2>5, <2>x, <2>y DEF Refused
    <3>2. x.at = "queued" /\ x.seq = i.seq /\ x.body = i.body /\ x.sent = i.sent
      BY <2>i, <3>1 DEF Items
    <3> QED BY <2>i, <3>2 DEF SentItem
  <2> QED BY <1>3, <2>1, <2>2, <2>3, <2>4, <2>5, <2>y DEF UploadSteps, Forget, Drop
<1>4. ASSUME NEW t \in Tabs, NEW c \in saving[t], Enqueue(t, c) PROVE SentItem(x)'
  <2>1. PICK j \in {NewItem(Copy(c), TRUE), NewItem(Copy(c), FALSE)} :
          items' = IF Number(c) \in Queued(t) THEN items ELSE [items EXCEPT ![t] = @ \cup {j}]
    BY <1>4, Zenon DEF Enqueue
  <2>2. x \in items[u] \/ x = j BY <2>1 DEF TypeInv, TypeOK
  <2> QED BY <1>1, <1>2, <2>1, <2>2
<1>5. ASSUME NEW t \in Tabs, AdoptOrphans(t) PROVE SentItem(x)'
  <2>1. x \in items[u] \/ \E e \in snap[u] : x = NewItem(e, TRUE)
    BY <1>5 DEF AdoptOrphans, TypeInv, TypeOK
  <2> QED BY <1>1, <1>2, <2>1
<1>6. ASSUME NEW t \in Tabs, TabSteps(t) PROVE SentItem(x)'
  <2>1. x \in items[u] BY <1>6, TabFrame DEF CloseTab, TypeInv, TypeOK
  <2> QED BY <1>1, <2>1
<1>7. CASE items' = items BY <1>1, <1>7
<1>8. DeleteRecording \/ (\E t \in Tabs : ScanBuffer(t) \/ PurgeStale(t)) \/ UNCHANGED vars
        => items' = items
  BY DEF DeleteRecording, ScanBuffer, PurgeStale, vars, queueVars
<1> QED
  BY <1>1, <1>3, <1>4, <1>5, <1>6, <1>7, <1>8, NextCases DEF QueueSteps, BufferSteps

----------------------------------------------------------------------------
(* What is not excused is kept.                                            *)

\* Whatever an upload does, the item stays, with its chunk; or it leaves, for
\* a reason.
LEMMA ItemsStay ==
  ASSUME TypeInv, Sent, NEW t \in Tabs, NEW i \in items[t], UploadSteps(t, i)
  PROVE  /\ \A u \in Tabs : \A y \in items[u] : (u = t /\ y = i) \/ y \in items'[u]
         /\ \/ \E j \in items'[t] : j.body = i.body /\ j.persisted = i.persisted
            \/ Delivered(i.body)' \/ Excused(i.body)'
            \/ i.persisted /\ (~IsBuffered(t, i) \/ i.seq \in setAside'[t]) /\ db' = db
         /\ \A b \in Browsers : \A e \in db[b] : e \in db'[b] \/ (e.seq = i.seq /\ b = BrowserOf[t])
         /\ \/ db' = db
            \/ Delivered(i.body)' \/ Excused(i.body)'
<1>c. /\ i.body \in Recorded /\ i.body \in Chunks /\ Numbered(i.body)
      /\ i.seq = Number(i.body) /\ i.seq \in Numbers /\ i \in Items
  BY CopiesAre DEF TypeInv, TypeOK
<1>l. \A u \in Tabs : \A y \in items[u] : (u = t /\ y = i) \/ y \in items'[u]
  <2>1. CASE Leaves(t, i) BY <2>1 DEF Leaves, TypeInv, TypeOK
  <2>2. ASSUME NEW j, Becomes(t, i, j)
        PROVE  \A u \in Tabs : \A y \in items[u] : (u = t /\ y = i) \/ y \in items'[u]
    BY <2>2 DEF Becomes, TypeInv, TypeOK
  <2>3. Leaves(t, i) \/ \E j : Becomes(t, i, j)
    BY Zenon DEF UploadSteps, StartUpload, Put, Register, Forget, Drop, Retry, Refused
  <2> QED BY <2>1, <2>2, <2>3
<1>j. \A j : Becomes(t, i, j) => j \in items'[t] BY DEF Becomes, TypeInv, TypeOK
<1>d. db' = db \/ Forgotten(t, i)
  BY DEF UploadSteps, StartUpload, Put, Register, Forget, Drop, Retry, Refused
<1>b. \A b \in Browsers : \A e \in db[b] : e \in db'[b] \/ (e.seq = i.seq /\ b = BrowserOf[t])
  <2>1. CASE db' = db BY <2>1
  <2>2. CASE Forgotten(t, i)
    <3>1. db' = [db EXCEPT ![BrowserOf[t]] = {e \in db[BrowserOf[t]] : e.seq # i.seq}]
      BY <2>2 DEF Forgotten, Without
    <3>2. db \in [Browsers -> SUBSET Buffered] BY DEF TypeInv, TypeOK
    <3> QED BY <3>1, <3>2, BrowserIs
  <2> QED BY <1>d, <2>1, <2>2
<1>f. Forget(t, i) => Delivered(i.body)' \/ Excused(i.body)'
  <2> SUFFICES ASSUME Forget(t, i) PROVE Delivered(i.body)' \/ Excused(i.body)'
    OBVIOUS
  <2>1. i.at = "forget" /\ SentItem(i) BY DEF Forget, Sent
  <2>2. UNCHANGED <<object, rows>> BY DEF Forget, serverVars
  <2>3. Numbered(i.body)' /\ Number(i.body)' = i.seq
    BY <1>c, QueueCopies DEF QueueSteps
  <2>4. Excused(i.body) => Excused(i.body)'
    BY <1>c, Steady DEF Next, UploadSteps
  <2> QED BY <2>1, <2>2, <2>3, <2>4 DEF SentItem, Delivered
<1>p. Drop(t, i) => Excused(i.body)' BY DEF Drop, Excused
<1>1. db' = db \/ Delivered(i.body)' \/ Excused(i.body)'
  BY <1>f, <1>p DEF UploadSteps, StartUpload, Put, Register, Retry, Refused
<1>2. \/ \E j \in items'[t] : j.body = i.body /\ j.persisted = i.persisted
      \/ Delivered(i.body)' \/ Excused(i.body)'
      \/ i.persisted /\ (~IsBuffered(t, i) \/ i.seq \in setAside'[t]) /\ db' = db
  <2>f. \A s \in {"queued", "put", "register", "forget"} :
          /\ [i EXCEPT !.at = s].body = i.body
          /\ [i EXCEPT !.at = s].persisted = i.persisted
    BY <1>c DEF Items
  <2>1. CASE StartUpload(t, i)
    <3>1. CASE AlreadyDone(t, i) BY <2>1, <3>1 DEF StartUpload, AlreadyDone
    <3>2. CASE ~AlreadyDone(t, i)
      <4>1. PICK s \in {"register", "put"} : Becomes(t, i, [i EXCEPT !.at = s])
        <5>1. Becomes(t, i, [i EXCEPT !.at = IF i.sent THEN "register" ELSE "put"])
          BY <2>1, <3>2 DEF StartUpload
        <5>2. CASE i.sent BY <5>1, <5>2
        <5>3. CASE ~i.sent BY <5>1, <5>3
        <5> QED BY <5>2, <5>3
      <4> QED BY <4>1, <1>j, <2>f
    <3> QED BY <3>1, <3>2
  <2>2. CASE Put(t, i)
    <3>1. [i EXCEPT !.at = "register", !.sent = TRUE] \in items'[t] BY <2>2, <1>j DEF Put
    <3> QED BY <3>1, <1>c DEF Items
  <2>3. CASE Register(t, i) BY <2>3, <1>j, <2>f DEF Register
  <2>4. CASE Retry(t, i) BY <2>4, <1>j, <2>f DEF Retry
  <2>5. CASE Refused(t, i)
    <3>1. CASE i.hard + 1 < MaxHard
      <4>1. [i EXCEPT !.at = "queued", !.hard = i.hard + 1] \in items'[t]
        BY <2>5, <3>1, <1>j DEF Refused
      <4> QED BY <4>1, <1>c DEF Items
    <3>2. CASE ~(i.hard + 1 < MaxHard)
      <4>1. /\ i.seq \in setAside'[t] /\ db' = db
            /\ pardoned' = IF i.persisted THEN pardoned ELSE pardoned \cup {i.body}
        BY <2>5, <3>2 DEF Refused, TypeInv, TypeOK
      <4> QED BY <4>1 DEF Excused
    <3> QED BY <3>1, <3>2
  <2> QED BY <1>f, <1>p, <2>1, <2>2, <2>3, <2>4, <2>5 DEF UploadSteps
<1> QED
  BY <1>l, <1>b, <1>f, <1>p, <1>1, <1>2

LEMMA OnlyInIs ==
  \A t, c : c \in OnlyIn(t) <=> \/ route[t] \in {"asked", "answered"} /\ c \in Of(t)
                              \/ c \in saving[t]
                              \/ \E i \in items[t] : ~i.persisted /\ i.body = c
  BY DEF OnlyIn

LEMMA UploadKeeps ==
  ASSUME TypeInv, Sent, NEW t \in Tabs, NEW i \in items[t], UploadSteps(t, i),
         NEW c \in Recorded, KeptOne(c)
  PROVE  KeptOne(c)'
<1>q. QueueSteps /\ [Next]_vars BY DEF QueueSteps, Next, UploadSteps
<1>c. c \in Chunks /\ c.tab \in Tabs BY RecordedMeans, ChunkFields
<1>i. /\ i.body \in Recorded /\ Numbered(i.body) /\ i.seq = Number(i.body) BY CopiesAre
<1>s. Recorded' = Recorded BY <1>q, QueueCopies
<1>f. /\ UNCHANGED tabVars /\ saving' = saving
      /\ \A u \in Tabs : Of(u)' = Of(u)
  BY <1>q, UploadFollows, StillSame
  DEF UploadSteps, StartUpload, Put, Register, Forget, Drop, Retry, Refused
<1>1. CASE Excused(c) BY <1>1, <1>c, <1>q, Steady DEF KeptOne
<1>2. CASE Delivered(c) BY <1>2, <1>q, DeliveredStays DEF KeptOne
<1>3. CASE c \in OnlyIn(c.tab)
  <2>1. CASE route[c.tab] \in {"asked", "answered"} /\ c \in Of(c.tab)
    BY <2>1, <1>c, <1>f, OnlyInIs DEF KeptOne, tabVars, OnlyIn
  <2>2. CASE c \in saving[c.tab] BY <2>2, <1>f DEF KeptOne, OnlyIn
  <2>3. ASSUME NEW y \in items[c.tab], ~y.persisted, y.body = c PROVE KeptOne(c)'
    <3>1. CASE y \in items'[c.tab] BY <2>3, <3>1 DEF KeptOne, OnlyIn
    <3>2. CASE c.tab = t /\ y = i
      <4>1. ASSUME NEW j \in items'[t], j.body = i.body, j.persisted = i.persisted
            PROVE  KeptOne(c)'
        BY <2>3, <3>2, <4>1 DEF KeptOne, OnlyIn
      <4> QED BY <2>3, <3>2, <4>1, ItemsStay DEF KeptOne
    <3> QED BY <1>c, <3>1, <3>2, ItemsStay
  <2> QED BY <1>3, <2>1, <2>2, <2>3, OnlyInIs
<1>4. ASSUME NEW e \in db[BrowserOf[c.tab]], e.body = c PROVE KeptOne(c)'
  <2>1. CASE e \in db'[BrowserOf[c.tab]] BY <1>4, <2>1 DEF KeptOne, Buffers
  <2>2. CASE e.seq = i.seq /\ db' # db
    <3>1. Numbered(c) /\ e.seq = Number(c) BY <1>4, <1>c, BrowserIs, CopiesAre
    <3>2. Delivered(i.body)' \/ Excused(i.body)' BY <2>2, ItemsStay
    <3>3. Excused(c) => Excused(c)' BY <1>c, <1>q, Steady
    <3>4. c = i.body \/ Excused(c) BY <1>i, <2>2, <3>1, OneBody
    <3> QED BY <3>2, <3>3, <3>4 DEF KeptOne
  <2> QED BY <1>4, <1>c, <2>1, <2>2, BrowserIs, ItemsStay
<1> QED BY <1>1, <1>2, <1>3, <1>4 DEF KeptOne, Buffers

\* What a write to the buffer leaves there, and in the queue.
LEMMA EnqueueLeaves ==
  ASSUME TypeInv, NEW t \in Tabs, NEW c \in saving[t], Enqueue(t, c)
  PROVE  /\ c \in Recorded /\ c \in Chunks /\ c.tab = t /\ Numbered(c)
         /\ \A u \in Tabs : items[u] \subseteq items'[u]
         /\ (\E x \in items'[t] : x.body = c) \/ Excused(c)
         /\ \/ Buffers(c)' \/ Excused(c)
            \/ \E x \in items'[t] : ~x.persisted /\ x.body = c
         /\ \A b \in Browsers : \A e \in db[b] :
              e \in db'[b] \/ (e.seq = Number(c) /\ Buffers(c)')
<1>c. c \in Recorded /\ c \in Chunks /\ c.tab = t /\ Numbered(c)
  BY RecordedMeans DEF TypeInv, TypeOK, Routes, Numbered
<1>i. Copy(c).body = c /\ Copy(c).seq = Number(c) BY DEF Copy
<1> DEFINE push(j) == items' = IF Number(c) \in Queued(t) THEN items
                               ELSE [items EXCEPT ![t] = @ \cup {j}]
<1>n. /\ NewItem(Copy(c), TRUE).body = c /\ NewItem(Copy(c), FALSE).body = c
      /\ ~NewItem(Copy(c), FALSE).persisted
  BY <1>i DEF NewItem
<1>1. \/ /\ db' = [db EXCEPT ![BrowserOf[t]] = Without(BrowserOf[t], Number(c)) \cup {Copy(c)}]
         /\ push(NewItem(Copy(c), TRUE))
      \/ db' = db /\ push(NewItem(Copy(c), FALSE))
  BY DEF Enqueue
<1>q. Number(c) \in Queued(t) => Excused(c)
  <2>1. ASSUME NEW x \in items[t], x.seq = Number(c) PROVE Excused(c)
    <3>1. /\ x.body \in Recorded /\ Numbered(x.body) /\ Number(x.body) = Number(c)
          /\ x.body \notin saving[x.body.tab]
      BY <2>1, CopiesAre
    <3> QED BY <1>c, <3>1, OneBody
  <2> QED BY <2>1 DEF Queued
<1>2. \A j : push(j) => /\ \A u \in Tabs : items[u] \subseteq items'[u]
                        /\ j \in items'[t] \/ Excused(c)
  <2>1. SUFFICES ASSUME NEW j, push(j)
                 PROVE  /\ \A u \in Tabs : items[u] \subseteq items'[u]
                        /\ j \in items'[t] \/ Excused(c)
    BY Zenon
  <2>2. CASE Number(c) \in Queued(t) BY <1>q, <2>1, <2>2
  <2>3. CASE Number(c) \notin Queued(t) BY <2>1, <2>3 DEF TypeInv, TypeOK
  <2> QED BY <2>2, <2>3
<1> HIDE DEF push
<1>3. CASE db' = [db EXCEPT ![BrowserOf[t]] = Without(BrowserOf[t], Number(c)) \cup {Copy(c)}]
  <2>1. /\ Copy(c) \in db'[BrowserOf[t]]
        /\ \A b \in Browsers : \A e \in db[b] : e \in db'[b] \/ e.seq = Number(c)
    BY <1>3, BrowserIs DEF TypeInv, TypeOK, Without
  <2>2. Buffers(c)' BY <1>c, <1>i, <2>1 DEF Buffers
  <2> QED BY <1>c, <1>n, <1>1, <1>2, <2>1, <2>2
<1>4. CASE db' = db /\ push(NewItem(Copy(c), FALSE))
  BY <1>c, <1>n, <1>2, <1>4
<1> QED BY <1>1, <1>3, <1>4

LEMMA BufferKeeps ==
  ASSUME TypeInv, NEW t \in Tabs, BufferSteps(t), NEW c \in Recorded, KeptOne(c)
  PROVE  KeptOne(c)'
<1>q. QueueSteps /\ [Next]_vars BY DEF QueueSteps, Next, BufferSteps
<1>c. c \in Chunks /\ c.tab \in Tabs BY RecordedMeans, ChunkFields
<1>x. Excused(c) => Excused(c)' BY <1>c, <1>q, Steady
<1>f. UNCHANGED tabVars /\ \A u \in Tabs : Of(u)' = Of(u)
  BY <1>q, QueueTypes, StillSame
<1>1. CASE Excused(c) BY <1>1, <1>x DEF KeptOne
<1>2. CASE Delivered(c) BY <1>2, <1>q, DeliveredStays DEF KeptOne
<1>3. CASE route[c.tab] \in {"asked", "answered"} /\ c \in Of(c.tab)
  BY <1>3, <1>c, <1>f DEF KeptOne, tabVars, OnlyIn
<1>4. ASSUME NEW d \in saving[t], Enqueue(t, d) PROVE KeptOne(c)'
  <2>d. Excused(d) => Excused(d)' BY <1>4, EnqueueLeaves, <1>q, Steady
  <2>1. CASE c \in saving[c.tab]
    <3>1. CASE c = d
      BY <1>4, <2>d, <3>1, EnqueueLeaves DEF KeptOne, OnlyIn
    <3>2. CASE c # d
      <4>1. c \in saving'[c.tab] BY <1>4, <1>c, <2>1, <3>2 DEF Enqueue, TypeInv, TypeOK
      <4> QED BY <4>1 DEF KeptOne, OnlyIn
    <3> QED BY <3>1, <3>2
  <2>2. ASSUME NEW x \in items[c.tab], ~x.persisted, x.body = c PROVE KeptOne(c)'
    <3>1. x \in items'[c.tab] BY <1>4, <1>c, <2>2, EnqueueLeaves
    <3> QED BY <2>2, <3>1 DEF KeptOne, OnlyIn
  <2>3. ASSUME NEW e \in db[BrowserOf[c.tab]], e.body = c PROVE KeptOne(c)'
    <3>1. CASE e \in db'[BrowserOf[c.tab]] BY <2>3, <3>1 DEF KeptOne, Buffers
    <3>2. CASE e.seq = Number(d) /\ Buffers(d)'
      <4>1. Numbered(c) /\ e.seq = Number(c) BY <2>3, <1>c, BrowserIs, CopiesAre
      <4>2. d \in Recorded /\ Numbered(d) BY <1>4, EnqueueLeaves
      <4>3. c = d \/ Excused(c) BY <3>2, <4>1, <4>2, OneBody
      <4> QED BY <1>x, <3>2, <4>3 DEF KeptOne
    <3> QED BY <1>4, <1>c, <3>1, <3>2, BrowserIs, EnqueueLeaves
  <2> QED BY <1>1, <1>2, <1>3, <2>1, <2>2, <2>3, OnlyInIs DEF KeptOne, Buffers
<1>5. CASE ScanBuffer(t)
  BY <1>1, <1>2, <1>3, <1>5, OnlyInIs DEF ScanBuffer, KeptOne, OnlyIn, Buffers
<1>6. CASE AdoptOrphans(t)
  <2>1. /\ UNCHANGED <<saving, db>> /\ \A u \in Tabs : items[u] \subseteq items'[u]
    BY <1>6 DEF AdoptOrphans, TypeInv, TypeOK
  <2>2. CASE Buffers(c) BY <2>1, <2>2 DEF KeptOne, Buffers
  <2>3. CASE c \in saving[c.tab] BY <2>1, <2>3 DEF KeptOne, OnlyIn
  <2>4. ASSUME NEW x \in items[c.tab], ~x.persisted, x.body = c PROVE KeptOne(c)'
    BY <1>c, <2>1, <2>4 DEF KeptOne, OnlyIn
  <2> QED BY <1>1, <1>2, <1>3, <2>2, <2>3, <2>4, OnlyInIs DEF KeptOne
<1>7. CASE PurgeStale(t)
  <2>1. UNCHANGED <<saving, items>> BY <1>7 DEF PurgeStale, queueVars
  <2>2. CASE Buffers(c)
    <3>1. PICK e \in db[BrowserOf[c.tab]] : e.body = c BY <2>2 DEF Buffers
    <3>2. PICK f \in db[BrowserOf[t]] : /\ db' = [db EXCEPT ![BrowserOf[t]] = @ \ {f}]
                                       /\ pardoned' = pardoned \cup {f.body}
      BY <1>7 DEF PurgeStale
    <3>3. e = f \/ e \in db'[BrowserOf[c.tab]] BY <1>c, <3>2, BrowserIs DEF TypeInv, TypeOK
    <3> QED BY <3>1, <3>2, <3>3 DEF KeptOne, Buffers, Excused
  <2> QED BY <1>1, <1>2, <1>3, <2>1, <2>2, OnlyInIs DEF KeptOne, OnlyIn
<1> QED BY <1>4, <1>5, <1>6, <1>7 DEF BufferSteps

LEMMA TabKeeps ==
  ASSUME TypeInv, Kept, NEW t \in Tabs, TabSteps(t), NEW c \in Recorded'
  PROVE  KeptOne(c)'
<1>n. [Next]_vars BY DEF Next, TabSteps
<1>c. c \in Chunks /\ c.tab \in Tabs /\ c.k < made'[c.tab]
  BY ChunkFields DEF Recorded, Of
<1>1. CASE c \in Recorded
  <2>1. CASE Excused(c) BY <2>1, <1>c, <1>n, Steady DEF KeptOne
  <2>2. CASE Delivered(c) BY <2>2, <1>1, <1>n, DeliveredStays DEF KeptOne
  <2>3. CASE Buffers(c) BY <2>3, TabFrame DEF KeptOne, Buffers
  <2>4. CASE c \in OnlyIn(c.tab) /\ ~Delivered(c)
    <3>1. CASE CloseTab(t)
      <4>1. CASE c.tab = t BY <2>4, <3>1, <4>1 DEF CloseTab, KeptOne, Excused
      <4>2. CASE c.tab # t
        <5>1. /\ items'[c.tab] = items[c.tab] /\ saving'[c.tab] = saving[c.tab]
              /\ route'[c.tab] = route[c.tab] /\ Of(c.tab)' = Of(c.tab)
          BY <1>c, <3>1, <4>2 DEF CloseTab, TypeInv, TypeOK, Of
        <5> QED BY <2>4, <5>1 DEF KeptOne, OnlyIn
      <4> QED BY <4>1, <4>2
    <3>2. CASE items' = items
      <4>1. ASSUME NEW x \in items[c.tab], ~x.persisted, x.body = c PROVE KeptOne(c)'
        BY <3>2, <4>1 DEF KeptOne, OnlyIn
      <4>2. CASE c \in saving[c.tab]
        <5>1. c \in saving'[c.tab] \/ CloseTab(t)
          <6>1. CASE OpenRoute(t)
            BY <1>c, <4>2, <6>1 DEF OpenRoute, TypeInv, TypeOK
          <6> QED
            BY <1>c, <4>2, <6>1 DEF TabSteps, OpenTab, BeginRecording, Capture, StopCapture,
               AskForRow, AbandonRoute, RouteChunk, queueVars, TypeInv, TypeOK
        <5> QED BY <3>1, <5>1 DEF KeptOne, OnlyIn
      <4>3. CASE route[c.tab] \in {"asked", "answered"} /\ c \in Of(c.tab)
        <5>1. c \in Of(c.tab)' BY <1>c, <4>3, TabTypes, OfGrows DEF TypeInv, TypeOK
        <5>2. CASE route'[c.tab] \in {"asked", "answered"} BY <5>1, <5>2 DEF KeptOne, OnlyIn
        <5>3. CASE c.tab = t /\ AbandonRoute(t)
          BY <4>3, <5>3 DEF AbandonRoute, KeptOne, Excused
        <5>4. CASE c.tab = t /\ OpenRoute(t)
          <6>1. c \in saving'[t] BY <4>3, <5>4 DEF OpenRoute, TypeInv, TypeOK
          <6> QED BY <5>4, <6>1 DEF KeptOne, OnlyIn
        <5>5. CASE c.tab = t /\ (BeginRecording(t) \/ AskForRow(t))
          <6>1. route'[c.tab] \in {"asked", "answered"}
            BY <1>c, <5>5 DEF BeginRecording, AskForRow, TypeInv, TypeOK
          <6> QED BY <5>2, <6>1
        <5>6. CASE c.tab # t BY <1>c, <4>3, <5>2, <5>6, TabFrame
        <5> QED
          BY <3>1, <4>3, <5>2, <5>3, <5>4, <5>5, <5>6
          DEF TabSteps, OpenTab, Capture, StopCapture
      <4> QED BY <2>4, <4>1, <4>2, <4>3, OnlyInIs
    <3> QED BY <3>1, <3>2, TabFrame
  <2> QED BY <1>1, <2>1, <2>2, <2>3, <2>4 DEF Kept, KeptOne
<1>2. CASE c \notin Recorded
  <2>1. ~(c.k < made[c.tab]) BY <1>c, <1>2, RecordedMeans
  <2>2. RouteChunk(t) /\ (Capture(t) \/ StopCapture(t))
    <3>1. made' # made BY <1>c, <2>1
    <3> QED
      BY <3>1 DEF TabSteps, OpenTab, BeginRecording, Capture, StopCapture, AskForRow,
         AbandonRoute, OpenRoute, CloseTab
  <2>3. c.tab = t BY <1>c, <2>1, TabFrame
  <2>4. made[t] \in Nat /\ made'[t] = made[t] + 1 BY <2>2, Counts DEF RouteChunk, TypeInv, TypeOK
  <2>5. c.k = made[t] BY <1>c, <2>1, <2>3, <2>4, ChunkFields
  <2>6. c = [tab |-> t, k |-> made[t]]
    <3>1. [tab |-> t, k |-> made[t]] \in Chunks
      BY <1>c, <2>3, <2>5, ChunkFields
    <3> QED BY <1>c, <2>3, <2>5, <3>1, ChunkFields
  <2>7. route' = route BY <2>2 DEF Capture, StopCapture
  <2>8. route[t] \in {"asked", "answered", "open", "abandoned"}
    BY <2>2 DEF Capture, StopCapture, TypeInv, Routes
  <2>9. CASE route[t] = "open"
    <3>1. c \in saving'[t] BY <2>2, <2>6, <2>9 DEF RouteChunk, TypeInv, TypeOK
    <3> QED BY <2>3, <3>1 DEF KeptOne, OnlyIn
  <2>10. CASE route[t] = "abandoned"
    BY <2>2, <2>6, <2>10 DEF RouteChunk, KeptOne, Excused
  <2>11. CASE route[t] \in {"asked", "answered"}
    <3>1. c \in Of(t)' BY <1>c, <2>3 DEF Of
    <3> QED BY <2>3, <2>7, <2>11, <3>1 DEF KeptOne, OnlyIn
  <2> QED BY <2>8, <2>9, <2>10, <2>11
<1> QED BY <1>1, <1>2

LEMMA KeptStep ==
  ASSUME TypeInv, Sent, Kept, [Next]_vars
  PROVE  Kept'
<1> SUFFICES ASSUME NEW c \in Recorded' PROVE KeptOne(c)'
  BY DEF Kept
<1>1. CASE QueueSteps
  <2>1. c \in Recorded /\ KeptOne(c) /\ c \in Chunks BY <1>1, QueueCopies, RecordedMeans DEF Kept
  <2>2. CASE DeleteRecording BY <2>1, <2>2 DEF DeleteRecording, KeptOne, Excused
  <2> QED BY <1>1, <2>1, <2>2, BufferKeeps, UploadKeeps DEF QueueSteps
<1>2. ASSUME NEW t \in Tabs, TabSteps(t) PROVE KeptOne(c)'
  BY <1>2, TabKeeps
<1>3. CASE UNCHANGED vars
  <2>1. Recorded' = Recorded BY <1>3, StillSame DEF vars
  <2>2. KeptOne(c)' = KeptOne(c)
    BY <1>3, <2>1 DEF vars, tabVars, queueVars, serverVars, KeptOne, Excused, Clashes, Numbered,
       Number, Delivered, OnlyIn, Of, Buffers
  <2> QED BY <2>1, <2>2 DEF Kept
<1> QED BY <1>1, <1>2, <1>3, NextCases

LEMMA KeptInvInit == Init => KeptInv
<1> SUFFICES ASSUME Init PROVE KeptInv
  OBVIOUS
<1>1. TypeInv BY TypeInvInit
<1>2. Recorded = {}
  <2>1. \A c \in Chunks : ~(c.k < made[c.tab]) BY ChunkFields DEF Init
  <2> QED BY <2>1, RecordedMeans
<1> QED BY <1>1, <1>2 DEF KeptInv, Sent, Kept, Init

LEMMA KeptInvStep == KeptInv /\ [Next]_vars => KeptInv'
  BY TypeInvStep, SentStep, KeptStep DEF KeptInv

----------------------------------------------------------------------------
(* The uploader keeps the promise of Delivery.                             *)

\* The chunk as Delivery sees it, when nothing excuses its loss.
LEMMA FateIs ==
  Kept => \A c \in Chunks :
    /\ Fate(c) \in {"unrecorded", "held", "stored", "lost"}
    /\ Fate(c) = "unrecorded" <=> c \notin Recorded
    /\ c \in Recorded => (Fate(c) = "stored" <=> Delivered(c))
    /\ c \in Recorded /\ ~Excused(c) => Fate(c) \in {"held", "stored"}
<1> SUFFICES ASSUME Kept, NEW c \in Chunks
             PROVE  /\ Fate(c) \in {"unrecorded", "held", "stored", "lost"}
                    /\ Fate(c) = "unrecorded" <=> c \notin Recorded
                    /\ c \in Recorded => (Fate(c) = "stored" <=> Delivered(c))
                    /\ c \in Recorded /\ ~Excused(c) => Fate(c) \in {"held", "stored"}
  OBVIOUS
<1>1. c \in Recorded /\ ~Excused(c) /\ ~Delivered(c) => Held(c)
  <2> SUFFICES ASSUME c \in Recorded, ~Excused(c), ~Delivered(c) PROVE Held(c)
    OBVIOUS
  <2>1. c.tab \in Tabs /\ BrowserOf[c.tab] \in Browsers BY ChunkFields, BrowserIs
  <2>2. c \in OnlyIn(c.tab) \/ Buffers(c) BY DEF Kept, KeptOne
  <2> QED BY <2>1, <2>2 DEF Held, Buffers
<1>2. CASE c \notin Recorded
  <2>1. Fate(c) = "unrecorded" BY <1>2 DEF Fate
  <2> QED BY <1>2, <2>1
<1>3. CASE c \in Recorded /\ Delivered(c)
  <2>1. Fate(c) = "stored" BY <1>3 DEF Fate
  <2> QED BY <1>3, <2>1
<1>4. CASE c \in Recorded /\ ~Delivered(c) /\ Held(c)
  <2>1. Fate(c) = "held" BY <1>4 DEF Fate
  <2> QED BY <1>4, <2>1
<1>5. CASE c \in Recorded /\ ~Delivered(c) /\ ~Held(c)
  <2>1. Fate(c) = "lost" BY <1>5 DEF Fate
  <2> QED BY <1>1, <1>5, <2>1
<1> QED BY <1>2, <1>3, <1>4, <1>5

LEMMA FateThen ==
  Kept' => \A c \in Chunks :
    /\ Fate(c)' \in {"unrecorded", "held", "stored", "lost"}
    /\ Fate(c)' = "unrecorded" <=> c \notin Recorded'
    /\ c \in Recorded' => (Fate(c)' = "stored" <=> Delivered(c)')
    /\ c \in Recorded' /\ ~Excused(c)' => Fate(c)' \in {"held", "stored"}
<1>1. Kept' => (\A c \in Chunks :
    /\ Fate(c) \in {"unrecorded", "held", "stored", "lost"}
    /\ Fate(c) = "unrecorded" <=> c \notin Recorded
    /\ c \in Recorded => (Fate(c) = "stored" <=> Delivered(c))
    /\ c \in Recorded /\ ~Excused(c) => Fate(c) \in {"held", "stored"})'
  BY FateIs, PTL
<1> QED BY <1>1

\* A chunk that has just been recorded is not on the server.
LEMMA NewIsNotStored ==
  ASSUME KeptInv, [Next]_vars, NEW c \in Chunks, c \notin Recorded, c \in Recorded'
  PROVE  ~Delivered(c)'
<1>1. ~QueueSteps BY QueueCopies DEF KeptInv
<1>2. Recorded' = Recorded \/ Next
  <2>1. CASE UNCHANGED vars BY <2>1, StillSame DEF vars
  <2> QED BY <2>1
<1>3. PICK t \in Tabs : TabSteps(t) BY <1>1, <1>2, NextCases
<1>4. object' = object BY <1>3, TabFrame DEF KeptInv
<1>5. \A n \in Numbers : object[n] # c BY NoneAssumption DEF KeptInv, Sent
<1>6. rows' \subseteq Numbers BY <1>3, TabTypes DEF KeptInv, TypeOK
<1> QED BY <1>4, <1>5, <1>6 DEF Delivered

LEMMA KeepsInit == Init => Promise!Init
<1> SUFFICES ASSUME Init PROVE Promise!Init
  OBVIOUS
<1>1. Recorded = {}
  <2>1. \A c \in Chunks : ~(c.k < made[c.tab]) BY ChunkFields DEF Init
  <2> QED BY <2>1, RecordedMeans
<1>2. \A c \in Chunks : Fate(c) = "unrecorded" BY <1>1 DEF Fate
<1>3. pardoned \cup {c \in Recorded : Clashes(c)} = {} BY <1>1 DEF Init
<1> QED BY <1>2, <1>3 DEF Promise!Init

LEMMA KeepsStep ==
  ASSUME KeptInv, KeptInv', [Next]_vars
  PROVE  Promise!Step
<1>1. ASSUME NEW c \in Chunks
      PROVE  Promise!May(Fate(c), Fate(c)', c \in pardoned' \cup {d \in Recorded' : Clashes(d)'})
  <2>r. Recorded \subseteq Recorded' BY Steady DEF KeptInv
  <2>e. c \in Recorded' /\ Excused(c)'
          => c \in pardoned' \cup {d \in Recorded' : Clashes(d)'}
    BY DEF Excused
  <2>1. CASE c \notin Recorded'
    <3>1. Fate(c)' = "unrecorded" /\ Fate(c) = "unrecorded"
      BY <2>1, <2>r, FateIs, FateThen DEF KeptInv
    <3> QED BY <3>1 DEF Promise!May
  <2>2. CASE c \in Recorded' /\ Excused(c)'
    <3>1. Fate(c)' # "unrecorded" BY <2>2, FateThen DEF KeptInv
    <3> QED BY <2>2, <2>e, <3>1 DEF Promise!May
  <2>3. CASE c \in Recorded' /\ ~Excused(c)' /\ c \notin Recorded
    <3>1. Fate(c) = "unrecorded" BY <2>3, FateIs DEF KeptInv
    <3>2. Fate(c)' = "held" BY <2>3, FateThen, NewIsNotStored DEF KeptInv
    <3> QED BY <3>1, <3>2 DEF Promise!May
  <2>4. CASE c \in Recorded /\ ~Excused(c)'
    <3>1. ~Excused(c) BY <2>4, Steady DEF KeptInv
    <3>2. Fate(c) \in {"held", "stored"} BY <2>4, <3>1, FateIs DEF KeptInv
    <3>3. Fate(c)' \in {"held", "stored"} BY <2>4, <2>r, FateThen DEF KeptInv
    <3>4. Fate(c) = "stored" => Fate(c)' = "stored"
      BY <2>4, <2>r, FateIs, FateThen, DeliveredStays DEF KeptInv
    <3> QED BY <3>2, <3>3, <3>4 DEF Promise!May
  <2> QED BY <2>1, <2>2, <2>3, <2>4
<1>2. [c \in Chunks |-> Fate(c)'] \in [Chunks -> {"unrecorded", "held", "stored", "lost"}]
  BY FateThen DEF KeptInv
<1>3. /\ pardoned \cup {c \in Recorded : Clashes(c)}
           \subseteq pardoned' \cup {c \in Recorded' : Clashes(c)'}
      /\ pardoned' \cup {c \in Recorded' : Clashes(c)'} \subseteq Chunks
  <2>1. ASSUME NEW c \in Recorded, Clashes(c) PROVE (c \in Recorded' /\ Clashes(c)') \/ c \in pardoned'
    BY <2>1, Steady, RecordedMeans DEF KeptInv, Excused
  <2>2. pardoned \subseteq pardoned' /\ pardoned' \subseteq Chunks /\ Recorded' \subseteq Chunks
    BY Steady DEF KeptInv, TypeInv, TypeOK, Recorded, Of
  <2> QED BY <2>1, <2>2
<1> QED
  BY <1>1, <1>2, <1>3 DEF Promise!Step, Promise!Fates

\* Every recorded chunk is held by a browser until the server has it, and
\* stays there: whatever tabs are closed, requests fail or writes fail, it is
\* lost only by one of the events the code names, or under another's number.
THEOREM UploaderKeepsChunks == Spec => KeepsChunks
<1>1. KeptInv /\ KeptInv' /\ [Next]_vars => [Promise!Step]_Promise!vars
  BY KeepsStep
<1> QED BY <1>1, KeepsInit, KeptInvInit, KeptInvStep, PTL DEF Spec, KeepsChunks, Promise!Spec

----------------------------------------------------------------------------
(* A queue that is empty has nothing left to do.                           *)

LEMMA UploadCovers ==
  ASSUME KeptInv, NEW u \in Tabs, NEW i \in items[u], UploadSteps(u, i),
         NEW t \in Tabs, route[t] = "open", NEW c \in Of(t), CoveredOne(t, c)
  PROVE  CoveredOne(t, c)'
<1> USE DEF KeptInv
<1>q. QueueSteps /\ [Next]_vars BY DEF QueueSteps, Next, UploadSteps
<1>c. c \in Recorded /\ c \in Chunks /\ c.tab = t /\ Numbered(c)
  BY RecordedMeans DEF Numbered
<1>n. Number(c)' = Number(c) BY <1>c, <1>q, Steady
<1>1. CASE Excused(c) BY <1>1, <1>c, <1>q, Steady DEF CoveredOne
<1>2. CASE Delivered(c) BY <1>2, <1>c, <1>q, DeliveredStays DEF CoveredOne
<1>3. CASE c \in saving[t]
  BY <1>3 DEF CoveredOne, UploadSteps, StartUpload, Put, Register, Forget, Drop, Retry, Refused
<1>4. CASE Number(c) \in setAside[t]
  <2>1. setAside' = setAside \/ setAside' = [setAside EXCEPT ![u] = @ \cup {i.seq}]
    BY DEF UploadSteps, StartUpload, Put, Register, Forget, Drop, Retry, Refused
  <2>2. Number(c) \in setAside'[t] BY <1>4, <2>1 DEF TypeInv, TypeOK
  <2> QED BY <1>n, <2>2 DEF CoveredOne
<1>5. ASSUME NEW y \in items[t], y.body = c PROVE CoveredOne(t, c)'
  <2>y. y.seq = Number(c) /\ c \notin saving[t] BY <1>5, <1>c, CopiesAre
  <2>1. CASE y \in items'[t] BY <1>5, <2>1 DEF CoveredOne
  <2>2. CASE u = t /\ y = i
    <3>1. ASSUME NEW j \in items'[t], j.body = i.body PROVE CoveredOne(t, c)'
      BY <1>5, <2>2, <3>1 DEF CoveredOne
    <3>2. CASE Delivered(i.body)' \/ Excused(i.body)' BY <1>5, <2>2, <3>2 DEF CoveredOne
    <3>3. CASE i.seq \in setAside'[u] BY <1>n, <2>2, <2>y, <3>3 DEF CoveredOne
    <3>4. CASE i.persisted /\ ~IsBuffered(u, i)
      <4>1. ~Buffers(c)
        <5>1. ASSUME NEW e \in db[BrowserOf[t]], e.body = c PROVE FALSE
          <6>1. e.seq = Number(c) BY <5>1, BrowserIs, CopiesAre
          <6> QED BY <2>2, <2>y, <3>4, <6>1 DEF IsBuffered
        <5> QED BY <1>c, <5>1 DEF Buffers
      <4>2. c \notin OnlyIn(t)
        <5>1. ASSUME NEW x \in items[t], ~x.persisted, x.body = c PROVE FALSE
          <6>1. x.seq = y.seq BY <5>1, <2>y, CopiesAre
          <6>2. x = y BY <6>1 DEF TypeInv, TypeOK
          <6> QED BY <2>2, <3>4, <5>1, <6>2
        <5> QED BY <2>y, <5>1, OnlyInIs
      <4>3. KeptOne(c) BY <1>c DEF Kept
      <4> QED BY <1>1, <1>2, <1>c, <4>1, <4>2, <4>3 DEF KeptOne
    <3> QED BY <2>2, <3>1, <3>2, <3>3, <3>4, ItemsStay
  <2> QED BY <2>1, <2>2, ItemsStay
<1> QED BY <1>1, <1>2, <1>3, <1>4, <1>5 DEF CoveredOne

LEMMA BufferCovers ==
  ASSUME TypeInv, NEW u \in Tabs, BufferSteps(u),
         NEW t \in Tabs, route[t] = "open", NEW c \in Of(t), CoveredOne(t, c)
  PROVE  CoveredOne(t, c)'
<1>q. QueueSteps /\ [Next]_vars BY DEF QueueSteps, Next, BufferSteps
<1>c. c \in Recorded /\ c \in Chunks /\ c.tab = t /\ Numbered(c)
  BY RecordedMeans DEF Numbered
<1>n. Number(c)' = Number(c) BY <1>c, <1>q, Steady
<1>x. Excused(c) => Excused(c)' BY <1>c, <1>q, Steady
<1>2. CASE Delivered(c) BY <1>2, <1>c, <1>q, DeliveredStays DEF CoveredOne
<1>4. setAside' = setAside
  BY DEF BufferSteps, Enqueue, ScanBuffer, AdoptOrphans, PurgeStale, queueVars
<1>5. items[t] \subseteq items'[t]
  <2>1. ASSUME NEW d \in saving[u], Enqueue(u, d) PROVE items[t] \subseteq items'[t]
    BY <2>1, EnqueueLeaves
  <2>2. CASE AdoptOrphans(u) BY <2>2 DEF AdoptOrphans, TypeInv, TypeOK
  <2> QED BY <2>1, <2>2 DEF BufferSteps, ScanBuffer, PurgeStale, queueVars
<1>6. CASE c \in saving[t]
  <2>1. ASSUME NEW d \in saving[u], Enqueue(u, d) PROVE CoveredOne(t, c)'
    <3>1. CASE c = d /\ u = t BY <1>x, <2>1, <3>1, EnqueueLeaves DEF CoveredOne
    <3>2. CASE ~(c = d /\ u = t)
      <4>1. c \in saving'[t] BY <1>6, <2>1, <3>2 DEF Enqueue, TypeInv, TypeOK
      <4> QED BY <4>1 DEF CoveredOne
    <3> QED BY <3>1, <3>2
  <2>2. CASE saving' = saving BY <1>6, <2>2 DEF CoveredOne
  <2> QED BY <2>1, <2>2 DEF BufferSteps, ScanBuffer, AdoptOrphans, PurgeStale, queueVars
<1> QED BY <1>n, <1>x, <1>2, <1>4, <1>5, <1>6 DEF CoveredOne

LEMMA TabCovers ==
  ASSUME KeptInv, Covered, NEW u \in Tabs, TabSteps(u),
         NEW t \in Tabs, route'[t] = "open", NEW c \in Of(t)'
  PROVE  CoveredOne(t, c)'
<1> USE DEF KeptInv
<1>n. [Next]_vars BY DEF Next, TabSteps
<1>c. c \in Chunks /\ c.tab = t /\ c \in Recorded' BY ChunkFields DEF Of, Recorded
<1>1. CASE u = t /\ OpenRoute(t)
  <2>1. c \in saving'[t] BY <1>1 DEF OpenRoute, Of, TypeInv, TypeOK
  <2> QED BY <2>1 DEF CoveredOne
<1>2. CASE ~(u = t /\ OpenRoute(t))
  <2>1. route[t] = "open"
    <3>1. CASE u # t BY <3>1, TabFrame
    <3>2. CASE u = t
      BY <1>2, <3>2 DEF TabSteps, OpenTab, BeginRecording, Capture, StopCapture, AskForRow,
         AbandonRoute, CloseTab, TypeInv, TypeOK
    <3> QED BY <3>1, <3>2
  <2>2. /\ items'[t] = items[t] /\ setAside'[t] = setAside[t] /\ saving[t] \subseteq saving'[t]
    <3>1. CASE CloseTab(u)
      <4>1. u # t BY <3>1 DEF CloseTab, TypeInv, TypeOK
      <4> QED BY <3>1, <4>1 DEF CloseTab, TypeInv, TypeOK
    <3>2. CASE UNCHANGED <<items, snap, setAside>>
      <4>1. saving[t] \subseteq saving'[t]
        <5>1. CASE u # t BY <5>1, TabFrame
        <5>2. CASE u = t
          BY <1>2, <3>1, <5>2 DEF TabSteps, OpenTab, BeginRecording, Capture, StopCapture,
             AskForRow, AbandonRoute, RouteChunk, queueVars, TypeInv, TypeOK
        <5> QED BY <5>1, <5>2
      <4> QED BY <3>2, <4>1
    <3> QED BY <3>1, <3>2, TabFrame
  <2>3. CASE c \in Of(t)
    <3>1. CoveredOne(t, c) BY <2>1, <2>3 DEF Covered
    <3>2. c \in Recorded /\ Numbered(c) BY <1>c, <2>1, <2>3, RecordedMeans DEF Numbered
    <3>3. Number(c)' = Number(c) /\ (Excused(c) => Excused(c)') BY <1>c, <1>n, <3>2, Steady
    <3>4. Delivered(c) => Delivered(c)' \/ Excused(c)' BY <1>n, <3>2, DeliveredStays
    <3> QED BY <2>2, <3>1, <3>3, <3>4 DEF CoveredOne
  <2>4. CASE c \notin Of(t)
    <3>1. c \notin Recorded BY <1>c, <2>4, RecordedMeans
    <3>2. KeptOne(c)' BY <1>c, TabKeeps
    <3>3. /\ ~Delivered(c)' BY <1>c, <1>n, <3>1, NewIsNotStored
    <3>4. c \in OnlyIn(t)' => c \in saving'[t] \/ \E x \in items'[t] : x.body = c
      BY DEF OnlyIn
    <3>5. ~Buffers(c)'
      <4>1. ASSUME NEW e \in db[BrowserOf[t]], e.body = c PROVE FALSE
        BY <3>1, <4>1, BrowserIs, CopiesAre
      <4>2. db' = db BY TabFrame
      <4> QED BY <1>c, <4>1, <4>2 DEF Buffers
    <3> QED BY <1>c, <3>2, <3>3, <3>4, <3>5 DEF KeptOne, CoveredOne
  <2> QED BY <2>3, <2>4
<1> QED BY <1>1, <1>2

LEMMA CoveredInit == Init => Covered
  BY DEF Init, Covered

LEMMA CoveredStep == KeptInv /\ Covered /\ [Next]_vars => Covered'
<1> SUFFICES ASSUME KeptInv, Covered, [Next]_vars,
                    NEW t \in Tabs, route'[t] = "open", NEW c \in Of(t)'
             PROVE  CoveredOne(t, c)'
  BY DEF Covered
<1>1. CASE QueueSteps
  <2>1. UNCHANGED tabVars /\ Of(t)' = Of(t) BY <1>1, QueueTypes, StillSame DEF KeptInv
  <2>2. route[t] = "open" /\ CoveredOne(t, c) BY <2>1 DEF Covered, tabVars
  <2>3. CASE DeleteRecording
    BY <2>1, <2>3 DEF DeleteRecording, CoveredOne, Excused, Of
  <2> QED BY <1>1, <2>1, <2>2, <2>3, BufferCovers, UploadCovers DEF QueueSteps, KeptInv
<1>2. ASSUME NEW u \in Tabs, TabSteps(u) PROVE CoveredOne(t, c)'
  BY <1>2, TabCovers
<1>3. CASE UNCHANGED vars
  <2>1. Recorded' = Recorded /\ Of(t)' = Of(t) BY <1>3, StillSame DEF vars
  <2>2. CoveredOne(t, c)' = CoveredOne(t, c)
    BY <1>3, <2>1 DEF vars, tabVars, queueVars, serverVars, CoveredOne, Excused, Clashes,
       Numbered, Number, Delivered
  <2> QED BY <1>3, <2>1, <2>2 DEF Covered, vars, tabVars
<1> QED BY <1>1, <1>2, <1>3, NextCases

\* waitUntilDrained tells the truth: when a tab that stopped has an empty
\* queue, the server has what the tab recorded, or the tab has set it aside,
\* or the chunk was lost for a reason the code names.
THEOREM UploaderDrains == Spec => []DrainedIsSafe
<1>1. KeptInv /\ Covered => DrainedIsSafe
  BY DEF Covered, CoveredOne, DrainedIsSafe, Excused
<1> QED BY <1>1, KeptInvInit, KeptInvStep, CoveredInit, CoveredStep, PTL DEF Spec

----------------------------------------------------------------------------
(* Two chunks under one number.                                            *)

\* The chunks of one tab have numbers of their own.
LEMMA NumbersDiffer ==
  ASSUME TypeOK, NEW c \in Chunks, NEW d \in Chunks, c.tab = d.tab, c # d
  PROVE  Number(c) # Number(d)
<1>1. c.k \in Nat /\ d.k \in Nat /\ c.k # d.k /\ c.tab \in Tabs BY ChunkFields
<1>2. base[c.tab] \in Nat BY <1>1, NumbersAre DEF TypeOK
<1> QED BY <1>1, <1>2 DEF Number

\* Where only reasons to lose a chunk are added, the numbers stay as they are.
LEMMA NumbersRest ==
  ASSUME TypeInv, [Next]_vars, NumberInv, raced' = raced, Recorded' = Recorded,
         \A c \in Recorded : Numbered(c)' => Numbered(c),
         \A t \in Tabs : Busy(t)' => Busy(t) /\ base'[t] = base[t]
  PROVE  NumberInv'
<1> SUFFICES ASSUME raced = {} PROVE (Distinct /\ OneBusy /\ \A t \in Tabs : Busy(t) => Past(t))'
  BY DEF NumberInv
<1>r. Recorded \subseteq Chunks /\ pardoned \subseteq Chunks BY RecordedMeans DEF TypeInv, TypeOK
<1>n. \A c \in Recorded : Numbered(c) => Number(c)' = Number(c) BY <1>r, Steady
<1>s. \A m : Spoilt(m) => Spoilt(m)'
  <2>1. SUFFICES ASSUME NEW m, NEW d \in pardoned, Numbered(d), Number(d) = m PROVE Spoilt(m)'
    BY DEF Spoilt
  <2>2. d \in pardoned' /\ Numbered(d)' /\ Number(d)' = m BY <1>r, <2>1, Steady
  <2> QED BY <2>2 DEF Spoilt
<1>1. ASSUME NEW c \in Recorded', c \notin pardoned', Clashes(c)'
      PROVE  Spoilt(Number(c))'
  <2>1. c \in Recorded /\ c \notin pardoned BY <1>1, Steady
  <2>2. PICK d \in Recorded \ {c} : Numbered(c)' /\ Numbered(d)' /\ Number(c)' = Number(d)'
    BY <1>1 DEF Clashes
  <2>3. Numbered(c) /\ Numbered(d) /\ Number(c) = Number(d) /\ Number(c)' = Number(c)
    BY <1>n, <2>1, <2>2
  <2>4. Clashes(c) BY <2>3 DEF Clashes
  <2>5. Spoilt(Number(c)) BY <2>1, <2>4 DEF NumberInv, Distinct, Spoilt
  <2> QED BY <1>s, <2>3, <2>5 DEF Spoilt
<1>2. Distinct' BY <1>1 DEF Distinct, Spoilt
<1>3. OneBusy' BY DEF NumberInv, OneBusy
<1>4. ASSUME NEW t \in Tabs, Busy(t)', NEW c \in Recorded', c.tab # t, Numbered(c)'
      PROVE  Number(c)' < base'[t] \/ Spoilt(Number(c))'
  <2>1. Number(c) < base[t] \/ Spoilt(Number(c)) BY <1>4 DEF NumberInv, Past
  <2>2. Number(c)' = Number(c) /\ base'[t] = base[t] BY <1>4, <1>n
  <2> QED BY <1>s, <2>1, <2>2 DEF Spoilt
<1> QED BY <1>2, <1>3, <1>4 DEF Past

\* A new chunk of a tab that numbers: past the others', or spoilt with them.
LEMMA NumbersGrow ==
  ASSUME TypeInv, NumberInv, NEW t \in Tabs, Capture(t) \/ StopCapture(t), RouteChunk(t)
  PROVE  NumberInv'
<1> SUFFICES ASSUME raced = {} PROVE (Distinct /\ OneBusy /\ \A u \in Tabs : Busy(u) => Past(u))'
  BY DEF NumberInv, Capture, StopCapture
<1>x. [Next]_vars /\ TabSteps(t) BY DEF Next, TabSteps
<1>i. Distinct /\ OneBusy /\ \A u \in Tabs : Busy(u) => Past(u) BY DEF NumberInv
<1>r. Recorded \subseteq Chunks /\ pardoned \subseteq Chunks /\ Recorded' \subseteq Chunks
  BY RecordedMeans DEF TypeInv, TypeOK, Recorded, Of
<1>f. UNCHANGED <<route, base>> BY DEF Capture, StopCapture
<1>n. \A c \in Chunks : Numbered(c)' = Numbered(c) /\ Number(c)' = Number(c)
  BY <1>f DEF Numbered, Number
<1>s. \A m : Spoilt(m) => Spoilt(m)'
  <2>1. SUFFICES ASSUME NEW m, NEW d \in pardoned, Numbered(d), Number(d) = m PROVE Spoilt(m)'
    BY DEF Spoilt
  <2>2. d \in pardoned' /\ Numbered(d)' /\ Number(d)' = m BY <1>r, <1>x, <2>1, Steady
  <2> QED BY <2>2 DEF Spoilt
<1>b. \A u \in Tabs : Busy(u)' => Busy(u)
  BY <1>f DEF Busy, Capture, StopCapture, TypeInv, TypeOK
<1>c. \A c \in Recorded' : c \in Recorded \/ c.tab = t
  <2>1. \A u \in Tabs : u # t => made'[u] = made[u] BY <1>x, TabFrame
  <2>2. \A c \in Recorded' : c \in Chunks /\ c.tab \in Tabs /\ c.k < made'[c.tab]
    BY ChunkFields DEF Recorded, Of
  <2> QED BY <2>1, <2>2, RecordedMeans
\* A clash of a chunk of t with another tab's is spoilt.
<1>1. ASSUME NEW c \in Recorded', NEW d \in Recorded', c.tab = t, d.tab # t,
             Numbered(c), Numbered(d), Number(c) = Number(d)
      PROVE  Spoilt(Number(c))
  <2>1. d \in Recorded BY <1>1, <1>c
  <2>2. Busy(t)
    BY <1>1, <1>r DEF Busy, Numbered, Capture, StopCapture, TypeInv, Routes
  <2>3. Number(d) < base[t] \/ Spoilt(Number(d)) BY <1>1, <1>i, <2>1, <2>2 DEF Past
  <2>4. c.k \in Nat /\ base[t] \in Nat BY <1>1, <1>r, ChunkFields, NumbersAre DEF TypeInv, TypeOK
  <2>5. Number(c) >= base[t] BY <1>1, <2>4 DEF Number
  <2>6. Number(c) \in Nat BY <1>1, <2>4 DEF Number
  <2> QED BY <1>1, <2>3, <2>4, <2>5, <2>6
<1>2. ASSUME NEW c \in Recorded', c \notin pardoned', Clashes(c)'
      PROVE  Spoilt(Number(c))'
  <2>1. PICK d \in Recorded' \ {c} : Numbered(c) /\ Numbered(d) /\ Number(c) = Number(d)
    BY <1>2, <1>n, <1>r DEF Clashes
  <2>2. Spoilt(Number(c))
    <3>1. CASE c.tab = t /\ d.tab = t BY <2>1, <3>1, <1>r, NumbersDiffer DEF TypeInv
    <3>2. CASE c.tab = t /\ d.tab # t BY <2>1, <3>2, <1>1
    <3>3. CASE c.tab # t /\ d.tab = t BY <2>1, <3>3, <1>1
    <3>4. CASE c.tab # t /\ d.tab # t
      <4>1. c \in Recorded /\ d \in Recorded BY <3>4, <1>c
      <4>2. c \notin pardoned BY <1>2, <1>x, Steady
      <4>3. Clashes(c) BY <2>1, <4>1 DEF Clashes
      <4> QED BY <1>i, <4>1, <4>2, <4>3 DEF Distinct, Spoilt
    <3> QED BY <3>1, <3>2, <3>3, <3>4
  <2> QED BY <1>n, <1>r, <1>s, <2>2 DEF Spoilt
<1>3. Distinct' BY <1>2 DEF Distinct, Spoilt
<1>4. OneBusy' BY <1>b, <1>i DEF OneBusy
<1>5. ASSUME NEW u \in Tabs, Busy(u)', NEW c \in Recorded', c.tab # u, Numbered(c)'
      PROVE  Number(c)' < base'[u] \/ Spoilt(Number(c))'
  <2>1. Busy(u) /\ Numbered(c) BY <1>5, <1>b, <1>n, <1>r
  <2>2. c \in Recorded
    <3>1. SUFFICES ASSUME c.tab = t PROVE FALSE BY <1>5, <1>c
    <3>2. route[t] = "open"
      BY <2>1, <3>1 DEF Numbered, Capture, StopCapture, TypeInv, Routes
    <3>3. Busy(t) BY <3>2 DEF Capture, StopCapture, Busy
    <3> QED BY <1>5, <1>i, <2>1, <3>1, <3>3 DEF OneBusy
  <2>4. Number(c) < base[u] \/ Spoilt(Number(c)) BY <1>5, <1>i, <2>1, <2>2 DEF Past
  <2> QED BY <1>f, <1>n, <1>r, <1>s, <2>4 DEF Spoilt
<1> QED BY <1>3, <1>4, <1>5 DEF Past

\* A tab that opens its route with nothing hidden continues past every number
\* that no lost chunk has.
LEMMA OpenIsPast ==
  ASSUME KeptInv, NumberInv, NEW t \in Tabs, OpenRoute(t), Hidden(t, First(t)) = {}, raced = {},
         NEW c \in Recorded, c.tab # t, Numbered(c)
  PROVE  Number(c) < First(t) \/ Spoilt(Number(c))
<1> USE DEF KeptInv
<1>c. c \in Chunks /\ c.tab \in Tabs \ {t} BY RecordedMeans, ChunkFields
<1>h. /\ ~(Max0(rows) >= First(t))
      /\ \A u \in Tabs \ {t} : BrowserOf[u] = BrowserOf[t] => ~Unfinished(u)
      /\ \A u \in Tabs \ {t} : BrowserOf[u] # BrowserOf[t] =>
            ~Unfinished(u) /\ db[BrowserOf[u]] = {}
  BY Zenon DEF Hidden
<1>1. CASE Excused(c)
  BY <1>1 DEF Excused, NumberInv, Distinct, Spoilt
<1>2. CASE Delivered(c)
  <2>1. rows \in SUBSET Nat /\ \A n \in rows : n < Used
    BY NumbersAre DEF TypeInv, TypeOK, Bounded
  <2>2. PICK m : m = Max0(rows) OBVIOUS
  <2>3. m \in Int /\ \A x \in rows : x <= m BY <2>1, <2>2, UsedFits, Max0Fits
  <2>4. Number(c) \in Nat /\ Number(c) <= m BY <1>2, <2>1, <2>3 DEF Delivered
  <2>5. First(t) \in Nat BY FirstIs
  <2>6. ~(m >= First(t)) BY <1>h, <2>2
  <2> QED BY <2>3, <2>4, <2>5, <2>6
<1>3. CASE c \in OnlyIn(c.tab)
  BY <1>c, <1>h, <1>3 DEF Unfinished
<1>4. ASSUME NEW e \in db[BrowserOf[c.tab]], e.body = c PROVE Number(c) < First(t)
  <2>1. BrowserOf[c.tab] = BrowserOf[t] BY <1>c, <1>h, <1>4
  <2>2. e.seq = Number(c) BY <1>c, <1>4, BrowserIs, CopiesAre
  <2>3. e.seq < First(t) BY <1>4, <2>1, FirstIs
  <2> QED BY <2>2, <2>3
<1> QED BY <1>1, <1>2, <1>3, <1>4 DEF Kept, KeptOne, Buffers

LEMMA OpenNumbers ==
  ASSUME KeptInv, NumberInv, NEW t \in Tabs, OpenRoute(t)
  PROVE  NumberInv'
<1> USE DEF KeptInv
<1>o. /\ route' = [route EXCEPT ![t] = "open"] /\ base' = [base EXCEPT ![t] = First(t)]
      /\ raced' = raced \cup Hidden(t, First(t))
      /\ UNCHANGED <<phase, made, pardoned>> /\ route[t] = "answered"
  BY DEF OpenRoute, First
<1> SUFFICES ASSUME raced = {}, Hidden(t, First(t)) = {}
             PROVE  (Distinct /\ OneBusy /\ \A u \in Tabs : Busy(u) => Past(u))'
  BY <1>o DEF NumberInv
<1>x. [Next]_vars BY DEF Next
<1>i. Distinct /\ OneBusy BY DEF NumberInv
<1>r. Recorded' = Recorded /\ Recorded \subseteq Chunks /\ pardoned \subseteq Chunks
  BY <1>o, RecordedMeans DEF Recorded, Of, TypeInv, TypeOK
<1>t. \A c \in Chunks : c.tab \in Tabs /\ c.k \in Nat BY ChunkFields
<1>n. \A c \in Chunks : c.tab # t => Numbered(c)' = Numbered(c) /\ Number(c)' = Number(c)
  BY <1>o, <1>t DEF Numbered, Number, TypeInv, TypeOK
<1>m. \A c \in Chunks : c.tab = t => Number(c)' = First(t) + c.k
  BY <1>o DEF Number, TypeInv, TypeOK
<1>p. ASSUME NEW c \in Recorded, c.tab # t, Numbered(c)
      PROVE  Number(c)' < First(t) \/ Spoilt(Number(c))'
  <2>1. Number(c) < First(t) \/ Spoilt(Number(c)) BY <1>p, OpenIsPast
  <2>2. Spoilt(Number(c)) => Spoilt(Number(c))'
    <3>1. SUFFICES ASSUME NEW d \in pardoned, Numbered(d), Number(d) = Number(c)
                   PROVE  Spoilt(Number(c))'
      BY DEF Spoilt
    <3>2. /\ d \in pardoned' /\ Numbered(d)' /\ Number(d)' = Number(d)
          /\ Number(c)' = Number(c)
      BY <1>n, <1>p, <1>r, <1>x, <3>1, Steady
    <3> QED BY <3>1, <3>2 DEF Spoilt
  <2>3. Number(c)' = Number(c) BY <1>n, <1>p, <1>r
  <2> QED BY <2>1, <2>2, <2>3
\* A clash of a chunk of t with another tab's is spoilt.
<1>1. ASSUME NEW c \in Recorded, NEW d \in Recorded, c.tab = t, d.tab # t,
             Numbered(d)', Number(c)' = Number(d)'
      PROVE  Spoilt(Number(d))'
  <2>1. Number(d)' < First(t) \/ Spoilt(Number(d))' BY <1>1, <1>n, <1>p, <1>r
  <2>2. First(t) \in Nat /\ c.k \in Nat /\ Number(c)' = First(t) + c.k
    BY <1>1, <1>m, <1>r, <1>t, FirstIs
  <2>3. ~(First(t) + c.k < First(t)) BY <2>2
  <2> QED BY <1>1, <2>1, <2>2, <2>3
<1>2. ASSUME NEW c \in Recorded, c \notin pardoned, NEW d \in Recorded \ {c},
             Numbered(c)', Numbered(d)', Number(c)' = Number(d)'
      PROVE  Spoilt(Number(c))'
  <2>1. CASE c.tab = t /\ d.tab = t
    <3>1. c.k # d.k BY <1>2, <1>r, <2>1, ChunkFields
    <3>2. First(t) + c.k = First(t) + d.k BY <1>2, <1>m, <1>r, <2>1
    <3>3. First(t) \in Nat /\ c.k \in Nat /\ d.k \in Nat BY <1>2, <1>r, <1>t, FirstIs
    <3> QED BY <3>1, <3>2, <3>3
  <2>2. CASE c.tab = t /\ d.tab # t
    <3>1. Spoilt(Number(d))' BY <1>1, <1>2, <2>2
    <3> QED BY <1>2, <3>1 DEF Spoilt
  <2>3. CASE c.tab # t /\ d.tab = t BY <1>1, <1>2, <2>3
  <2>4. CASE c.tab # t /\ d.tab # t
    <3>1. Numbered(c) /\ Numbered(d) /\ Number(c) = Number(d) /\ Number(c)' = Number(c)
      BY <1>2, <1>n, <1>r, <2>4
    <3>2. Clashes(c) BY <1>2, <3>1 DEF Clashes
    <3>3. PICK f \in pardoned : Numbered(f) /\ Number(f) = Number(c)
      BY <1>2, <1>i, <3>2 DEF Distinct
    <3>4. f \in pardoned' /\ Numbered(f)' /\ Number(f)' = Number(f)
      BY <1>o, <1>r, <1>x, <3>3, Steady
    <3> QED BY <3>1, <3>3, <3>4 DEF Spoilt
  <2> QED BY <2>1, <2>2, <2>3, <2>4
<1>3. Distinct'
  <2>1. ASSUME NEW c \in Recorded', c \notin pardoned', Clashes(c)' PROVE Spoilt(Number(c))'
    <3>1. PICK d \in Recorded \ {c} : Numbered(c)' /\ Numbered(d)' /\ Number(c)' = Number(d)'
      BY <1>r, <2>1 DEF Clashes
    <3> QED BY <1>2, <1>o, <1>r, <2>1, <3>1
  <2> QED BY <2>1 DEF Distinct, Spoilt
<1>b. \A u \in Tabs : Busy(u)' => u = t
  <2>1. SUFFICES ASSUME NEW u \in Tabs, u # t, Busy(u)' PROVE FALSE OBVIOUS
  <2>2. Unfinished(u) BY <1>o, <2>1 DEF Busy, Unfinished
  <2> QED BY <2>1, <2>2, Zenon DEF Hidden
<1>4. OneBusy' BY <1>b DEF OneBusy
<1>5. Past(t)'
  <2>1. base'[t] = First(t) BY <1>o DEF TypeInv, TypeOK
  <2>2. ASSUME NEW c \in Recorded', c.tab # t, Numbered(c)'
        PROVE  Number(c)' < base'[t] \/ Spoilt(Number(c))'
    BY <1>n, <1>p, <1>r, <2>1, <2>2
  <2> QED BY <2>2 DEF Past
<1> QED BY <1>3, <1>4, <1>5, <1>b

LEMMA NumberInit == Init => NumberInv
<1> SUFFICES ASSUME Init PROVE NumberInv
  OBVIOUS
<1>1. Recorded = {}
  <2>1. \A c \in Chunks : ~(c.k < made[c.tab]) BY ChunkFields DEF Init
  <2> QED BY <2>1, RecordedMeans
<1>2. \A t \in Tabs : ~Busy(t) BY DEF Init, Busy
<1> QED BY <1>1, <1>2 DEF NumberInv, Distinct, OneBusy

LEMMA NumberStep == KeptInv /\ NumberInv /\ [Next]_vars => NumberInv'
<1> SUFFICES ASSUME KeptInv, NumberInv, [Next]_vars PROVE NumberInv'
  OBVIOUS
<1> USE DEF KeptInv
<1>r. Recorded \subseteq Chunks BY RecordedMeans
<1>1. CASE QueueSteps
  <2>1. UNCHANGED tabVars BY <1>1, QueueTypes
  <2>2. raced' = raced
    <3>1. ASSUME NEW t \in Tabs, BufferSteps(t) PROVE raced' = raced
      BY <3>1 DEF BufferSteps, Enqueue, ScanBuffer, AdoptOrphans, PurgeStale
    <3>2. ASSUME NEW t \in Tabs, NEW i \in items[t], UploadSteps(t, i) PROVE raced' = raced
      BY <3>2 DEF UploadSteps, StartUpload, Put, Register, Forget, Drop, Retry, Refused
    <3>3. DeleteRecording => raced' = raced BY DEF DeleteRecording
    <3> QED BY <1>1, <3>1, <3>2, <3>3 DEF QueueSteps
  <2>3. Recorded' = Recorded /\ \A c \in Recorded : Numbered(c)' => Numbered(c)
    BY <1>1, <1>r, QueueCopies
  <2>4. \A t \in Tabs : Busy(t)' => Busy(t) /\ base'[t] = base[t] BY <2>1 DEF Busy, tabVars
  <2> QED BY <2>2, <2>3, <2>4, NumbersRest
<1>2. ASSUME NEW t \in Tabs, TabSteps(t) PROVE NumberInv'
  <2>1. CASE OpenRoute(t) BY <2>1, OpenNumbers
  <2>2. CASE RouteChunk(t) /\ (Capture(t) \/ StopCapture(t)) BY <2>2, NumbersGrow
  <2>3. CASE ~OpenRoute(t) /\ ~(RouteChunk(t) /\ (Capture(t) \/ StopCapture(t)))
    <3>1. made' = made /\ raced' = raced /\ base' = base
      BY <1>2, <2>3 DEF TabSteps, OpenTab, BeginRecording, Capture, StopCapture, AskForRow,
         AbandonRoute, CloseTab
    <3>2. Recorded' = Recorded BY <3>1 DEF Recorded, Of
    <3>3. Placed' = Placed BY <1>2, <2>3, TabPlaced
    <3>4. \A c \in Recorded : Numbered(c)' => Numbered(c)
      BY <1>r, <3>3, ChunkFields DEF Numbered, Placed
    <3>5. ASSUME NEW u \in Tabs, Busy(u)' PROVE Busy(u)
      <4>1. route[u] = "open"
        <5>1. CASE u # t BY <1>2, <3>5, <5>1, TabFrame DEF Busy
        <5>2. CASE u = t
          BY <1>2, <2>3, <3>5, <5>2 DEF Busy, TabSteps, OpenTab, BeginRecording, Capture,
             StopCapture, AskForRow, AbandonRoute, CloseTab, TypeInv, TypeOK
        <5> QED BY <5>1, <5>2
      <4>2. phase[u] \in {"capturing", "stopping"}
        <5>1. CASE BeginRecording(t)
          BY <3>5, <4>1, <5>1 DEF Busy, BeginRecording, TypeInv, TypeOK
        <5> QED
          BY <1>2, <2>3, <3>5, <5>1 DEF Busy, TabSteps, OpenTab, Capture, StopCapture,
             AskForRow, AbandonRoute, CloseTab, TypeInv, TypeOK
      <4> QED BY <4>1, <4>2 DEF Busy
    <3> QED BY <3>1, <3>2, <3>4, <3>5, NumbersRest
  <2> QED BY <2>1, <2>2, <2>3
<1>3. CASE UNCHANGED vars
  <2>1. UNCHANGED tabVars /\ UNCHANGED <<pardoned, raced>> BY <1>3 DEF vars
  <2>2. Recorded' = Recorded /\ \A c \in Recorded : Numbered(c)' => Numbered(c)
    BY <1>r, <2>1, StillSame
  <2>3. \A t \in Tabs : Busy(t)' => Busy(t) /\ base'[t] = base[t] BY <2>1 DEF Busy, tabVars
  <2> QED BY <2>1, <2>2, <2>3, NumbersRest
<1> QED BY <1>1, <1>2, <1>3, NextCases

\* Two chunks get one number only if a tab started from a stale number, or if
\* a chunk that was lost for a reason has it too: no registration, write,
\* adoption, crash or refusal leads to it.
THEOREM UploaderNumbersOnce == Spec => []NumberedOnce
<1>1. NumberInv => NumberedOnce BY DEF NumberInv, NumberedOnce
<1> QED BY <1>1, KeptInvInit, KeptInvStep, NumberInit, NumberStep, PTL DEF Spec

=============================================================================
