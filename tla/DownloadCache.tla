--------------------------- MODULE DownloadCache ---------------------------
(***************************************************************************)
(* Transcoded downloads.  The first request for a format queues a          *)
(* transcode; the result is kept next to the master and its last use in a  *)
(* Redis set.  A sweep deletes what was not used for a week, a batch at a  *)
(* time, unless the database names the key as a real file: a legacy master *)
(* that is finalized again may land on the key its cached MP4 has.         *)
(***************************************************************************)
EXTENDS Naturals, FiniteSets

CONSTANTS
  Keys,         \* the keys of cached formats
  Masters,      \* those a later master may land on
  Batch,        \* EXPIRE_BATCH
  MaxUses,      \* requests and touches that come back
  MaxLosses     \* writes of the set that fail

VARIABLES
  object,       \* per key: none, cached, master
  inUse,        \* keys the database names
  score,        \* per key, in the Redis set: none, fresh, old
  touching,     \* keys just made or served whose use is not recorded yet
  queued,       \* transcodes queued
  sweep,        \* where the sweep is: idle, rows, scores, delete, remove
  batch,        \* its candidates
  spared,       \* of these, the keys in use when it looked
  stale,        \* and those whose score was still old
  uses, losses,
  caught,       \* history: masters a sweep looked for too early, or a transcode overwrote
  untracked     \* history: keys whose use was lost, or removed with an older one

redis == <<score, touching>>
sweepVars == <<sweep, batch, spared, stale>>
files == <<object, inUse, queued>>
vars == <<files, redis, sweepVars, uses, losses, caught, untracked>>

Doomed == stale \ spared

Init ==
  /\ object = [k \in Keys |-> "none"] /\ inUse = {} /\ queued = {}
  /\ score = [k \in Keys |-> "none"] /\ touching = {}
  /\ sweep = "idle" /\ batch = {} /\ spared = {} /\ stale = {}
  /\ uses = 0 /\ losses = 0 /\ caught = {} /\ untracked = {}

----------------------------------------------------------------------------
(* Downloads. *)

\* resolveDownloadUrl: serve what is there (its use is recorded without being
\* waited for), or queue a transcode, which is deduplicated.
Request(k) ==
  /\ k \notin inUse /\ uses < MaxUses /\ uses' = uses + 1
  /\ IF object[k] # "none" THEN touching' = touching \cup {k} /\ UNCHANGED queued
     ELSE queued' = queued \cup {k} /\ UNCHANGED touching
  /\ UNCHANGED <<object, inUse, score, sweepVars, losses, caught, untracked>>

\* transcodeToR2: put the object, whatever is there, then record it.
Transcode(k) ==
  /\ k \in queued /\ queued' = queued \ {k}
  /\ object' = [object EXCEPT ![k] = "cached"]
  /\ touching' = touching \cup {k}
  /\ caught' = IF object[k] = "master" THEN caught \cup {k} ELSE caught
  /\ UNCHANGED <<inUse, score, sweepVars, uses, losses, untracked>>

TouchDownloadCache(k) ==
  /\ k \in touching /\ touching' = touching \ {k}
  /\ score' = [score EXCEPT ![k] = "fresh"]
  /\ untracked' = untracked \ {k}
  /\ UNCHANGED <<files, sweepVars, uses, losses, caught>>

\* Redis is away: only a warning.
TouchFails(k) ==
  /\ k \in touching /\ losses < MaxLosses /\ losses' = losses + 1
  /\ touching' = touching \ {k}
  /\ untracked' = untracked \cup {k}
  /\ UNCHANGED <<files, score, sweepVars, uses, caught>>

\* A week goes by.
Age(k) ==
  /\ score[k] = "fresh" /\ k \notin touching
  /\ score' = [score EXCEPT ![k] = "old"]
  /\ UNCHANGED <<files, touching, sweepVars, uses, losses, caught, untracked>>

----------------------------------------------------------------------------
(* A track is finalized again: its master, then the row that names it. *)

UploadMaster(k) ==
  /\ k \in Masters /\ object[k] # "master"
  /\ object' = [object EXCEPT ![k] = "master"]
  /\ caught' = IF sweep \in {"scores", "delete"} /\ k \in batch THEN caught \cup {k} ELSE caught
  /\ UNCHANGED <<inUse, queued, redis, sweepVars, uses, losses, untracked>>

WriteRow(k) ==
  /\ k \in Masters \ inUse /\ (object[k] = "master" \/ k \in caught)
  /\ inUse' = inUse \cup {k}
  /\ UNCHANGED <<object, queued, redis, sweepVars, uses, losses, caught, untracked>>

----------------------------------------------------------------------------
(* expireDownloadCache. *)

Old == {k \in Keys : score[k] = "old"}

\* The oldest of them: any, here.
ReadBatch ==
  /\ sweep = "idle" /\ Old # {}
  /\ \E B \in SUBSET Old :
       /\ Cardinality(B) = IF Cardinality(Old) < Batch THEN Cardinality(Old) ELSE Batch
       /\ batch' = B
  /\ sweep' = "rows"
  /\ UNCHANGED <<files, redis, spared, stale, uses, losses, caught, untracked>>

\* Mutant: the rows are not asked.
KeysInUseSkipped ==
  /\ sweep = "rows" /\ sweep' = "scores" /\ spared' = {}
  /\ UNCHANGED <<files, redis, batch, stale, uses, losses, caught, untracked>>

KeysInUse ==
  /\ sweep = "rows" /\ sweep' = "scores"
  /\ spared' = batch \cap inUse
  /\ caught' = caught \cup {k \in batch \ inUse : object[k] = "master"}
  /\ UNCHANGED <<files, redis, batch, stale, uses, losses, untracked>>

\* The scores once more: a download may have used one.
ReadScores ==
  /\ sweep = "scores" /\ sweep' = "delete"
  /\ stale' = batch \cap Old
  /\ UNCHANGED <<files, redis, batch, spared, uses, losses, caught, untracked>>

DeleteDoomed ==
  /\ sweep = "delete" /\ sweep' = "remove"
  /\ object' = [k \in Keys |-> IF k \in Doomed THEN "none" ELSE object[k]]
  /\ UNCHANGED <<inUse, queued, redis, batch, spared, stale, uses, losses, caught, untracked>>

\* Mutant: only what was deleted leaves the set.
RemoveDoomed ==
  /\ sweep = "remove" /\ sweep' = "idle"
  /\ score' = [k \in Keys |-> IF k \in Doomed THEN "none" ELSE score[k]]
  /\ untracked' = untracked \cup {k \in Doomed : object[k] # "none"}
  /\ batch' = {} /\ spared' = {} /\ stale' = {}
  /\ UNCHANGED <<files, touching, uses, losses, caught>>

\* The stale ones leave the set, whether deleted or in use.
RemoveSettled ==
  /\ sweep = "remove" /\ sweep' = "idle"
  /\ score' = [k \in Keys |-> IF k \in stale THEN "none" ELSE score[k]]
  /\ untracked' = untracked \cup {k \in stale : object[k] # "none"}
  /\ batch' = {} /\ spared' = {} /\ stale' = {}
  /\ UNCHANGED <<files, touching, uses, losses, caught>>

----------------------------------------------------------------------------
Expire == ReadBatch \/ KeysInUse \/ ReadScores \/ DeleteDoomed \/ RemoveSettled

Next ==
  \/ ReadBatch \/ KeysInUse \/ ReadScores \/ DeleteDoomed \/ RemoveSettled
  \/ \E k \in Keys :
       \/ Request(k) \/ Transcode(k) \/ TouchDownloadCache(k) \/ TouchFails(k)
       \/ Age(k) \/ UploadMaster(k) \/ WriteRow(k)

Spec == Init /\ [][Next]_vars

----------------------------------------------------------------------------
\* A file the database names is never deleted as a cache, unless a sweep looked
\* for it between its upload and its row, or a transcode queued for the old master
\* ended after the new one's upload.
MasterKept == \A k \in inUse \ caught : object[k] = "master"

\* A cached download nobody uses is deleted in the end, although masters that
\* share the keys of old ones fill the batches; unless its use was not recorded.
CachesExpire == \A k \in Keys :
  (score[k] = "old") ~> (object[k] # "cached" \/ score[k] = "fresh" \/ k \in untracked)
=============================================================================
