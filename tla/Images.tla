------------------------------- MODULE Images -------------------------------
(***************************************************************************)
(* The image cache, the image tables and machine creation.  Processes of    *)
(* the runtime share a cache directory (layer blobs, published root file    *)
(* systems, a tag index, each with its lock file) and a database, and take   *)
(* no common lock: a pull or a machine creation, an image removal and a      *)
(* prune may be at any of their steps when another one moves, and may crash. *)
(***************************************************************************)
EXTENDS Integers, FiniteSets

CONSTANTS Refs,      \* tag references
          Digests,   \* image manifests
          Layers,    \* layer blobs
          LayersOf,  \* the layers of a manifest
          Procs,     \* processes, at most one operation each
          LayerSize, \* chunks of a layer
          ImgScopes  \* [ops: Procs -> operation, tags, moves, faults, crash]

None == "none"

ASSUME ImgAssumption ==
  /\ None \notin Procs \cup Digests
  /\ LayersOf \in [Digests -> SUBSET Layers] /\ LayerSize \in Nat
  /\ \A s \in ImgScopes : s.tags \in [Refs -> Digests] /\ \A p \in DOMAIN s.ops : s.ops[p].ref \in Refs

VARIABLES imgScope,
          registryTag,                    \* what the registry answers for a tag
          blob, blobPart,                 \* cache: blobs and partial downloads
          imageDir, tagIndex,             \* cache: published images, tag index
          refRow, manifests, artifacts,   \* image_ref, image_manifest, image_rootfs_artifact
          machineRow,                     \* machine_config with machine_rootfs: the pinned manifest
          owned, rootDisk,                \* lock, directory, CA and disk of a creation
          imageLock, blobLock, indexLock, nameLock,
          pc, got, todo, copy, victims,   \* program counters and locals
          saidTag                         \* history: the tag writes in their order

imgVars == <<imgScope, registryTag, blob, blobPart, imageDir, tagIndex, refRow, manifests, artifacts,
             machineRow, owned, rootDisk, imageLock, blobLock, indexLock, nameLock, pc, got, todo, copy,
             victims, saidTag>>
cacheVars == <<blob, blobPart, imageDir, tagIndex, saidTag>>
dbVars == <<refRow, manifests, artifacts, machineRow>>
createVars == <<owned, rootDisk, nameLock>>
lockVars == <<imageLock, blobLock, indexLock>>
localVars == <<got, todo, copy, victims>>
envVars == <<imgScope, registryTag>>

op(p) == imgScope.ops[p]

ImgInit ==
  /\ imgScope \in ImgScopes
  /\ registryTag = imgScope.tags
  /\ blob = [l \in Layers |-> None] /\ blobPart = [l \in Layers |-> [len |-> 0, good |-> TRUE]]
  /\ imageDir = [d \in Digests |-> None] /\ tagIndex = [r \in Refs |-> None]
  /\ refRow = [r \in Refs |-> None] /\ manifests = {} /\ artifacts = {}
  /\ machineRow = [p \in Procs |-> None]
  /\ owned = [p \in Procs |-> {}] /\ rootDisk = [p \in Procs |-> None]
  /\ imageLock = [d \in Digests |-> None] /\ blobLock = [l \in Layers |-> None]
  /\ indexLock = None /\ nameLock = None
  /\ pc = [p \in Procs |-> IF p \in DOMAIN imgScope.ops THEN "start" ELSE "done"]
  /\ got = [p \in Procs |-> None] /\ todo = [p \in Procs |-> {}]
  /\ copy = [p \in Procs |-> tagIndex] /\ victims = [p \in Procs |-> {}]
  /\ saidTag = tagIndex

At(p, l) == pc[p] = l
Goto(p, l) == pc' = [pc EXCEPT ![p] = l]

\* Locks are flock()s on open files: an operation that returns or a process that dies lets go of them.
ReleaseLocks(p) ==
  /\ imageLock' = [d \in Digests |-> IF imageLock[d] = p THEN None ELSE imageLock[d]]
  /\ blobLock' = [l \in Layers |-> IF blobLock[l] = p THEN None ELSE blobLock[l]]
  /\ indexLock' = IF indexLock = p THEN None ELSE indexLock

\* An error returned to the caller; a creation drops its guard, which rolls back.
Fail(p) ==
  /\ ReleaseLocks(p)
  /\ Goto(p, IF owned[p] # {} \/ nameLock = p THEN "rollback" ELSE "failed")

\* cached_image: a missing directory is a miss, one that is being removed is an error.
cached_image(d) == imageDir[d]

-----------------------------------------------------------------------------
(* materialize_oci_image: the cache, then the registry. *)

policyAsksCache(p) == op(p).policy \in {"missing", "never"}

\* get_cached, for the policies that ask the cache first.
GetCached(p) ==
  /\ At(p, "start") /\ op(p).kind \in {"pull", "create"} /\ policyAsksCache(p)
  /\ LET d == tagIndex[op(p).ref]
         c == IF d = None THEN None ELSE cached_image(d)
     IN  \/ c = "full" /\ Goto(p, "metadata") /\ got' = [got EXCEPT ![p] = d] /\ UNCHANGED lockVars
         \/ c = None /\ op(p).policy = "missing" /\ Goto(p, "resolve") /\ UNCHANGED <<got, lockVars>>
         \/ (c = "torn" \/ (c = None /\ op(p).policy = "never")) /\ Fail(p) /\ UNCHANGED got
  /\ UNCHANGED <<envVars, cacheVars, dbVars, createVars, todo, copy, victims>>

\* resolve_manifest: the manifest the registry gives now, with the digest of its answer verified.
resolve_manifest(r) == registryTag[r]

\* resolve_remote_oci
Resolve(p) ==
  /\ \/ At(p, "resolve")
     \/ At(p, "start") /\ op(p).kind \in {"pull", "create"} /\ ~policyAsksCache(p)
  /\ \/ got' = [got EXCEPT ![p] = resolve_manifest(op(p).ref)] /\ Goto(p, "lock") /\ UNCHANGED lockVars
     \/ imgScope.faults /\ Fail(p) /\ UNCHANGED got
  /\ UNCHANGED <<envVars, cacheVars, dbVars, createVars, todo, copy, victims>>

\* materialize_resolved_oci: under the image lock, reuse what is published or build it.
LockImage(p) ==
  /\ At(p, "lock") /\ imageLock[got[p]] = None
  /\ \/ cached_image(got[p]) = "full" /\ imageLock' = [imageLock EXCEPT ![got[p]] = p] /\ Goto(p, "tag") /\ UNCHANGED todo
     \/ /\ cached_image(got[p]) = None
        /\ imageLock' = [imageLock EXCEPT ![got[p]] = p]
        /\ todo' = [todo EXCEPT ![p] = LayersOf[got[p]]] /\ Goto(p, "layers")
     \/ cached_image(got[p]) = "torn" /\ Goto(p, "failed") /\ UNCHANGED <<imageLock, todo>>
  /\ UNCHANGED <<envVars, cacheVars, dbVars, createVars, blobLock, indexLock, got, copy, victims>>

-----------------------------------------------------------------------------
(* ensure_layer_blobs: the layers of an image are fetched concurrently, each under its own lock. *)

NoPart == [len |-> 0, good |-> TRUE]

\* partial_download_offset, and a complete but wrong partial file: both start again from nothing.
usablePart(l) ==
  IF blobPart[l].len > LayerSize \/ (blobPart[l].len = LayerSize /\ ~blobPart[l].good) THEN NoPart ELSE blobPart[l]

\* get_or_download_layer up to the request: a verified blob is reused, a complete partial file is
\* promoted, anything else is requested; a registry may answer a range request with the whole blob.
TakeLayer(p, l) ==
  /\ At(p, "layers") /\ l \in todo[p] /\ blobLock[l] = None
  /\ LET q == usablePart(l)
     IN  \/ /\ blob[l] = "good" \/ q.len = LayerSize
            /\ blob' = [blob EXCEPT ![l] = "good"]
            /\ blobPart' = [blobPart EXCEPT ![l] = IF blob[l] = "good" THEN @ ELSE NoPart]
            /\ todo' = [todo EXCEPT ![p] = @ \ {l}] /\ UNCHANGED blobLock
         \/ /\ blob[l] # "good" /\ q.len # LayerSize
            /\ blob' = [blob EXCEPT ![l] = None]
            /\ blobPart' \in {[blobPart EXCEPT ![l] = q], [blobPart EXCEPT ![l] = NoPart]}
            /\ blobLock' = [blobLock EXCEPT ![l] = p] /\ UNCHANGED todo
  /\ UNCHANGED <<envVars, imageDir, tagIndex, saidTag, dbVars, createVars, imageLock, indexLock, pc, got, copy, victims>>

\* write_layer_stream: one chunk; a faulty registry sends other bytes, or too many.
Chunk(p, l) ==
  /\ blobLock[l] = p /\ At(p, "layers")
  /\ blobPart[l].len < LayerSize + (IF imgScope.faults THEN 1 ELSE 0)
  /\ \E good \in {TRUE, ~imgScope.faults} :
        blobPart' = [blobPart EXCEPT ![l] = [len |-> @.len + 1, good |-> @.good /\ good]]
  /\ UNCHANGED <<envVars, blob, imageDir, tagIndex, saidTag, dbVars, createVars, lockVars, pc, localVars>>

\* verify_layer_file
verifyLayer(l) == blobPart[l].len = LayerSize /\ blobPart[l].good

\* The stream ended: the size and the digest are checked, then the file is promoted.
LayerEnds(p, l) ==
  /\ blobLock[l] = p /\ At(p, "layers")
  /\ blobPart[l].len = LayerSize \/ imgScope.faults
  /\ \/ /\ verifyLayer(l)
        /\ blob' = [blob EXCEPT ![l] = IF blobPart[l] = [len |-> LayerSize, good |-> TRUE] THEN "good" ELSE "bad"]
        /\ blobLock' = [blobLock EXCEPT ![l] = None]
        /\ todo' = [todo EXCEPT ![p] = @ \ {l}] /\ UNCHANGED <<imageLock, indexLock, pc>>
     \/ ~verifyLayer(l) /\ Fail(p) /\ UNCHANGED <<blob, todo>>
  /\ blobPart' = [blobPart EXCEPT ![l] = NoPart]
  /\ UNCHANGED <<envVars, imageDir, tagIndex, saidTag, dbVars, createVars, got, copy, victims>>

\* The stream broke: the partial file stays for the next attempt, the other layers are dropped.
LayerBreaks(p, l) ==
  /\ blobLock[l] = p /\ At(p, "layers") /\ imgScope.faults
  /\ Fail(p)
  /\ UNCHANGED <<envVars, cacheVars, dbVars, createVars, localVars>>

\* create_rootfs: the layers are applied into a staging directory, which is renamed into place.
Publish(p) ==
  /\ At(p, "layers") /\ todo[p] = {}
  /\ LET whole == \A l \in LayersOf[got[p]] : blob[l] = "good"
         seen == cached_image(got[p])
     IN  \/ seen = None /\ whole /\ imageDir' = [imageDir EXCEPT ![got[p]] = "full"] /\ Goto(p, "tag") /\ UNCHANGED lockVars
         \/ seen = "full" /\ Goto(p, "tag") /\ UNCHANGED <<imageDir, lockVars>>
         \/ (seen = "torn" \/ (seen = None /\ ~whole)) /\ Fail(p) /\ UNCHANGED imageDir
  /\ UNCHANGED <<envVars, blob, blobPart, tagIndex, saidTag, dbVars, createVars, localVars>>

LockIndexNever(p) == UNCHANGED indexLock

\* update_tag_mapping and remove_reference: the index file is read and rewritten under its lock.
LockIndex(p) == indexLock = None /\ indexLock' = p

ReadIndex(p) ==
  /\ At(p, "tag")
  /\ LockIndex(p)
  /\ copy' = [copy EXCEPT ![p] = tagIndex] /\ Goto(p, "tagging")
  /\ UNCHANGED <<envVars, cacheVars, dbVars, createVars, imageLock, blobLock, got, todo, victims>>

WriteIndex(p) ==
  /\ At(p, "tagging")
  /\ LET v == IF op(p).kind = "remove" THEN None ELSE got[p]
     IN  tagIndex' = [copy[p] EXCEPT ![op(p).ref] = v] /\ saidTag' = [saidTag EXCEPT ![op(p).ref] = v]
  /\ ReleaseLocks(p)
  /\ Goto(p, IF op(p).kind = "remove" THEN "unref" ELSE "metadata")
  /\ UNCHANGED <<envVars, blob, blobPart, imageDir, dbVars, createVars, localVars>>

\* metadata() and the size of the root file system, read without the image lock.
ReadMetadata(p) ==
  /\ At(p, "metadata")
  /\ \/ imageDir[got[p]] = "full" /\ Goto(p, "save") /\ UNCHANGED lockVars
     \/ imageDir[got[p]] # "full" /\ Fail(p)
  /\ UNCHANGED <<envVars, cacheVars, dbVars, createVars, localVars>>

\* save_oci_image, one transaction.
SaveImage(p) ==
  /\ At(p, "save")
  /\ refRow' = [refRow EXCEPT ![op(p).ref] = got[p]]
  /\ manifests' = manifests \cup {got[p]} /\ artifacts' = artifacts \cup {got[p]}
  /\ Goto(p, IF op(p).kind = "create" THEN "name" ELSE "done")
  /\ UNCHANGED <<envVars, cacheVars, machineRow, createVars, lockVars, localVars>>

-----------------------------------------------------------------------------
(* create_machine_config_with_name, once the image is there. *)

\* The name lock, the name lookup and the allocation of a machine lock.
Guard(p) ==
  /\ At(p, "name") /\ nameLock = None
  /\ IF \E q \in Procs : machineRow[q] # None /\ op(q).name = op(p).name
     THEN Goto(p, "failed") /\ UNCHANGED <<owned, nameLock>>
     ELSE Goto(p, "dir") /\ nameLock' = p /\ owned' = [owned EXCEPT ![p] = {"lock"}]
  /\ UNCHANGED <<envVars, cacheVars, dbVars, rootDisk, lockVars, localVars>>

\* create_machine_dir, then the SSH CA and config.json.
Prepare(p) ==
  /\ pc[p] \in {"dir", "ca"}
  /\ \/ owned' = [owned EXCEPT ![p] = @ \cup {pc[p]}] /\ Goto(p, IF At(p, "dir") THEN "ca" ELSE "disk") /\ UNCHANGED lockVars
     \/ imgScope.faults /\ Fail(p) /\ UNCHANGED owned
  /\ UNCHANGED <<envVars, cacheVars, dbVars, rootDisk, nameLock, localVars>>

\* clone_or_copy_root_disk and resize_raw_disk: a root file system being removed may still be there.
CopyDisk(p) ==
  /\ At(p, "disk")
  /\ \/ imageDir[got[p]] # None /\ rootDisk' = [rootDisk EXCEPT ![p] = got[p]] /\ Goto(p, "commit") /\ UNCHANGED lockVars
     \/ (imageDir[got[p]] # "full" \/ imgScope.faults) /\ Fail(p) /\ UNCHANGED rootDisk
  /\ UNCHANGED <<envVars, cacheVars, dbVars, owned, nameLock, localVars>>

\* add_machine_with_rootfs: one transaction; the pinned manifest must still be in its table.
Commit(p) ==
  /\ At(p, "commit")
  /\ \/ /\ got[p] \in manifests /\ machineRow' = [machineRow EXCEPT ![p] = got[p]]
        /\ Goto(p, "done") /\ nameLock' = None /\ UNCHANGED lockVars
     \/ (got[p] \notin manifests \/ imgScope.faults) /\ Fail(p) /\ UNCHANGED <<machineRow, nameLock>>
  /\ UNCHANGED <<envVars, cacheVars, refRow, manifests, artifacts, owned, rootDisk, localVars>>

RollbackForgetsLock(p) ==
  /\ At(p, "rollback")
  /\ owned' = [owned EXCEPT ![p] = @ \cap {"lock"}] /\ rootDisk' = [rootDisk EXCEPT ![p] = None]
  /\ nameLock' = None /\ Goto(p, "failed")
  /\ UNCHANGED <<envVars, cacheVars, dbVars, lockVars, localVars>>

\* Drop of the creation guard.
Rollback(p) ==
  /\ At(p, "rollback")
  /\ owned' = [owned EXCEPT ![p] = {}] /\ rootDisk' = [rootDisk EXCEPT ![p] = None]
  /\ nameLock' = None /\ Goto(p, "failed")
  /\ UNCHANGED <<envVars, cacheVars, dbVars, lockVars, localVars>>

-----------------------------------------------------------------------------
(* remove_image: checked, taken out of the index, checked again, deleted. *)

pinned(d) == \E q \in Procs : machineRow[q] = d
removable(p) == refRow[op(p).ref] # None /\ (op(p).force \/ ~pinned(refRow[op(p).ref]))

EnsureRemovable(p) ==
  /\ At(p, "start") /\ op(p).kind = "remove"
  /\ Goto(p, IF removable(p) THEN "tag" ELSE "failed")
  /\ UNCHANGED <<envVars, cacheVars, dbVars, createVars, lockVars, localVars>>

RemoveRef(p) ==
  /\ At(p, "unref")
  /\ IF removable(p) THEN refRow' = [refRow EXCEPT ![op(p).ref] = None] /\ Goto(p, "done")
                     ELSE Goto(p, "failed") /\ UNCHANGED refRow
  /\ UNCHANGED <<envVars, cacheVars, manifests, artifacts, machineRow, createVars, lockVars, localVars>>

referenced(d) == (\E r \in Refs : refRow[r] = d) \/ pinned(d)

\* prune_images: the artifacts nothing referenced when they were selected ...
PruneSelect(p) ==
  /\ At(p, "start") /\ op(p).kind = "prune"
  /\ victims' = [victims EXCEPT ![p] = {d \in artifacts : ~referenced(d)}]
  /\ Goto(p, "prune")
  /\ UNCHANGED <<envVars, cacheVars, dbVars, createVars, lockVars, got, todo, copy>>

\* ... lose their directory, file by file, and then their row, whatever references them by now;
PruneDir(p) ==
  /\ At(p, "prune")
  /\ \E d \in victims[p] :
        \/ imageDir[d] = "full" /\ imageDir' = [imageDir EXCEPT ![d] = "torn"] /\ UNCHANGED <<artifacts, victims>>
        \/ /\ imageDir[d] # "full"
           /\ imageDir' = [imageDir EXCEPT ![d] = None] /\ artifacts' = artifacts \ {d}
           /\ victims' = [victims EXCEPT ![p] = @ \ {d}]
  /\ UNCHANGED <<envVars, blob, blobPart, tagIndex, saidTag, refRow, manifests, machineRow, createVars, lockVars, pc, got, todo, copy>>

\* the manifests nothing references go last, unless an artifact row restricts it.
PruneManifests(p) ==
  /\ At(p, "prune") /\ victims[p] = {}
  /\ LET dead == {d \in manifests : ~referenced(d)}
     IN  IF dead \cap artifacts = {} THEN manifests' = manifests \ dead /\ Goto(p, "done")
                                     ELSE Goto(p, "failed") /\ UNCHANGED manifests
  /\ UNCHANGED <<envVars, cacheVars, refRow, artifacts, machineRow, createVars, lockVars, localVars>>

-----------------------------------------------------------------------------
ImgCrash(p) ==
  /\ imgScope.crash /\ pc[p] \notin {"start", "done", "failed", "crashed"}
  /\ ReleaseLocks(p) /\ Goto(p, "crashed")
  /\ nameLock' = IF nameLock = p THEN None ELSE nameLock
  /\ UNCHANGED <<envVars, cacheVars, dbVars, owned, rootDisk, localVars>>

\* The registry's tag is moved to another manifest.
TagMoves ==
  /\ imgScope.moves /\ \E r \in Refs, d \in Digests : d # registryTag[r] /\ registryTag' = [registryTag EXCEPT ![r] = d]
  /\ UNCHANGED <<imgScope, cacheVars, dbVars, createVars, lockVars, pc, localVars>>

ImgStep(p) ==
  \/ GetCached(p) \/ Resolve(p) \/ LockImage(p) \/ Publish(p) \/ ReadIndex(p) \/ WriteIndex(p)
  \/ \E l \in Layers : TakeLayer(p, l) \/ Chunk(p, l) \/ LayerEnds(p, l) \/ LayerBreaks(p, l)
  \/ ReadMetadata(p) \/ SaveImage(p) \/ Guard(p) \/ Prepare(p) \/ CopyDisk(p) \/ Commit(p) \/ Rollback(p)
  \/ EnsureRemovable(p) \/ RemoveRef(p) \/ PruneSelect(p) \/ PruneDir(p) \/ PruneManifests(p)

ImgNext == (\E p \in Procs : ImgStep(p) \/ ImgCrash(p)) \/ TagMoves

ImgSpec == ImgInit /\ [][ImgNext]_imgVars

-----------------------------------------------------------------------------
(***************************************************************************)
(* The cache and the tables stay sound under interleaved pulls, removals    *)
(* and prunes, broken downloads and crashes.  A promoted blob has the bytes  *)
(* of its digest although downloads are resumed on partial files of earlier  *)
(* processes; a directory is half there only when a prune is removing it or  *)
(* died doing so; no tag write is lost between two rewrites of the index;    *)
(* and every image_ref, artifact and pinned root disk refers to a manifest   *)
(* that is still in its table.                                               *)
(***************************************************************************)
CacheIsSound ==
  /\ \A l \in Layers : blob[l] # "bad"
  /\ \A d \in Digests : imageDir[d] = "torn" =>
        \E p \in Procs : d \in victims[p] /\ pc[p] \in {"prune", "crashed"}
  /\ tagIndex = saidTag
  /\ {refRow[r] : r \in Refs} \cup {machineRow[p] : p \in Procs} \cup artifacts \subseteq manifests \cup {None}

(***************************************************************************)
(* A machine is created whole or not at all, whatever happens to the image   *)
(* meanwhile: a committed machine has its lock, directory, SSH CA and a root  *)
(* disk with the contents of the manifest it pins; names are not shared; a    *)
(* creation that failed keeps nothing, not even the name lock.                *)
(***************************************************************************)
CreatedWhole ==
  /\ \A p \in Procs : machineRow[p] # None => owned[p] = {"lock", "dir", "ca"} /\ rootDisk[p] = machineRow[p]
  /\ \A p, q \in Procs : machineRow[p] # None /\ machineRow[q] # None /\ p # q => op(p).name # op(q).name
  /\ \A p \in Procs : At(p, "failed") => owned[p] = {} /\ rootDisk[p] = None /\ nameLock # p
                                        /\ p \notin {imageLock[d] : d \in Digests} \cup {blobLock[l] : l \in Layers}
=============================================================================
