---------------------------- MODULE ImagesProofs ----------------------------
(***************************************************************************)
(* Proofs about Images for any processes, images, layers and tags: what    *)
(* interleaved pulls, removals, prunes and creations leave in the cache,   *)
(* in the tables and of a machine that was not created.                    *)
(***************************************************************************)
EXTENDS Images, TLAPS

\* Where an operation is before it owns anything of a machine, and while it does.
Early == {"start", "resolve", "lock", "layers", "tag", "tagging", "metadata", "save", "name",
          "unref", "prune"}
Making == {"dir", "ca", "disk", "commit"}
Loc == Early \cup Making \cup {"rollback", "done", "failed", "crashed"}

\* The types of the state.
TEnv == imgScope \in ImgScopes /\ registryTag \in [Refs -> Digests]
TCache == /\ blobPart \in [Layers -> [len : Nat, good : BOOLEAN]]
          /\ imageDir \in [Digests -> {None, "full", "torn"}]
          /\ tagIndex \in [Refs -> Digests \cup {None}]
TDb == /\ refRow \in [Refs -> Digests \cup {None}] /\ manifests \subseteq Digests
       /\ artifacts \subseteq Digests /\ machineRow \in [Procs -> Digests \cup {None}]
TCreate == /\ owned \in [Procs -> SUBSET {"lock", "dir", "ca"}]
           /\ rootDisk \in [Procs -> Digests \cup {None}] /\ nameLock \in Procs \cup {None}
TLocks == /\ imageLock \in [Digests -> Procs \cup {None}]
          /\ blobLock \in [Layers -> Procs \cup {None}] /\ indexLock \in Procs \cup {None}
TLocal == /\ pc \in [Procs -> Loc] /\ got \in [Procs -> Digests \cup {None}]
          /\ todo \in [Procs -> SUBSET Layers] /\ victims \in [Procs -> SUBSET Digests]
          /\ copy \in [Procs -> [Refs -> Digests \cup {None}]]

\* A promoted blob has the bytes of its digest.
Blobs == blob \in [Layers -> {None, "good"}]

\* A half-removed directory belongs to a prune.
Torn == \A d \in Digests : imageDir[d] = "torn" =>
          \E p \in Procs : d \in victims[p] /\ pc[p] \in {"prune", "crashed"}

\* Whoever rewrites the index holds its lock and has its present contents.
Index == /\ tagIndex = saidTag
         /\ \A p \in Procs : pc[p] = "tagging" => indexLock = p /\ copy[p] = tagIndex

\* Rows refer to manifests of the table.
Tables == /\ \A r \in Refs : refRow[r] \in manifests \cup {None}
          /\ \A p \in Procs : machineRow[p] \in manifests \cup {None}
          /\ artifacts \subseteq manifests

\* What a creation owns at each of its steps, and who holds the name lock.
Made ==
  \A p \in Procs :
    /\ nameLock = p => pc[p] \in Making \cup {"rollback"}
    /\ pc[p] \in Making \cup {"rollback"} => nameLock = p
    /\ pc[p] \in Early \cup {"failed"} => owned[p] = {} /\ rootDisk[p] = None
    /\ pc[p] = "dir" => owned[p] = {"lock"}
    /\ pc[p] = "ca" => owned[p] = {"lock", "dir"}
    /\ pc[p] \in {"disk", "commit"} => owned[p] = {"lock", "dir", "ca"}
    /\ pc[p] = "commit" => rootDisk[p] = got[p]
    /\ machineRow[p] # None => /\ pc[p] = "done" /\ owned[p] = {"lock", "dir", "ca"}
                               /\ rootDisk[p] = machineRow[p]

\* Committed machines have different names, and none has the name of one in the making.
Names == \A p, q \in Procs :
           machineRow[q] # None /\ p # q /\ (machineRow[p] # None \/ pc[p] \in Making) =>
             op(p).name # op(q).name

\* The locks an operation holds at each of its steps.
Locks == /\ \A d \in Digests, p \in Procs : imageLock[d] = p => pc[p] \in {"layers", "tag", "tagging"}
         /\ \A l \in Layers, p \in Procs : blobLock[l] = p => pc[p] = "layers" /\ l \in todo[p]

\* An operation that is past its resolution has a manifest, and only a
\* process with an operation is under way.
Has == \A p \in Procs :
         /\ pc[p] # "done" => p \in DOMAIN imgScope.ops
         /\ pc[p] \in {"lock", "layers", "metadata", "save", "name"} \cup Making => got[p] \in Digests
         /\ pc[p] \in {"tag", "tagging"} /\ op(p).kind # "remove" => got[p] \in Digests

ImgTypes == TEnv /\ TCache /\ TDb /\ TCreate /\ TLocks /\ TLocal

ImgInv == /\ ImgTypes
          /\ Blobs /\ Torn /\ Index /\ Tables /\ Made /\ Names /\ Locks /\ Has

\* The invariant as the lemmas name it.
Inv == ImgInv

-----------------------------------------------------------------------------
\* What the constants say of an operation.
LEMMA OpRef == ASSUME Inv, NEW p \in Procs, pc[p] # "done" PROVE op(p).ref \in Refs
BY ImgAssumption, Zenon DEF Inv, ImgInv, ImgTypes, TEnv, Has, op

\* A process moves.
LEMMA Goes ==
  ASSUME Inv, NEW p \in Procs, NEW l \in Loc, Goto(p, l)
  PROVE  /\ pc' \in [Procs -> Loc] /\ pc'[p] = l
         /\ \A q \in Procs : q # p => pc'[q] = pc[q]
BY Zenon DEF Inv, ImgInv, ImgTypes, TLocal, Goto

\* What is left alone keeps its type and its meaning.
LEMMA Frames ==
  ASSUME Inv
  PROVE  /\ UNCHANGED envVars => TEnv'
         /\ UNCHANGED <<blobPart, imageDir, tagIndex>> => TCache'
         /\ UNCHANGED dbVars => TDb' /\ Tables'
         /\ UNCHANGED createVars => TCreate'
         /\ UNCHANGED lockVars => TLocks'
         /\ UNCHANGED <<pc, localVars>> => TLocal'
         /\ UNCHANGED blob => Blobs'
         /\ UNCHANGED <<imgScope, pc, got>> => Has'
<1> ImgInv
  BY Zenon DEF Inv
<1>1. ASSUME UNCHANGED envVars PROVE TEnv'
  BY <1>1, Zenon DEF ImgInv, ImgTypes, TEnv, envVars
<1>2. ASSUME UNCHANGED <<blobPart, imageDir, tagIndex>> PROVE TCache'
  BY <1>2, Zenon DEF ImgInv, ImgTypes, TCache
<1>3. ASSUME UNCHANGED dbVars PROVE TDb' /\ Tables'
  BY <1>3, Zenon DEF ImgInv, ImgTypes, TDb, Tables, dbVars
<1>4. ASSUME UNCHANGED createVars PROVE TCreate'
  BY <1>4, Zenon DEF ImgInv, ImgTypes, TCreate, createVars
<1>5. ASSUME UNCHANGED lockVars PROVE TLocks'
  BY <1>5, Zenon DEF ImgInv, ImgTypes, TLocks, lockVars
<1>6. ASSUME UNCHANGED <<pc, localVars>> PROVE TLocal'
  BY <1>6, Zenon DEF ImgInv, ImgTypes, TLocal, localVars
<1>7. ASSUME UNCHANGED blob PROVE Blobs'
  BY <1>7, Zenon DEF ImgInv, Blobs
<1>8. ASSUME UNCHANGED <<imgScope, pc, got>> PROVE Has'
  BY <1>8, Zenon DEF ImgInv, Has, op
<1> QED BY <1>1, <1>2, <1>3, <1>4, <1>5, <1>6, <1>7, <1>8, Zenon

\* What the other processes know is not disturbed by one that moves.
LEMMA OthersKeep ==
  ASSUME Inv, NEW p \in Procs, NEW l \in Loc, Goto(p, l), UNCHANGED imgScope
  PROVE  /\ /\ UNCHANGED <<imageDir, victims>>
            /\ pc[p] = "prune" => l = "crashed" \/ victims[p] = {}
            /\ pc[p] # "crashed"
            => Torn'
         /\ /\ UNCHANGED <<tagIndex, saidTag, copy>> /\ (indexLock' = indexLock \/ indexLock = p)
            /\ l # "tagging"
            => Index'
         /\ /\ \A q \in Procs : q # p => got'[q] = got[q]
            /\ l # "done" => p \in DOMAIN imgScope.ops
            /\ l \in {"lock", "layers", "metadata", "save", "name"} \cup Making => got'[p] \in Digests
            /\ l \in {"tag", "tagging"} /\ op(p).kind # "remove" => got'[p] \in Digests
            => Has'
<1> ImgInv
  BY Zenon DEF Inv
<1>1. pc' \in [Procs -> Loc] /\ pc'[p] = l /\ \A q \in Procs : q # p => pc'[q] = pc[q]
  BY Goes, Zenon
<1>2. ASSUME UNCHANGED <<imageDir, victims>>, pc[p] = "prune" => l = "crashed" \/ victims[p] = {},
             pc[p] # "crashed"
      PROVE  Torn'
  BY <1>1, <1>2, Zenon DEF ImgInv, Torn
<1>3. ASSUME UNCHANGED <<tagIndex, saidTag, copy>>, indexLock' = indexLock \/ indexLock = p,
             l # "tagging"
      PROVE  Index'
  BY <1>1, <1>3 DEF ImgInv, Index
<1>4. ASSUME \A q \in Procs : q # p => got'[q] = got[q],
             l # "done" => p \in DOMAIN imgScope.ops,
             l \in {"lock", "layers", "metadata", "save", "name"} \cup Making => got'[p] \in Digests,
             l \in {"tag", "tagging"} /\ op(p).kind # "remove" => got'[p] \in Digests
      PROVE  Has'
  BY <1>1, <1>4, Zenon DEF ImgInv, Has, op
<1> QED BY <1>2, <1>3, <1>4, Zenon

\* An operation that owns nothing yet moves on, or ends.
LEMMA EarlyGoes ==
  ASSUME Inv, NEW p \in Procs, NEW l \in Early \cup {"failed", "done"}, Goto(p, l), pc[p] \in Early,
         UNCHANGED <<imgScope, machineRow, createVars>>,
         \A q \in Procs : q # p => got'[q] = got[q],
         l \in {"lock", "layers", "metadata", "save", "name"} => got'[p] \in Digests,
         l \in {"tag", "tagging"} /\ op(p).kind # "remove" => got'[p] \in Digests,
         TEnv', TCache', TDb', TLocks', TLocal', Blobs', Torn', Index', Tables', Locks'
  PROVE  Inv'
<1> SUFFICES ASSUME ImgInv PROVE ImgInv'
  BY Zenon DEF Inv
<1>1. l \in Loc /\ l \notin Making /\ p \in DOMAIN imgScope.ops
  BY Zenon DEF Loc, Early, Making, ImgInv, Has
<1>2. pc' \in [Procs -> Loc] /\ pc'[p] = l /\ \A q \in Procs : q # p => pc'[q] = pc[q]
  BY <1>1, Goes, Zenon
<1>3. TCreate'
  BY Frames, Zenon
<1>4. Has'
  BY <1>1, OthersKeep, Zenon
<1>5. Made'
  BY <1>2 DEF ImgInv, Made, Early, Making, createVars
<1>6. Names'
  BY <1>1, <1>2, Zenon DEF ImgInv, Names, op
<1> QED BY <1>3, <1>4, <1>5, <1>6, Zenon DEF ImgInv, ImgTypes

\* The same for a step that is not one of the index.
LEMMA Moves ==
  ASSUME Inv, NEW p \in Procs, NEW l \in Early \cup {"failed", "done"}, Goto(p, l),
         pc[p] \in Early, l # "tagging",
         UNCHANGED <<imgScope, tagIndex, saidTag, machineRow, createVars, copy>>,
         indexLock' = indexLock \/ indexLock = p,
         \A q \in Procs : q # p => got'[q] = got[q],
         l \in {"lock", "layers", "metadata", "save", "name"} => got'[p] \in Digests,
         l = "tag" /\ op(p).kind # "remove" => got'[p] \in Digests,
         TEnv', TCache', TDb', TLocks', TLocal', Blobs', Torn', Tables', Locks'
  PROVE  Inv'
<1>1. l \in Loc
  BY Zenon DEF Loc, Early
<1>2. Index'
  BY <1>1, OthersKeep, Zenon
<1> QED BY <1>2, EarlyGoes, Zenon

\* A step that moves no process.
LEMMA Stays ==
  ASSUME Inv, UNCHANGED <<imgScope, tagIndex, saidTag, machineRow, createVars, pc, got, copy, indexLock>>,
         TEnv', TCache', TDb', TLocks', TLocal', Blobs', Torn', Tables', Locks'
  PROVE  Inv'
<1> SUFFICES ASSUME ImgInv PROVE ImgInv'
  BY Zenon DEF Inv
<1>1. TCreate' /\ Has'
  BY Frames, Zenon
<1>2. Index' /\ Made' /\ Names'
  BY Zenon DEF ImgInv, Index, Made, Names, createVars, op
<1> QED BY <1>1, <1>2, Zenon DEF ImgInv, ImgTypes

\* An operation lets go of its locks.
LEMMA Releases ==
  ASSUME Inv, NEW p \in Procs, ReleaseLocks(p), NEW l \in Loc, Goto(p, l), UNCHANGED todo
  PROVE  /\ TLocks' /\ Locks' /\ (indexLock' = indexLock \/ indexLock = p)
<1> ImgInv
  BY Zenon DEF Inv
<1>1. pc' \in [Procs -> Loc] /\ pc'[p] = l /\ \A q \in Procs : q # p => pc'[q] = pc[q]
  BY Goes, Zenon
<1>2. TLocks' /\ (indexLock' = indexLock \/ indexLock = p)
  BY Zenon DEF ReleaseLocks, ImgInv, ImgTypes, TLocks
<1>3. /\ \A d \in Digests : imageLock'[d] # p /\ (imageLock'[d] = imageLock[d] \/ imageLock'[d] = None)
      /\ \A k \in Layers : blobLock'[k] # p /\ (blobLock'[k] = blobLock[k] \/ blobLock'[k] = None)
  BY ImgAssumption, Zenon DEF ReleaseLocks, ImgInv, ImgTypes, TLocks
<1>4. Locks'
  BY <1>1, <1>3, ImgAssumption DEF ImgInv, Locks
<1> QED BY <1>2, <1>4, Zenon

\* An operation that owns nothing fails: it keeps no lock.
LEMMA EarlyFails ==
  ASSUME Inv, NEW p \in Procs, pc[p] \in Early \ {"prune"}, Fail(p), TCache',
         UNCHANGED <<envVars, blob, imageDir, tagIndex, saidTag, dbVars, createVars, localVars>>
  PROVE  Inv'
<1> ImgInv
  BY Zenon DEF Inv
<1>1. nameLock # p /\ owned[p] = {}
  BY Zenon DEF ImgInv, Made, Early, Making
<1>2. Goto(p, "failed") /\ ReleaseLocks(p) /\ "failed" \in Loc
  BY <1>1, Zenon DEF Fail, Loc
<1>3. TLocks' /\ Locks' /\ (indexLock' = indexLock \/ indexLock = p)
  BY <1>2, Releases, Zenon DEF localVars
<1>4. TEnv' /\ TDb' /\ Tables' /\ Blobs'
  BY Frames, Zenon
<1>5. TLocal'
  BY <1>2, Goes, Zenon DEF ImgInv, ImgTypes, TLocal, localVars
<1>6. Torn'
  BY <1>2, OthersKeep, Zenon DEF Early, envVars, localVars
<1> QED BY <1>2, <1>3, <1>4, <1>5, <1>6, Moves, Zenon DEF envVars, dbVars, localVars, Early

\* A creation fails: its guard will roll back what it made.
LEMMA MakingFails ==
  ASSUME Inv, NEW p \in Procs, pc[p] \in Making, Fail(p),
         UNCHANGED <<envVars, cacheVars, dbVars, createVars, localVars>>
  PROVE  Inv'
<1> SUFFICES ASSUME ImgInv PROVE ImgInv'
  BY Zenon DEF Inv
<1>1. nameLock = p
  BY Zenon DEF ImgInv, Made
<1>2. Goto(p, "rollback") /\ ReleaseLocks(p) /\ "rollback" \in Loc
  BY <1>1, Zenon DEF Fail, Loc
<1>3. TLocks' /\ Locks' /\ (indexLock' = indexLock \/ indexLock = p)
  BY <1>2, Releases, Zenon DEF localVars
<1>4. TEnv' /\ TDb' /\ Tables' /\ Blobs' /\ TCache' /\ TCreate'
  BY Frames, Zenon DEF cacheVars
<1>5. pc' \in [Procs -> Loc] /\ pc'[p] = "rollback" /\ \A q \in Procs : q # p => pc'[q] = pc[q]
  BY <1>2, Goes, Zenon
<1>6. TLocal'
  BY <1>5, Zenon DEF ImgInv, ImgTypes, TLocal, localVars
<1>7. p \in DOMAIN imgScope.ops
  BY Zenon DEF ImgInv, Has, Making
<1>8. Torn' /\ Index' /\ Has'
  BY <1>2, <1>3, <1>7, OthersKeep, Zenon DEF Making, envVars, cacheVars, localVars
<1>9. Made'
  BY <1>5 DEF ImgInv, Made, Early, Making, createVars, dbVars, localVars
<1>10. Names'
  BY <1>5, Zenon DEF ImgInv, Names, op, Making, envVars, dbVars
<1> QED BY <1>3, <1>4, <1>6, <1>8, <1>9, <1>10, Zenon DEF ImgInv, ImgTypes

\* A move that leaves the locks alone.
LEMMA HoldsLocks ==
  ASSUME Inv, NEW p \in Procs, NEW l \in Loc, Goto(p, l), UNCHANGED <<lockVars, todo>>,
         pc[p] \in {"layers", "tag", "tagging"} => l \in {"tag", "tagging"},
         pc[p] = "layers" => todo[p] = {}
  PROVE  TLocks' /\ Locks'
<1> ImgInv
  BY Zenon DEF Inv
<1>1. TLocks'
  BY Frames, Zenon
<1>2. pc' \in [Procs -> Loc] /\ pc'[p] = l /\ \A q \in Procs : q # p => pc'[q] = pc[q]
  BY Goes, Zenon
<1>3. Locks'
  BY <1>2 DEF ImgInv, Locks, lockVars
<1> QED BY <1>1, <1>3, Zenon

\* A move that changes no local.
LEMMA KeepsLocals ==
  ASSUME Inv, NEW p \in Procs, NEW l \in Loc, Goto(p, l), UNCHANGED localVars
  PROVE  TLocal'
BY Goes, Zenon DEF Inv, ImgInv, ImgTypes, TLocal, localVars

\* A move of an operation that owns nothing and writes at most the image tables.
LEMMA JustMoves ==
  ASSUME Inv, NEW p \in Procs, NEW l \in Early \cup {"failed", "done"}, Goto(p, l),
         pc[p] \in Early \ {"layers", "tag", "tagging"}, pc[p] = "prune" => victims[p] = {},
         l # "tagging",
         l \in {"lock", "layers", "metadata", "save", "name"} => got[p] \in Digests,
         l = "tag" => op(p).kind = "remove",
         UNCHANGED <<envVars, cacheVars, createVars, machineRow, localVars, lockVars>>,
         TDb', Tables'
  PROVE  Inv'
<1>1. l \in Loc
  BY Zenon DEF Loc, Early
<1>2. TLocks' /\ Locks'
  BY <1>1, HoldsLocks, Zenon DEF Early, localVars
<1>3. TEnv' /\ Blobs' /\ TCache'
  BY Frames, Zenon DEF cacheVars
<1>4. TLocal'
  BY <1>1, KeepsLocals, Zenon
<1>5. Torn'
  BY <1>1, OthersKeep, Zenon DEF Early, envVars, cacheVars, localVars
<1> QED BY <1>1, <1>2, <1>3, <1>4, <1>5, Moves, Zenon DEF envVars, cacheVars, localVars, lockVars

-----------------------------------------------------------------------------
\* get_cached: a full directory gives a manifest, a miss resolves, a torn one is an error.
LEMMA GetCachedStep == ASSUME Inv, NEW p \in Procs, GetCached(p) PROVE Inv'
<1> DEFINE d == tagIndex[op(p).ref]
           c == IF d = None THEN None ELSE cached_image(d)
<1>0. /\ At(p, "start") /\ UNCHANGED <<envVars, cacheVars, dbVars, createVars, todo, copy, victims>>
      /\ \/ c = "full" /\ Goto(p, "metadata") /\ got' = [got EXCEPT ![p] = d] /\ UNCHANGED lockVars
         \/ c = None /\ Goto(p, "resolve") /\ UNCHANGED <<got, lockVars>>
         \/ Fail(p) /\ UNCHANGED got
  BY Zenon DEF GetCached
<1>1. ImgInv /\ pc[p] \in Early \ {"layers", "tag", "tagging", "prune"}
  BY <1>0, Zenon DEF Inv, At, Early
<1>2. TEnv' /\ Blobs' /\ TCache' /\ TDb' /\ Tables'
  BY <1>0, Frames, Zenon DEF cacheVars
<1>3. CASE c = "full" /\ Goto(p, "metadata") /\ got' = [got EXCEPT ![p] = d] /\ UNCHANGED lockVars
  <2>1. d \in Digests
    BY <1>0, <1>1, <1>3, OpRef, Zenon DEF Inv, ImgInv, ImgTypes, TCache, At, None
  <2>2. "metadata" \in Loc /\ "metadata" \in Early
    BY Zenon DEF Loc, Early
  <2>3. TLocks' /\ Locks'
    BY <1>0, <1>1, <1>3, <2>2, HoldsLocks, Zenon
  <2>4. TLocal' /\ got'[p] \in Digests /\ \A q \in Procs : q # p => got'[q] = got[q]
    BY <1>0, <1>1, <1>3, <2>1, <2>2, Goes, Zenon DEF ImgInv, ImgTypes, TLocal
  <2>5. Torn'
    BY <1>0, <1>1, <1>3, <2>2, OthersKeep, Zenon DEF envVars, cacheVars, Early
  <2> HIDE DEF d, c
  <2> QED BY <1>0, <1>1, <1>2, <1>3, <2>2, <2>3, <2>4, <2>5, Moves, Zenon
          DEF envVars, cacheVars, dbVars, lockVars
<1>4. CASE c = None /\ Goto(p, "resolve") /\ UNCHANGED <<got, lockVars>>
  <2> HIDE DEF d, c
  <2> "resolve" \in Early
    BY Zenon DEF Early
  <2> QED BY <1>0, <1>1, <1>2, <1>4, JustMoves, Zenon DEF dbVars, localVars
<1>5. CASE Fail(p) /\ UNCHANGED got
  <2> HIDE DEF d, c
  <2> QED BY <1>0, <1>1, <1>2, <1>5, EarlyFails, Zenon DEF cacheVars, localVars
<1> QED BY <1>0, <1>3, <1>4, <1>5, Zenon

\* resolve_remote_oci: the digest comes from the registry; an error keeps nothing.
LEMMA ResolveStep == ASSUME Inv, NEW p \in Procs, Resolve(p) PROVE Inv'
<1>0. /\ pc[p] \in {"start", "resolve"}
      /\ UNCHANGED <<envVars, cacheVars, dbVars, createVars, todo, copy, victims>>
      /\ \/ got' = [got EXCEPT ![p] = registryTag[op(p).ref]] /\ Goto(p, "lock") /\ UNCHANGED lockVars
         \/ Fail(p) /\ UNCHANGED got
  BY Zenon DEF Resolve, At, resolve_manifest
<1>1. ImgInv /\ pc[p] \in Early \ {"layers", "tag", "tagging", "prune"}
  BY <1>0, Zenon DEF Inv, Early
<1>2. TEnv' /\ Blobs' /\ TCache' /\ TDb' /\ Tables'
  BY <1>0, Frames, Zenon DEF cacheVars
<1>3. CASE got' = [got EXCEPT ![p] = registryTag[op(p).ref]] /\ Goto(p, "lock") /\ UNCHANGED lockVars
  <2>1. registryTag[op(p).ref] \in Digests
    BY <1>0, <1>1, OpRef, Zenon DEF ImgInv, ImgTypes, TEnv
  <2>2. "lock" \in Loc /\ "lock" \in Early
    BY Zenon DEF Loc, Early
  <2>3. TLocks' /\ Locks'
    BY <1>0, <1>1, <1>3, <2>2, HoldsLocks, Zenon
  <2>4. TLocal' /\ got'[p] \in Digests /\ \A q \in Procs : q # p => got'[q] = got[q]
    BY <1>0, <1>1, <1>3, <2>1, <2>2, Goes, Zenon DEF ImgInv, ImgTypes, TLocal
  <2>5. Torn'
    BY <1>0, <1>1, <1>3, <2>2, OthersKeep, Zenon DEF envVars, cacheVars, Early
  <2> QED BY <1>0, <1>1, <1>2, <1>3, <2>2, <2>3, <2>4, <2>5, Moves, Zenon
          DEF envVars, cacheVars, dbVars, lockVars
<1>4. CASE Fail(p) /\ UNCHANGED got
  BY <1>0, <1>1, <1>2, <1>4, EarlyFails, Zenon DEF cacheVars, localVars
<1> QED BY <1>0, <1>3, <1>4, Zenon

\* materialize_resolved_oci: only this process holds the image lock from here to the index.
LEMMA LockImageStep == ASSUME Inv, NEW p \in Procs, LockImage(p) PROVE Inv'
<1>0. /\ pc[p] = "lock" /\ imageLock[got[p]] = None
      /\ UNCHANGED <<envVars, cacheVars, dbVars, createVars, blobLock, indexLock, got, copy, victims>>
      /\ \/ imageLock' = [imageLock EXCEPT ![got[p]] = p] /\ Goto(p, "tag") /\ UNCHANGED todo
         \/ /\ imageLock' = [imageLock EXCEPT ![got[p]] = p]
            /\ todo' = [todo EXCEPT ![p] = LayersOf[got[p]]] /\ Goto(p, "layers")
         \/ Goto(p, "failed") /\ UNCHANGED <<imageLock, todo>>
  BY Zenon DEF LockImage, At
<1>1. ImgInv /\ pc[p] \in Early \ {"layers", "tag", "tagging", "prune"} /\ got[p] \in Digests
  BY <1>0, Zenon DEF Inv, ImgInv, Has, Early
<1>2. TEnv' /\ Blobs' /\ TCache' /\ TDb' /\ Tables'
  BY <1>0, Frames, Zenon DEF cacheVars
<1>3. ASSUME NEW l \in {"tag", "layers"}, Goto(p, l),
             imageLock' = [imageLock EXCEPT ![got[p]] = p],
             todo' = todo \/ todo' = [todo EXCEPT ![p] = LayersOf[got[p]]]
      PROVE  Inv'
  <2>1. l \in Loc /\ l \in Early
    BY <1>3, Zenon DEF Loc, Early
  <2>2. pc' \in [Procs -> Loc] /\ pc'[p] = l /\ \A q \in Procs : q # p => pc'[q] = pc[q]
    BY <1>3, <2>1, Goes, Zenon
  <2>3. todo' \in [Procs -> SUBSET Layers] /\ \A q \in Procs : q # p => todo'[q] = todo[q]
    BY <1>1, <1>3, ImgAssumption, Zenon DEF ImgInv, ImgTypes, TLocal
  <2>4. TLocal'
    BY <1>0, <1>1, <2>2, <2>3, Zenon DEF ImgInv, ImgTypes, TLocal
  <2>5. TLocks'
    BY <1>0, <1>1, <1>3, Zenon DEF ImgInv, ImgTypes, TLocks
  <2>6. Locks'
    <3>1. \A d \in Digests, q \in Procs : imageLock'[d] = q => q = p \/ imageLock[d] = q
      BY <1>1, <1>3, Zenon DEF ImgInv, ImgTypes, TLocks
    <3> QED BY <1>0, <1>1, <1>3, <2>2, <2>3, <3>1, SMTT(30) DEF ImgInv, Locks
  <2>7. Torn'
    BY <1>0, <1>1, <1>3, <2>1, OthersKeep, Zenon DEF envVars, cacheVars, Early
  <2> QED BY <1>0, <1>1, <1>2, <1>3, <2>1, <2>4, <2>5, <2>6, <2>7, Moves, Zenon DEF envVars, cacheVars, dbVars
<1>4. CASE Goto(p, "failed") /\ UNCHANGED <<imageLock, todo>>
  BY <1>0, <1>1, <1>2, <1>4, JustMoves, Zenon DEF dbVars, localVars, lockVars
<1> QED BY <1>0, <1>3, <1>4, Zenon

\* The partial files.
Part == [len : Nat, good : BOOLEAN]

\* An absent partial file is one of no bytes.
LEMMA NoPartTyped == NoPart \in Part
BY Zenon DEF NoPart, Part

\* What a chunk leaves is a partial file.
LEMMA PartOf == ASSUME NEW n \in Nat, NEW e \in BOOLEAN PROVE [len |-> n, good |-> e] \in Part
BY Zenon DEF Part

\* A file of the right length and bytes is the whole layer.
LEMMA WholePart ==
  ASSUME NEW b \in Part, NEW n, b.len = n, b.good PROVE b = [len |-> n, good |-> TRUE]
<1>1. b.good = TRUE
  BY Zenon DEF Part
<1>2. b = [len |-> b.len, good |-> b.good]
  BY Zenon DEF Part
<1> QED BY <1>1, <1>2, Zenon

\* One partial file is replaced.
LEMMA PartChanges ==
  ASSUME Inv, NEW l \in Layers, NEW b \in Part, blobPart' = [blobPart EXCEPT ![l] = b],
         UNCHANGED <<imageDir, tagIndex>>
  PROVE  TCache'
BY Zenon DEF Inv, ImgInv, ImgTypes, TCache, Part

\* get_or_download_layer: the layer lock is only taken for a layer still to do.
LEMMA TakeLayerStep == ASSUME Inv, NEW p \in Procs, NEW l \in Layers, TakeLayer(p, l) PROVE Inv'
<1> DEFINE q == usablePart(l)
<1>0. /\ pc[p] = "layers" /\ l \in todo[p] /\ blobLock[l] = None
      /\ UNCHANGED <<envVars, imageDir, tagIndex, saidTag, dbVars, createVars, imageLock, indexLock,
                     pc, got, copy, victims>>
      /\ \/ /\ blob' = [blob EXCEPT ![l] = "good"]
            /\ blobPart' = [blobPart EXCEPT ![l] = IF blob[l] = "good" THEN @ ELSE NoPart]
            /\ todo' = [todo EXCEPT ![p] = @ \ {l}] /\ UNCHANGED blobLock
         \/ /\ blob' = [blob EXCEPT ![l] = None]
            /\ blobPart' \in {[blobPart EXCEPT ![l] = q], [blobPart EXCEPT ![l] = NoPart]}
            /\ blobLock' = [blobLock EXCEPT ![l] = p] /\ UNCHANGED todo
  BY Zenon DEF TakeLayer, At
<1>1. ImgInv
  BY Zenon DEF Inv
<1>2. blobPart[l] \in Part
  BY <1>1, Zenon DEF ImgInv, ImgTypes, TCache, Part
<1>3. q \in Part
  BY <1>2, NoPartTyped, Zenon DEF usablePart
<1>4. TEnv' /\ TDb' /\ Tables' /\ Torn'
  BY <1>0, <1>1, Frames, Zenon DEF ImgInv, Torn
<1>5. Blobs'
  BY <1>0, <1>1, Zenon DEF ImgInv, Blobs
<1>6. TCache'
  <2>1. \E b \in Part : blobPart' = [blobPart EXCEPT ![l] = b]
    BY <1>0, <1>2, <1>3, NoPartTyped, Zenon
  <2> QED BY <1>0, <2>1, PartChanges, Zenon
<1>7. TLocal' /\ TLocks'
  <2>1. todo' \in [Procs -> SUBSET Layers]
    BY <1>0, <1>1 DEF ImgInv, ImgTypes, TLocal
  <2>2. blobLock' \in [Layers -> Procs \cup {None}]
    BY <1>0, <1>1, Zenon DEF ImgInv, ImgTypes, TLocks
  <2> HIDE DEF q
  <2> QED BY <1>0, <1>1, <2>1, <2>2, Zenon DEF ImgInv, ImgTypes, TLocal, TLocks
<1>8. Locks'
  <2>1. \A k \in Layers, r \in Procs : blobLock'[k] = r => (k = l /\ r = p) \/ (blobLock[k] = r /\ k # l)
    BY <1>0, <1>1, ImgAssumption, Zenon DEF ImgInv, ImgTypes, TLocks
  <2>2. \A k \in Layers, r \in Procs : k # l /\ k \in todo[r] => k \in todo'[r]
    BY <1>0, <1>1 DEF ImgInv, ImgTypes, TLocal
  <2>3. blobLock'[l] = p => l \in todo'[p]
    BY <1>0, <1>1, ImgAssumption, Zenon DEF ImgInv, ImgTypes, TLocks
  <2> QED BY <1>0, <1>1, <2>1, <2>2, <2>3 DEF ImgInv, Locks
<1> QED BY <1>0, <1>4, <1>5, <1>6, <1>7, <1>8, Stays, Zenon DEF envVars, dbVars

\* write_layer_stream touches the partial file only.
LEMMA ChunkStep == ASSUME Inv, NEW p \in Procs, NEW l \in Layers, Chunk(p, l) PROVE Inv'
<1>0. UNCHANGED <<envVars, blob, imageDir, tagIndex, saidTag, dbVars, createVars, lockVars, pc, localVars>>
  BY Zenon DEF Chunk
<1>1. ImgInv
  BY Zenon DEF Inv
<1>2. PICK good : blobPart' = [blobPart EXCEPT ![l] = [len |-> @.len + 1, good |-> @.good /\ good]]
  BY Zenon DEF Chunk
<1>3. PICK e \in BOOLEAN : e = (blobPart[l].good /\ good)
  BY Zenon
<1>4. blobPart[l] \in Part /\ l \in DOMAIN blobPart
  BY <1>1, Zenon DEF ImgInv, ImgTypes, TCache, Part
<1>5. blobPart[l].len + 1 \in Nat
  BY <1>4 DEF Part
<1>6. PICK b \in Part : b = [len |-> blobPart[l].len + 1, good |-> e]
  BY <1>5, PartOf, Zenon
<1>7. blobPart' = [blobPart EXCEPT ![l] = b]
  BY <1>2, <1>3, <1>4, <1>6, Zenon
<1>8. TCache'
  BY <1>0, <1>7, PartChanges, Zenon
<1>9. TEnv' /\ TDb' /\ Tables' /\ TLocks' /\ TLocal' /\ Blobs'
  BY <1>0, Frames, Zenon
<1>10. Torn' /\ Locks'
  BY <1>0, <1>1, Zenon DEF ImgInv, Torn, Locks, localVars, lockVars
<1> QED BY <1>0, <1>8, <1>9, <1>10, Stays, Zenon DEF envVars, dbVars, localVars, lockVars

\* A layer is promoted only when its size and digest are right, so a blob is never bad.
LEMMA LayerEndsStep == ASSUME Inv, NEW p \in Procs, NEW l \in Layers, LayerEnds(p, l) PROVE Inv'
<1>0. /\ pc[p] = "layers" /\ blobLock[l] = p
      /\ UNCHANGED <<envVars, imageDir, tagIndex, saidTag, dbVars, createVars, got, copy, victims>>
      /\ blobPart' = [blobPart EXCEPT ![l] = NoPart]
  BY Zenon DEF LayerEnds, At
<1>1. ImgInv
  BY Zenon DEF Inv
<1>2. TCache'
  BY <1>0, NoPartTyped, PartChanges, Zenon
<1>3. TEnv' /\ TDb' /\ Tables'
  BY <1>0, Frames, Zenon
<1>4. CASE verifyLayer(l)
  <2>1. /\ blob' = [blob EXCEPT ![l] = IF blobPart[l] = [len |-> LayerSize, good |-> TRUE] THEN "good" ELSE "bad"]
        /\ blobLock' = [blobLock EXCEPT ![l] = None]
        /\ todo' = [todo EXCEPT ![p] = @ \ {l}] /\ UNCHANGED <<imageLock, indexLock, pc>>
    BY <1>4, Zenon DEF LayerEnds
  <2>2. blobPart[l] = [len |-> LayerSize, good |-> TRUE]
    <3>1. blobPart[l] \in Part
      BY <1>1, Zenon DEF ImgInv, ImgTypes, TCache, Part
    <3> QED BY <1>4, <3>1, WholePart, Zenon DEF verifyLayer
  <2>3. blob' = [blob EXCEPT ![l] = "good"]
    BY <2>1, <2>2, Zenon
  <2>4. Blobs'
    BY <1>1, <2>3, Zenon DEF ImgInv, Blobs
  <2>5. TLocks' /\ TLocal'
    BY <1>0, <1>1, <2>1, Zenon DEF ImgInv, ImgTypes, TLocal, TLocks
  <2>6. Torn'
    BY <1>0, <1>1, <2>1, Zenon DEF ImgInv, Torn
  <2>7. Locks'
    <3>1. \A k \in Layers, r \in Procs : blobLock'[k] = r => blobLock[k] = r /\ k # l
      BY <1>1, <2>1, ImgAssumption, Zenon DEF ImgInv, ImgTypes, TLocks
    <3>2. \A k \in Layers, r \in Procs : k # l /\ k \in todo[r] => k \in todo'[r]
      BY <1>1, <2>1, Zenon DEF ImgInv, ImgTypes, TLocal
    <3> QED BY <1>1, <2>1, <3>1, <3>2, SMTT(30) DEF ImgInv, Locks
  <2> QED BY <1>0, <1>2, <1>3, <2>1, <2>4, <2>5, <2>6, <2>7, Stays, Zenon DEF envVars, dbVars
<1>5. CASE ~verifyLayer(l)
  <2>1. Fail(p) /\ UNCHANGED <<blob, todo>>
    BY <1>5, Zenon DEF LayerEnds
  <2>2. pc[p] \in Early \ {"prune"}
    BY <1>0, Zenon DEF Early
  <2> QED BY <1>0, <1>2, <2>1, <2>2, EarlyFails, Zenon DEF localVars
<1> QED BY <1>4, <1>5, Zenon

\* A broken stream fails the pull, which lets go of every lock.
LEMMA LayerBreaksStep == ASSUME Inv, NEW p \in Procs, NEW l \in Layers, LayerBreaks(p, l) PROVE Inv'
<1>1. Fail(p) /\ pc[p] \in Early \ {"prune"} /\ UNCHANGED <<envVars, cacheVars, dbVars, createVars, localVars>>
  BY Zenon DEF LayerBreaks, At, Early
<1>2. TCache'
  BY <1>1, Frames, Zenon DEF cacheVars
<1> QED BY <1>1, <1>2, EarlyFails, Zenon DEF cacheVars

\* create_rootfs: publishing makes no directory torn, and the image lock is kept until the index is written.
LEMMA PublishStep == ASSUME Inv, NEW p \in Procs, Publish(p) PROVE Inv'
<1>0. /\ pc[p] = "layers" /\ todo[p] = {}
      /\ UNCHANGED <<envVars, blob, blobPart, tagIndex, saidTag, dbVars, createVars, localVars>>
      /\ \/ imageDir' = [imageDir EXCEPT ![got[p]] = "full"] /\ Goto(p, "tag") /\ UNCHANGED lockVars
         \/ Goto(p, "tag") /\ UNCHANGED <<imageDir, lockVars>>
         \/ Fail(p) /\ UNCHANGED imageDir
  BY Zenon DEF Publish, At
<1>1. ImgInv /\ pc[p] \in Early \ {"prune"} /\ got[p] \in Digests /\ "tag" \in Early /\ "tag" \in Loc
  BY <1>0, Zenon DEF Inv, ImgInv, Has, Early, Loc
<1>2. TEnv' /\ TDb' /\ Tables' /\ Blobs'
  BY <1>0, Frames, Zenon
<1>3. TCache'
  BY <1>0, <1>1, Zenon DEF ImgInv, ImgTypes, TCache
<1>4. ASSUME Goto(p, "tag"), UNCHANGED lockVars, imageDir' = imageDir \/ imageDir' = [imageDir EXCEPT ![got[p]] = "full"]
      PROVE  Inv'
  <2>1. TLocks' /\ Locks'
    BY <1>0, <1>1, <1>4, HoldsLocks, Zenon DEF localVars
  <2>2. TLocal'
    BY <1>0, <1>1, <1>4, KeepsLocals, Zenon
  <2>3. Torn'
    <3>1. \A d \in Digests : imageDir'[d] = "torn" => imageDir[d] = "torn"
      BY <1>1, <1>4, Zenon DEF ImgInv, ImgTypes, TCache
    <3>2. \A q \in Procs : pc[q] \in {"prune", "crashed"} => pc'[q] = pc[q]
      BY <1>0, <1>1, <1>4, Goes, Zenon
    <3> QED BY <1>0, <1>1, <3>1, <3>2, Zenon DEF ImgInv, Torn, localVars
  <2> QED BY <1>0, <1>1, <1>2, <1>3, <1>4, <2>1, <2>2, <2>3, Moves, Zenon DEF envVars, dbVars, localVars, lockVars
<1>5. CASE Fail(p) /\ UNCHANGED imageDir
  BY <1>0, <1>1, <1>3, <1>5, EarlyFails, Zenon
<1> QED BY <1>0, <1>4, <1>5, Zenon

\* The index is read under its lock, so the copy is current while it is being rewritten.
LEMMA ReadIndexStep == ASSUME Inv, NEW p \in Procs, ReadIndex(p) PROVE Inv'
<1>0. /\ pc[p] = "tag" /\ indexLock = None /\ indexLock' = p
      /\ copy' = [copy EXCEPT ![p] = tagIndex] /\ Goto(p, "tagging")
      /\ UNCHANGED <<envVars, cacheVars, dbVars, createVars, imageLock, blobLock, got, todo, victims>>
  BY Zenon DEF ReadIndex, At, LockIndex
<1>1. ImgInv /\ pc[p] \in Early /\ "tagging" \in Early /\ "tagging" \in Loc
  BY <1>0, Zenon DEF Inv, Early, Loc
<1>2. TEnv' /\ TCache' /\ TDb' /\ Tables' /\ Blobs'
  BY <1>0, Frames, Zenon DEF cacheVars
<1>3. pc' \in [Procs -> Loc] /\ pc'[p] = "tagging" /\ \A q \in Procs : q # p => pc'[q] = pc[q]
  BY <1>0, <1>1, Goes, Zenon
<1>4. TLocks' /\ TLocal'
  BY <1>0, <1>1, <1>3, Zenon DEF ImgInv, ImgTypes, TLocks, TLocal, TCache
<1>5. Locks'
  BY <1>0, <1>1, <1>3, Zenon DEF ImgInv, Locks
<1>6. Torn'
  BY <1>0, <1>1, <1>3, Zenon DEF ImgInv, Torn, cacheVars
<1>7. Index'
  <2>1. \A q \in Procs : pc[q] # "tagging"
    BY <1>0, <1>1, ImgAssumption, Zenon DEF ImgInv, Index
  <2>2. copy'[p] = tagIndex
    BY <1>0, <1>1, Zenon DEF ImgInv, ImgTypes, TLocal
  <2> QED BY <1>0, <1>1, <1>3, <2>1, <2>2, Zenon DEF ImgInv, Index, cacheVars
<1>8. op(p).kind # "remove" => got'[p] \in Digests
  BY <1>0, <1>1, Zenon DEF ImgInv, Has
<1> QED BY <1>0, <1>1, <1>2, <1>4, <1>5, <1>6, <1>7, <1>8, EarlyGoes, Zenon DEF envVars, dbVars

\* The rewritten index differs from the present one in this tag only; nobody else is rewriting it.
LEMMA WriteIndexStep == ASSUME Inv, NEW p \in Procs, WriteIndex(p) PROVE Inv'
<1> DEFINE v == IF op(p).kind = "remove" THEN None ELSE got[p]
           l == IF op(p).kind = "remove" THEN "unref" ELSE "metadata"
<1>0. /\ pc[p] = "tagging" /\ ReleaseLocks(p) /\ Goto(p, l)
      /\ tagIndex' = [copy[p] EXCEPT ![op(p).ref] = v] /\ saidTag' = [saidTag EXCEPT ![op(p).ref] = v]
      /\ UNCHANGED <<envVars, blob, blobPart, imageDir, dbVars, createVars, localVars>>
  BY Zenon DEF WriteIndex, At
<1>1. ImgInv /\ pc[p] \in Early /\ l \in Early /\ l \in Loc /\ l \notin {"tag", "tagging"}
  BY <1>0, Zenon DEF Inv, Early, Loc
<1>2. op(p).ref \in Refs /\ v \in Digests \cup {None}
  BY <1>0, <1>1, OpRef, Zenon DEF ImgInv, Has
<1>3. l \in {"lock", "layers", "metadata", "save", "name"} => got[p] \in Digests
  BY <1>0, <1>1, Zenon DEF ImgInv, Has
<1> HIDE DEF v, l
<1>4. TEnv' /\ TDb' /\ Tables' /\ Blobs'
  BY <1>0, Frames, Zenon
<1>5. TLocks' /\ Locks'
  BY <1>0, <1>1, Releases, Zenon DEF localVars
<1>6. TLocal'
  BY <1>0, <1>1, KeepsLocals, Zenon
<1>7. Torn'
  BY <1>0, <1>1, OthersKeep, Zenon DEF envVars, localVars
<1>8. TCache' /\ Index'
  <2>1. indexLock = p /\ copy[p] = tagIndex /\ tagIndex = saidTag
    BY <1>0, <1>1, Zenon DEF ImgInv, Index
  <2>2. tagIndex' = saidTag'
    BY <1>0, <2>1, Zenon
  <2>3. \A q \in Procs : pc'[q] # "tagging"
    BY <1>0, <1>1, <2>1, Goes, Zenon DEF ImgInv, Index
  <2>4. TCache'
    BY <1>0, <1>1, <1>2, <2>1, Zenon DEF ImgInv, ImgTypes, TCache
  <2> QED BY <2>2, <2>3, <2>4, Zenon DEF Index
<1> QED BY <1>0, <1>1, <1>3, <1>4, <1>5, <1>6, <1>7, <1>8, EarlyGoes, Zenon DEF envVars, dbVars, localVars

\* metadata(): without the image lock, a missing directory fails the operation.
LEMMA ReadMetadataStep == ASSUME Inv, NEW p \in Procs, ReadMetadata(p) PROVE Inv'
<1>0. /\ pc[p] = "metadata" /\ UNCHANGED <<envVars, cacheVars, dbVars, createVars, localVars>>
      /\ (Goto(p, "save") /\ UNCHANGED lockVars) \/ Fail(p)
  BY Zenon DEF ReadMetadata, At
<1>1. pc[p] \in Early \ {"layers", "tag", "tagging", "prune"} /\ got[p] \in Digests /\ "save" \in Early
  BY <1>0, Zenon DEF Inv, ImgInv, Has, Early
<1>2. TDb' /\ Tables' /\ TCache'
  BY <1>0, Frames, Zenon DEF cacheVars
<1>3. CASE Goto(p, "save") /\ UNCHANGED lockVars
  BY <1>0, <1>1, <1>2, <1>3, JustMoves, Zenon DEF dbVars
<1>4. CASE Fail(p)
  BY <1>0, <1>1, <1>2, <1>4, EarlyFails, Zenon DEF cacheVars
<1> QED BY <1>0, <1>3, <1>4, Zenon

\* save_oci_image: the reference, the artifact and the manifest are written together.
LEMMA SaveImageStep == ASSUME Inv, NEW p \in Procs, SaveImage(p) PROVE Inv'
<1> DEFINE l == IF op(p).kind = "create" THEN "name" ELSE "done"
<1>0. /\ pc[p] = "save" /\ Goto(p, l) /\ refRow' = [refRow EXCEPT ![op(p).ref] = got[p]]
      /\ manifests' = manifests \cup {got[p]} /\ artifacts' = artifacts \cup {got[p]}
      /\ UNCHANGED <<envVars, cacheVars, machineRow, createVars, lockVars, localVars>>
  BY Zenon DEF SaveImage, At
<1>1. /\ pc[p] \in Early \ {"layers", "tag", "tagging", "prune"} /\ got[p] \in Digests
      /\ l \in Early \cup {"done"} /\ l \notin {"tag", "tagging"}
  BY <1>0, Zenon DEF Inv, ImgInv, Has, Early
<1>2. op(p).ref \in Refs
  BY <1>0, OpRef, Zenon
<1> HIDE DEF l
<1>3. TDb'
  BY <1>0, <1>1, <1>2, Zenon DEF Inv, ImgInv, ImgTypes, TDb
<1>4. Tables'
  BY <1>0, <1>1, <1>2, Zenon DEF Inv, ImgInv, ImgTypes, TDb, Tables
<1> QED BY <1>0, <1>1, <1>3, <1>4, JustMoves, Zenon

\* ensure_image_removable changes nothing.
LEMMA EnsureRemovableStep == ASSUME Inv, NEW p \in Procs, EnsureRemovable(p) PROVE Inv'
<1>0. /\ pc[p] = "start" /\ op(p).kind = "remove" /\ (Goto(p, "tag") \/ Goto(p, "failed"))
      /\ UNCHANGED <<envVars, cacheVars, dbVars, createVars, lockVars, localVars>>
  BY Zenon DEF EnsureRemovable, At
<1>1. pc[p] \in Early \ {"layers", "tag", "tagging", "prune"} /\ "tag" \in Early
  BY <1>0, Zenon DEF Early
<1>2. TDb' /\ Tables'
  BY <1>0, Frames, Zenon
<1> QED BY <1>0, <1>1, <1>2, JustMoves, Zenon DEF dbVars

\* Removing a reference leaves the manifests alone.
LEMMA RemoveRefStep == ASSUME Inv, NEW p \in Procs, RemoveRef(p) PROVE Inv'
<1>0. /\ pc[p] = "unref"
      /\ (refRow' = [refRow EXCEPT ![op(p).ref] = None] /\ Goto(p, "done")) \/ (Goto(p, "failed") /\ UNCHANGED refRow)
      /\ UNCHANGED <<envVars, cacheVars, manifests, artifacts, machineRow, createVars, lockVars, localVars>>
  BY Zenon DEF RemoveRef, At
<1>1. pc[p] \in Early \ {"layers", "tag", "tagging", "prune"}
  BY <1>0, Zenon DEF Early
<1>2. TDb'
  BY <1>0, Zenon DEF Inv, ImgInv, ImgTypes, TDb
<1>3. Tables'
  BY <1>0, Zenon DEF Inv, ImgInv, ImgTypes, TDb, Tables
<1> QED BY <1>0, <1>1, <1>2, <1>3, JustMoves, Zenon

\* prune_images selects; a process that was pruning before is not disturbed.
LEMMA PruneSelectStep == ASSUME Inv, NEW p \in Procs, PruneSelect(p) PROVE Inv'
<1>0. /\ pc[p] = "start" /\ Goto(p, "prune")
      /\ victims' = [victims EXCEPT ![p] = {d \in artifacts : ~referenced(d)}]
      /\ UNCHANGED <<envVars, cacheVars, dbVars, createVars, lockVars, got, todo, copy>>
  BY Zenon DEF PruneSelect, At
<1>1. ImgInv /\ pc[p] \in Early /\ "prune" \in Early /\ "prune" \in Loc
  BY <1>0, Zenon DEF Inv, Early, Loc
<1>2. TEnv' /\ TCache' /\ TDb' /\ Tables' /\ Blobs'
  BY <1>0, Frames, Zenon DEF cacheVars
<1>3. TLocks' /\ Locks'
  BY <1>0, <1>1, HoldsLocks, Zenon
<1>4. pc' \in [Procs -> Loc] /\ pc'[p] = "prune" /\ \A q \in Procs : q # p => pc'[q] = pc[q]
  BY <1>0, <1>1, Goes, Zenon
<1>5. {d \in artifacts : ~referenced(d)} \in SUBSET Digests
  BY <1>1, Zenon DEF ImgInv, ImgTypes, TDb
<1>6. /\ victims' \in [Procs -> SUBSET Digests]
      /\ \A q \in Procs : q # p => victims'[q] = victims[q]
  BY <1>0, <1>1, <1>5, Zenon DEF ImgInv, ImgTypes, TLocal
<1>7. TLocal'
  BY <1>0, <1>1, <1>4, <1>6, Zenon DEF ImgInv, ImgTypes, TLocal
<1>8. Torn'
  BY <1>0, <1>1, <1>4, <1>6, Zenon DEF ImgInv, Torn, cacheVars
<1> QED BY <1>0, <1>1, <1>2, <1>3, <1>7, <1>8, Moves, Zenon DEF envVars, cacheVars, dbVars, lockVars

\* While a directory is half removed it is still among the victims of this prune.
LEMMA PruneDirStep == ASSUME Inv, NEW p \in Procs, PruneDir(p) PROVE Inv'
<1>0. /\ pc[p] = "prune"
      /\ UNCHANGED <<envVars, blob, blobPart, tagIndex, saidTag, refRow, manifests, machineRow, createVars,
                     lockVars, pc, got, todo, copy>>
  BY Zenon DEF PruneDir, At
<1>1. PICK d \in victims[p] :
        \/ imageDir' = [imageDir EXCEPT ![d] = "torn"] /\ UNCHANGED <<artifacts, victims>>
        \/ /\ imageDir' = [imageDir EXCEPT ![d] = None] /\ artifacts' = artifacts \ {d}
           /\ victims' = [victims EXCEPT ![p] = @ \ {d}]
  BY Zenon DEF PruneDir
<1>2. ImgInv /\ d \in Digests
  BY Zenon DEF Inv, ImgInv, ImgTypes, TLocal
<1>3. TEnv' /\ TLocks' /\ Blobs'
  BY <1>0, Frames, Zenon
<1>4. TCache'
  BY <1>0, <1>1, <1>2, Zenon DEF ImgInv, ImgTypes, TCache
<1>5. TDb' /\ Tables'
  BY <1>0, <1>1, <1>2, Zenon DEF ImgInv, ImgTypes, TDb, Tables
<1>6. TLocal'
  <2>1. victims' \in [Procs -> SUBSET Digests]
    BY <1>1, <1>2, Zenon DEF ImgInv, ImgTypes, TLocal
  <2> QED BY <1>0, <1>2, <2>1, Zenon DEF ImgInv, ImgTypes, TLocal
<1>7. Torn'
  <2>1. \A e \in Digests : e # d /\ imageDir'[e] = "torn" => imageDir[e] = "torn"
    BY <1>1, <1>2, Zenon DEF ImgInv, ImgTypes, TCache
  <2>2. \A e \in Digests, q \in Procs : e # d /\ e \in victims[q] => e \in victims'[q]
    BY <1>1, <1>2, Zenon DEF ImgInv, ImgTypes, TLocal
  <2>3. imageDir'[d] = "torn" => d \in victims'[p]
    BY <1>1, <1>2, Zenon DEF ImgInv, ImgTypes, TCache, None
  <2> QED BY <1>0, <1>2, <2>1, <2>2, <2>3, Zenon DEF ImgInv, Torn
<1>8. Locks'
  BY <1>0, <1>2, Zenon DEF ImgInv, Locks, lockVars
<1> QED BY <1>0, <1>3, <1>4, <1>5, <1>6, <1>7, <1>8, Stays, Zenon DEF envVars, lockVars

\* Only manifests no row refers to are deleted.
LEMMA PruneManifestsStep == ASSUME Inv, NEW p \in Procs, PruneManifests(p) PROVE Inv'
<1> DEFINE dead == {d \in manifests : ~referenced(d)}
<1>0. /\ pc[p] = "prune" /\ victims[p] = {}
      /\ \/ dead \cap artifacts = {} /\ manifests' = manifests \ dead /\ Goto(p, "done")
         \/ Goto(p, "failed") /\ UNCHANGED manifests
      /\ UNCHANGED <<envVars, cacheVars, refRow, artifacts, machineRow, createVars, lockVars, localVars>>
  BY Zenon DEF PruneManifests, At
<1>1. ImgInv /\ pc[p] \in Early \ {"layers", "tag", "tagging"}
  BY <1>0, Zenon DEF Inv, Early
<1>2. TDb'
  BY <1>0, <1>1, Zenon DEF ImgInv, ImgTypes, TDb
<1>3. Tables'
  <2>1. \A r \in Refs : refRow[r] \notin dead
    BY Zenon DEF referenced
  <2>2. \A q \in Procs : machineRow[q] \notin dead
    BY Zenon DEF referenced, pinned
  <2> HIDE DEF dead
  <2> QED BY <1>0, <1>1, <2>1, <2>2, Zenon DEF ImgInv, Tables
<1> HIDE DEF dead
<1> QED BY <1>0, <1>1, <1>2, <1>3, JustMoves, Zenon

-----------------------------------------------------------------------------
\* A step of a creation that has what it was made for.
LEMMA MakingGoes ==
  ASSUME Inv, NEW p \in Procs, NEW l \in Making \cup {"done", "failed", "rollback"}, Goto(p, l),
         pc[p] \in Making \cup {"name", "rollback"}, l \in Making => pc[p] # "rollback",
         UNCHANGED <<envVars, cacheVars, lockVars, localVars>>,
         TDb', Tables', TCreate', Made', Names'
  PROVE  Inv'
<1> SUFFICES ASSUME ImgInv PROVE ImgInv'
  BY Zenon DEF Inv
<1>1. l \in Loc /\ p \in DOMAIN imgScope.ops /\ (l \in Making => got[p] \in Digests)
  BY Zenon DEF Loc, ImgInv, Has, Making
<1>2. TEnv' /\ TCache' /\ Blobs'
  BY Frames, Zenon DEF cacheVars
<1>3. TLocks' /\ Locks'
  BY <1>1, HoldsLocks, Zenon DEF Making, localVars
<1>4. TLocal'
  BY <1>1, KeepsLocals, Zenon
<1>5. Torn' /\ Index' /\ Has'
  BY <1>1, OthersKeep, Zenon DEF Making, envVars, cacheVars, lockVars, localVars
<1> QED BY <1>2, <1>3, <1>4, <1>5, Zenon DEF ImgInv, ImgTypes

\* The name is looked up under the name lock, so a creation in the making has a name no machine has.
LEMMA GuardStep == ASSUME Inv, NEW p \in Procs, Guard(p) PROVE Inv'
<1>0. /\ pc[p] = "name" /\ nameLock = None
      /\ UNCHANGED <<envVars, cacheVars, dbVars, rootDisk, lockVars, localVars>>
  BY Zenon DEF Guard, At
<1>1. ImgInv /\ pc[p] \in Early \ {"layers", "tag", "tagging", "prune"}
  BY <1>0, Zenon DEF Inv, Early
<1>2. TDb' /\ Tables'
  BY <1>0, Frames, Zenon
<1>3. CASE \E q \in Procs : machineRow[q] # None /\ op(q).name = op(p).name
  <2>1. Goto(p, "failed") /\ UNCHANGED <<owned, nameLock>>
    BY <1>3, Zenon DEF Guard
  <2> QED BY <1>0, <1>1, <1>2, <2>1, JustMoves, Zenon DEF dbVars, createVars
<1>4. CASE ~\E q \in Procs : machineRow[q] # None /\ op(q).name = op(p).name
  <2>1. Goto(p, "dir") /\ nameLock' = p /\ owned' = [owned EXCEPT ![p] = {"lock"}]
    BY <1>4, Zenon DEF Guard
  <2>2. "dir" \in Making /\ "dir" \in Loc
    BY Zenon DEF Making, Loc
  <2>3. pc' \in [Procs -> Loc] /\ pc'[p] = "dir" /\ \A q \in Procs : q # p => pc'[q] = pc[q]
    BY <2>1, <2>2, Goes, Zenon
  <2>4. TCreate'
    BY <1>0, <1>1, <2>1, Zenon DEF ImgInv, ImgTypes, TCreate
  <2>5. owned'[p] = {"lock"} /\ \A q \in Procs : q # p => owned'[q] = owned[q]
    BY <1>1, <2>1, Zenon DEF ImgInv, ImgTypes, TCreate
  <2>6. \A q \in Procs : pc[q] \notin Making \cup {"rollback"}
    BY <1>0, <1>1, ImgAssumption, Zenon DEF ImgInv, Made
  <2>7. Made'
    BY <1>0, <1>1, <2>1, <2>3, <2>5, <2>6, ZenonT(30) DEF ImgInv, Made, Making, Early, dbVars, localVars
  <2>8. Names'
    BY <1>0, <1>1, <1>4, <2>3, <2>6, Zenon DEF ImgInv, Names, op, envVars, dbVars
  <2> QED BY <1>0, <1>2, <2>1, <2>2, <2>4, <2>7, <2>8, MakingGoes, Zenon
<1> QED BY <1>3, <1>4, Zenon

\* A creation that moves on makes something; no row changes.
LEMMA Makes ==
  ASSUME Inv, NEW p \in Procs, NEW l \in Making \cup {"failed"}, Goto(p, l),
         pc[p] \in Making \cup {"rollback"}, l \in Making <=> pc[p] # "rollback",
         nameLock' = IF l = "failed" THEN None ELSE p,
         NEW o \in SUBSET {"lock", "dir", "ca"}, owned' = [owned EXCEPT ![p] = o],
         NEW k \in Digests \cup {None}, rootDisk' = [rootDisk EXCEPT ![p] = k],
         l = "failed" => o = {} /\ k = None,
         l = "dir" => o = {"lock"}, l = "ca" => o = {"lock", "dir"},
         l \in {"disk", "commit"} => o = {"lock", "dir", "ca"}, l = "commit" => k = got[p],
         UNCHANGED <<envVars, cacheVars, dbVars, lockVars, localVars>>
  PROVE  Inv'
<1>1. ImgInv /\ l \in Loc
  BY Zenon DEF Inv, Loc
<1>2. pc' \in [Procs -> Loc] /\ pc'[p] = l /\ \A q \in Procs : q # p => pc'[q] = pc[q]
  BY <1>1, Goes, Zenon
<1>3. TDb' /\ Tables'
  BY Frames, Zenon
<1>4. TCreate'
  BY <1>1, Zenon DEF ImgInv, ImgTypes, TCreate
<1>5. /\ owned'[p] = o /\ \A q \in Procs : q # p => owned'[q] = owned[q]
      /\ rootDisk'[p] = k /\ \A q \in Procs : q # p => rootDisk'[q] = rootDisk[q]
  BY <1>1, Zenon DEF ImgInv, ImgTypes, TCreate
<1>6. nameLock = p /\ machineRow[p] = None
  BY <1>1, Zenon DEF ImgInv, Made, Making
<1>7. Made'
  <2>1. /\ nameLock' = p => l \in Making
        /\ l \in Making => nameLock' = p
        /\ \A q \in Procs : q # p => nameLock' # q
    BY <1>6, ImgAssumption, Zenon DEF Making
  <2>2. \A q \in Procs : q # p => pc[q] \notin Making \cup {"rollback"}
    BY <1>1, <1>6, Zenon DEF ImgInv, Made
  <2>3. got' = got /\ machineRow' = machineRow
    BY Zenon DEF dbVars, localVars
  <2>4. ASSUME NEW q \in Procs, q # p
        PROVE  /\ nameLock' = q => pc'[q] \in Making \cup {"rollback"}
               /\ pc'[q] \in Making \cup {"rollback"} => nameLock' = q
               /\ pc'[q] \in Early \cup {"failed"} => owned'[q] = {} /\ rootDisk'[q] = None
               /\ pc'[q] \notin {"dir", "ca", "disk", "commit"}
               /\ machineRow'[q] # None => /\ pc'[q] = "done" /\ owned'[q] = {"lock", "dir", "ca"}
                                           /\ rootDisk'[q] = machineRow'[q]
    BY <1>1, <1>2, <1>5, <2>1, <2>2, <2>3, <2>4, SMTT(30) DEF ImgInv, Made, Making
  <2>5. l \notin Early
    BY Zenon DEF Making, Early
  <2> QED BY <1>2, <1>5, <1>6, <2>1, <2>3, <2>4, <2>5, ZenonT(30) DEF Made, Making
<1>8. Names'
  BY <1>1, <1>2, Zenon DEF ImgInv, Names, op, envVars, dbVars
<1> QED BY <1>3, <1>4, <1>7, <1>8, MakingGoes, Zenon

\* The directory, then the SSH CA: what is owned grows with the steps.
LEMMA PrepareStep == ASSUME Inv, NEW p \in Procs, Prepare(p) PROVE Inv'
<1> DEFINE l == IF pc[p] = "dir" THEN "ca" ELSE "disk"
<1>0. /\ pc[p] \in {"dir", "ca"} /\ UNCHANGED <<envVars, cacheVars, dbVars, rootDisk, nameLock, localVars>>
      /\ \/ owned' = [owned EXCEPT ![p] = @ \cup {pc[p]}] /\ Goto(p, l) /\ UNCHANGED lockVars
         \/ Fail(p) /\ UNCHANGED owned
  BY Zenon DEF Prepare, At
<1>1. ImgInv /\ pc[p] \in Making /\ l \in Making
  BY <1>0, Zenon DEF Inv, Making
<1>2. CASE owned' = [owned EXCEPT ![p] = @ \cup {pc[p]}] /\ Goto(p, l) /\ UNCHANGED lockVars
  <2>1. PICK o \in SUBSET {"lock", "dir", "ca"} :
           o = IF pc[p] = "dir" THEN {"lock", "dir"} ELSE {"lock", "dir", "ca"}
    BY Zenon
  <2>2. owned[p] \cup {pc[p]} = o
    BY <1>0, <1>1, <2>1, Zenon DEF ImgInv, Made
  <2>3. owned' = [owned EXCEPT ![p] = o]
    BY <1>2, <2>2, Zenon
  <2>4. rootDisk[p] \in Digests \cup {None} /\ rootDisk' = [rootDisk EXCEPT ![p] = rootDisk[p]]
    BY <1>0, <1>1, Zenon DEF ImgInv, ImgTypes, TCreate
  <2>5. nameLock' = p
    BY <1>0, <1>1, Zenon DEF ImgInv, Made
  <2>6. (l = "ca" => o = {"lock", "dir"}) /\ (l = "disk" => o = {"lock", "dir", "ca"}) /\ l \in {"ca", "disk"}
    BY <1>0, <2>1, Zenon
  <2> HIDE DEF l
  <2> QED BY <1>0, <1>1, <1>2, <2>3, <2>4, <2>5, <2>6, Makes, ZenonT(30)
<1>3. CASE Fail(p) /\ UNCHANGED owned
  BY <1>0, <1>1, <1>3, MakingFails, Zenon DEF createVars
<1> QED BY <1>0, <1>2, <1>3, Zenon

\* The root disk is the one of the manifest that will be pinned.
LEMMA CopyDiskStep == ASSUME Inv, NEW p \in Procs, CopyDisk(p) PROVE Inv'
<1>0. /\ pc[p] = "disk" /\ UNCHANGED <<envVars, cacheVars, dbVars, owned, nameLock, localVars>>
      /\ \/ rootDisk' = [rootDisk EXCEPT ![p] = got[p]] /\ Goto(p, "commit") /\ UNCHANGED lockVars
         \/ Fail(p) /\ UNCHANGED rootDisk
  BY Zenon DEF CopyDisk, At
<1>1. ImgInv /\ pc[p] \in Making /\ "commit" \in Making /\ got[p] \in Digests
  BY <1>0, Zenon DEF Inv, Making, ImgInv, Has
<1>2. CASE rootDisk' = [rootDisk EXCEPT ![p] = got[p]] /\ Goto(p, "commit") /\ UNCHANGED lockVars
  <2>1. owned[p] = {"lock", "dir", "ca"} /\ nameLock = p
    BY <1>0, <1>1, Zenon DEF ImgInv, Made
  <2>2. PICK o \in SUBSET {"lock", "dir", "ca"} : o = owned[p] /\ o = {"lock", "dir", "ca"}
    BY <2>1, Zenon
  <2>3. owned' = [owned EXCEPT ![p] = o]
    BY <1>0, <1>1, <2>2, Zenon DEF ImgInv, ImgTypes, TCreate
  <2>4. nameLock' = IF "commit" = "failed" THEN None ELSE p
    BY <1>0, <2>1, Zenon
  <2>5. PICK l \in Making : l = "commit"
    BY <1>1, Zenon
  <2> QED BY <1>0, <1>1, <1>2, <2>2, <2>3, <2>4, <2>5, Makes, Zenon
<1>3. CASE Fail(p) /\ UNCHANGED rootDisk
  BY <1>0, <1>1, <1>3, MakingFails, Zenon DEF createVars
<1> QED BY <1>0, <1>2, <1>3, Zenon

\* Drop of the guard: nothing is left.
LEMMA RollbackStep == ASSUME Inv, NEW p \in Procs, Rollback(p) PROVE Inv'
<1>0. /\ pc[p] = "rollback" /\ Goto(p, "failed") /\ nameLock' = None
      /\ owned' = [owned EXCEPT ![p] = {}] /\ rootDisk' = [rootDisk EXCEPT ![p] = None]
      /\ UNCHANGED <<envVars, cacheVars, dbVars, lockVars, localVars>>
  BY Zenon DEF Rollback, At
<1>1. PICK o \in SUBSET {"lock", "dir", "ca"} : o = {}
  BY Zenon
<1>2. PICK l \in Making \cup {"failed"} : l = "failed" /\ l \notin Making
  BY DEF Making
<1> QED BY <1>0, <1>1, <1>2, Makes, Zenon

\* add_machine_with_rootfs: everything a machine has is there, and its manifest is in the table.
LEMMA CommitStep == ASSUME Inv, NEW p \in Procs, Commit(p) PROVE Inv'
<1>0. /\ pc[p] = "commit"
      /\ UNCHANGED <<envVars, cacheVars, refRow, manifests, artifacts, owned, rootDisk, localVars>>
      /\ \/ /\ got[p] \in manifests /\ machineRow' = [machineRow EXCEPT ![p] = got[p]]
            /\ Goto(p, "done") /\ nameLock' = None /\ UNCHANGED lockVars
         \/ Fail(p) /\ UNCHANGED <<machineRow, nameLock>>
  BY Zenon DEF Commit, At
<1>1. ImgInv /\ pc[p] \in Making
  BY <1>0, Zenon DEF Inv, Making
<1>2. CASE /\ got[p] \in manifests /\ machineRow' = [machineRow EXCEPT ![p] = got[p]]
           /\ Goto(p, "done") /\ nameLock' = None /\ UNCHANGED lockVars
  <2>1. "done" \in Loc /\ got[p] \in Digests
    BY <1>1, <1>2, Zenon DEF Loc, ImgInv, ImgTypes, TDb
  <2>2. pc' \in [Procs -> Loc] /\ pc'[p] = "done" /\ \A q \in Procs : q # p => pc'[q] = pc[q]
    BY <1>2, <2>1, Goes, Zenon
  <2>3. /\ machineRow' \in [Procs -> Digests \cup {None}] /\ machineRow'[p] = got[p]
        /\ \A q \in Procs : q # p => machineRow'[q] = machineRow[q]
    BY <1>1, <1>2, <2>1, Zenon DEF ImgInv, ImgTypes, TDb
  <2>4. TDb' /\ Tables'
    BY <1>0, <1>1, <1>2, <2>3, Zenon DEF ImgInv, ImgTypes, TDb, Tables
  <2>5. TCreate'
    BY <1>0, <1>1, <1>2, Zenon DEF ImgInv, ImgTypes, TCreate
  <2>6. nameLock = p /\ owned[p] = {"lock", "dir", "ca"} /\ rootDisk[p] = got[p]
    BY <1>0, <1>1, Zenon DEF ImgInv, Made
  <2>7. \A q \in Procs : q # p => pc[q] \notin Making \cup {"rollback"}
    BY <1>1, <2>6, Zenon DEF ImgInv, Made
  <2>8. Made'
    BY <1>0, <1>1, <1>2, <2>2, <2>3, <2>6, <2>7, ImgAssumption, SMTT(30) DEF ImgInv, Made, Making, Early, localVars
  <2>9. Names'
    BY <1>0, <1>1, <2>2, <2>3, <2>7, ZenonT(30) DEF ImgInv, Names, op, envVars
  <2> QED BY <1>0, <1>1, <1>2, <2>4, <2>5, <2>8, <2>9, MakingGoes, Zenon DEF Making
<1>3. CASE Fail(p) /\ UNCHANGED <<machineRow, nameLock>>
  BY <1>0, <1>1, <1>3, MakingFails, Zenon DEF createVars, dbVars
<1> QED BY <1>0, <1>2, <1>3, Zenon

\* A process dies: its locks are gone, what it made stays.
LEMMA ImgCrashStep == ASSUME Inv, NEW p \in Procs, ImgCrash(p) PROVE Inv'
<1>0. /\ pc[p] \notin {"start", "done", "failed", "crashed"} /\ ReleaseLocks(p) /\ Goto(p, "crashed")
      /\ nameLock' = IF nameLock = p THEN None ELSE nameLock
      /\ UNCHANGED <<envVars, cacheVars, dbVars, owned, rootDisk, localVars>>
  BY Zenon DEF ImgCrash
<1>1. ImgInv /\ "crashed" \in Loc
  BY Zenon DEF Inv, Loc
<1>2. pc' \in [Procs -> Loc] /\ pc'[p] = "crashed" /\ \A q \in Procs : q # p => pc'[q] = pc[q]
  BY <1>0, <1>1, Goes, Zenon
<1>3. TLocks' /\ Locks' /\ (indexLock' = indexLock \/ indexLock = p)
  BY <1>0, <1>1, Releases, Zenon DEF localVars
<1>4. TEnv' /\ TCache' /\ TDb' /\ Tables' /\ Blobs'
  BY <1>0, Frames, Zenon DEF cacheVars
<1>5. TLocal'
  BY <1>0, <1>1, KeepsLocals, Zenon
<1>6. TCreate'
  BY <1>0, <1>1, Zenon DEF ImgInv, ImgTypes, TCreate
<1>7. p \in DOMAIN imgScope.ops
  BY <1>0, <1>1, Zenon DEF ImgInv, Has
<1>8. Torn' /\ Index' /\ Has'
  BY <1>0, <1>1, <1>3, <1>7, OthersKeep, Zenon DEF Making, envVars, cacheVars, localVars
<1>9. Made'
  <2>1. machineRow[p] = None
    BY <1>0, <1>1, Zenon DEF ImgInv, Made
  <2>2. \A q \in Procs : nameLock' = q <=> nameLock = q /\ q # p
    BY <1>0, ImgAssumption, Zenon
  <2> QED BY <1>0, <1>1, <1>2, <2>1, <2>2, ZenonT(30) DEF ImgInv, Made, Making, Early, dbVars, localVars
<1>10. Names'
  BY <1>0, <1>1, <1>2, Zenon DEF ImgInv, Names, op, Making, envVars, dbVars
<1> QED BY <1>3, <1>4, <1>5, <1>6, <1>8, <1>9, <1>10, Zenon DEF Inv, ImgInv, ImgTypes

\* The registry's tag moves: nothing here has changed.
LEMMA TagMovesStep == ASSUME Inv, TagMoves PROVE Inv'
<1>0. UNCHANGED <<imgScope, cacheVars, dbVars, createVars, lockVars, pc, localVars>>
  BY Zenon DEF TagMoves
<1>1. ImgInv
  BY Zenon DEF Inv
<1>2. TEnv'
  BY <1>0, <1>1, Zenon DEF TagMoves, ImgInv, ImgTypes, TEnv
<1>3. TCache' /\ TDb' /\ TLocks' /\ TLocal' /\ Blobs' /\ Tables'
  BY <1>0, Frames, Zenon DEF cacheVars
<1>4. Torn' /\ Locks'
  BY <1>0, <1>1, Zenon DEF ImgInv, Torn, Locks, cacheVars, lockVars, localVars
<1> QED BY <1>0, <1>2, <1>3, <1>4, Stays, Zenon DEF cacheVars, dbVars, lockVars, localVars

-----------------------------------------------------------------------------
\* The invariant holds of an empty cache.
LEMMA ImgInitially == ASSUME ImgInit PROVE ImgInv
<1>1. imgScope \in ImgScopes /\ imgScope.tags \in [Refs -> Digests]
  BY ImgAssumption, Zenon DEF ImgInit
<1>2. TEnv /\ TDb /\ TCreate /\ TLocks
  BY <1>1, Zenon DEF ImgInit, TEnv, TDb, TCreate, TLocks
<1>3. TCache
  <2>1. \A l \in Layers : blobPart[l] = NoPart
    BY Zenon DEF ImgInit, NoPart
  <2>2. blobPart \in [Layers -> Part]
    <3>1. blobPart = [l \in Layers |-> NoPart]
      BY Zenon DEF ImgInit, NoPart
    <3> QED BY <3>1, NoPartTyped, Zenon
  <2> QED BY <2>2, Zenon DEF ImgInit, TCache, Part
<1>4. tagIndex \in [Refs -> Digests \cup {None}]
  BY <1>3, Zenon DEF TCache
<1>5. /\ pc \in [Procs -> Loc] /\ \A p \in Procs : pc[p] \in {"start", "done"}
      /\ \A p \in Procs : pc[p] # "done" => p \in DOMAIN imgScope.ops
  BY Zenon DEF ImgInit, Loc, Early
<1>6. TLocal
  <2>1. copy \in [Procs -> [Refs -> Digests \cup {None}]]
    BY <1>4, Zenon DEF ImgInit
  <2>2. got \in [Procs -> Digests \cup {None}] /\ todo \in [Procs -> SUBSET Layers]
        /\ victims \in [Procs -> SUBSET Digests]
    BY Zenon DEF ImgInit
  <2> QED BY <1>5, <2>1, <2>2, Zenon DEF TLocal
<1>7. Blobs
  BY Zenon DEF ImgInit, Blobs
<1>8. Torn
  BY Zenon DEF ImgInit, Torn, None
<1>9. Index /\ Has
  BY <1>5, Zenon DEF ImgInit, Index, Has, Making
<1>10. Tables
  BY Zenon DEF ImgInit, Tables
<1>11. Made
  <2>1. nameLock = None /\ \A p \in Procs : owned[p] = {} /\ rootDisk[p] = None /\ machineRow[p] = None
    BY Zenon DEF ImgInit
  <2> QED BY <1>5, <2>1, ImgAssumption, Zenon DEF Made, Making
<1>12. Names /\ Locks
  BY ImgAssumption, Zenon DEF ImgInit, Names, Locks
<1> QED BY <1>2, <1>3, <1>6, <1>7, <1>8, <1>9, <1>10, <1>11, <1>12, Zenon DEF ImgInv, ImgTypes

\* Every step of an operation keeps the invariant.
LEMMA ImgStepInv == ASSUME Inv, NEW p \in Procs, ImgStep(p) PROVE Inv'
BY GetCachedStep, ResolveStep, LockImageStep, PublishStep, ReadIndexStep, WriteIndexStep,
   TakeLayerStep, ChunkStep, LayerEndsStep, LayerBreaksStep, ReadMetadataStep, SaveImageStep,
   GuardStep, PrepareStep, CopyDiskStep, CommitStep, RollbackStep, EnsureRemovableStep,
   RemoveRefStep, PruneSelectStep, PruneDirStep, PruneManifestsStep, Zenon
DEF ImgStep

\* A step that changes nothing keeps the invariant.
LEMMA ImgStutters == ASSUME ImgInv, UNCHANGED imgVars PROVE ImgInv'
<1>0. UNCHANGED <<envVars, cacheVars, dbVars, createVars, lockVars, pc, localVars>>
  BY Zenon DEF imgVars, envVars, cacheVars, dbVars, createVars, lockVars, localVars
<1>1. TEnv' /\ TCache' /\ TDb' /\ TLocks' /\ TLocal' /\ Blobs' /\ Tables'
  BY <1>0, Frames, Zenon DEF Inv, cacheVars
<1>2. Torn' /\ Locks'
  BY <1>0, Zenon DEF ImgInv, Torn, Locks, cacheVars, lockVars, localVars
<1> QED BY <1>0, <1>1, <1>2, Stays, Zenon DEF Inv, envVars, cacheVars, dbVars, lockVars, localVars

(***************************************************************************)
(* The inductive invariant holds of every behaviour of the image cache and  *)
(* of machine creation, for any number of processes, images and layers.     *)
(***************************************************************************)
THEOREM ImagesInvariant == ImgSpec => []ImgInv
<1>1. ASSUME ImgInv, ImgNext PROVE ImgInv'
  BY <1>1, ImgStepInv, ImgCrashStep, TagMovesStep, Zenon DEF Inv, ImgNext
<1>2. ImgInv /\ [ImgNext]_imgVars => ImgInv'
  BY <1>1, ImgStutters, Zenon
<1> QED BY ImgInitially, <1>2, PTL DEF ImgSpec

(***************************************************************************)
(* The cache and the tables are sound (CacheIsSound): promoted blobs have    *)
(* the bytes of their digest, only a prune leaves a directory half removed,  *)
(* no tag write of two processes that rewrite the index is lost, and every   *)
(* row refers to a manifest of the table.                                    *)
(***************************************************************************)
THEOREM CacheAlwaysSound == ImgSpec => []CacheIsSound
<1>1. ASSUME ImgInv PROVE CacheIsSound
  <2>1. \A l \in Layers : blob[l] # "bad"
    BY <1>1, Zenon DEF ImgInv, Blobs, None
  <2>2. {refRow[r] : r \in Refs} \cup {machineRow[p] : p \in Procs} \cup artifacts \subseteq manifests \cup {None}
    BY <1>1, Zenon DEF ImgInv, Tables
  <2> QED BY <1>1, <2>1, <2>2, Zenon DEF CacheIsSound, ImgInv, Torn, Index
<1> QED BY <1>1, ImagesInvariant, PTL

(***************************************************************************)
(* A machine is created whole or not at all (CreatedWhole): what is          *)
(* committed has its lock, directory, CA and the root disk of the manifest   *)
(* it pins and a name of its own, what failed has nothing and no lock.       *)
(***************************************************************************)
THEOREM MachinesCreatedWhole == ImgSpec => []CreatedWhole
<1>1. ASSUME ImgInv PROVE CreatedWhole
  <2>1. \A p \in Procs : machineRow[p] # None => owned[p] = {"lock", "dir", "ca"} /\ rootDisk[p] = machineRow[p]
    BY <1>1, Zenon DEF ImgInv, Made
  <2>2. \A p, q \in Procs : machineRow[p] # None /\ machineRow[q] # None /\ p # q => op(p).name # op(q).name
    BY <1>1, Zenon DEF ImgInv, Names
  <2>3. ASSUME NEW p \in Procs, At(p, "failed")
        PROVE  /\ owned[p] = {} /\ rootDisk[p] = None /\ nameLock # p
               /\ p \notin {imageLock[d] : d \in Digests} \cup {blobLock[l] : l \in Layers}
    BY <1>1, <2>3, Zenon DEF ImgInv, Made, Locks, Making, At
  <2> QED BY <2>1, <2>2, <2>3, Zenon DEF CreatedWhole
<1> QED BY <1>1, ImagesInvariant, PTL

=============================================================================
