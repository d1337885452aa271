--------------------------- MODULE ModsUpdateProofs ---------------------------
(***************************************************************************)
(* The safety of ModsUpdate for any set of mods and any clock.             *)
(***************************************************************************)
EXTENDS ModsUpdate, TLAPS

\* A job that is not running is a job.
LEMMA NoJobType ==
  ASSUME NEW pc \in {"off", "boot", "idle", "check", "verify"}
  PROVE  NoJob(pc) \in Job
BY ModsAssumption DEF NoJob, Job, Times, NotCached

LEMMA InitInv == Init => ModsInv
<1> SUFFICES ASSUME Init PROVE ModsInv
  OBVIOUS
<1> USE ModsAssumption DEF Init, Times, NotCached, Absent, Partial
<1>1. TypeOK
  <2>1. EmptyCache \in Cache
    BY DEF EmptyCache, Cache
  <2>2. job \in Job
    BY NoJobType
  <2>3. cache \in Cache /\ file \in CacheFile
    BY <2>1 DEF CacheFile
  <2>4. disk \in [Mods -> Times \cup {Absent, Partial}]
    OBVIOUS
  <2>5. clock \in Times /\ published \in [Mods -> Times]
    OBVIOUS
  <2> QED
    BY <2>2, <2>3, <2>4, <2>5 DEF TypeOK
<1>2. VersionsInOrder
  <2> SUFFICES ASSUME NEW m \in Mods
               PROVE  /\ disk[m] <= published[m] /\ published[m] <= clock
                      /\ cache.updated[m] <= clock /\ file.cache.updated[m] <= clock
                      /\ job.got[m] <= clock
    BY DEF VersionsInOrder
  <2>1. disk[m] \in {Absent, Partial, 0, 1} /\ published[m] = 1
    OBVIOUS
  <2>2. EmptyCache.updated[m] = -1 /\ NoJob("off").got[m] = -1
    BY DEF EmptyCache, NoJob
  <2> QED
    BY <2>1, <2>2
<1>3. FileFollowsCache
  BY DEF FileFollowsCache, NoJob
<1>4. CurrentIsInstalled
  BY DEF CurrentIsInstalled, Believed, EmptyCache
<1>5. UpdateSuccessMeansInstalled /\ DownloadInProgress /\ VerificationInProgress
  BY DEF UpdateSuccessMeansInstalled, Prepared, DownloadInProgress,
         VerificationInProgress, NoJob
<1> QED
  BY <1>1, <1>2, <1>3, <1>4, <1>5 DEF ModsInv, NoJob

\* Every action preserves the types.
LEMMA TypeStep == ASSUME TypeOK, DownloadInProgress, [Next]_vars PROVE TypeOK'
<1> USE ModsAssumption DEF TypeOK, Times, NotCached, Absent, Partial
<1>1. ASSUME NEW m \in Mods, Publish(m) PROVE TypeOK'
  BY <1>1 DEF Publish
<1>2. CASE CreateCache
  <2>1. job' \in Job
    BY <1>2, NoJobType DEF CreateCache
  <2>2. cache' \in Cache /\ rebuilt' \in SUBSET Mods
    <3>1. CASE LoadCache
      BY <3>1 DEF LoadCache, Cache, CacheFile
    <3>2. CASE BuildCacheFromModsDirectory
      BY <3>2 DEF BuildCacheFromModsDirectory, Cache
    <3> QED
      BY <1>2, <3>1, <3>2 DEF CreateCache
  <2>3. file' \in CacheFile
    BY <1>2 DEF CreateCache, CacheFile
  <2> QED
    BY <1>2, <2>1, <2>2, <2>3 DEF CreateCache
<1>3. CASE SaveCacheEnds
  BY <1>3 DEF SaveCacheEnds, Answer, CacheFile, Job
<1>4. CASE RemoveTornFile
  BY <1>4 DEF RemoveTornFile, CacheFile, EmptyCache, Cache
<1>5. CASE Crash
  <2>1. job' \in Job
    BY <1>5, NoJobType DEF Crash
  <2> QED
    BY <1>5, <2>1 DEF Crash, EmptyCache, Cache
<1>6. ASSUME NEW kind \in {"start", "modset", "all", "verify"},
             NEW mods \in SUBSET Mods, BeginJob(kind, mods)
      PROVE  TypeOK'
  <2>1. job' \in Job
    <3> DEFINE pc == IF kind = "verify" THEN "verify" ELSE "check"
               located == {m \in mods : Located(m)}
    <3>1. NoJob(pc) \in Job
      BY NoJobType
    <3>2. located \in SUBSET Mods
      OBVIOUS
    <3>3. job' = [NoJob(pc) EXCEPT !.kind = kind, !.mods = mods,
                    !.todo = mods, !.located = located]
      BY <1>6 DEF BeginJob
    <3> HIDE DEF pc, located
    <3> QED
      BY ONLY <3>1, <3>2, <3>3 DEF Job
  <2> QED
    BY <1>6, <2>1 DEF BeginJob
<1>7. CASE CheckModsUpdated
  BY <1>7 DEF CheckModsUpdated, ToUpdate, Job
<1>8. CASE EnsureConnected
  BY <1>8 DEF EnsureConnected, Job
<1>9. ASSUME NEW m \in Mods, StartDownload(m) PROVE TypeOK'
  BY <1>9 DEF StartDownload, Job
<1>10. CASE FinishDownload
  <2> DEFINE got == [job.got EXCEPT ![job.mod] = clock]
  <2>1. got \in [Mods -> Times \cup {NotCached}]
    BY DEF Job
  <2>2. job' = [job EXCEPT !.pc = "download", !.mod = None,
                           !.todo = @ \ {job.mod}, !.got = got]
    BY <1>10 DEF FinishDownload
  <2> HIDE DEF got
  <2>3. job' \in Job
    BY <2>1, <2>2 DEF Job
  <2>4. disk' \in [Mods -> Times \cup {Absent, Partial}]
    BY <1>10 DEF FinishDownload, Job
  <2>5. raced' \subseteq Mods /\ rebuilt' \subseteq Mods
    BY <1>10 DEF FinishDownload, DownloadInProgress, Job
  <2> QED
    BY <1>10, <2>3, <2>4, <2>5 DEF FinishDownload
<1>11. CASE Throw
  BY <1>11 DEF Throw, Answer, Job
<1>12. CASE AddOrUpdateModsInCache
  BY <1>12 DEF AddOrUpdateModsInCache, Job, Cache, CacheFile
<1>13. ASSUME NEW m \in Mods, GetManifest(m) PROVE TypeOK'
  BY <1>13 DEF GetManifest, Job
<1>14. CASE RemoveRedundantFiles
  BY <1>14 DEF RemoveRedundantFiles, Job
<1>15. ASSUME NEW m \in Mods, SkipMod(m) PROVE TypeOK'
  BY <1>15 DEF SkipMod, Job
<1>16. CASE FinishVerification
  BY <1>16 DEF FinishVerification, Answer, Job
<1>17. CASE UNCHANGED vars
  BY <1>17 DEF vars
<1> QED
  BY <1>1, <1>2, <1>3, <1>4, <1>5, <1>6, <1>7, <1>8, <1>9, <1>10, <1>11,
     <1>12, <1>13, <1>14, <1>15, <1>16, <1>17 DEF Next

\* What is left of the inductive invariant once the types are known.
LEMMA SafetyStep == ASSUME ModsInv, TypeOK', [Next]_vars PROVE ModsInv'
<1> USE ModsAssumption DEF ModsInv, TypeOK, Job, Cache, CacheFile, Times,
          NotCached, Absent, Partial
<1>1. ASSUME NEW m \in Mods, Publish(m) PROVE ModsInv'
  <2>1. VersionsInOrder'
    BY <1>1 DEF Publish, VersionsInOrder
  <2>2. FileFollowsCache'
    BY <1>1 DEF Publish, FileFollowsCache
  <2>3. CurrentIsInstalled'
    BY <1>1 DEF Publish, CurrentIsInstalled, Believed, VersionsInOrder
  <2>4. UpdateSuccessMeansInstalled'
    BY <1>1 DEF Publish, UpdateSuccessMeansInstalled, Prepared
  <2>5. DownloadInProgress'
    BY <1>1 DEF Publish, DownloadInProgress, VersionsInOrder
  <2>6. VerificationInProgress'
    BY <1>1 DEF Publish, VerificationInProgress, VersionsInOrder
  <2>7. (job.pc # "idle" => job.answer = "none")'
    BY <1>1 DEF Publish
  <2> QED
    BY <2>1, <2>2, <2>3, <2>4, <2>5, <2>6, <2>7
<1>2. CASE CreateCache
  <2>1. VersionsInOrder'
    BY <1>2 DEF CreateCache, LoadCache, BuildCacheFromModsDirectory, NoJob,
       VersionsInOrder
  <2>2. FileFollowsCache'
    BY <1>2 DEF CreateCache, NoJob, FileFollowsCache
  <2>3. CurrentIsInstalled'
    BY <1>2 DEF CreateCache, LoadCache, BuildCacheFromModsDirectory,
       CurrentIsInstalled, Believed
  <2>4. UpdateSuccessMeansInstalled'
    BY <1>2 DEF CreateCache, NoJob, UpdateSuccessMeansInstalled
  <2>5. DownloadInProgress'
    BY <1>2 DEF CreateCache, NoJob, DownloadInProgress
  <2>6. VerificationInProgress'
    BY <1>2 DEF CreateCache, NoJob, VerificationInProgress
  <2>7. (job.pc # "idle" => job.answer = "none")'
    BY <1>2 DEF CreateCache, NoJob
  <2> QED
    BY <2>1, <2>2, <2>3, <2>4, <2>5, <2>6, <2>7
<1>3. CASE SaveCacheEnds
  <2>1. VersionsInOrder'
    BY <1>3 DEF SaveCacheEnds, Answer, VersionsInOrder
  <2>2. FileFollowsCache'
    BY <1>3 DEF SaveCacheEnds, Answer, FileFollowsCache
  <2>3. CurrentIsInstalled'
    BY <1>3 DEF SaveCacheEnds, CurrentIsInstalled, Believed
  <2>4. UpdateSuccessMeansInstalled'
    BY <1>3 DEF SaveCacheEnds, Answer, UpdateSuccessMeansInstalled, Prepared,
       DownloadInProgress
  <2>5. DownloadInProgress'
    BY <1>3 DEF SaveCacheEnds, Answer, DownloadInProgress
  <2>6. VerificationInProgress'
    BY <1>3 DEF SaveCacheEnds, Answer, VerificationInProgress
  <2>7. (job.pc # "idle" => job.answer = "none")'
    BY <1>3 DEF SaveCacheEnds, Answer
  <2> QED
    BY <2>1, <2>2, <2>3, <2>4, <2>5, <2>6, <2>7
<1>4. CASE RemoveTornFile
  <2>1. VersionsInOrder'
    BY <1>4 DEF RemoveTornFile, EmptyCache, VersionsInOrder
  <2>2. FileFollowsCache'
    BY <1>4 DEF RemoveTornFile, FileFollowsCache
  <2>3. CurrentIsInstalled'
    BY <1>4 DEF RemoveTornFile, CurrentIsInstalled, Believed
  <2>4. UpdateSuccessMeansInstalled'
    BY <1>4 DEF RemoveTornFile, UpdateSuccessMeansInstalled, Prepared
  <2>5. DownloadInProgress'
    BY <1>4 DEF RemoveTornFile, DownloadInProgress
  <2>6. VerificationInProgress'
    BY <1>4 DEF RemoveTornFile, VerificationInProgress
  <2>7. (job.pc # "idle" => job.answer = "none")'
    BY <1>4 DEF RemoveTornFile
  <2> QED
    BY <2>1, <2>2, <2>3, <2>4, <2>5, <2>6, <2>7
<1>5. CASE Crash
  <2>1. VersionsInOrder'
    BY <1>5 DEF Crash, NoJob, EmptyCache, VersionsInOrder
  <2>2. FileFollowsCache'
    BY <1>5 DEF Crash, NoJob, FileFollowsCache
  <2>3. CurrentIsInstalled'
    BY <1>5 DEF Crash, EmptyCache, CurrentIsInstalled, Believed
  <2>4. UpdateSuccessMeansInstalled'
    BY <1>5 DEF Crash, NoJob, UpdateSuccessMeansInstalled
  <2>5. DownloadInProgress'
    BY <1>5 DEF Crash, NoJob, DownloadInProgress
  <2>6. VerificationInProgress'
    BY <1>5 DEF Crash, NoJob, VerificationInProgress
  <2>7. (job.pc # "idle" => job.answer = "none")'
    BY <1>5 DEF Crash, NoJob
  <2> QED
    BY <2>1, <2>2, <2>3, <2>4, <2>5, <2>6, <2>7
<1>6. ASSUME NEW kind \in {"start", "modset", "all", "verify"},
             NEW mods \in SUBSET Mods, BeginJob(kind, mods)
      PROVE  ModsInv'
  <2>0. /\ UNCHANGED <<clock, published, disk, file, cache, raced, rebuilt>>
        /\ job.pc = "idle" /\ job'.pc = IF kind = "verify" THEN "verify" ELSE "check"
        /\ job'.kind = kind /\ job'.answer = "none"
        /\ job'.got = [m \in Mods |-> NotCached]
    BY ONLY <1>6 DEF BeginJob, NoJob
  <2>1. VersionsInOrder'
    BY <2>0 DEF VersionsInOrder
  <2>2. FileFollowsCache'
    BY <2>0 DEF FileFollowsCache
  <2>3. CurrentIsInstalled'
    BY <2>0 DEF CurrentIsInstalled, Believed
  <2>4. UpdateSuccessMeansInstalled'
    BY <2>0 DEF UpdateSuccessMeansInstalled, Prepared
  <2>5. DownloadInProgress'
    BY <2>0 DEF DownloadInProgress
  <2>6. VerificationInProgress'
    BY <2>0 DEF VerificationInProgress
  <2>7. (job.pc # "idle" => job.answer = "none")'
    BY <2>0
  <2> QED
    BY <2>1, <2>2, <2>3, <2>4, <2>5, <2>6, <2>7
<1>7. CASE CheckModsUpdated
  <2> DEFINE outdated == {m \in job.mods : cache.updated[m] < published[m]}
  <2>0. /\ UNCHANGED <<clock, published, disk, file, cache, raced, rebuilt>>
        /\ job.pc = "check" /\ job'.mods = job.mods /\ job'.kind = job.kind
        /\ job'.pc \in {"idle", "connect"} /\ (job'.pc = "idle" => outdated = {})
        /\ (job'.answer = "none" <=> job'.pc = "connect")
        /\ job'.seen = published /\ job'.todo = outdated /\ job'.got = job.got
    BY ONLY <1>7, job \in Job DEF CheckModsUpdated, ToUpdate
  <2>1. VersionsInOrder'
    BY <2>0 DEF VersionsInOrder
  <2>2. FileFollowsCache'
    BY <2>0 DEF FileFollowsCache
  <2>3. CurrentIsInstalled'
    BY <2>0 DEF CurrentIsInstalled, Believed
  <2>4. UpdateSuccessMeansInstalled'
    BY <2>0 DEF UpdateSuccessMeansInstalled, Prepared, CurrentIsInstalled,
       Believed
  <2>5. DownloadInProgress'
    BY <2>0 DEF DownloadInProgress, CurrentIsInstalled, Believed
  <2>6. VerificationInProgress'
    BY <2>0 DEF VerificationInProgress
  <2>7. (job.pc # "idle" => job.answer = "none")'
    BY <2>0
  <2> QED
    BY <2>1, <2>2, <2>3, <2>4, <2>5, <2>6, <2>7
<1>8. CASE EnsureConnected
  <2>1. VersionsInOrder'
    BY <1>8 DEF EnsureConnected, VersionsInOrder
  <2>2. FileFollowsCache'
    BY <1>8 DEF EnsureConnected, FileFollowsCache
  <2>3. CurrentIsInstalled'
    BY <1>8 DEF EnsureConnected, CurrentIsInstalled, Believed
  <2>4. UpdateSuccessMeansInstalled'
    BY <1>8 DEF EnsureConnected, UpdateSuccessMeansInstalled, Prepared
  <2>5. DownloadInProgress'
    BY <1>8 DEF EnsureConnected, DownloadInProgress
  <2>6. VerificationInProgress'
    BY <1>8 DEF EnsureConnected, VerificationInProgress
  <2>7. (job.pc # "idle" => job.answer = "none")'
    BY <1>8 DEF EnsureConnected
  <2> QED
    BY <2>1, <2>2, <2>3, <2>4, <2>5, <2>6, <2>7
<1>9. ASSUME NEW m \in Mods, StartDownload(m) PROVE ModsInv'
  <2>1. VersionsInOrder'
    BY <1>9 DEF StartDownload, VersionsInOrder
  <2>2. FileFollowsCache'
    BY <1>9 DEF StartDownload, FileFollowsCache
  <2>3. CurrentIsInstalled'
    BY <1>9 DEF StartDownload, CurrentIsInstalled, Believed
  <2>4. UpdateSuccessMeansInstalled'
    BY <1>9 DEF StartDownload, UpdateSuccessMeansInstalled, Prepared
  <2>5. DownloadInProgress'
    BY <1>9 DEF StartDownload, DownloadInProgress
  <2>6. VerificationInProgress'
    BY <1>9 DEF StartDownload, VerificationInProgress
  <2>7. (job.pc # "idle" => job.answer = "none")'
    BY <1>9 DEF StartDownload
  <2> QED
    BY <2>1, <2>2, <2>3, <2>4, <2>5, <2>6, <2>7
<1>10. CASE FinishDownload
  <2>0. /\ UNCHANGED <<clock, published, file, cache>>
        /\ job.pc = "fetch" /\ job'.pc = "download" /\ job'.mods = job.mods
        /\ job'.seen = job.seen /\ job'.kind = job.kind /\ job'.answer = job.answer
        /\ job'.todo = job.todo \ {job.mod}
        /\ job'.got = [job.got EXCEPT ![job.mod] = clock]
        /\ disk' = [disk EXCEPT ![job.mod] = job.version]
        /\ raced' = IF job.version = published[job.mod]
                    THEN raced \ {job.mod} ELSE raced \cup {job.mod}
        /\ rebuilt' = rebuilt \ {job.mod}
    BY <1>10 DEF FinishDownload
  <2>8. job.mod \in Mods
    BY <2>0
  <2>1. VersionsInOrder'
    BY <2>0, <2>8 DEF VersionsInOrder, DownloadInProgress
  <2>2. FileFollowsCache'
    BY <2>0 DEF FileFollowsCache
  <2>3. CurrentIsInstalled'
    BY <2>0, <2>8 DEF CurrentIsInstalled, Believed
  <2>4. UpdateSuccessMeansInstalled'
    BY <2>0, <2>8 DEF UpdateSuccessMeansInstalled, Prepared
  <2>5. DownloadInProgress'
    BY <2>0, <2>8 DEF DownloadInProgress
  <2>6. VerificationInProgress'
    BY <2>0, <2>8 DEF VerificationInProgress
  <2>7. (job.pc # "idle" => job.answer = "none")'
    BY <2>0
  <2> QED
    BY <2>1, <2>2, <2>3, <2>4, <2>5, <2>6, <2>7
<1>11. CASE Throw
  <2>1. VersionsInOrder'
    BY <1>11 DEF Throw, Answer, VersionsInOrder
  <2>2. FileFollowsCache'
    BY <1>11 DEF Throw, Answer, FileFollowsCache
  <2>3. CurrentIsInstalled'
    BY <1>11 DEF Throw, CurrentIsInstalled, Believed
  <2>4. UpdateSuccessMeansInstalled'
    BY <1>11 DEF Throw, Answer, UpdateSuccessMeansInstalled, Prepared
  <2>5. DownloadInProgress'
    BY <1>11 DEF Throw, Answer, DownloadInProgress
  <2>6. VerificationInProgress'
    BY <1>11 DEF Throw, Answer, VerificationInProgress
  <2>7. (job.pc # "idle" => job.answer = "none")'
    BY <1>11 DEF Throw, Answer
  <2> QED
    BY <2>1, <2>2, <2>3, <2>4, <2>5, <2>6, <2>7
<1>12. CASE AddOrUpdateModsInCache
  <2>1. VersionsInOrder'
    BY <1>12 DEF AddOrUpdateModsInCache, VersionsInOrder
  <2>2. FileFollowsCache'
    BY <1>12 DEF AddOrUpdateModsInCache, FileFollowsCache
  <2>3. CurrentIsInstalled'
    BY <1>12 DEF AddOrUpdateModsInCache, CurrentIsInstalled, Believed,
       DownloadInProgress
  <2>4. UpdateSuccessMeansInstalled'
    BY <1>12 DEF AddOrUpdateModsInCache, UpdateSuccessMeansInstalled,
       DownloadInProgress
  <2>5. DownloadInProgress'
    BY <1>12 DEF AddOrUpdateModsInCache, DownloadInProgress
  <2>6. VerificationInProgress'
    BY <1>12 DEF AddOrUpdateModsInCache, VerificationInProgress
  <2>7. (job.pc # "idle" => job.answer = "none")'
    BY <1>12 DEF AddOrUpdateModsInCache
  <2> QED
    BY <2>1, <2>2, <2>3, <2>4, <2>5, <2>6, <2>7
<1>13. ASSUME NEW m \in Mods, GetManifest(m) PROVE ModsInv'
  <2>1. VersionsInOrder'
    BY <1>13 DEF GetManifest, VersionsInOrder
  <2>2. FileFollowsCache'
    BY <1>13 DEF GetManifest, FileFollowsCache
  <2>3. CurrentIsInstalled'
    BY <1>13 DEF GetManifest, CurrentIsInstalled, Believed
  <2>4. UpdateSuccessMeansInstalled'
    BY <1>13 DEF GetManifest, UpdateSuccessMeansInstalled, Prepared
  <2>5. DownloadInProgress'
    BY <1>13 DEF GetManifest, DownloadInProgress
  <2>6. VerificationInProgress'
    BY <1>13 DEF GetManifest, VerificationInProgress, VersionsInOrder
  <2>7. (job.pc # "idle" => job.answer = "none")'
    BY <1>13 DEF GetManifest
  <2> QED
    BY <2>1, <2>2, <2>3, <2>4, <2>5, <2>6, <2>7
<1>14. CASE RemoveRedundantFiles
  <2>1. VersionsInOrder'
    BY <1>14 DEF RemoveRedundantFiles, VersionsInOrder
  <2>2. FileFollowsCache'
    BY <1>14 DEF RemoveRedundantFiles, FileFollowsCache
  <2>3. CurrentIsInstalled'
    BY <1>14 DEF RemoveRedundantFiles, CurrentIsInstalled, Believed,
       FileFollowsCache, VerificationInProgress
  <2>4. UpdateSuccessMeansInstalled'
    BY <1>14 DEF RemoveRedundantFiles, UpdateSuccessMeansInstalled, Prepared
  <2>5. DownloadInProgress'
    BY <1>14 DEF RemoveRedundantFiles, DownloadInProgress
  <2>6. VerificationInProgress'
    BY <1>14 DEF RemoveRedundantFiles, VerificationInProgress
  <2>7. (job.pc # "idle" => job.answer = "none")'
    BY <1>14 DEF RemoveRedundantFiles
  <2> QED
    BY <2>1, <2>2, <2>3, <2>4, <2>5, <2>6, <2>7
<1>15. ASSUME NEW m \in Mods, SkipMod(m) PROVE ModsInv'
  <2>1. VersionsInOrder'
    BY <1>15 DEF SkipMod, VersionsInOrder
  <2>2. FileFollowsCache'
    BY <1>15 DEF SkipMod, FileFollowsCache
  <2>3. CurrentIsInstalled'
    BY <1>15 DEF SkipMod, CurrentIsInstalled, Believed
  <2>4. UpdateSuccessMeansInstalled'
    BY <1>15 DEF SkipMod, UpdateSuccessMeansInstalled, Prepared
  <2>5. DownloadInProgress'
    BY <1>15 DEF SkipMod, DownloadInProgress
  <2>6. VerificationInProgress'
    BY <1>15 DEF SkipMod, VerificationInProgress
  <2>7. (job.pc # "idle" => job.answer = "none")'
    BY <1>15 DEF SkipMod
  <2> QED
    BY <2>1, <2>2, <2>3, <2>4, <2>5, <2>6, <2>7
<1>16. CASE FinishVerification
  <2>1. VersionsInOrder'
    BY <1>16 DEF FinishVerification, Answer, VersionsInOrder
  <2>2. FileFollowsCache'
    BY <1>16 DEF FinishVerification, Answer, FileFollowsCache
  <2>3. CurrentIsInstalled'
    BY <1>16 DEF FinishVerification, CurrentIsInstalled, Believed
  <2>4. UpdateSuccessMeansInstalled'
    BY <1>16 DEF FinishVerification, Answer, UpdateSuccessMeansInstalled,
       Prepared, VerificationInProgress
  <2>5. DownloadInProgress'
    BY <1>16 DEF FinishVerification, Answer, DownloadInProgress
  <2>6. VerificationInProgress'
    BY <1>16 DEF FinishVerification, Answer, VerificationInProgress
  <2>7. (job.pc # "idle" => job.answer = "none")'
    BY <1>16 DEF FinishVerification, Answer
  <2> QED
    BY <2>1, <2>2, <2>3, <2>4, <2>5, <2>6, <2>7
<1>17. CASE UNCHANGED vars
  BY <1>17 DEF vars, VersionsInOrder, FileFollowsCache, CurrentIsInstalled,
     Believed, UpdateSuccessMeansInstalled, Prepared, DownloadInProgress,
     VerificationInProgress
<1> QED
  BY <1>1, <1>2, <1>3, <1>4, <1>5, <1>6, <1>7, <1>8, <1>9, <1>10, <1>11, <1>12,
     <1>13, <1>14, <1>15, <1>16, <1>17 DEF Next

\* The inductive invariant holds of every behaviour.
THEOREM ModsSafety == Spec => []ModsInv
<1>1. ModsInv /\ [Next]_vars => ModsInv'
  BY TypeStep, SafetyStep DEF ModsInv
<1> QED
  BY InitInv, <1>1, PTL DEF Spec

\* Whatever stops or fails, a mod that the cache takes for current is there,
\* complete and of the newest version, if the manager downloaded it and no
\* version came out meanwhile.
THEOREM CachedModsAreInstalled == Spec => []CurrentIsInstalled
<1>1. ModsInv => CurrentIsInstalled
  BY DEF ModsInv
<1> QED
  BY ModsSafety, <1>1, PTL

\* A successful update of a modset leaves each of its mods (downloaded by the
\* manager, not overtaken by a new version) at least as new as what Steam
\* reported when the update began.
THEOREM SuccessfulUpdatesInstall == Spec => []UpdateSuccessMeansInstalled
<1>1. ModsInv => UpdateSuccessMeansInstalled
  BY DEF ModsInv
<1> QED
  BY ModsSafety, <1>1, PTL
=============================================================================
