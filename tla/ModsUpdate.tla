------------------------------ MODULE ModsUpdate ------------------------------
(***************************************************************************)
(* The workshop mods of the manager: what the cache (ModsCache, in memory  *)
(* and in its JSON file) believes about each mod, what is really in the    *)
(* mods directory, and the jobs that compare the two with the Steam        *)
(* workshop (ModsManager, ContentDownloader, ContentVerifier).  Authors    *)
(* publish new versions whenever they like; the manager may stop between   *)
(* any two steps.                                                          *)
(*                                                                         *)
(* A version is named by the time it was published.  One job runs at a     *)
(* time: Hangfire has a single worker (see JobsQueue).                     *)
(***************************************************************************)
EXTENDS Integers

CONSTANTS
  Mods,     \* workshop mods
  MaxTime,  \* a bound on the clock, which advances when a version is published
  None

ASSUME ModsAssumption == MaxTime \in Nat \ {0} /\ None \notin Mods

Times == 0..MaxTime

\* In place of a version: no directory, a directory with files of no or of
\* several versions.  In place of LastUpdatedAt: a mod that is not cached.
Absent == -2
Partial == -1
NotCached == -1

VARIABLES
  clock,      \* DateTime.Now
  published,  \* the newest version of each mod
  disk,       \* what the directory of each mod holds
  file,       \* the cache file
  cache,      \* _mods of the ModsCache of the manager
  job,        \* the job in progress and, once it is over, its result
  raced,      \* history: mods a version of which came out during their last download
  rebuilt     \* history: mods cached because their directory was there

vars == <<clock, published, disk, file, cache, job, raced, rebuilt>>

\* found: the mods whose Directory is not null.
Cache == [updated : [Mods -> Times \cup {NotCached}], found : SUBSET Mods]

EmptyCache == [updated |-> [m \in Mods |-> NotCached], found |-> {}]

CacheFile == [state : {"missing", "torn", "saved"}, cache : Cache]

\* located: the mods of the mapped modset that have a directory.
\* seen: the versions GetPublishedFileDetails returned.
\* got: LastUpdatedAt of the mods downloaded.
Job == [pc : {"off", "boot", "idle", "check", "connect", "download",
              "fetch", "save", "verify", "compare"},
        kind : {"start", "modset", "all", "verify", None},
        mods : SUBSET Mods, located : SUBSET Mods, seen : [Mods -> Times],
        todo : SUBSET Mods, mod : Mods \cup {None}, version : Times,
        got : [Mods -> Times \cup {NotCached}],
        answer : {"none", "success", "failure"}]

NoJob(pc) == [pc |-> pc, kind |-> None, mods |-> {}, located |-> {},
              seen |-> [m \in Mods |-> 0], todo |-> {}, mod |-> None,
              version |-> 0, got |-> [m \in Mods |-> NotCached],
              answer |-> "none"]

Cached(c) == {m \in Mods : c.updated[m] # NotCached}

-----------------------------------------------------------------------------

\* A new version appears in the workshop.
Publish(m) ==
  /\ clock < MaxTime
  /\ clock' = clock + 1
  /\ published' = [published EXCEPT ![m] = clock + 1]
  /\ UNCHANGED <<disk, file, cache, job, raced, rebuilt>>

Answer(answer) == job' = [job EXCEPT !.pc = "idle", !.answer = answer]

-----------------------------------------------------------------------------
(***************************************************************************)
(* ModsCache.                                                              *)
(***************************************************************************)

\* LoadCache with FilterOutNonExistingMods.
LoadCache ==
  LET exists == {m \in file.cache.found : disk[m] # Absent}
  IN /\ job.pc = "off" /\ file.state = "saved"
     /\ cache' = [updated |-> [m \in Mods |-> IF m \in exists
                                 THEN file.cache.updated[m] ELSE NotCached],
                  found |-> exists]
     /\ rebuilt' = rebuilt

\* BuildCacheFromModsDirectory: LastUpdatedAt is the time something was last
\* created in or deleted from the directory.
BuildCacheFromModsDirectory ==
  LET exists == {m \in Mods : disk[m] # Absent}
  IN /\ job.pc = "off" /\ file.state = "missing"
     /\ \E written \in [Mods -> 0..clock] :
          cache' = [updated |-> [m \in Mods |-> IF m \in exists
                                   THEN written[m] ELSE NotCached],
                    found |-> exists]
     /\ rebuilt' = rebuilt \cup exists

\* The caches are constructed for the first job.  WriteAllText empties the
\* file before it writes it.
CreateCache ==
  /\ LoadCache \/ BuildCacheFromModsDirectory
  /\ job' = NoJob("boot")
  /\ file' = [file EXCEPT !.state = "torn"]
  /\ UNCHANGED <<clock, published, disk, raced>>

SaveCacheEnds ==
  /\ job.pc \in {"boot", "save"}
  /\ file' = [state |-> "saved", cache |-> cache]
  /\ Answer(IF job.pc = "save" THEN "success" ELSE "none")
  /\ UNCHANGED <<clock, published, disk, cache, raced, rebuilt>>

\* No cache can be constructed from a torn file: an operator removes it.
RemoveTornFile ==
  /\ job.pc = "off" /\ file.state = "torn"
  /\ file' = [state |-> "missing", cache |-> EmptyCache]
  /\ UNCHANGED <<clock, published, disk, cache, job, raced, rebuilt>>

\* The manager stops.
Crash ==
  /\ job.pc # "off"
  /\ job' = NoJob("off")
  /\ cache' = EmptyCache
  /\ UNCHANGED <<clock, published, disk, file, raced, rebuilt>>

-----------------------------------------------------------------------------
(***************************************************************************)
(* ModsManager and ContentDownloader.                                      *)
(***************************************************************************)

\* MapWebModToCacheMod: a cached mod has the directory, or the lack of one, of its
\* entry; that of any other is looked for.
Located(m) == IF m \in Cached(cache) THEN m \in cache.found ELSE disk[m] # Absent

\* MapWebModsetToCacheModset for a modset; all cached mods for the update of all.
BeginJob(kind, mods) ==
  /\ job.pc = "idle"
  /\ kind = "all" => mods = Cached(cache)
  /\ job' = [NoJob(IF kind = "verify" THEN "verify" ELSE "check") EXCEPT
       !.kind = kind, !.mods = mods, !.todo = mods,
       !.located = {m \in mods : Located(m)}]
  /\ UNCHANGED <<clock, published, disk, file, cache, raced, rebuilt>>

\* Mutant of ToUpdate: only cached mods are compared.
OnlyOutdated(mods) == {m \in mods \cap Cached(cache) : cache.updated[m] < published[m]}

\* Mods that are not in the cache, and those of it that are outdated.
ToUpdate(mods) == {m \in mods : cache.updated[m] < published[m]}

\* CheckModsUpdated and the early return of DownloadMods.
CheckModsUpdated ==
  /\ job.pc = "check"
  /\ job' = [job EXCEPT
       !.pc = IF ToUpdate(job.mods) = {} THEN "idle" ELSE "connect",
       !.answer = IF ToUpdate(job.mods) = {} THEN "success" ELSE "none",
       !.seen = published, !.todo = ToUpdate(job.mods)]
  /\ UNCHANGED <<clock, published, disk, file, cache, raced, rebuilt>>

EnsureConnected ==
  /\ job.pc = "connect"
  /\ job' = [job EXCEPT !.pc = "download"]
  /\ UNCHANGED <<clock, published, disk, file, cache, raced, rebuilt>>

\* The download handler is that of the newest version; files that are right
\* already stay.
StartDownload(m) ==
  /\ job.pc = "download" /\ m \in job.todo
  /\ job' = [job EXCEPT !.pc = "fetch", !.mod = m, !.version = published[m]]
  /\ disk' = [disk EXCEPT ![m] = IF @ = published[m] THEN @ ELSE Partial]
  /\ UNCHANGED <<clock, published, file, cache, raced, rebuilt>>

\* UpdateModData stamps the mod with the time its download ended.
FinishDownload ==
  LET m == job.mod
  IN /\ job.pc = "fetch"
     /\ job' = [job EXCEPT !.pc = "download", !.mod = None, !.todo = @ \ {m},
                           !.got[m] = clock]
     /\ disk' = [disk EXCEPT ![m] = job.version]
     /\ raced' = IF job.version = published[m] THEN raced \ {m} ELSE raced \cup {m}
     /\ rebuilt' = rebuilt \ {m}
     /\ UNCHANGED <<clock, published, file, cache>>

\* Mutant of Throw: the mod is cached although its download did not end.
SaveBeforeThrow ==
  /\ job.pc \in {"check", "connect", "download", "fetch", "verify", "compare"}
  /\ Answer("failure")
  /\ cache' = IF job.mod = None THEN cache
              ELSE [cache EXCEPT !.updated[job.mod] = clock]
  /\ UNCHANGED <<clock, published, disk, file, raced, rebuilt>>

\* Steam refuses, times out or no longer has the mod, or the job is deleted:
\* an exception ends the job, and what it downloaded is forgotten.
Throw ==
  /\ job.pc \in {"check", "connect", "download", "fetch", "verify", "compare"}
  /\ Answer("failure")
  /\ UNCHANGED <<clock, published, disk, file, cache, raced, rebuilt>>

\* AddOrUpdateModsInCache.  A mod that was cached keeps the directory, or the
\* lack of one, that its entry had; a new one has what the modset gave it.
AddOrUpdateModsInCache ==
  LET got == {m \in Mods : job.got[m] # NotCached}
  IN /\ job.pc = "download" /\ job.todo = {}
     /\ cache' = [updated |-> [m \in Mods |-> IF m \in got
                                 THEN job.got[m] ELSE cache.updated[m]],
                  found |-> cache.found \cup
                              ((got \cap job.located) \ Cached(cache))]
     /\ file' = [file EXCEPT !.state = "torn"]
     /\ job' = [job EXCEPT !.pc = "save"]
     /\ UNCHANGED <<clock, published, disk, raced, rebuilt>>

-----------------------------------------------------------------------------
(***************************************************************************)
(* ModsManager.VerifyMods and ContentVerifier.                             *)
(***************************************************************************)

\* GetManifest of a mod that has a directory.
GetManifest(m) ==
  /\ job.pc = "verify" /\ m \in job.todo \cap job.located
  /\ job' = [job EXCEPT !.pc = "compare", !.mod = m, !.version = published[m]]
  /\ UNCHANGED <<clock, published, disk, file, cache, raced, rebuilt>>

\* RemoveRedundantFiles deletes what the manifest does not list, which may
\* leave an older version incomplete.
RemoveRedundantFiles ==
  LET m == job.mod
  IN /\ job.pc = "compare"
     /\ job' = [job EXCEPT !.pc = "verify", !.mod = None, !.todo = @ \ {m}]
     /\ \/ disk' = disk
        \/ disk[m] # job.version /\ disk' = [disk EXCEPT ![m] = Partial]
     /\ UNCHANGED <<clock, published, file, cache, raced, rebuilt>>

\* A mod without a directory or a manifest counts as up to date.
SkipMod(m) ==
  /\ job.pc = "verify" /\ m \in job.todo
  /\ job' = [job EXCEPT !.todo = @ \ {m}]
  /\ UNCHANGED <<clock, published, disk, file, cache, raced, rebuilt>>

\* VerifyMods succeeds whatever it found.
FinishVerification ==
  /\ job.pc = "verify" /\ job.todo = {}
  /\ Answer("success")
  /\ UNCHANGED <<clock, published, disk, file, cache, raced, rebuilt>>

-----------------------------------------------------------------------------

Init ==
  /\ clock = 1
  /\ published = [m \in Mods |-> 1]
  /\ disk \in [Mods -> {Absent, Partial, 0, 1}]
  /\ file = [state |-> "missing", cache |-> EmptyCache]
  /\ cache = EmptyCache
  /\ job = NoJob("off")
  /\ raced = {} /\ rebuilt = {}

Next ==
  \/ \E m \in Mods : \/ Publish(m) \/ StartDownload(m)
                     \/ GetManifest(m) \/ SkipMod(m)
  \/ \E kind \in {"start", "modset", "all", "verify"}, mods \in SUBSET Mods :
       BeginJob(kind, mods)
  \/ CreateCache \/ SaveCacheEnds \/ RemoveTornFile \/ Crash
  \/ CheckModsUpdated \/ EnsureConnected \/ FinishDownload \/ Throw
  \/ AddOrUpdateModsInCache \/ RemoveRedundantFiles \/ FinishVerification

Spec == Init /\ [][Next]_vars

-----------------------------------------------------------------------------

TypeOK ==
  /\ clock \in Times
  /\ published \in [Mods -> Times]
  /\ disk \in [Mods -> Times \cup {Absent, Partial}]
  /\ file \in CacheFile
  /\ cache \in Cache
  /\ job \in Job
  /\ raced \subseteq Mods /\ rebuilt \subseteq Mods

\* What a cache says of a mod it holds, unless the mod was not downloaded by
\* the manager or a version came out while it was.
Believed(c) ==
  \A m \in Mods \ (raced \cup rebuilt) :
    c.updated[m] >= published[m] => disk[m] = published[m]

\* A mod that the manager would not download, now or after it stopped at any
\* point and started again, is complete and of the newest version.
CurrentIsInstalled == Believed(cache) /\ (file.state = "saved" => Believed(file.cache))

Prepared == job.answer = "success" /\ job.kind # "verify"

\* When an update reports success every mod of it is in its directory, in a
\* version no older than the one the update was asked to compare with.
UpdateSuccessMeansInstalled ==
  Prepared => \A m \in job.mods \ (raced \cup rebuilt) : disk[m] >= job.seen[m]

\* No stamp and no version is of the future.
VersionsInOrder ==
  \A m \in Mods :
    /\ disk[m] <= published[m] /\ published[m] <= clock
    /\ cache.updated[m] <= clock /\ file.cache.updated[m] <= clock
    /\ job.got[m] <= clock

\* While no cache is being saved the file holds what the memory holds.
FileFollowsCache ==
  CASE job.pc = "off" -> cache = EmptyCache
    [] job.pc \in {"boot", "save"} -> file.state = "torn"
    [] OTHER -> file = [state |-> "saved", cache |-> cache]

\* The mods still to download are outdated in the cache, the others of the
\* job are good enough, and no stamp covers up an old version.
DownloadInProgress ==
  /\ job.pc \in {"connect", "download", "fetch", "save"} =>
       /\ \A m \in Mods : job.seen[m] <= published[m]
       /\ \A m \in job.todo : cache.updated[m] < job.seen[m]
       /\ \A m \in job.mods \ (raced \cup rebuilt \cup job.todo) : disk[m] >= job.seen[m]
  /\ \A m \in Mods \ raced :
       /\ job.pc \in {"connect", "download", "fetch"}
       /\ job.got[m] # NotCached /\ job.got[m] >= published[m]
       => disk[m] = published[m]
  /\ job.pc = "save" => job.todo = {}
  /\ job.pc = "check" => \A m \in Mods : job.got[m] = NotCached
  /\ job.pc = "fetch" => /\ job.mod \in job.todo
                         /\ job.seen[job.mod] <= job.version
                         /\ job.version <= published[job.mod]

\* The directory that is being compared with a manifest is not newer than it.
VerificationInProgress ==
  /\ job.pc \in {"verify", "compare"} => job.kind = "verify"
  /\ job.pc = "compare" => /\ job.mod \in Mods
                           /\ disk[job.mod] <= job.version
                           /\ job.version <= published[job.mod]

\* The inductive invariant.
ModsInv ==
  /\ TypeOK /\ VersionsInOrder /\ FileFollowsCache
  /\ CurrentIsInstalled /\ UpdateSuccessMeansInstalled
  /\ DownloadInProgress /\ VerificationInProgress
  /\ job.pc # "idle" => job.answer = "none"

\* The same of every mod the manager downloaded itself, as IModsManager puts
\* it: success if all mods of the modset are downloaded and up to date.
PreparedIsUpToDate ==
  Prepared => \A m \in job.mods \ rebuilt : disk[m] >= job.seen[m]

\* A server that is started with a modset is given the directories of all its mods.
StartedWithAllMods ==
  Prepared /\ job.kind = "start" => job.mods \subseteq job.located
=============================================================================
