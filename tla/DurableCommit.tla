---------------------------- MODULE DurableCommit ----------------------------
(***************************************************************************)
(* The local aggregate commit protocol                                     *)
(* (cmd/sumpter/commands/durable_commit.go, localAggregateCommit) as it is *)
(* driven by aggregateWriter and by the finalize step of a run.  Several   *)
(* runs, each a process of its own, use the same output directory; any     *)
(* file system operation may fail, a process may be killed and the machine *)
(* may crash between any two operations.                                   *)
(*                                                                         *)
(* A directory entry is a name and the run that created the file.  A crash *)
(* leaves each entry, independently, in any state it has had since the     *)
(* last directory sync; the content of a file that was not synced is lost. *)
(***************************************************************************)
EXTENDS Integers, FiniteSets, FiniteSetsExt, Sequences

CONSTANTS
    Runs,           \* the processes that use the directory
    Nobody,         \* no file under a name
    NumShards,      \* shards of a run's output
    DurableChoices, \* the possible sets of runs without --no-durable-commit
    ExtractMulti,   \* TRUE: finalizeAggregate aborts a failed commit, and run() again
    DirExists,      \* 1: the output directory exists when the first run starts
    MaxFaults,      \* bound on failing operations of a run
    MaxKills,       \* bound on killed processes
    MaxCrashes,     \* bound on machine crashes
    MaxTrouble      \* bound on all of these together

ASSUME DurableAssumption ==
    /\ NumShards \in Nat \ {0} /\ Nobody \notin Runs
    /\ DurableChoices \subseteq SUBSET Runs /\ ExtractMulti \in BOOLEAN /\ DirExists \in 0..1
    /\ MaxFaults \in Nat /\ MaxKills \in Nat /\ MaxCrashes \in Nat /\ MaxTrouble \in Nat

Shards == 1..NumShards

(* The names in the directory.  Temporary names are unique to their run.   *)
Lock == <<"lock", 0>>
Manifest == <<"manifest", 0>>
Sidecar == <<"sidecar", 0>>
Stage(i) == <<"stage", i>>
Final(i) == <<"final", i>>
SidecarTemp(r) == <<"sidecartemp", r>>
ManifestTemp(r) == <<"manifesttemp", r>>

(* aggregateCommitArtifactName                                             *)
Artifacts ==
    {Manifest, Sidecar} \cup {Stage(i) : i \in Shards} \cup {Final(i) : i \in Shards}
        \cup {SidecarTemp(r) : r \in Runs} \cup {ManifestTemp(r) : r \in Runs}
Names == {Lock} \cup Artifacts

VARIABLES
    dir,        \* the directory as processes see it: name -> run, or Nobody
    disk,       \* name -> the values it may have after a crash
    solid,      \* <<run, name>> of the files whose content is synced
    exists,     \* 1: the output directory exists
    pc,         \* where each run is
    held,       \* lockHeld
    made,       \* 1: the run created the directory (createdDirs)
    staged,     \* number of stagePaths
    renamed,    \* number of finalPaths
    temps,      \* number of tempPaths
    sidecars,   \* number of sidecarPaths
    marker,     \* markerRenamed
    cleaned,    \* how many owned paths the current abort has gone through
    again,      \* 1: another abort follows the current one
    unconfirmed,\* the runs whose directory sync after the manifest rename failed
    botched,    \* the runs whose cleanup had a failing operation
    faults,     \* per run: operations that failed
    kills, crashes,
    durable     \* the runs without --no-durable-commit; never changes

dirVars == <<dir, disk, exists>>
ownVars == <<held, made, staged, renamed, temps, sidecars, marker>>
abortVars == <<cleaned, again>>
envVars == <<kills, crashes, durable>>
vars == <<dirVars, solid, pc, ownVars, abortVars, unconfirmed, faults, botched, envVars>>

Zero == [r \in Runs |-> 0]

Init ==
    /\ dir = [n \in Names |-> Nobody] /\ disk = [n \in Names |-> {Nobody}]
    /\ solid = {} /\ exists = DirExists
    /\ pc = [r \in Runs |-> "directory"]
    /\ held = Zero /\ made = Zero /\ staged = Zero /\ renamed = Zero
    /\ temps = Zero /\ sidecars = Zero /\ marker = Zero
    /\ cleaned = Zero /\ again = Zero
    /\ durable \in DurableChoices
    /\ unconfirmed = {} /\ botched = {} /\ faults = Zero /\ kills = 0 /\ crashes = 0

------------------------------------------------------------------------------
Goto(r, label) == pc' = [pc EXCEPT ![r] = label]
Set(var, r, v) == [var EXCEPT ![r] = v]

(* Entries that change, and the values a crash may now leave them with.    *)
Write(changes) ==
    /\ dir' = [n \in Names |-> IF n \in DOMAIN changes THEN changes[n] ELSE dir[n]]
    /\ disk' = [n \in Names |->
                  IF n \in DOMAIN changes THEN disk[n] \cup {changes[n]} ELSE disk[n]]
    /\ UNCHANGED exists

Put(n, r) == Write([m \in {n} |-> r])
Rename(from, to) == Write([m \in {from, to} |-> IF m = to THEN dir[from] ELSE Nobody])

(* syncDirectory                                                           *)
SyncDirectory(r) ==
    /\ disk' = IF r \in durable THEN [n \in Names |-> {dir[n]}] ELSE disk
    /\ UNCHANGED <<dir, exists>>

SyncData(r, n) == solid' = IF r \in durable THEN solid \cup {<<r, n>>} ELSE solid

(* What an abort removes, in the order it removes it.                      *)
Temporaries(r) == SubSeq(<<SidecarTemp(r), ManifestTemp(r)>>, 1, temps[r])

Owned(r) ==
    Temporaries(r) \o [i \in 1..staged[r] |-> Stage(i)] \o [i \in 1..renamed[r] |-> Final(i)]
        \o SubSeq(<<Sidecar>>, 1, sidecars[r])

------------------------------------------------------------------------------
(* prepare: the output directory, the ownership marker, the inspection.    *)

(* ensureDirectoryDurable, or mkdirAll, which tracks nothing.              *)
EnsureDirectory(r) ==
    /\ pc[r] = "directory" /\ Goto(r, "lock")
    /\ exists' = 1
    /\ made' = IF exists = 0 /\ r \in durable THEN Set(made, r, 1) ELSE made
    /\ UNCHANGED <<dir, disk, solid, held, staged, renamed, temps, sidecars, marker,
                   abortVars, unconfirmed, faults, botched, envVars>>

TakeLock(r) ==
    /\ pc[r] = "lock" /\ Goto(r, "locksync")
    /\ exists = 1 /\ dir[Lock] = Nobody
    /\ Put(Lock, r) /\ held' = Set(held, r, 1)
    /\ UNCHANGED <<solid, made, staged, renamed, temps, sidecars, marker, abortVars,
                   unconfirmed, faults, botched, envVars>>

(* "already owned or needs recovery": nothing is held or tracked.          *)
LockTaken(r) ==
    /\ pc[r] = "lock" /\ Goto(r, "rmdir")
    /\ exists = 0 \/ dir[Lock] # Nobody
    /\ again' = Set(again, r, 1)
    /\ UNCHANGED <<dirVars, solid, ownVars, cleaned, unconfirmed, faults, botched, envVars>>

SyncLock(r) ==
    /\ pc[r] = "locksync" /\ Goto(r, "inspect")
    /\ SyncDirectory(r)
    /\ UNCHANGED <<solid, ownVars, abortVars, unconfirmed, faults, botched, envVars>>

(* Variant: what is already in the directory does not matter.              *)
InspectAccepts(r) ==
    /\ pc[r] = "inspect" /\ Goto(r, "open")
    /\ UNCHANGED <<dirVars, solid, ownVars, abortVars, unconfirmed, faults, botched, envVars>>

(* Any artifact of an earlier or interrupted commit makes prepare abort.   *)
Inspect(r) ==
    /\ pc[r] = "inspect"
    /\ IF \A n \in Artifacts : dir[n] = Nobody
       THEN Goto(r, "open") /\ UNCHANGED again
       ELSE Goto(r, "invalidate") /\ again' = Set(again, r, 1)
    /\ UNCHANGED <<dirVars, solid, ownVars, cleaned, unconfirmed, faults, botched, envVars>>

------------------------------------------------------------------------------
(* Shards: staged and synced one by one, then renamed.                     *)

OpenShard(r) ==
    /\ pc[r] = "open" /\ Goto(r, "finalize")
    /\ dir[Stage(staged[r] + 1)] = Nobody
    /\ Put(Stage(staged[r] + 1), r) /\ staged' = Set(staged, r, staged[r] + 1)
    /\ UNCHANGED <<solid, held, made, renamed, temps, sidecars, marker, abortVars,
                   unconfirmed, faults, botched, envVars>>

FinalizeShard(r) ==
    /\ pc[r] = "finalize"
    /\ Goto(r, IF staged[r] < NumShards THEN "open" ELSE "rename")
    /\ SyncData(r, Final(staged[r]))
    /\ UNCHANGED <<dirVars, ownVars, abortVars, unconfirmed, faults, botched, envVars>>

RenameShard(r) ==
    LET i == renamed[r] + 1
    IN  /\ pc[r] = "rename" /\ dir[Stage(i)] # Nobody
        /\ Rename(Stage(i), Final(i)) /\ renamed' = Set(renamed, r, i)
        /\ Goto(r, IF i < NumShards THEN "rename" ELSE "shardsync")
        /\ UNCHANGED <<solid, held, made, staged, temps, sidecars, marker, abortVars,
                       unconfirmed, faults, botched, envVars>>

SyncShards(r) ==
    /\ pc[r] = "shardsync" /\ Goto(r, "sidecar")
    /\ SyncDirectory(r)
    /\ UNCHANGED <<solid, ownVars, abortVars, unconfirmed, faults, botched, envVars>>

------------------------------------------------------------------------------
(* writeAtomicFile for a sidecar and for the manifest, which gives up the  *)
(* ownership marker before its rename.                                     *)

WriteSidecar(r) ==
    /\ pc[r] = "sidecar" /\ Goto(r, "sidecarrename")
    /\ dir[Sidecar] = Nobody
    /\ Put(SidecarTemp(r), r) /\ SyncData(r, Sidecar) /\ temps' = Set(temps, r, 1)
    /\ UNCHANGED <<held, made, staged, renamed, sidecars, marker, abortVars,
                   unconfirmed, faults, botched, envVars>>

RenameSidecar(r) ==
    /\ pc[r] = "sidecarrename" /\ Goto(r, "manifest")
    /\ Rename(SidecarTemp(r), Sidecar) /\ sidecars' = Set(sidecars, r, 1)
    /\ UNCHANGED <<solid, held, made, staged, renamed, temps, marker, abortVars,
                   unconfirmed, faults, botched, envVars>>

WriteManifest(r) ==
    /\ pc[r] = "manifest" /\ Goto(r, "unlock")
    /\ dir[Manifest] = Nobody
    /\ Put(ManifestTemp(r), r) /\ SyncData(r, Manifest) /\ temps' = Set(temps, r, 2)
    /\ UNCHANGED <<held, made, staged, renamed, sidecars, marker, abortVars,
                   unconfirmed, faults, botched, envVars>>

Unlock(r) ==
    /\ pc[r] = "unlock" /\ Goto(r, "manifestrename")
    /\ Put(Lock, Nobody) /\ held' = Set(held, r, 0)
    /\ UNCHANGED <<solid, made, staged, renamed, temps, sidecars, marker, abortVars,
                   unconfirmed, faults, botched, envVars>>

RenameManifest(r) ==
    /\ pc[r] = "manifestrename" /\ Goto(r, "manifestsync")
    /\ Rename(ManifestTemp(r), Manifest) /\ marker' = Set(marker, r, 1)
    /\ UNCHANGED <<solid, held, made, staged, renamed, temps, sidecars, abortVars,
                   unconfirmed, faults, botched, envVars>>

(* Variant: success is reported before the rename is durable.              *)
ConfirmUnsynced(r) ==
    /\ pc[r] = "manifestsync" /\ Goto(r, "committed")
    /\ UNCHANGED <<dirVars, solid, ownVars, abortVars, unconfirmed, faults, botched, envVars>>

(* The last directory sync; then committed = true and success.             *)
Confirm(r) ==
    /\ pc[r] = "manifestsync" /\ Goto(r, "committed")
    /\ SyncDirectory(r)
    /\ UNCHANGED <<solid, ownVars, abortVars, unconfirmed, faults, botched, envVars>>

------------------------------------------------------------------------------
(* Failure.                                                                *)

Preparing == {"lock", "locksync", "inspect"}
Working ==
    Preparing \cup {"directory", "open", "finalize", "rename", "shardsync", "sidecar",
                    "sidecarrename", "manifest", "unlock", "manifestrename", "manifestsync"}

(* aggregateWriter.commit: the last shard is finalized, all are renamed.   *)
InCommit(r) ==
    \/ pc[r] \in {"rename", "shardsync"}
    \/ pc[r] = "finalize" /\ staged[r] = NumShards

(* An operation that fails without a fault: O_EXCL, rename or stat finds   *)
(* what another run left.                                                  *)
Obstructed(r) ==
    \/ pc[r] = "open" /\ dir[Stage(staged[r] + 1)] # Nobody
    \/ pc[r] = "rename" /\ dir[Stage(renamed[r] + 1)] = Nobody
    \/ pc[r] = "sidecar" /\ dir[Sidecar] # Nobody
    \/ pc[r] = "manifest" /\ dir[Manifest] # Nobody

Trouble == kills + crashes + MapThenSumSet(LAMBDA r : faults[r], Runs)

Faulty(r) ==
    /\ faults[r] < MaxFaults /\ Trouble < MaxTrouble
    /\ (pc[r] \in {"shardsync", "manifestsync"} => r \in durable)

(* The operation r is at fails and has no effect.  A failure in prepare,   *)
(* and in extract-multi one in aggregateWriter.commit, is aborted where it *)
(* happens and once more by the run's deferred cleanup.  A failed sync     *)
(* after the manifest rename leaves the commit unconfirmed, and the marker *)
(* is retracted before the cleanup.                                        *)
Fail(r) ==
    /\ pc[r] \in Working
    /\ Obstructed(r) \/ Faulty(r)
    /\ faults' = IF Obstructed(r) THEN faults ELSE Set(faults, r, faults[r] + 1)
    /\ unconfirmed' = IF pc[r] = "manifestsync" THEN unconfirmed \cup {r} ELSE unconfirmed
    /\ again' = IF pc[r] \in Preparing \/ (ExtractMulti /\ InCommit(r))
                THEN Set(again, r, 1) ELSE again
    /\ Goto(r, IF pc[r] \in {"directory", "lock"} THEN "rmdir"
               ELSE IF pc[r] = "manifestsync" THEN "retract" ELSE "invalidate")
    /\ UNCHANGED <<dirVars, solid, ownVars, cleaned, botched, envVars>>

(* An operation of the cleanup either works or fails and is passed over.   *)
Cleanup(r, effect, noEffect) ==
    \/ effect /\ UNCHANGED <<faults, botched>>
    \/ Faulty(r) /\ noEffect /\ faults' = Set(faults, r, faults[r] + 1)
                             /\ botched' = botched \cup {r}

AfterInvalidate(r) == IF pc[r] \in {"retract", "retractsync"} THEN "invalidate" ELSE "remove"

(* Variant: without "if !c.markerRenamed { return nil }".                  *)
InvalidateUnguarded(r) ==
    /\ pc[r] \in {"retract", "invalidate"}
    /\ Put(Manifest, Nobody) /\ marker' = Set(marker, r, marker[r] - 1)
    /\ Goto(r, IF pc[r] = "retract" THEN "retractsync" ELSE "invalidatesync")
    /\ UNCHANGED <<solid, held, made, staged, renamed, temps, sidecars, abortVars,
                   unconfirmed, faults, botched, envVars>>

(* invalidateMarker, called by writeManifest and by abort.                 *)
Invalidate(r) ==
    /\ pc[r] \in {"retract", "invalidate"}
    /\ IF marker[r] = 0
       THEN Goto(r, AfterInvalidate(r)) /\ UNCHANGED <<dirVars, marker, faults, botched>>
       ELSE Cleanup(r,
              /\ Put(Manifest, Nobody) /\ marker' = Set(marker, r, 0)
              /\ Goto(r, IF pc[r] = "retract" THEN "retractsync" ELSE "invalidatesync"),
              Goto(r, AfterInvalidate(r)) /\ UNCHANGED <<dirVars, marker>>)
    /\ UNCHANGED <<solid, held, made, staged, renamed, temps, sidecars, abortVars,
                   unconfirmed, envVars>>

SyncInvalidated(r) ==
    /\ pc[r] \in {"retractsync", "invalidatesync"} /\ Goto(r, AfterInvalidate(r))
    /\ Cleanup(r, SyncDirectory(r), UNCHANGED dirVars)
    /\ UNCHANGED <<solid, ownVars, abortVars, unconfirmed, envVars>>

(* Whatever is under an owned path goes; a missing file is no error.       *)
RemoveOwned(r) ==
    /\ pc[r] = "remove"
    /\ IF cleaned[r] < Len(Owned(r))
       THEN /\ Cleanup(r, Put(Owned(r)[cleaned[r] + 1], Nobody), UNCHANGED dirVars)
            /\ cleaned' = Set(cleaned, r, cleaned[r] + 1) /\ UNCHANGED pc
       ELSE Goto(r, "release") /\ UNCHANGED <<dirVars, cleaned, faults, botched>>
    /\ UNCHANGED <<solid, ownVars, again, unconfirmed, envVars>>

ReleaseLock(r) ==
    /\ pc[r] = "release" /\ Goto(r, "cleanupsync")
    /\ IF held[r] = 1
       THEN Cleanup(r, Put(Lock, Nobody) /\ held' = Set(held, r, 0),
                    UNCHANGED <<dirVars, held>>)
       ELSE UNCHANGED <<dirVars, held, faults, botched>>
    /\ UNCHANGED <<solid, made, staged, renamed, temps, sidecars, marker, abortVars,
                   unconfirmed, envVars>>

SyncCleanup(r) ==
    /\ pc[r] = "cleanupsync" /\ Goto(r, "rmdir")
    /\ Cleanup(r, SyncDirectory(r), UNCHANGED dirVars)
    /\ UNCHANGED <<solid, ownVars, abortVars, unconfirmed, envVars>>

(* cleanupCreatedDirectories; remove fails on a directory in use.  Then    *)
(* the abort is over, and the next one, if any, starts.                    *)
RemoveDirectory(r) ==
    /\ pc[r] = "rmdir"
    /\ Goto(r, IF again[r] = 1 THEN "invalidate" ELSE "failed")
    /\ exists' = IF made[r] = 1 /\ \A n \in Names : dir[n] = Nobody THEN 0 ELSE exists
    /\ made' = Set(made, r, 0) /\ again' = Set(again, r, 0)
    /\ cleaned' = Set(cleaned, r, 0)
    /\ UNCHANGED <<dir, disk, solid, held, staged, renamed, temps, sidecars, marker,
                   unconfirmed, faults, botched, envVars>>

------------------------------------------------------------------------------
(* The environment.                                                        *)

Started(r) == pc[r] \notin {"directory", "committed", "failed", "dead"}

Kill(r) ==
    /\ kills < MaxKills /\ Trouble < MaxTrouble /\ Started(r)
    /\ kills' = kills + 1 /\ Goto(r, "dead")
    /\ UNCHANGED <<dirVars, solid, ownVars, abortVars, unconfirmed, faults, botched, crashes, durable>>

Unsettled == {n \in Names : disk[n] # {dir[n]}}

(* The machine goes down and comes back.                                   *)
Crash ==
    /\ crashes < MaxCrashes /\ Trouble < MaxTrouble /\ crashes' = crashes + 1
    /\ \E after \in [Unsettled -> Runs \cup {Nobody}] :
          /\ \A n \in Unsettled : after[n] \in disk[n]
          /\ dir' = [n \in Names |-> IF n \in Unsettled THEN after[n] ELSE dir[n]]
    /\ disk' = [n \in Names |-> {dir'[n]}]
    /\ pc' = [r \in Runs |-> IF Started(r) THEN "dead" ELSE pc[r]]
    /\ UNCHANGED <<exists, solid, ownVars, abortVars, unconfirmed, faults, botched, kills, durable>>

Progress(r) ==
    \/ EnsureDirectory(r) \/ TakeLock(r) \/ LockTaken(r) \/ SyncLock(r) \/ Inspect(r)
    \/ OpenShard(r) \/ FinalizeShard(r) \/ RenameShard(r) \/ SyncShards(r)
    \/ WriteSidecar(r) \/ RenameSidecar(r)
    \/ WriteManifest(r) \/ Unlock(r) \/ RenameManifest(r) \/ Confirm(r)

Abort(r) ==
    \/ Invalidate(r) \/ SyncInvalidated(r) \/ RemoveOwned(r) \/ ReleaseLock(r)
    \/ SyncCleanup(r) \/ RemoveDirectory(r)

Ended == (\A r \in Runs : pc[r] \in {"committed", "failed", "dead"}) /\ UNCHANGED vars

Next ==
    \/ \E r \in Runs : Progress(r) \/ Fail(r) \/ Abort(r) \/ Kill(r)
    \/ Crash
    \/ Ended

Spec == Init /\ [][Next]_vars

------------------------------------------------------------------------------
(* Properties.                                                             *)

(* Every variable keeps its type, and what a process sees is always one of *)
(* the things a crash may leave.                                           *)
TypeOK ==
    /\ dir \in [Names -> Runs \cup {Nobody}]
    /\ disk \in [Names -> SUBSET (Runs \cup {Nobody})]
    /\ \A n \in Names : dir[n] \in disk[n]
    /\ solid \subseteq Runs \X Artifacts
    /\ exists \in 0..1
    /\ pc \in [Runs -> Working \cup {"committed", "retract", "retractsync", "invalidate",
                 "invalidatesync", "remove", "release", "cleanupsync", "rmdir", "failed",
                 "dead"}]
    /\ held \in [Runs -> 0..1] /\ made \in [Runs -> 0..1] /\ marker \in [Runs -> 0..1]
    /\ staged \in [Runs -> 0..NumShards] /\ renamed \in [Runs -> 0..NumShards]
    /\ temps \in [Runs -> 0..2] /\ sidecars \in [Runs -> 0..1]
    /\ cleaned \in [Runs -> Nat] /\ again \in [Runs -> 0..1]
    /\ unconfirmed \subseteq Runs /\ botched \subseteq Runs
    /\ faults \in [Runs -> Nat] /\ kills \in Nat /\ crashes \in Nat
    /\ durable \in DurableChoices

(* manifest.json is the reader marker: unless its own run reported the     *)
(* commit unconfirmed, whoever finds it, at any moment and, for a durable  *)
(* run, after any crash, finds all shards of that run with their content,  *)
(* and nothing of another run.                                             *)
MarkerMeansGeneration ==
    \A r \in Runs \ unconfirmed : dir[Manifest] = r /\ (crashes > 0 => r \in durable) =>
        /\ \A i \in Shards : dir[Final(i)] = r /\ (crashes > 0 => <<r, Final(i)>> \in solid)
        /\ \A n \in Artifacts : dir[n] \in {r, Nobody}

(* A durable run that reported success has its manifest, shards and        *)
(* sidecar where no crash can lose them, whatever other runs do in the     *)
(* directory.                                                              *)
SuccessIsDurable ==
    \A r \in durable : pc[r] = "committed" =>
        \A n \in {Manifest, Sidecar} \cup {Final(i) : i \in Shards} :
            disk[n] = {r} /\ <<r, n>> \in solid

(* A failed run whose cleanup met no fault of its own leaves nothing, and  *)
(* a durable one not even after a crash: the directory can be used again.  *)
CleanFailure ==
    \A r \in Runs \ botched : pc[r] = "failed" =>
        \A n \in Names : IF r \in durable THEN r \notin disk[n]
                          ELSE crashes = 0 => dir[n] # r

(* localAggregateCommit "never removes paths it did not create and track   *)
(* itself": no step of one run changes an entry that holds another's file. *)
NeverTouchesForeignFile ==
    [][\A r, q \in Runs, n \in Names :
          pc'[r] # pc[r] \/ cleaned'[r] # cleaned[r] =>
              (dir[n] = q /\ dir'[n] # q => q = r \/ crashes' # crashes)]_vars

(* The directory behaves as its readers are promised; the promise covers   *)
(* the runs that commit durably.                                           *)
Pub == INSTANCE Publication WITH
    visible <- dir[Manifest],
    confirmed <- {r \in durable : pc[r] = "committed"},
    promised <- durable

PublicationSpec == Pub!PubSpec
(* What a run reported is what the disk holds: success means every file is *)
(* where no crash can lose it, and a clean failure means none is left.     *)
ReportedIsOnDisk == TypeOK /\ SuccessIsDurable /\ CleanFailure
==============================================================================
