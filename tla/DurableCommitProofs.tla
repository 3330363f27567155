------------------------- MODULE DurableCommitProofs -------------------------
(***************************************************************************)
(* Proofs about DurableCommit, for every set of runs and shards, every     *)
(* choice of the durable runs and any number of faults, kills and crashes. *)
(* They are about a run that aborts once, ExtractMulti = FALSE: with the   *)
(* second abort of extract-multi the mutual exclusion they rest on fails.  *)
(***************************************************************************)
EXTENDS DurableCommit, TLAPS

------------------------------------------------------------------------------
(* The inductive invariant.                                                *)

Producing == {"open", "finalize", "rename", "shardsync", "sidecar", "sidecarrename",
              "manifest", "unlock"}
Late == {"manifestrename", "manifestsync"}
Undoing == {"retract", "retractsync", "invalidate", "invalidatesync", "remove"}

Nothing(r) == staged[r] = 0 /\ renamed[r] = 0 /\ temps[r] = 0 /\ sidecars[r] = 0 /\ marker[r] = 0
Full(r) == staged[r] = NumShards /\ renamed[r] = NumShards /\ temps[r] = 2 /\ sidecars[r] = 1

(* The paths an abort removes, as a set and by number.                     *)
OwnedSet(r) ==
    (IF temps[r] >= 1 THEN {SidecarTemp(r)} ELSE {})
        \cup (IF temps[r] = 2 THEN {ManifestTemp(r)} ELSE {})
        \cup {Stage(i) : i \in 1..staged[r]} \cup {Final(i) : i \in 1..renamed[r]}
        \cup (IF sidecars[r] = 1 THEN {Sidecar} ELSE {})
OwnedLen(r) == temps[r] + staged[r] + renamed[r] + sidecars[r]

(* How far the lists of a running commit are at each of its steps.         *)
Shape(r) ==
    /\ pc[r] \in {"directory", "lock"} => Nothing(r) /\ held[r] = 0
    /\ pc[r] \in {"locksync", "inspect"} => Nothing(r) /\ held[r] = 1
    /\ pc[r] \in Producing => held[r] = 1 /\ marker[r] = 0
    /\ pc[r] \in {"open", "finalize", "rename", "shardsync", "sidecar"} => temps[r] = 0
    /\ pc[r] \in {"open", "finalize", "rename", "shardsync", "sidecar", "sidecarrename"}
         => sidecars[r] = 0
    /\ pc[r] = "open" => staged[r] < NumShards /\ renamed[r] = 0
    /\ pc[r] = "finalize" => staged[r] > 0 /\ renamed[r] = 0
    /\ pc[r] = "rename" => staged[r] = NumShards /\ renamed[r] < NumShards
    /\ pc[r] \in {"shardsync", "sidecar", "sidecarrename", "manifest"}
         => staged[r] = NumShards /\ renamed[r] = NumShards
    /\ pc[r] \in {"sidecarrename", "manifest"} => temps[r] = 1
    /\ pc[r] = "manifest" => sidecars[r] = 1
    /\ pc[r] \in {"unlock", "manifestrename"} => Full(r) /\ marker[r] = 0
    /\ pc[r] \in {"manifestrename", "manifestsync", "retract", "retractsync"} => Full(r) /\ held[r] = 0
    /\ pc[r] \in {"manifestsync", "committed"} => marker[r] = 1
    /\ pc[r] \in {"retract", "retractsync"} => r \in unconfirmed
    /\ marker[r] = 1 => /\ Full(r) /\ held[r] = 0
                        /\ pc[r] \in {"manifestsync", "committed"} \/ r \in unconfirmed
    /\ again[r] = 1 => Nothing(r) /\ pc[r] \in Undoing \cup {"release", "cleanupsync", "rmdir"}
    /\ cleaned[r] > 0 => pc[r] \in {"remove", "release", "cleanupsync", "rmdir"}
    /\ cleaned[r] <= OwnedLen(r)
    /\ pc[r] \in Undoing => Nothing(r) \/ (staged[r] > 0 /\ (held[r] = 1 \/ Full(r)))

(* A run between its inspection and the removal of its last file.          *)
Active(r) ==
    \/ pc[r] \in Producing \cup Late
    \/ pc[r] \in Undoing /\ staged[r] > 0 /\ cleaned[r] < OwnedLen(r)

(* The directory belongs to one active run; it has the ownership marker or *)
(* the sidecar, which the inspection of another run finds.                 *)
LockMine == \A r \in Runs : Started(r) /\ held[r] = 1 => dir[Lock] = r
Exclusive ==
    /\ \A r, q \in Runs : Active(r) /\ Active(q) => r = q
    /\ \A r \in Runs : Active(r) =>
         /\ \A n \in Artifacts : dir[n] \in {r, Nobody}
         /\ held[r] = 1 \/ dir[Sidecar] = r

(* The files of a run that has not ended are on its lists, and those it    *)
(* will need are there.                                                    *)
Listed(r) ==
    Started(r) => \A n \in Names : dir[n] = r =>
        \/ n = Lock /\ held[r] = 1
        \/ n = Manifest /\ marker[r] = 1
        \/ n \in OwnedSet(r)
Present(r) ==
    /\ pc[r] \in Producing \cup Late => \A i \in 1..renamed[r] : dir[Final(i)] = r
    /\ pc[r] = "sidecarrename" => dir[SidecarTemp(r)] = r
    /\ pc[r] \in {"unlock", "manifestrename"} => dir[ManifestTemp(r)] = r
    /\ pc[r] \in {"manifest", "unlock", "manifestrename", "manifestsync"} => dir[Sidecar] = r
    /\ pc[r] = "manifestrename" => dir[Manifest] = Nobody
    /\ pc[r] = "manifestsync" => dir[Manifest] = r

(* What a durable run has synced.                                          *)
Synced(r) ==
    /\ pc[r] \in {"open", "finalize"} =>
         \A i \in 1..staged[r] : i < staged[r] \/ pc[r] = "open" => <<r, Final(i)>> \in solid
    /\ pc[r] \in (Producing \cup Late) \ {"open", "finalize"} =>
         \A i \in Shards : <<r, Final(i)>> \in solid
    /\ pc[r] \in {"sidecarrename", "manifest", "unlock", "manifestrename", "manifestsync"} =>
         <<r, Sidecar>> \in solid
    /\ pc[r] \in {"unlock", "manifestrename", "manifestsync"} => <<r, Manifest>> \in solid
    /\ pc[r] \in {"sidecar", "sidecarrename", "manifest", "unlock", "manifestrename", "manifestsync"} =>
         /\ \A i \in Shards : disk[Final(i)] = {r}
         /\ \A n \in Artifacts : disk[n] \subseteq {r, Nobody}

(* What a manifest that was not reported unconfirmed stands for.           *)
Marked(r) ==
    dir[Manifest] = r =>
        /\ \A i \in Shards : dir[Final(i)] = r
        /\ \A n \in Artifacts : dir[n] \in {r, Nobody}
        /\ r \in durable => /\ \A i \in Shards : disk[Final(i)] = {r} /\ <<r, Final(i)>> \in solid
                            /\ \A n \in Artifacts : disk[n] \subseteq {r, Nobody}
Recoverable(r) == r \in disk[Manifest] /\ r \in durable => dir[Manifest] = r

(* How far a cleanup without a fault is.                                   *)
Untouched(r) == \A n \in Names : dir[n] # r /\ r \notin disk[n]
Gone(r) == \A n \in Names : dir[n] # r /\ (r \in durable => r \notin disk[n])
Cleaned(r) ==
    /\ pc[r] \in {"directory", "lock"} => Untouched(r)
    /\ r \notin botched =>
         /\ pc[r] \in {"invalidatesync", "remove", "release", "cleanupsync", "rmdir"} => marker[r] = 0
         /\ pc[r] = "remove" => \A k \in 1..cleaned[r] : dir[Owned(r)[k]] # r
         /\ pc[r] = "release" => \A n \in Artifacts : dir[n] # r
         /\ pc[r] = "cleanupsync" => held[r] = 0 /\ \A n \in Names : dir[n] # r
         /\ pc[r] = "rmdir" => held[r] = 0 /\ Gone(r)

RunInv(r) ==
    /\ pc[r] # "dead" => Shape(r) /\ Present(r) /\ (r \in durable => Synced(r))
    /\ Listed(r) /\ Cleaned(r)
    /\ r \notin unconfirmed => /\ (crashes > 0 => r \in durable) => Marked(r)
                               /\ Recoverable(r)

CommitInv ==
    /\ TypeOK /\ SuccessIsDurable /\ CleanFailure
    /\ LockMine /\ Exclusive /\ \A r \in Runs : RunInv(r)

------------------------------------------------------------------------------
(* Names and the file operations.                                          *)

(* The names of the directory are different.                               *)
LEMMA NameFacts ==
  /\ Lock \in Names /\ Lock \notin Artifacts /\ Names = {Lock} \cup Artifacts
  /\ Manifest \in Artifacts /\ Sidecar \in Artifacts /\ Manifest # Sidecar
  /\ \A i \in Shards : /\ Stage(i) \in Artifacts /\ Final(i) \in Artifacts
                       /\ Stage(i) \notin {Manifest, Sidecar} /\ Final(i) \notin {Manifest, Sidecar}
  /\ \A i, j \in Shards : /\ Stage(i) # Final(j)
                          /\ Stage(i) = Stage(j) => i = j
                          /\ Final(i) = Final(j) => i = j
  /\ \A r \in Runs : /\ SidecarTemp(r) \in Artifacts /\ ManifestTemp(r) \in Artifacts
                     /\ SidecarTemp(r) \notin {Manifest, Sidecar}
                     /\ ManifestTemp(r) \notin {Manifest, Sidecar}
                     /\ SidecarTemp(r) # ManifestTemp(r)
  /\ \A r \in Runs, i \in Shards : /\ SidecarTemp(r) \notin {Stage(i), Final(i)}
                                   /\ ManifestTemp(r) \notin {Stage(i), Final(i)}
  BY DEF Names, Artifacts, Lock, Manifest, Sidecar, Stage, Final, SidecarTemp, ManifestTemp

LEMMA PutEffect ==
  ASSUME TypeOK, NEW n \in Names, NEW v, Put(n, v)
  PROVE  /\ dir' = [dir EXCEPT ![n] = v] /\ disk' = [disk EXCEPT ![n] = @ \cup {v}]
         /\ exists' = exists
  BY DEF TypeOK, Put, Write

LEMMA RenameEffect ==
  ASSUME TypeOK, NEW from \in Names, NEW to \in Names, from # to, Rename(from, to)
  PROVE  /\ dir' = [dir EXCEPT ![from] = Nobody, ![to] = dir[from]]
         /\ disk' = [disk EXCEPT ![from] = @ \cup {Nobody}, ![to] = @ \cup {dir[from]}]
         /\ exists' = exists
  BY DEF TypeOK, Rename, Write

Counted(r) ==
    /\ temps[r] \in 0..2 /\ staged[r] \in 0..NumShards /\ renamed[r] \in 0..NumShards
    /\ sidecars[r] \in 0..1

(* A sequence put together from two.                                       *)
LEMMA TwoParts ==
  ASSUME NEW s \in Seq(Artifacts), NEW t \in Seq(Artifacts)
  PROVE  /\ s \o t \in Seq(Artifacts) /\ Len(s \o t) = Len(s) + Len(t)
         /\ \A k \in 1..Len(s) : (s \o t)[k] = s[k]
         /\ \A k \in 1..Len(t) : (s \o t)[Len(s) + k] = t[k]
  OBVIOUS

(* The list of an abort: temporaries, stages, finals, and the sidecar last.*)
LEMMA OwnedAt ==
  ASSUME NEW r \in Runs, Counted(r)
  PROVE  /\ Len(Owned(r)) = OwnedLen(r) /\ OwnedLen(r) \in Nat
         /\ temps[r] >= 1 => Owned(r)[1] = SidecarTemp(r)
         /\ temps[r] = 2 => Owned(r)[2] = ManifestTemp(r)
         /\ \A k \in 1..staged[r] : Owned(r)[temps[r] + k] = Stage(k)
         /\ \A k \in 1..renamed[r] : Owned(r)[temps[r] + staged[r] + k] = Final(k)
         /\ sidecars[r] = 1 => Owned(r)[temps[r] + staged[r] + renamed[r] + 1] = Sidecar
<1> DEFINE T == Temporaries(r)
           S == [i \in 1..staged[r] |-> Stage(i)]
           F == [i \in 1..renamed[r] |-> Final(i)]
           C == SubSeq(<<Sidecar>>, 1, sidecars[r])
           TS == T \o S
           TSF == TS \o F
<1>0. temps[r] \in Nat /\ staged[r] \in Nat /\ renamed[r] \in Nat /\ sidecars[r] \in Nat /\ NumShards \in Nat
  BY DurableAssumption DEF Counted
<1>1. /\ T \in Seq(Artifacts) /\ Len(T) = temps[r]
      /\ temps[r] >= 1 => T[1] = SidecarTemp(r)
      /\ temps[r] = 2 => T[2] = ManifestTemp(r)
  BY NameFacts DEF Counted, Temporaries
<1>2. /\ S \in Seq(Artifacts) /\ Len(S) = staged[r] /\ \A k \in 1..staged[r] : S[k] = Stage(k)
  <2>1. \A k \in 1..staged[r] : Stage(k) \in Artifacts
    BY <1>0, NameFacts DEF Counted, Shards
  <2> QED
    BY <1>0, <2>1
<1>3. /\ F \in Seq(Artifacts) /\ Len(F) = renamed[r] /\ \A k \in 1..renamed[r] : F[k] = Final(k)
  <2>1. \A k \in 1..renamed[r] : Final(k) \in Artifacts
    BY <1>0, NameFacts DEF Counted, Shards
  <2> QED
    BY <1>0, <2>1
<1>4. /\ C \in Seq(Artifacts) /\ Len(C) = sidecars[r] /\ (sidecars[r] = 1 => C[1] = Sidecar)
  BY NameFacts DEF Counted
<1>5. Owned(r) = TSF \o C
  BY DEF Owned
<1> HIDE DEF T, S, F, C
<1>6. /\ TS \in Seq(Artifacts) /\ Len(TS) = Len(T) + Len(S)
      /\ \A k \in 1..Len(T) : TS[k] = T[k]
      /\ \A k \in 1..Len(S) : TS[Len(T) + k] = S[k]
  BY <1>1, <1>2, TwoParts, Zenon
<1> HIDE DEF TS
<1>7. /\ TSF \in Seq(Artifacts) /\ Len(TSF) = Len(TS) + Len(F)
      /\ \A k \in 1..Len(TS) : TSF[k] = TS[k]
      /\ \A k \in 1..Len(F) : TSF[Len(TS) + k] = F[k]
  BY <1>3, <1>6, TwoParts, Zenon
<1> HIDE DEF TSF
<1>8. /\ Len(Owned(r)) = Len(TSF) + Len(C)
      /\ \A k \in 1..Len(TSF) : Owned(r)[k] = TSF[k]
      /\ \A k \in 1..Len(C) : Owned(r)[Len(TSF) + k] = C[k]
  <2>1. /\ Len(TSF \o C) = Len(TSF) + Len(C)
        /\ \A k \in 1..Len(TSF) : (TSF \o C)[k] = TSF[k]
        /\ \A k \in 1..Len(C) : (TSF \o C)[Len(TSF) + k] = C[k]
    BY <1>4, <1>7, TwoParts, Zenon
  <2> QED
    BY <1>5, <2>1, Zenon
<1>81. /\ Len(TS) = temps[r] + staged[r] /\ Len(TSF) = temps[r] + staged[r] + renamed[r]
       /\ Len(Owned(r)) = temps[r] + staged[r] + renamed[r] + sidecars[r]
  BY <1>1, <1>2, <1>3, <1>4, <1>6, <1>7, <1>8
<1> HIDE DEF OwnedLen
<1>9. /\ temps[r] >= 1 => Owned(r)[1] = SidecarTemp(r)
      /\ temps[r] = 2 => Owned(r)[2] = ManifestTemp(r)
  <2>1. ASSUME NEW k \in 1..temps[r] PROVE Owned(r)[k] = T[k]
    <3>1. k \in 1..Len(TS) /\ k \in 1..Len(TSF)
      BY <1>0, <1>81, SMTT(30)
    <3> QED
      BY <1>1, <1>6, <1>7, <1>8, <3>1
  <2> QED
    BY <1>0, <1>1, <2>1
<1>10. ASSUME NEW k \in 1..staged[r] PROVE Owned(r)[temps[r] + k] = Stage(k)
  <2>1. temps[r] + k \in 1..Len(TS) /\ temps[r] + k \in 1..Len(TSF)
    BY <1>0, <1>81, SMTT(30)
  <2>2. Owned(r)[temps[r] + k] = TSF[temps[r] + k]
    BY <1>8, <2>1
  <2>3. TSF[temps[r] + k] = TS[temps[r] + k]
    BY <1>7, <2>1
  <2>4. TS[temps[r] + k] = S[k] /\ S[k] = Stage(k)
    BY <1>1, <1>2, <1>6
  <2> QED
    BY <2>2, <2>3, <2>4, Zenon
<1>11. ASSUME NEW k \in 1..renamed[r] PROVE Owned(r)[temps[r] + staged[r] + k] = Final(k)
  <2>1. temps[r] + staged[r] + k \in 1..Len(TSF)
    BY <1>0, <1>81, SMTT(30)
  <2> QED
    BY <1>3, <1>7, <1>8, <1>81, <2>1
<1>12. sidecars[r] = 1 => Owned(r)[temps[r] + staged[r] + renamed[r] + 1] = Sidecar
  BY <1>0, <1>4, <1>8, <1>81
<1> QED
  BY <1>0, <1>81, <1>9, <1>10, <1>11, <1>12 DEF OwnedLen

LEMMA OwnedFacts ==
  ASSUME NEW r \in Runs, Counted(r)
  PROVE  /\ Len(Owned(r)) = OwnedLen(r) /\ OwnedLen(r) \in Nat
         /\ OwnedSet(r) \subseteq Artifacts \ {Manifest}
         /\ \A k \in 1..OwnedLen(r) : Owned(r)[k] \in OwnedSet(r)
         /\ \A n \in OwnedSet(r) : \E k \in 1..OwnedLen(r) : Owned(r)[k] = n
         /\ \A k \in 1..OwnedLen(r) : sidecars[r] = 1 /\ Owned(r)[k] = Sidecar => k = OwnedLen(r)
<1>0. /\ temps[r] \in 0..2 /\ staged[r] \in Nat /\ renamed[r] \in Nat /\ sidecars[r] \in 0..1
      /\ NumShards \in Nat /\ staged[r] <= NumShards /\ renamed[r] <= NumShards
  BY DurableAssumption DEF Counted
<1>1. /\ \A k \in 1..staged[r] : Stage(k) \in Artifacts \ {Manifest, Sidecar}
      /\ \A k \in 1..renamed[r] : Final(k) \in Artifacts \ {Manifest, Sidecar}
  BY <1>0, NameFacts DEF Shards
<1>2. OwnedSet(r) \subseteq Artifacts \ {Manifest}
  BY <1>1, NameFacts DEF OwnedSet
<1>3. ASSUME NEW k \in 1..OwnedLen(r)
      PROVE  \/ k = 1 /\ temps[r] >= 1
             \/ k = 2 /\ temps[r] = 2
             \/ \E i \in 1..staged[r] : k = temps[r] + i
             \/ \E i \in 1..renamed[r] : k = temps[r] + staged[r] + i
             \/ k = temps[r] + staged[r] + renamed[r] + 1 /\ sidecars[r] = 1 /\ k = OwnedLen(r)
  <2>1. CASE k <= temps[r]
    BY <1>0, <2>1
  <2>2. CASE k > temps[r] /\ k <= temps[r] + staged[r]
    <3>1. k - temps[r] \in 1..staged[r] /\ k = temps[r] + (k - temps[r])
      BY <1>0, <2>2
    <3> QED
      BY <3>1
  <2>3. CASE k > temps[r] + staged[r] /\ k <= temps[r] + staged[r] + renamed[r]
    <3>1. k - temps[r] - staged[r] \in 1..renamed[r] /\ k = temps[r] + staged[r] + (k - temps[r] - staged[r])
      BY <1>0, <2>3
    <3> QED
      BY <3>1
  <2>4. CASE k > temps[r] + staged[r] + renamed[r]
    BY <1>0, <2>4 DEF OwnedLen
  <2> QED
    BY <1>0, <2>1, <2>2, <2>3, <2>4 DEF OwnedLen
<1>4. ASSUME NEW k \in 1..OwnedLen(r)
      PROVE  Owned(r)[k] \in OwnedSet(r) /\ (Owned(r)[k] = Sidecar => k = OwnedLen(r))
  <2>1. CASE k = 1 /\ temps[r] >= 1
    BY <2>1, OwnedAt, NameFacts DEF OwnedSet
  <2>2. CASE k = 2 /\ temps[r] = 2
    BY <2>2, OwnedAt, NameFacts DEF OwnedSet
  <2>3. CASE \E i \in 1..staged[r] : k = temps[r] + i
    BY <1>1, <2>3, OwnedAt, NameFacts DEF OwnedSet
  <2>4. CASE \E i \in 1..renamed[r] : k = temps[r] + staged[r] + i
    BY <1>1, <2>4, OwnedAt, NameFacts DEF OwnedSet
  <2>5. CASE k = temps[r] + staged[r] + renamed[r] + 1 /\ sidecars[r] = 1 /\ k = OwnedLen(r)
    BY <2>5, OwnedAt DEF OwnedSet
  <2> QED
    BY <1>3, <2>1, <2>2, <2>3, <2>4, <2>5
<1>5. ASSUME NEW n \in OwnedSet(r) PROVE \E k \in 1..OwnedLen(r) : Owned(r)[k] = n
  <2>1. CASE n = SidecarTemp(r) /\ temps[r] >= 1
    <3>1. 1 \in 1..OwnedLen(r)
      BY <1>0, <2>1 DEF OwnedLen
    <3> QED
      BY <2>1, <3>1, OwnedAt
  <2>2. CASE n = ManifestTemp(r) /\ temps[r] = 2
    <3>1. 2 \in 1..OwnedLen(r)
      BY <1>0, <2>2 DEF OwnedLen
    <3> QED
      BY <2>2, <3>1, OwnedAt
  <2>3. ASSUME NEW i \in 1..staged[r], n = Stage(i) PROVE \E k \in 1..OwnedLen(r) : Owned(r)[k] = n
    <3>1. temps[r] + i \in 1..OwnedLen(r)
      BY <1>0 DEF OwnedLen
    <3> QED
      BY <2>3, <3>1, OwnedAt
  <2>4. ASSUME NEW i \in 1..renamed[r], n = Final(i) PROVE \E k \in 1..OwnedLen(r) : Owned(r)[k] = n
    <3>1. temps[r] + staged[r] + i \in 1..OwnedLen(r)
      BY <1>0 DEF OwnedLen
    <3> QED
      BY <2>4, <3>1, OwnedAt
  <2>5. CASE n = Sidecar /\ sidecars[r] = 1
    <3>1. temps[r] + staged[r] + renamed[r] + 1 \in 1..OwnedLen(r)
      BY <1>0, <2>5 DEF OwnedLen
    <3> QED
      BY <2>5, <3>1, OwnedAt
  <2> QED
    BY <2>1, <2>2, <2>3, <2>4, <2>5 DEF OwnedSet
<1> QED
  BY <1>2, <1>4, <1>5, OwnedAt

(* What a step of r may do to the directory, seen by the others: it changes*)
(* its own entries and free ones, artifacts only while it is active.       *)
DirStep(r) ==
    /\ \A n \in Names : /\ dir'[n] = dir[n] \/ (dir[n] \in {r, Nobody} /\ dir'[n] \in {r, Nobody})
                        /\ disk'[n] \subseteq disk[n] \cup {r, Nobody}
    /\ \A n \in Artifacts : Active(r) \/ (dir'[n] = dir[n] /\ disk'[n] \in {disk[n], {dir[n]}})
DirType ==
    /\ dir \in [Names -> Runs \cup {Nobody}]
    /\ disk \in [Names -> SUBSET (Runs \cup {Nobody})]
    /\ \A n \in Names : dir[n] \in disk[n]

LEMMA UnchangedStep ==
  ASSUME TypeOK, NEW r \in Runs, UNCHANGED <<dir, disk>>
  PROVE  DirStep(r) /\ DirType'
  BY DEF TypeOK, DirStep, DirType

LEMMA SyncStep ==
  ASSUME TypeOK, NEW r \in Runs, SyncDirectory(r)
  PROVE  DirStep(r) /\ DirType' /\ dir' = dir /\ exists' = exists
         /\ \A n \in Names : IF r \in durable THEN disk'[n] = {dir[n]} ELSE disk'[n] = disk[n]
<1>1. dir' = dir /\ exists' = exists
  BY DEF SyncDirectory
<1>2. \A n \in Names : IF r \in durable THEN disk'[n] = {dir[n]} ELSE disk'[n] = disk[n]
  BY DEF SyncDirectory
<1>3. DirType'
  BY <1>1, <1>2 DEF SyncDirectory, TypeOK, DirType
<1>4. DirStep(r)
  BY <1>1, <1>2, NameFacts DEF TypeOK, DirStep
<1> QED
  BY <1>1, <1>2, <1>3, <1>4

LEMMA PutStep ==
  ASSUME TypeOK, NEW r \in Runs, NEW n \in Names, NEW v \in {r, Nobody}, Put(n, v),
         dir[n] \in {r, Nobody}, n \in Artifacts => Active(r)
  PROVE  DirStep(r) /\ DirType'
<1>1. dir' = [dir EXCEPT ![n] = v] /\ disk' = [disk EXCEPT ![n] = @ \cup {v}]
  BY PutEffect
<1>2. DirType'
  BY <1>1 DEF TypeOK, DirType
<1>3. DirStep(r)
  BY <1>1, NameFacts DEF TypeOK, DirStep
<1> QED
  BY <1>2, <1>3

LEMMA RenameStep ==
  ASSUME TypeOK, NEW r \in Runs, NEW from \in Artifacts, NEW to \in Artifacts, from # to,
         Rename(from, to), dir[from] \in {r, Nobody}, dir[to] \in {r, Nobody}, Active(r)
  PROVE  DirStep(r) /\ DirType'
<1>1. /\ dir' = [dir EXCEPT ![from] = Nobody, ![to] = dir[from]]
      /\ disk' = [disk EXCEPT ![from] = @ \cup {Nobody}, ![to] = @ \cup {dir[from]}]
  BY RenameEffect, NameFacts
<1>2. DirType'
  BY <1>1, NameFacts DEF TypeOK, DirType
<1>3. DirStep(r)
  BY <1>1, NameFacts DEF TypeOK, DirStep
<1> QED
  BY <1>2, <1>3

------------------------------------------------------------------------------
(* The runs that do not take the step.                                     *)

(* A step of r as the others see it: nothing of theirs changes, and r only *)
(* becomes active by an inspection, under the ownership marker.            *)
StepOf(r) ==
    /\ DirStep(r) /\ solid \subseteq solid' /\ UNCHANGED <<crashes, durable>>
    /\ \A q \in Runs \ {r} :
         /\ pc'[q] = pc[q] /\ held'[q] = held[q] /\ staged'[q] = staged[q] /\ renamed'[q] = renamed[q]
         /\ temps'[q] = temps[q] /\ sidecars'[q] = sidecars[q] /\ marker'[q] = marker[q]
         /\ cleaned'[q] = cleaned[q] /\ again'[q] = again[q]
         /\ q \in unconfirmed' <=> q \in unconfirmed
         /\ q \in botched' <=> q \in botched
    /\ Active(r)' => Active(r) \/ (dir[Lock] = r /\ \A n \in Artifacts : dir[n] = Nobody)

LEMMA OthersKeep ==
  ASSUME CommitInv, NEW r \in Runs, StepOf(r), NEW q \in Runs, q # r
  PROVE  /\ RunInv(q)' /\ Active(q)' = Active(q)
         /\ (Started(q) /\ held[q] = 1 => dir[Lock] = q)'
         /\ (q \in durable /\ pc[q] = "committed" =>
               \A n \in {Manifest, Sidecar} \cup {Final(i) : i \in Shards} :
                  disk[n] = {q} /\ <<q, n>> \in solid)'
         /\ (q \notin botched /\ pc[q] = "failed" =>
               \A n \in Names : IF q \in durable THEN q \notin disk[n]
                                ELSE crashes = 0 => dir[n] # q)'
<1>0. /\ pc'[q] = pc[q] /\ held'[q] = held[q] /\ staged'[q] = staged[q] /\ renamed'[q] = renamed[q]
      /\ temps'[q] = temps[q] /\ sidecars'[q] = sidecars[q] /\ marker'[q] = marker[q]
      /\ cleaned'[q] = cleaned[q] /\ again'[q] = again[q] /\ (q \in unconfirmed' <=> q \in unconfirmed)
      /\ (q \in botched' <=> q \in botched) /\ crashes' = crashes /\ durable' = durable
      /\ \A n \in Artifacts : <<q, n>> \in solid => <<q, n>> \in solid'
  BY DEF StepOf
<1>1. /\ \A n \in Names : /\ dir'[n] = dir[n] \/ (dir[n] \in {r, Nobody} /\ dir'[n] \in {r, Nobody})
                          /\ disk'[n] \subseteq disk[n] \cup {r, Nobody}
      /\ \A n \in Artifacts : Active(r) \/ (dir'[n] = dir[n] /\ disk'[n] \in {disk[n], {dir[n]}})
      /\ q # Nobody
  BY DurableAssumption DEF StepOf, DirStep
<1>2. \A n \in Names : (dir'[n] = q) = (dir[n] = q) /\ (q \in disk'[n] => q \in disk[n])
  BY <1>1
<1>3. Active(q)' = Active(q)
  BY <1>0 DEF Active, OwnedLen
<1>4. Active(q) => \A n \in Artifacts : dir'[n] = dir[n] /\ disk'[n] \in {disk[n], {dir[n]}}
  BY <1>1 DEF CommitInv, Exclusive
<1>5. RunInv(q) /\ TypeOK
  BY DEF CommitInv
<1>6. pc[q] # "dead" => Shape(q)'
  BY <1>0, <1>5 DEF RunInv, Shape, Nothing, Full, OwnedLen
<1>7. pc[q] # "dead" => Present(q)'
  <2>1. pc[q] \in Producing \cup Late => Active(q)
    BY DEF Active
  <2>2. \A n \in Artifacts : dir[n] = q => dir'[n] = q
    BY <1>2, NameFacts
  <2>3. pc[q] = "manifestrename" => dir'[Manifest] = dir[Manifest]
    BY <1>4, <2>1, NameFacts DEF Late
  <2>4. \A i \in 1..renamed[q] : Final(i) \in Artifacts
    <3>1. renamed[q] \in 0..NumShards /\ NumShards \in Nat
      BY <1>5, DurableAssumption DEF TypeOK
    <3> QED
      BY <3>1, NameFacts DEF Shards
  <2> QED
    BY <1>0, <1>5, <2>2, <2>3, <2>4, NameFacts DEF RunInv, Present
<1>8. pc[q] # "dead" => (q \in durable => Synced(q))'
  <2>1. pc[q] \in Producing \cup Late => Active(q)
    BY DEF Active
  <2>2. pc[q] \in Producing \cup Late =>
          \A n \in Artifacts : /\ disk[n] \subseteq {q, Nobody} => disk'[n] \subseteq {q, Nobody}
                               /\ disk[n] = {q} => disk'[n] = {q}
    BY <1>4, <1>5, <2>1, NameFacts DEF TypeOK
  <2>3. /\ \A i \in Shards : Final(i) \in Artifacts
        /\ \A i \in 1..staged[q] : Final(i) \in Artifacts
    <3>1. staged[q] \in 0..NumShards /\ NumShards \in Nat
      BY <1>5, DurableAssumption DEF TypeOK
    <3> QED
      BY <3>1, NameFacts DEF Shards
  <2> QED
    BY <1>0, <1>5, <2>2, <2>3, NameFacts DEF RunInv, Synced, Producing, Late
<1>9. Listed(q)'
  BY <1>0, <1>2, <1>5 DEF RunInv, Listed, Started, OwnedSet
<1>10. Cleaned(q)'
  <2>1. Owned(q)' = Owned(q)
    BY <1>0 DEF Owned, Temporaries
  <2>2. pc[q] = "remove" => \A k \in 1..cleaned[q] : Owned(q)[k] \in Names
    <3>1. Counted(q) /\ cleaned[q] \in Nat
      BY <1>5 DEF TypeOK, Counted
    <3>2. pc[q] = "remove" => cleaned[q] <= OwnedLen(q)
      BY <1>5 DEF RunInv, Shape
    <3> QED
      BY <3>1, <3>2, OwnedFacts, NameFacts
  <2> QED
    BY <1>0, <1>2, <1>5, <2>1, <2>2, NameFacts DEF RunInv, Cleaned, Untouched, Gone
<1>11. q \notin unconfirmed => ((crashes > 0 => q \in durable) => Marked(q))' /\ Recoverable(q)'
  <2>1. Recoverable(q) => Recoverable(q)'
    BY <1>0, <1>2, NameFacts DEF Recoverable
  <2>2. ASSUME Marked(q) PROVE Marked(q)'
    <3> SUFFICES ASSUME dir'[Manifest] = q PROVE Marked(q)'
      BY DEF Marked
    <3>1. dir[Manifest] = q
      BY <1>2, NameFacts
    <3>2. ~Active(r)
      BY <1>1, <3>1, NameFacts DEF CommitInv, Exclusive
    <3>3. \A n \in Artifacts : /\ dir'[n] = dir[n]
                               /\ disk[n] = {q} => disk'[n] = {q}
                               /\ disk[n] \subseteq {q, Nobody} => disk'[n] \subseteq {q, Nobody}
      BY <1>1, <1>5, <3>2, NameFacts DEF TypeOK
    <3> QED
      BY <1>0, <2>2, <3>1, <3>3, NameFacts DEF Marked
  <2> QED
    BY <1>0, <1>5, <2>1, <2>2 DEF RunInv
<1>12. RunInv(q)'
  BY <1>0, <1>6, <1>7, <1>8, <1>9, <1>10, <1>11 DEF RunInv
<1>13. (Started(q) /\ held[q] = 1 => dir[Lock] = q)'
  BY <1>0, <1>2, NameFacts DEF CommitInv, LockMine, Started
<1>14. (q \in durable /\ pc[q] = "committed" =>
          \A n \in {Manifest, Sidecar} \cup {Final(i) : i \in Shards} : disk[n] = {q} /\ <<q, n>> \in solid)'
  <2> SUFFICES ASSUME q \in durable, pc[q] = "committed",
                      NEW n \in {Manifest, Sidecar} \cup {Final(i) : i \in Shards}
               PROVE  disk'[n] = {q} /\ <<q, n>> \in solid'
    BY <1>0
  <2>1. /\ disk[n] = {q} /\ <<q, n>> \in solid /\ disk[Manifest] = {q} /\ n \in Artifacts
    <3>1. Manifest \in {Manifest, Sidecar} \cup {Final(i) : i \in Shards}
      OBVIOUS
    <3>2. n \in Artifacts
      BY NameFacts
    <3> QED
      BY <3>1, <3>2 DEF CommitInv, SuccessIsDurable
  <2>2. dir[n] = q /\ dir[Manifest] = q
    BY <1>5, <2>1, NameFacts DEF TypeOK
  <2>3. ~Active(r)
    BY <1>1, <2>2, NameFacts DEF CommitInv, Exclusive
  <2> QED
    BY <1>0, <1>1, <2>1, <2>2, <2>3
<1>15. (q \notin botched /\ pc[q] = "failed" =>
          \A n \in Names : IF q \in durable THEN q \notin disk[n] ELSE crashes = 0 => dir[n] # q)'
  BY <1>0, <1>2 DEF CommitInv, CleanFailure
<1> QED
  BY <1>3, <1>12, <1>13, <1>14, <1>15

(* What is to be shown of the run that takes a step.                       *)
SuccessOf(r) ==
    r \in durable /\ pc[r] = "committed" =>
        \A n \in {Manifest, Sidecar} \cup {Final(i) : i \in Shards} :
            disk[n] = {r} /\ <<r, n>> \in solid
FailureOf(r) ==
    r \notin botched /\ pc[r] = "failed" =>
        \A n \in Names : IF r \in durable THEN r \notin disk[n] ELSE crashes = 0 => dir[n] # r
Own(r) ==
    /\ RunInv(r) /\ SuccessOf(r) /\ FailureOf(r)
    /\ Started(r) /\ held[r] = 1 => dir[Lock] = r
    /\ Active(r) => held[r] = 1 \/ dir[Sidecar] = r

LEMMA StepKeeps ==
  ASSUME CommitInv, NEW r \in Runs, TypeOK', StepOf(r), Own(r)'
  PROVE  CommitInv'
<1>1. \A q \in Runs \ {r} :
        /\ RunInv(q)' /\ SuccessOf(q)' /\ FailureOf(q)' /\ Active(q)' = Active(q)
        /\ (Started(q) /\ held[q] = 1 => dir[Lock] = q)'
  BY OthersKeep DEF SuccessOf, FailureOf
<1>2. SuccessIsDurable' /\ CleanFailure'
  <2>1. \A q \in Runs : SuccessOf(q)' /\ FailureOf(q)'
    BY <1>1 DEF Own
  <2>2. durable' \subseteq Runs
    BY DurableAssumption DEF TypeOK
  <2> QED
    BY <2>1, <2>2 DEF SuccessOf, FailureOf, SuccessIsDurable, CleanFailure
<1>3. LockMine'
  BY <1>1 DEF Own, LockMine
<1>4. Exclusive'
  <2>1. ASSUME NEW q \in Runs, q # r, Active(q) PROVE ~Active(r)'
    <3>1. ~Active(r) /\ Started(q) /\ (held[q] = 1 \/ dir[Sidecar] = q)
      BY <2>1 DEF CommitInv, Exclusive, Active, Started, Producing, Late, Undoing
    <3>2. ~(dir[Lock] = r /\ \A n \in Artifacts : dir[n] = Nobody)
      BY <2>1, <3>1, NameFacts, DurableAssumption DEF CommitInv, LockMine
    <3> QED
      BY <3>1, <3>2 DEF StepOf
  <2>2. \A p, q \in Runs : Active(p)' /\ Active(q)' => p = q
    BY <1>1, <2>1 DEF CommitInv, Exclusive
  <2>3. ASSUME NEW q \in Runs, Active(q)'
        PROVE  /\ \A n \in Artifacts : dir'[n] \in {q, Nobody}
               /\ held'[q] = 1 \/ dir'[Sidecar] = q
    <3>1. CASE q = r
      <4>1. Active(r) \/ \A n \in Artifacts : dir[n] = Nobody
        BY <2>3, <3>1 DEF StepOf
      <4>2. \A n \in Artifacts : dir[n] \in {r, Nobody}
        BY <4>1 DEF CommitInv, Exclusive
      <4> QED
        BY <2>3, <3>1, <4>2, NameFacts DEF StepOf, DirStep, Own
    <3>2. CASE q # r
      <4>1. Active(q) /\ ~Active(r)
        BY <1>1, <2>3, <3>2 DEF CommitInv, Exclusive
      <4>2. \A n \in Artifacts : dir'[n] = dir[n]
        BY <4>1 DEF StepOf, DirStep
      <4> QED
        BY <3>2, <4>1, <4>2, NameFacts DEF CommitInv, Exclusive, StepOf
    <3> QED
      BY <3>1, <3>2
  <2> QED
    BY <2>2, <2>3 DEF Exclusive
<1> QED
  BY <1>1, <1>2, <1>3, <1>4 DEF CommitInv, Own

(* What a run that is not dead knows.                                      *)
LEMMA Knows ==
  ASSUME CommitInv, NEW r \in Runs, pc[r] # "dead"
  PROVE  /\ TypeOK /\ Counted(r) /\ RunInv(r) /\ Shape(r) /\ Present(r) /\ Listed(r) /\ Cleaned(r)
         /\ r \in durable => Synced(r)
         /\ Started(r) /\ held[r] = 1 => dir[Lock] = r
         /\ Active(r) => /\ \A n \in Artifacts : dir[n] \in {r, Nobody}
                         /\ held[r] = 1 \/ dir[Sidecar] = r
         /\ r # Nobody /\ NumShards \in Nat \ {0}
  BY DurableAssumption DEF CommitInv, RunInv, LockMine, Exclusive, TypeOK, Counted

------------------------------------------------------------------------------
(* The steps of a run.                                                     *)
(* A run whose manifest is not in place is not found by it.                *)
LEMMA Unmarked ==
  ASSUME CommitInv, NEW r \in Runs, Started(r), marker[r] = 0
  PROVE  dir[Manifest] # r /\ (r \notin unconfirmed /\ r \in durable => r \notin disk[Manifest])
<1>1. Counted(r) /\ Listed(r)
  BY DEF CommitInv, TypeOK, Counted, RunInv
<1>2. Manifest \notin OwnedSet(r) /\ Manifest \in Names /\ Manifest # Lock
  BY <1>1, OwnedFacts, NameFacts
<1>3. dir[Manifest] # r
  BY <1>1, <1>2 DEF Listed
<1> QED
  BY <1>3 DEF CommitInv, RunInv, Recoverable

(* ... and its step on other names keeps it so.                            *)
LEMMA StaysUnmarked ==
  ASSUME CommitInv, NEW r \in Runs, Started(r), marker[r] = 0, dir'[Manifest] # r,
         disk'[Manifest] \subseteq disk[Manifest] \cup {Nobody}, unconfirmed \subseteq unconfirmed', durable' = durable
  PROVE  r \notin unconfirmed' => ((crashes > 0 => r \in durable) => Marked(r))' /\ Recoverable(r)'
<1>1. dir[Manifest] # r /\ (r \notin unconfirmed /\ r \in durable => r \notin disk[Manifest])
  BY Unmarked
<1>2. Nobody # r
  BY DurableAssumption
<1> QED
  BY <1>1, <1>2 DEF Marked, Recoverable

LEMMA EnsureDirectoryKeeps == ASSUME CommitInv, NEW r \in Runs, EnsureDirectory(r) PROVE StepOf(r) /\ CommitInv'
<1>0. /\ pc[r] = "directory" /\ TypeOK /\ Counted(r) /\ RunInv(r) /\ Shape(r) /\ Present(r) /\ Listed(r) /\ Cleaned(r)
      /\ (r \in durable => Synced(r)) /\ (Started(r) /\ held[r] = 1 => dir[Lock] = r)
      /\ Active(r) => /\ \A n \in Artifacts : dir[n] \in {r, Nobody}
                      /\ held[r] = 1 \/ dir[Sidecar] = r
      /\ r # Nobody /\ NumShards \in Nat \ {0}
  BY Knows DEF EnsureDirectory
<1>1. dir' = dir /\ disk' = disk /\ DirStep(r) /\ DirType'
  BY <1>0, UnchangedStep DEF EnsureDirectory, dirVars
<1>2. TypeOK'
  BY <1>0, <1>1, NameFacts DEF EnsureDirectory, Goto, Set, dirVars, ownVars, abortVars, envVars,
     TypeOK, Working, Preparing
<1>3. StepOf(r)
  BY <1>0, <1>1 DEF EnsureDirectory, Goto, Set, dirVars, ownVars, abortVars, envVars, TypeOK,
     StepOf, Active, Producing, Late, Undoing
<1>4. Shape(r)'
  BY <1>0 DEF EnsureDirectory, Goto, Set, dirVars, ownVars, abortVars, envVars, TypeOK, Counted,
     Shape, Nothing, OwnedLen, Producing, Undoing
<1>5. Present(r)'
  BY <1>0, <1>1, NameFacts DEF EnsureDirectory, Goto, Set, dirVars, ownVars, abortVars, envVars,
     TypeOK, Present, Producing, Late
<1>6. (r \in durable => Synced(r))'
  BY <1>0, <1>1, NameFacts DEF EnsureDirectory, Goto, Set, dirVars, ownVars, abortVars, envVars,
     TypeOK, Synced, Producing, Late
<1>7. Listed(r)'
  BY <1>0, <1>1, NameFacts DEF EnsureDirectory, Goto, Set, dirVars, ownVars, abortVars, envVars,
     TypeOK, Listed, Shape, Nothing, Cleaned, Untouched
<1>8. Cleaned(r)'
  BY <1>0, <1>1, NameFacts DEF EnsureDirectory, Goto, Set, dirVars, ownVars, abortVars, Cleaned,
     Untouched
<1>9. r \notin unconfirmed' => ((crashes > 0 => r \in durable) => Marked(r))' /\ Recoverable(r)'
  BY <1>0, <1>1, NameFacts DEF EnsureDirectory, Goto, Set, dirVars, ownVars, abortVars, envVars,
     TypeOK, RunInv, Marked, Recoverable, Listed, Started, Shape
<1>10. /\ SuccessOf(r)' /\ FailureOf(r)' /\ (Started(r) /\ held[r] = 1 => dir[Lock] = r)'
       /\ Active(r)' => held'[r] = 1 \/ dir'[Sidecar] = r
  BY <1>0, <1>1, <1>4, NameFacts DEF EnsureDirectory, Goto, Set, dirVars, ownVars, abortVars,
     envVars, TypeOK, SuccessOf, FailureOf, Started, Active, Late, Undoing, Shape
<1> QED
  BY <1>2, <1>3, <1>4, <1>5, <1>6, <1>7, <1>8, <1>9, <1>10, StepKeeps DEF Own, RunInv

LEMMA TakeLockKeeps == ASSUME CommitInv, NEW r \in Runs, TakeLock(r) PROVE StepOf(r) /\ CommitInv'
<1>0. /\ pc[r] = "lock" /\ TypeOK /\ Counted(r) /\ RunInv(r) /\ Shape(r) /\ Present(r) /\ Listed(r) /\ Cleaned(r)
      /\ (r \in durable => Synced(r)) /\ (Started(r) /\ held[r] = 1 => dir[Lock] = r)
      /\ Active(r) => /\ \A n \in Artifacts : dir[n] \in {r, Nobody}
                      /\ held[r] = 1 \/ dir[Sidecar] = r
      /\ r # Nobody /\ NumShards \in Nat \ {0}
  BY Knows DEF TakeLock
<1>1. /\ dir' = [dir EXCEPT ![Lock] = r] /\ disk' = [disk EXCEPT ![Lock] = @ \cup {r}]
      /\ exists' = exists /\ DirStep(r) /\ DirType'
  <2>1. /\ Lock \in Names /\ Put(Lock, r) /\ dir[Lock] \in {r, Nobody}
        /\ Lock \in Artifacts => Active(r)
    BY <1>0, NameFacts DEF TakeLock
  <2> QED
    BY <1>0, <2>1, PutStep, PutEffect
<1>2. TypeOK'
  BY <1>0, <1>1, NameFacts DEF TakeLock, Goto, Set, dirVars, ownVars, abortVars, envVars, TypeOK,
     Working, Preparing
<1>3. StepOf(r)
  BY <1>0, <1>1 DEF TakeLock, Goto, Set, dirVars, ownVars, abortVars, envVars, TypeOK, StepOf,
     Active, Producing, Late, Undoing
<1>4. Shape(r)'
  BY <1>0 DEF TakeLock, Goto, Set, dirVars, ownVars, abortVars, envVars, TypeOK, Counted, Shape,
     Nothing, OwnedLen, Undoing
<1>5. Present(r)'
  BY <1>0, <1>1, NameFacts DEF TakeLock, Goto, Set, dirVars, ownVars, abortVars, envVars, TypeOK,
     Present, Producing, Late
<1>6. (r \in durable => Synced(r))'
  BY <1>0, <1>1, NameFacts DEF TakeLock, Goto, Set, dirVars, ownVars, abortVars, envVars, TypeOK,
     Synced, Producing, Late
<1>7. Listed(r)'
  BY <1>0, <1>1, NameFacts DEF TakeLock, Goto, Set, dirVars, ownVars, abortVars, envVars, TypeOK,
     Listed, Shape, Nothing, OwnedSet, Started
<1>8. Cleaned(r)'
  BY <1>0, <1>1, NameFacts DEF TakeLock, Goto, Set, dirVars, ownVars, abortVars, TypeOK, Cleaned
<1>9. r \notin unconfirmed' => ((crashes > 0 => r \in durable) => Marked(r))' /\ Recoverable(r)'
  BY <1>0, <1>1, NameFacts DEF TakeLock, Goto, Set, dirVars, ownVars, abortVars, envVars, TypeOK,
     RunInv, Marked, Recoverable, Listed, Started, Shape
<1>10. /\ SuccessOf(r)' /\ FailureOf(r)' /\ (Started(r) /\ held[r] = 1 => dir[Lock] = r)'
       /\ Active(r)' => held'[r] = 1 \/ dir'[Sidecar] = r
  BY <1>0, <1>1, <1>4, NameFacts DEF TakeLock, Goto, Set, dirVars, ownVars, abortVars, envVars,
     TypeOK, SuccessOf, FailureOf, Started, Active
<1> QED
  BY <1>2, <1>3, <1>4, <1>5, <1>6, <1>7, <1>8, <1>9, <1>10, StepKeeps DEF Own, RunInv

LEMMA LockTakenKeeps == ASSUME CommitInv, NEW r \in Runs, LockTaken(r) PROVE StepOf(r) /\ CommitInv'
<1>0. /\ pc[r] = "lock" /\ TypeOK /\ Counted(r) /\ RunInv(r) /\ Shape(r) /\ Present(r) /\ Listed(r) /\ Cleaned(r)
      /\ (r \in durable => Synced(r)) /\ (Started(r) /\ held[r] = 1 => dir[Lock] = r)
      /\ Active(r) => /\ \A n \in Artifacts : dir[n] \in {r, Nobody}
                      /\ held[r] = 1 \/ dir[Sidecar] = r
      /\ r # Nobody /\ NumShards \in Nat \ {0}
  BY Knows DEF LockTaken
<1>1. dir' = dir /\ disk' = disk /\ DirStep(r) /\ DirType'
  BY <1>0, UnchangedStep DEF LockTaken, dirVars
<1>2. TypeOK'
  BY <1>0, <1>1, NameFacts DEF LockTaken, Goto, Set, dirVars, ownVars, abortVars, envVars, TypeOK
<1>3. StepOf(r)
  BY <1>0, <1>1 DEF LockTaken, Goto, Set, dirVars, ownVars, abortVars, envVars, TypeOK, StepOf,
     Active, Producing, Late, Undoing
<1>4. Shape(r)'
  BY <1>0 DEF LockTaken, Goto, Set, dirVars, ownVars, abortVars, envVars, TypeOK, Counted, Shape,
     Nothing, OwnedLen, Producing
<1>5. Present(r)'
  BY <1>0, <1>1, NameFacts DEF LockTaken, Goto, Set, dirVars, ownVars, abortVars, envVars, TypeOK,
     Present, Producing, Late
<1>6. (r \in durable => Synced(r))'
  BY <1>0, <1>1, NameFacts DEF LockTaken, Goto, Set, dirVars, ownVars, abortVars, envVars, TypeOK,
     Synced, Producing, Late
<1>7. Listed(r)'
  BY <1>0, <1>1, NameFacts DEF LockTaken, Goto, Set, dirVars, ownVars, abortVars, envVars, TypeOK,
     Listed, Shape, Nothing, OwnedSet, Started
<1>8. Cleaned(r)'
  BY <1>0, <1>1, NameFacts DEF LockTaken, Goto, ownVars, Cleaned, Untouched, Gone, Shape, Nothing
<1>9. r \notin unconfirmed' => ((crashes > 0 => r \in durable) => Marked(r))' /\ Recoverable(r)'
  BY <1>0, <1>1, NameFacts DEF LockTaken, Goto, Set, dirVars, ownVars, abortVars, envVars, TypeOK,
     RunInv, Marked, Recoverable, Listed, Started, Shape
<1>10. /\ SuccessOf(r)' /\ FailureOf(r)' /\ (Started(r) /\ held[r] = 1 => dir[Lock] = r)'
       /\ Active(r)' => held'[r] = 1 \/ dir'[Sidecar] = r
  BY <1>0, <1>1, <1>4, NameFacts DEF LockTaken, Goto, Set, dirVars, ownVars, abortVars, envVars,
     TypeOK, SuccessOf, FailureOf, Started, Active, Producing, Late, Undoing
<1> QED
  BY <1>2, <1>3, <1>4, <1>5, <1>6, <1>7, <1>8, <1>9, <1>10, StepKeeps DEF Own, RunInv

LEMMA SyncLockKeeps == ASSUME CommitInv, NEW r \in Runs, SyncLock(r) PROVE StepOf(r) /\ CommitInv'
<1>0. /\ pc[r] = "locksync" /\ TypeOK /\ Counted(r) /\ RunInv(r) /\ Shape(r) /\ Present(r) /\ Listed(r) /\ Cleaned(r)
      /\ (r \in durable => Synced(r)) /\ (Started(r) /\ held[r] = 1 => dir[Lock] = r)
      /\ Active(r) => /\ \A n \in Artifacts : dir[n] \in {r, Nobody}
                      /\ held[r] = 1 \/ dir[Sidecar] = r
      /\ r # Nobody /\ NumShards \in Nat \ {0}
  BY Knows DEF SyncLock
<1>1. /\ dir' = dir /\ exists' = exists /\ DirStep(r) /\ DirType'
      /\ \A n \in Names : IF r \in durable THEN disk'[n] = {dir[n]} ELSE disk'[n] = disk[n]
  BY <1>0, SyncStep DEF SyncLock
<1>2. TypeOK'
  BY <1>0, <1>1, NameFacts DEF SyncLock, Goto, Set, dirVars, ownVars, abortVars, envVars, TypeOK,
     DirType, Working, Preparing
<1>3. StepOf(r)
  BY <1>0, <1>1 DEF SyncLock, Goto, Set, dirVars, ownVars, abortVars, envVars, TypeOK, StepOf,
     Active, Producing, Late, Undoing
<1>4. Shape(r)'
  BY <1>0 DEF SyncLock, Goto, Set, dirVars, ownVars, abortVars, envVars, TypeOK, Counted, Shape,
     Nothing, OwnedLen, Undoing
<1>5. Present(r)'
  BY <1>0, <1>1, NameFacts DEF SyncLock, Goto, Set, dirVars, ownVars, abortVars, envVars, TypeOK,
     Present, Producing, Late
<1>6. (r \in durable => Synced(r))'
  BY <1>0, <1>1, NameFacts DEF SyncLock, Goto, Set, dirVars, ownVars, abortVars, envVars, TypeOK,
     Synced, Producing, Late
<1>7. Listed(r)'
  BY <1>0, <1>1, NameFacts DEF SyncLock, Goto, Set, dirVars, ownVars, abortVars, envVars, TypeOK,
     Listed, Shape, Nothing, OwnedSet, Started
<1>8. Cleaned(r)'
  BY <1>0, <1>1, NameFacts DEF SyncLock, Goto, Set, dirVars, ownVars, abortVars, Cleaned
<1>9. r \notin unconfirmed' => ((crashes > 0 => r \in durable) => Marked(r))' /\ Recoverable(r)'
  BY <1>0, <1>1, NameFacts DEF SyncLock, Goto, Set, dirVars, ownVars, abortVars, envVars, TypeOK,
     RunInv, Marked, Recoverable, Listed, Started, Shape
<1>10. /\ SuccessOf(r)' /\ FailureOf(r)' /\ (Started(r) /\ held[r] = 1 => dir[Lock] = r)'
       /\ Active(r)' => held'[r] = 1 \/ dir'[Sidecar] = r
  BY <1>0, <1>1, <1>4, NameFacts DEF SyncLock, Goto, Set, dirVars, ownVars, abortVars, envVars,
     TypeOK, SuccessOf, FailureOf, Started, Active, Producing, Late, Undoing
<1> QED
  BY <1>2, <1>3, <1>4, <1>5, <1>6, <1>7, <1>8, <1>9, <1>10, StepKeeps DEF Own, RunInv

LEMMA InspectKeeps == ASSUME CommitInv, NEW r \in Runs, Inspect(r) PROVE StepOf(r) /\ CommitInv'
<1>0. /\ pc[r] = "inspect" /\ TypeOK /\ Counted(r) /\ RunInv(r) /\ Shape(r) /\ Present(r) /\ Listed(r) /\ Cleaned(r)
      /\ (r \in durable => Synced(r)) /\ (Started(r) /\ held[r] = 1 => dir[Lock] = r)
      /\ Active(r) => /\ \A n \in Artifacts : dir[n] \in {r, Nobody}
                      /\ held[r] = 1 \/ dir[Sidecar] = r
      /\ r # Nobody /\ NumShards \in Nat \ {0}
  BY Knows DEF Inspect
<1>1. dir' = dir /\ disk' = disk /\ DirStep(r) /\ DirType'
  BY <1>0, UnchangedStep DEF Inspect, dirVars
<1>2. TypeOK'
  BY <1>0, <1>1, NameFacts DEF Inspect, Goto, Set, dirVars, ownVars, abortVars, envVars, TypeOK,
     Working, Preparing
<1>3. StepOf(r)
  <2>1. CASE \A n \in Artifacts : dir[n] = Nobody
    BY <1>0, <1>1, <2>1 DEF Inspect, Goto, Set, dirVars, ownVars, envVars, TypeOK, StepOf, Started,
       Shape
  <2>2. CASE ~\A n \in Artifacts : dir[n] = Nobody
    <3>1. ~Active(r)'
      BY <1>0, <2>2 DEF Inspect, Goto, Set, dirVars, ownVars, abortVars, envVars, TypeOK, Active,
         Producing, Late, Shape, Nothing
    <3> QED
      BY <1>0, <1>1, <2>2, <3>1 DEF Inspect, Goto, Set, ownVars, envVars, TypeOK, StepOf
  <2> QED
    BY <2>1, <2>2
<1>4. Shape(r)'
  BY <1>0 DEF Inspect, Goto, Set, dirVars, ownVars, abortVars, envVars, TypeOK, Counted, Shape,
     Nothing, OwnedLen, Undoing
<1>5. Present(r)'
  <2>1. pc'[r] \in {"open", "invalidate"} /\ renamed'[r] = 0
    BY <1>0 DEF Inspect, Goto, ownVars, TypeOK, Shape, Nothing
  <2> QED
    BY <2>1 DEF Present
<1>6. (r \in durable => Synced(r))'
  <2>1. pc'[r] \in {"open", "invalidate"} /\ staged'[r] = 0
    BY <1>0 DEF Inspect, Goto, ownVars, TypeOK, Shape, Nothing
  <2> QED
    BY <2>1 DEF Synced, Producing, Late
<1>7. Listed(r)'
  BY <1>0, <1>1, NameFacts DEF Inspect, Goto, Set, dirVars, ownVars, abortVars, envVars, TypeOK,
     Listed, Shape, Nothing, OwnedSet, Started
<1>8. Cleaned(r)'
  BY <1>0, <1>1, NameFacts DEF Inspect, Goto, Set, dirVars, ownVars, abortVars, TypeOK, Cleaned
<1>9. r \notin unconfirmed' => ((crashes > 0 => r \in durable) => Marked(r))' /\ Recoverable(r)'
  BY <1>0, <1>1, NameFacts DEF Inspect, Goto, Set, dirVars, ownVars, abortVars, envVars, TypeOK,
     RunInv, Marked, Recoverable, Listed, Started, Shape
<1>10. /\ SuccessOf(r)' /\ FailureOf(r)' /\ (Started(r) /\ held[r] = 1 => dir[Lock] = r)'
       /\ Active(r)' => held'[r] = 1 \/ dir'[Sidecar] = r
  BY <1>0, <1>1, <1>4, NameFacts DEF Inspect, Goto, Set, dirVars, ownVars, abortVars, envVars,
     TypeOK, SuccessOf, FailureOf, Started, Active, Shape
<1> QED
  BY <1>2, <1>3, <1>4, <1>5, <1>6, <1>7, <1>8, <1>9, <1>10, StepKeeps DEF Own, RunInv

LEMMA OpenShardKeeps == ASSUME CommitInv, NEW r \in Runs, OpenShard(r) PROVE StepOf(r) /\ CommitInv'
<1>0. /\ pc[r] = "open" /\ TypeOK /\ Counted(r) /\ RunInv(r) /\ Shape(r) /\ Present(r) /\ Listed(r) /\ Cleaned(r)
      /\ (r \in durable => Synced(r)) /\ (Started(r) /\ held[r] = 1 => dir[Lock] = r)
      /\ Active(r) => /\ \A n \in Artifacts : dir[n] \in {r, Nobody}
                      /\ held[r] = 1 \/ dir[Sidecar] = r
      /\ r # Nobody /\ NumShards \in Nat \ {0}
  BY Knows DEF OpenShard
<1>01. staged[r] + 1 \in Shards /\ Stage(staged[r] + 1) \in Artifacts /\ Final(staged[r] + 1) \in Artifacts /\ Stage(staged[r] + 1) # Final(staged[r] + 1)
  <2>1. staged[r] + 1 \in Shards
    BY <1>0 DEF Shape, Counted, Shards
  <2> QED
    BY <2>1, NameFacts
<1>1. /\ dir' = [dir EXCEPT ![Stage(staged[r] + 1)] = r]
      /\ disk' = [disk EXCEPT ![Stage(staged[r] + 1)] = @ \cup {r}]
      /\ exists' = exists /\ DirStep(r) /\ DirType'
  <2>1. /\ Stage(staged[r] + 1) \in Names /\ Put(Stage(staged[r] + 1), r)
        /\ dir[Stage(staged[r] + 1)] \in {r, Nobody} /\ Active(r)
    BY <1>0, <1>01, NameFacts DEF OpenShard, Active, Producing
  <2> QED
    BY <1>0, <2>1, PutStep, PutEffect
<1>2. TypeOK'
  BY <1>0, <1>1, NameFacts DEF OpenShard, Goto, Set, dirVars, ownVars, abortVars, envVars, TypeOK,
     DirType, Shape, Working
<1>3. StepOf(r)
  BY <1>0, <1>1 DEF OpenShard, Goto, Set, dirVars, ownVars, abortVars, envVars, TypeOK, StepOf,
     Active, Producing
<1>4. Shape(r)'
  <2>1. /\ pc'[r] = "finalize" /\ staged'[r] = staged[r] + 1 /\ held'[r] = held[r] /\ renamed'[r] = renamed[r]
        /\ temps'[r] = temps[r] /\ sidecars'[r] = sidecars[r] /\ marker'[r] = marker[r]
        /\ cleaned'[r] = cleaned[r] /\ again'[r] = again[r]
    BY <1>0 DEF OpenShard, Goto, Set, abortVars, TypeOK
  <2>2. again[r] = 0 /\ cleaned[r] = 0
    BY <1>0 DEF Shape, Undoing, TypeOK
  <2>3. OwnedLen(r)' >= 0
    BY <1>0, <2>1 DEF OwnedLen, Counted
  <2> QED
    BY <1>0, <2>1, <2>2, <2>3 DEF Shape, Producing, Counted
<1>5. Present(r)'
  BY <1>0, <1>1, NameFacts DEF OpenShard, Goto, Set, dirVars, ownVars, abortVars, envVars, TypeOK,
     Present, Shape
<1>6. (r \in durable => Synced(r))'
  BY <1>0, <1>1, NameFacts DEF OpenShard, Goto, Set, dirVars, ownVars, abortVars, envVars, TypeOK,
     Synced
<1>7. Listed(r)'
  <2>1. /\ staged'[r] = staged[r] + 1 /\ held' = held /\ renamed' = renamed
        /\ temps' = temps /\ sidecars' = sidecars /\ marker' = marker
    BY <1>0 DEF OpenShard, Set, TypeOK
  <2>2. OwnedSet(r) \subseteq OwnedSet(r)' /\ Stage(staged[r] + 1) \in OwnedSet(r)'
    <3>1. 1..staged[r] \subseteq 1..staged'[r] /\ staged[r] + 1 \in 1..staged'[r]
      BY <1>0, <2>1 DEF Counted
    <3> QED
      BY <2>1, <3>1 DEF OwnedSet
  <2>3. \A n \in Names : dir'[n] = r => dir[n] = r \/ n = Stage(staged[r] + 1)
    BY <1>0, <1>1 DEF TypeOK
  <2> QED
    BY <1>0, <2>1, <2>2, <2>3 DEF Listed, Started
<1>8. Cleaned(r)'
  BY <1>0, <1>1, NameFacts DEF OpenShard, Goto, Set, dirVars, ownVars, abortVars, Cleaned
<1>9. r \notin unconfirmed' => ((crashes > 0 => r \in durable) => Marked(r))' /\ Recoverable(r)'
  BY <1>0, <1>1, NameFacts DEF OpenShard, Goto, Set, dirVars, ownVars, abortVars, envVars, TypeOK,
     RunInv, Marked, Recoverable, Listed, Started, Shape, Shards
<1>10. /\ SuccessOf(r)' /\ FailureOf(r)' /\ (Started(r) /\ held[r] = 1 => dir[Lock] = r)'
       /\ Active(r)' => held'[r] = 1 \/ dir'[Sidecar] = r
  BY <1>0, <1>1, <1>4, NameFacts DEF OpenShard, Goto, Set, dirVars, ownVars, abortVars, envVars,
     TypeOK, SuccessOf, FailureOf, Started, Active, Producing
<1> QED
  BY <1>2, <1>3, <1>4, <1>5, <1>6, <1>7, <1>8, <1>9, <1>10, StepKeeps DEF Own, RunInv

LEMMA FinalizeShardKeeps == ASSUME CommitInv, NEW r \in Runs, FinalizeShard(r) PROVE StepOf(r) /\ CommitInv'
<1>0. /\ pc[r] = "finalize" /\ TypeOK /\ Counted(r) /\ RunInv(r) /\ Shape(r) /\ Present(r) /\ Listed(r) /\ Cleaned(r)
      /\ (r \in durable => Synced(r)) /\ (Started(r) /\ held[r] = 1 => dir[Lock] = r)
      /\ Active(r) => /\ \A n \in Artifacts : dir[n] \in {r, Nobody}
                      /\ held[r] = 1 \/ dir[Sidecar] = r
      /\ r # Nobody /\ NumShards \in Nat \ {0}
  BY Knows DEF FinalizeShard
<1>1. dir' = dir /\ disk' = disk /\ DirStep(r) /\ DirType'
  BY <1>0, UnchangedStep DEF FinalizeShard, dirVars
<1>2. TypeOK'
  BY <1>0, <1>1, NameFacts DEF FinalizeShard, Goto, Set, dirVars, ownVars, abortVars, envVars,
     SyncData, TypeOK, Shape, Shards, Working
<1>3. StepOf(r)
  BY <1>0, <1>1 DEF FinalizeShard, Goto, Set, dirVars, ownVars, abortVars, envVars, SyncData,
     TypeOK, StepOf, Active, Producing
<1>4. Shape(r)'
  BY <1>0 DEF FinalizeShard, Goto, Set, dirVars, ownVars, abortVars, envVars, TypeOK, Counted,
     Shape, Nothing, OwnedLen, Producing
<1>5. Present(r)'
  BY <1>0, <1>1, NameFacts DEF FinalizeShard, Goto, Set, dirVars, ownVars, abortVars, envVars,
     TypeOK, Present, Shape
<1>6. (r \in durable => Synced(r))'
  BY <1>0, <1>1, NameFacts DEF FinalizeShard, Goto, Set, dirVars, ownVars, abortVars, envVars,
     SyncData, TypeOK, Synced, Present, Active, Shards, Producing
<1>7. Listed(r)'
  BY <1>0, <1>1, NameFacts DEF FinalizeShard, Goto, Set, dirVars, ownVars, abortVars, envVars,
     TypeOK, Listed, Shape, Nothing, OwnedSet, Started
<1>8. Cleaned(r)'
  BY <1>0, <1>1, NameFacts DEF FinalizeShard, Goto, Set, dirVars, ownVars, abortVars, Cleaned
<1>9. r \notin unconfirmed' => ((crashes > 0 => r \in durable) => Marked(r))' /\ Recoverable(r)'
  <2>1. Started(r) /\ marker[r] = 0
    BY <1>0 DEF Started, Shape, Producing
  <2>2. /\ dir'[Manifest] = dir[Manifest] /\ disk'[Manifest] = disk[Manifest]
        /\ unconfirmed' = unconfirmed /\ durable' = durable
    BY <1>0, <1>1, NameFacts DEF FinalizeShard, Goto, envVars
  <2>3. dir[Manifest] # r
    BY <2>1, Unmarked
  <2> QED
    BY <2>1, <2>2, <2>3, StaysUnmarked
<1>10. /\ SuccessOf(r)' /\ FailureOf(r)' /\ (Started(r) /\ held[r] = 1 => dir[Lock] = r)'
       /\ Active(r)' => held'[r] = 1 \/ dir'[Sidecar] = r
  BY <1>0, <1>1, <1>4, NameFacts DEF FinalizeShard, Goto, Set, dirVars, ownVars, abortVars,
     envVars, TypeOK, SuccessOf, FailureOf, Started, Active, Producing
<1> QED
  BY <1>2, <1>3, <1>4, <1>5, <1>6, <1>7, <1>8, <1>9, <1>10, StepKeeps DEF Own, RunInv

LEMMA RenameShardKeeps == ASSUME CommitInv, NEW r \in Runs, RenameShard(r) PROVE StepOf(r) /\ CommitInv'
<1>0. /\ pc[r] = "rename" /\ TypeOK /\ Counted(r) /\ RunInv(r) /\ Shape(r) /\ Present(r) /\ Listed(r) /\ Cleaned(r)
      /\ (r \in durable => Synced(r)) /\ (Started(r) /\ held[r] = 1 => dir[Lock] = r)
      /\ Active(r) => /\ \A n \in Artifacts : dir[n] \in {r, Nobody}
                      /\ held[r] = 1 \/ dir[Sidecar] = r
      /\ r # Nobody /\ NumShards \in Nat \ {0}
  BY Knows DEF RenameShard
<1>01. renamed[r] + 1 \in Shards /\ Stage(renamed[r] + 1) \in Artifacts /\ Final(renamed[r] + 1) \in Artifacts /\ Stage(renamed[r] + 1) # Final(renamed[r] + 1)
  <2>1. renamed[r] + 1 \in Shards
    BY <1>0 DEF Shape, Counted, Shards
  <2> QED
    BY <2>1, NameFacts
<1>1. /\ dir' = [dir EXCEPT ![Stage(renamed[r] + 1)] = Nobody, ![Final(renamed[r] + 1)] = r]
      /\ disk' = [disk EXCEPT ![Stage(renamed[r] + 1)] = @ \cup {Nobody},
                              ![Final(renamed[r] + 1)] = @ \cup {r}]
      /\ exists' = exists /\ DirStep(r) /\ DirType'
  <2>1. Rename(Stage(renamed[r] + 1), Final(renamed[r] + 1)) /\ Active(r)
    BY <1>0 DEF RenameShard, Active, Producing
  <2>2. dir[Stage(renamed[r] + 1)] = r /\ dir[Final(renamed[r] + 1)] \in {r, Nobody}
    BY <1>0, <1>01, <2>1 DEF RenameShard
  <2> QED
    BY <1>0, <1>01, <2>1, <2>2, NameFacts, RenameStep, RenameEffect
<1>2. TypeOK'
  <2>1. pc' \in [Runs -> Working \cup {"committed", "retract", "retractsync", "invalidate",
                 "invalidatesync", "remove", "release", "cleanupsync", "rmdir", "failed",
                 "dead"}]
    BY <1>0 DEF RenameShard, Goto, TypeOK, Working, Preparing
  <2>2. /\ held' \in [Runs -> 0..1] /\ made' \in [Runs -> 0..1] /\ marker' \in [Runs -> 0..1]
        /\ staged' \in [Runs -> 0..NumShards] /\ renamed' \in [Runs -> 0..NumShards]
        /\ temps' \in [Runs -> 0..2] /\ sidecars' \in [Runs -> 0..1]
        /\ cleaned' \in [Runs -> Nat] /\ again' \in [Runs -> 0..1]
    BY <1>0 DEF RenameShard, Goto, Set, abortVars, TypeOK, Shape
  <2> QED
    BY <1>0, <1>1, <2>1, <2>2 DEF RenameShard, Goto, Set, envVars, TypeOK, DirType
<1>3. StepOf(r)
  BY <1>0, <1>1 DEF RenameShard, Goto, Set, dirVars, ownVars, abortVars, envVars, TypeOK, StepOf,
     Active, Producing
<1>4. Shape(r)'
  <2>1. /\ pc'[r] \in {"rename", "shardsync"} /\ (pc'[r] = "rename" => renamed[r] + 1 < NumShards)
        /\ pc'[r] = "shardsync" => renamed[r] + 1 = NumShards
        /\ renamed'[r] = renamed[r] + 1 /\ held'[r] = held[r] /\ staged'[r] = staged[r]
        /\ temps'[r] = temps[r] /\ sidecars'[r] = sidecars[r] /\ marker'[r] = marker[r]
        /\ cleaned'[r] = cleaned[r] /\ again'[r] = again[r]
    BY <1>0, <1>01 DEF RenameShard, Goto, Set, abortVars, TypeOK, Shards
  <2>2. again[r] = 0 /\ cleaned[r] = 0
    BY <1>0 DEF Shape, Undoing, TypeOK
  <2>3. OwnedLen(r)' >= 0
    BY <1>0, <2>1 DEF OwnedLen, Counted
  <2> QED
    BY <1>0, <2>1, <2>2, <2>3 DEF Shape, Producing
<1>5. Present(r)'
  BY <1>0, <1>1, NameFacts DEF RenameShard, Goto, Set, dirVars, ownVars, abortVars, envVars,
     TypeOK, Present, Shape, Shards, Producing
<1>6. (r \in durable => Synced(r))'
  BY <1>0, <1>1, NameFacts DEF RenameShard, Goto, Set, dirVars, ownVars, abortVars, envVars,
     TypeOK, Synced, Producing
<1>7. Listed(r)'
  <2>1. /\ renamed'[r] = renamed[r] + 1 /\ held' = held /\ staged' = staged
        /\ temps' = temps /\ sidecars' = sidecars /\ marker' = marker
    BY <1>0 DEF RenameShard, Set, TypeOK
  <2>2. OwnedSet(r) \subseteq OwnedSet(r)' /\ Final(renamed[r] + 1) \in OwnedSet(r)'
    <3>1. 1..renamed[r] \subseteq 1..renamed'[r] /\ renamed[r] + 1 \in 1..renamed'[r]
      BY <1>0, <2>1 DEF Counted
    <3> QED
      BY <2>1, <3>1 DEF OwnedSet
  <2>3. \A n \in Names : dir'[n] = r => dir[n] = r \/ n = Final(renamed[r] + 1)
    BY <1>0, <1>1 DEF TypeOK
  <2> QED
    BY <1>0, <2>1, <2>2, <2>3 DEF Listed, Started
<1>8. Cleaned(r)'
  BY <1>0, <1>1, NameFacts DEF RenameShard, Goto, Set, dirVars, ownVars, abortVars, Cleaned
<1>9. r \notin unconfirmed' => ((crashes > 0 => r \in durable) => Marked(r))' /\ Recoverable(r)'
  <2>1. Started(r) /\ marker[r] = 0
    BY <1>0 DEF Started, Shape, Producing
  <2>2. /\ dir'[Manifest] = dir[Manifest] /\ disk'[Manifest] = disk[Manifest]
        /\ unconfirmed' = unconfirmed /\ durable' = durable
    BY <1>0, <1>1, <1>01, NameFacts DEF RenameShard, Goto, envVars, TypeOK
  <2>3. dir[Manifest] # r
    BY <2>1, Unmarked
  <2> QED
    BY <2>1, <2>2, <2>3, StaysUnmarked
<1>10. /\ SuccessOf(r)' /\ FailureOf(r)' /\ (Started(r) /\ held[r] = 1 => dir[Lock] = r)'
       /\ Active(r)' => held'[r] = 1 \/ dir'[Sidecar] = r
  <2>1. pc'[r] \in {"rename", "shardsync"} /\ held' = held /\ held[r] = 1
    BY <1>0 DEF RenameShard, Goto, TypeOK, Shape, Producing
  <2>2. dir'[Lock] = dir[Lock]
    BY <1>0, <1>01, <1>1, NameFacts DEF TypeOK
  <2> QED
    BY <1>0, <2>1, <2>2 DEF SuccessOf, FailureOf, Started
<1> QED
  BY <1>2, <1>3, <1>4, <1>5, <1>6, <1>7, <1>8, <1>9, <1>10, StepKeeps DEF Own, RunInv

LEMMA SyncShardsKeeps == ASSUME CommitInv, NEW r \in Runs, SyncShards(r) PROVE StepOf(r) /\ CommitInv'
<1>0. /\ pc[r] = "shardsync" /\ TypeOK /\ Counted(r) /\ RunInv(r) /\ Shape(r) /\ Present(r) /\ Listed(r) /\ Cleaned(r)
      /\ (r \in durable => Synced(r)) /\ (Started(r) /\ held[r] = 1 => dir[Lock] = r)
      /\ Active(r) => /\ \A n \in Artifacts : dir[n] \in {r, Nobody}
                      /\ held[r] = 1 \/ dir[Sidecar] = r
      /\ r # Nobody /\ NumShards \in Nat \ {0}
  BY Knows DEF SyncShards
<1>1. /\ dir' = dir /\ exists' = exists /\ DirStep(r) /\ DirType'
      /\ \A n \in Names : IF r \in durable THEN disk'[n] = {dir[n]} ELSE disk'[n] = disk[n]
  BY <1>0, SyncStep DEF SyncShards
<1>2. TypeOK'
  BY <1>0, <1>1, NameFacts DEF SyncShards, Goto, Set, dirVars, ownVars, abortVars, envVars, TypeOK,
     DirType, Working
<1>3. StepOf(r)
  BY <1>0, <1>1 DEF SyncShards, Goto, Set, dirVars, ownVars, abortVars, envVars, TypeOK, StepOf,
     Active, Producing
<1>4. Shape(r)'
  BY <1>0 DEF SyncShards, Goto, Set, dirVars, ownVars, abortVars, envVars, TypeOK, Counted, Shape,
     Nothing, OwnedLen, Producing
<1>5. Present(r)'
  BY <1>0, <1>1, NameFacts DEF SyncShards, Goto, Set, dirVars, ownVars, abortVars, envVars, TypeOK,
     Present, Producing
<1>6. (r \in durable => Synced(r))'
  BY <1>0, <1>1, NameFacts DEF SyncShards, Goto, Set, dirVars, ownVars, abortVars, envVars, TypeOK,
     Synced, Shape, Present, Active, Shards, Producing
<1>7. Listed(r)'
  BY <1>0, <1>1, NameFacts DEF SyncShards, Goto, Set, dirVars, ownVars, abortVars, envVars, TypeOK,
     Listed, Shape, Nothing, OwnedSet, Started
<1>8. Cleaned(r)'
  BY <1>0, <1>1, NameFacts DEF SyncShards, Goto, Set, dirVars, ownVars, abortVars, Cleaned
<1>9. r \notin unconfirmed' => ((crashes > 0 => r \in durable) => Marked(r))' /\ Recoverable(r)'
  BY <1>0, <1>1, NameFacts DEF SyncShards, Goto, Set, dirVars, ownVars, abortVars, envVars, TypeOK,
     RunInv, Marked, Recoverable, Listed, Started, Shape
<1>10. /\ SuccessOf(r)' /\ FailureOf(r)' /\ (Started(r) /\ held[r] = 1 => dir[Lock] = r)'
       /\ Active(r)' => held'[r] = 1 \/ dir'[Sidecar] = r
  BY <1>0, <1>1, <1>4, NameFacts DEF SyncShards, Goto, Set, dirVars, ownVars, abortVars, envVars,
     TypeOK, SuccessOf, FailureOf, Started, Active, Producing
<1> QED
  BY <1>2, <1>3, <1>4, <1>5, <1>6, <1>7, <1>8, <1>9, <1>10, StepKeeps DEF Own, RunInv

LEMMA WriteSidecarKeeps == ASSUME CommitInv, NEW r \in Runs, WriteSidecar(r) PROVE StepOf(r) /\ CommitInv'
<1>0. /\ pc[r] = "sidecar" /\ TypeOK /\ Counted(r) /\ RunInv(r) /\ Shape(r) /\ Present(r) /\ Listed(r) /\ Cleaned(r)
      /\ (r \in durable => Synced(r)) /\ (Started(r) /\ held[r] = 1 => dir[Lock] = r)
      /\ Active(r) => /\ \A n \in Artifacts : dir[n] \in {r, Nobody}
                      /\ held[r] = 1 \/ dir[Sidecar] = r
      /\ r # Nobody /\ NumShards \in Nat \ {0}
  BY Knows DEF WriteSidecar
<1>1. /\ dir' = [dir EXCEPT ![SidecarTemp(r)] = r] /\ disk' = [disk EXCEPT ![SidecarTemp(r)] = @ \cup {r}]
      /\ exists' = exists /\ DirStep(r) /\ DirType'
  <2>1. /\ SidecarTemp(r) \in Names /\ Put(SidecarTemp(r), r) /\ dir[SidecarTemp(r)] \in {r, Nobody}
        /\ SidecarTemp(r) \in Artifacts => Active(r)
    BY <1>0, NameFacts DEF WriteSidecar, Active, Producing
  <2> QED
    BY <1>0, <2>1, PutStep, PutEffect
<1>2. TypeOK'
  BY <1>0, <1>1, NameFacts DEF WriteSidecar, Goto, Set, dirVars, ownVars, abortVars, envVars,
     SyncData, TypeOK, Working
<1>3. StepOf(r)
  BY <1>0, <1>1 DEF WriteSidecar, Goto, Set, dirVars, ownVars, abortVars, envVars, SyncData,
     TypeOK, StepOf, Active, Producing
<1>4. Shape(r)'
  BY <1>0 DEF WriteSidecar, Goto, Set, dirVars, ownVars, abortVars, envVars, TypeOK, Counted,
     Shape, Nothing, OwnedLen, Producing
<1>5. Present(r)'
  BY <1>0, <1>1, NameFacts DEF WriteSidecar, Goto, Set, dirVars, ownVars, abortVars, envVars,
     TypeOK, Present, Producing
<1>6. (r \in durable => Synced(r))'
  BY <1>0, <1>1, NameFacts DEF WriteSidecar, Goto, Set, dirVars, ownVars, abortVars, envVars,
     SyncData, TypeOK, Synced, Producing
<1>7. Listed(r)'
  BY <1>0, <1>1, NameFacts DEF WriteSidecar, Goto, Set, dirVars, ownVars, abortVars, envVars,
     TypeOK, Listed, Shape, Nothing, OwnedSet, Started
<1>8. Cleaned(r)'
  BY <1>0, <1>1, NameFacts DEF WriteSidecar, Goto, Set, dirVars, ownVars, abortVars, Cleaned
<1>9. r \notin unconfirmed' => ((crashes > 0 => r \in durable) => Marked(r))' /\ Recoverable(r)'
  <2>1. Started(r) /\ marker[r] = 0
    BY <1>0 DEF Started, Shape, Producing
  <2>2. /\ dir'[Manifest] = dir[Manifest] /\ disk'[Manifest] = disk[Manifest]
        /\ unconfirmed' = unconfirmed /\ durable' = durable
    BY <1>0, <1>1, NameFacts DEF WriteSidecar, Goto, envVars
  <2>3. dir[Manifest] # r
    BY <2>1, Unmarked
  <2> QED
    BY <2>1, <2>2, <2>3, StaysUnmarked
<1>10. /\ SuccessOf(r)' /\ FailureOf(r)' /\ (Started(r) /\ held[r] = 1 => dir[Lock] = r)'
       /\ Active(r)' => held'[r] = 1 \/ dir'[Sidecar] = r
  BY <1>0, <1>1, <1>4, NameFacts DEF WriteSidecar, Goto, Set, dirVars, ownVars, abortVars, envVars,
     TypeOK, SuccessOf, FailureOf, Started, Active, Producing
<1> QED
  BY <1>2, <1>3, <1>4, <1>5, <1>6, <1>7, <1>8, <1>9, <1>10, StepKeeps DEF Own, RunInv

LEMMA RenameSidecarKeeps == ASSUME CommitInv, NEW r \in Runs, RenameSidecar(r) PROVE StepOf(r) /\ CommitInv'
<1>0. /\ pc[r] = "sidecarrename" /\ TypeOK /\ Counted(r) /\ RunInv(r) /\ Shape(r) /\ Present(r) /\ Listed(r) /\ Cleaned(r)
      /\ (r \in durable => Synced(r)) /\ (Started(r) /\ held[r] = 1 => dir[Lock] = r)
      /\ Active(r) => /\ \A n \in Artifacts : dir[n] \in {r, Nobody}
                      /\ held[r] = 1 \/ dir[Sidecar] = r
      /\ r # Nobody /\ NumShards \in Nat \ {0}
  BY Knows DEF RenameSidecar
<1>1. /\ dir' = [dir EXCEPT ![SidecarTemp(r)] = Nobody, ![Sidecar] = r]
      /\ disk' = [disk EXCEPT ![SidecarTemp(r)] = @ \cup {Nobody}, ![Sidecar] = @ \cup {r}]
      /\ exists' = exists /\ DirStep(r) /\ DirType'
  <2>1. /\ SidecarTemp(r) \in Artifacts /\ Sidecar \in Artifacts /\ SidecarTemp(r) # Sidecar
        /\ Rename(SidecarTemp(r), Sidecar) /\ Active(r)
    BY <1>0, NameFacts DEF RenameSidecar, Active, Producing
  <2>2. dir[SidecarTemp(r)] = r /\ dir[Sidecar] \in {r, Nobody}
    BY <1>0, <2>1 DEF RenameSidecar, Present
  <2> QED
    BY <1>0, <2>1, <2>2, NameFacts, RenameStep, RenameEffect
<1>2. TypeOK'
  <2>1. pc' \in [Runs -> Working \cup {"committed", "retract", "retractsync", "invalidate",
                 "invalidatesync", "remove", "release", "cleanupsync", "rmdir", "failed",
                 "dead"}]
    BY <1>0 DEF RenameSidecar, Goto, TypeOK, Working, Preparing
  <2>2. /\ held' \in [Runs -> 0..1] /\ made' \in [Runs -> 0..1] /\ marker' \in [Runs -> 0..1]
        /\ staged' \in [Runs -> 0..NumShards] /\ renamed' \in [Runs -> 0..NumShards]
        /\ temps' \in [Runs -> 0..2] /\ sidecars' \in [Runs -> 0..1]
        /\ cleaned' \in [Runs -> Nat] /\ again' \in [Runs -> 0..1]
    BY <1>0 DEF RenameSidecar, Goto, Set, abortVars, TypeOK
  <2> QED
    BY <1>0, <1>1, <2>1, <2>2 DEF RenameSidecar, Goto, Set, envVars, TypeOK, DirType
<1>3. StepOf(r)
  BY <1>0, <1>1 DEF RenameSidecar, Goto, Set, dirVars, ownVars, abortVars, envVars, TypeOK, StepOf,
     Active, Producing
<1>4. Shape(r)'
  BY <1>0 DEF RenameSidecar, Goto, Set, dirVars, ownVars, abortVars, envVars, TypeOK, Counted,
     Shape, Nothing, OwnedLen, Producing
<1>5. Present(r)'
  BY <1>0, <1>1, NameFacts DEF RenameSidecar, Goto, Set, dirVars, ownVars, abortVars, envVars,
     TypeOK, Present, Shards, Producing
<1>6. (r \in durable => Synced(r))'
  BY <1>0, <1>1, NameFacts DEF RenameSidecar, Goto, Set, dirVars, ownVars, abortVars, envVars,
     TypeOK, Synced, Producing
<1>7. Listed(r)'
  BY <1>0, <1>1, NameFacts, SMTT(30) DEF RenameSidecar, Goto, Set, dirVars, ownVars, abortVars, envVars,
     TypeOK, Listed, Shape, Nothing, Full, OwnedSet, Started, Cleaned, Untouched, Shards
<1>8. Cleaned(r)'
  BY <1>0, <1>1, NameFacts DEF RenameSidecar, Goto, Set, dirVars, ownVars, abortVars, Cleaned
<1>9. r \notin unconfirmed' => ((crashes > 0 => r \in durable) => Marked(r))' /\ Recoverable(r)'
  BY <1>0, <1>1, NameFacts DEF RenameSidecar, Goto, Set, dirVars, ownVars, abortVars, envVars,
     TypeOK, RunInv, Marked, Recoverable, Listed, Started, Shape, Present, Producing
<1>10. /\ SuccessOf(r)' /\ FailureOf(r)' /\ (Started(r) /\ held[r] = 1 => dir[Lock] = r)'
       /\ Active(r)' => held'[r] = 1 \/ dir'[Sidecar] = r
  BY <1>0, <1>1, <1>4, NameFacts DEF RenameSidecar, Goto, Set, dirVars, ownVars, abortVars,
     envVars, TypeOK, SuccessOf, FailureOf, Started, Active
<1> QED
  BY <1>2, <1>3, <1>4, <1>5, <1>6, <1>7, <1>8, <1>9, <1>10, StepKeeps DEF Own, RunInv

LEMMA WriteManifestKeeps == ASSUME CommitInv, NEW r \in Runs, WriteManifest(r) PROVE StepOf(r) /\ CommitInv'
<1>0. /\ pc[r] = "manifest" /\ TypeOK /\ Counted(r) /\ RunInv(r) /\ Shape(r) /\ Present(r) /\ Listed(r) /\ Cleaned(r)
      /\ (r \in durable => Synced(r)) /\ (Started(r) /\ held[r] = 1 => dir[Lock] = r)
      /\ Active(r) => /\ \A n \in Artifacts : dir[n] \in {r, Nobody}
                      /\ held[r] = 1 \/ dir[Sidecar] = r
      /\ r # Nobody /\ NumShards \in Nat \ {0}
  BY Knows DEF WriteManifest
<1>1. /\ dir' = [dir EXCEPT ![ManifestTemp(r)] = r] /\ disk' = [disk EXCEPT ![ManifestTemp(r)] = @ \cup {r}]
      /\ exists' = exists /\ DirStep(r) /\ DirType'
  <2>1. /\ ManifestTemp(r) \in Names /\ Put(ManifestTemp(r), r) /\ dir[ManifestTemp(r)] \in {r, Nobody}
        /\ ManifestTemp(r) \in Artifacts => Active(r)
    BY <1>0, NameFacts DEF WriteManifest, Active, Producing
  <2> QED
    BY <1>0, <2>1, PutStep, PutEffect
<1>2. TypeOK'
  BY <1>0, <1>1, NameFacts DEF WriteManifest, Goto, Set, dirVars, ownVars, abortVars, envVars,
     SyncData, TypeOK, Working
<1>3. StepOf(r)
  BY <1>0, <1>1 DEF WriteManifest, Goto, Set, dirVars, ownVars, abortVars, envVars, SyncData,
     TypeOK, StepOf, Active, Producing
<1>4. Shape(r)'
  BY <1>0 DEF WriteManifest, Goto, Set, dirVars, ownVars, abortVars, envVars, TypeOK, Counted,
     Shape, Nothing, Full, OwnedLen, Producing
<1>5. Present(r)'
  BY <1>0, <1>1, NameFacts DEF WriteManifest, Goto, Set, dirVars, ownVars, abortVars, envVars,
     TypeOK, Present, Producing
<1>6. (r \in durable => Synced(r))'
  BY <1>0, <1>1, NameFacts DEF WriteManifest, Goto, Set, dirVars, ownVars, abortVars, envVars,
     SyncData, TypeOK, Synced, Producing
<1>7. Listed(r)'
  BY <1>0, <1>1, NameFacts DEF WriteManifest, Goto, Set, dirVars, ownVars, abortVars, envVars,
     TypeOK, Listed, Shape, Nothing, OwnedSet, Started
<1>8. Cleaned(r)'
  BY <1>0, <1>1, NameFacts DEF WriteManifest, Goto, Set, dirVars, ownVars, abortVars, Cleaned
<1>9. r \notin unconfirmed' => ((crashes > 0 => r \in durable) => Marked(r))' /\ Recoverable(r)'
  BY <1>0, <1>1, NameFacts DEF WriteManifest, Goto, Set, dirVars, ownVars, abortVars, envVars,
     TypeOK, RunInv, Marked, Recoverable, Listed, Started, Shape
<1>10. /\ SuccessOf(r)' /\ FailureOf(r)' /\ (Started(r) /\ held[r] = 1 => dir[Lock] = r)'
       /\ Active(r)' => held'[r] = 1 \/ dir'[Sidecar] = r
  BY <1>0, <1>1, <1>4, NameFacts DEF WriteManifest, Goto, Set, dirVars, ownVars, abortVars,
     envVars, TypeOK, SuccessOf, FailureOf, Started, Active, Producing
<1> QED
  BY <1>2, <1>3, <1>4, <1>5, <1>6, <1>7, <1>8, <1>9, <1>10, StepKeeps DEF Own, RunInv

LEMMA UnlockKeeps == ASSUME CommitInv, NEW r \in Runs, Unlock(r) PROVE StepOf(r) /\ CommitInv'
<1>0. /\ pc[r] = "unlock" /\ TypeOK /\ Counted(r) /\ RunInv(r) /\ Shape(r) /\ Present(r) /\ Listed(r) /\ Cleaned(r)
      /\ (r \in durable => Synced(r)) /\ (Started(r) /\ held[r] = 1 => dir[Lock] = r)
      /\ Active(r) => /\ \A n \in Artifacts : dir[n] \in {r, Nobody}
                      /\ held[r] = 1 \/ dir[Sidecar] = r
      /\ r # Nobody /\ NumShards \in Nat \ {0}
  BY Knows DEF Unlock
<1>1. /\ dir' = [dir EXCEPT ![Lock] = Nobody] /\ disk' = [disk EXCEPT ![Lock] = @ \cup {Nobody}]
      /\ exists' = exists /\ DirStep(r) /\ DirType'
  <2>1. /\ Lock \in Names /\ Put(Lock, Nobody) /\ dir[Lock] \in {r, Nobody}
        /\ Lock \in Artifacts => Active(r)
    BY <1>0, NameFacts DEF Unlock, Shape, Producing, Started
  <2> QED
    BY <1>0, <2>1, PutStep, PutEffect
<1>2. TypeOK'
  BY <1>0, <1>1, NameFacts DEF Unlock, Goto, Set, dirVars, ownVars, abortVars, envVars, TypeOK,
     Working
<1>3. StepOf(r)
  BY <1>0, <1>1 DEF Unlock, Goto, Set, dirVars, ownVars, abortVars, envVars, TypeOK, StepOf,
     Active, Producing
<1>4. Shape(r)'
  BY <1>0 DEF Unlock, Goto, Set, dirVars, ownVars, abortVars, envVars, TypeOK, Counted, Shape,
     Nothing, Full, OwnedLen, Producing
<1>5. Present(r)'
  <2>1. pc'[r] = "manifestrename" /\ renamed'[r] = NumShards /\ marker[r] = 0
    BY <1>0 DEF Unlock, Goto, TypeOK, Shape, Full
  <2>2. \A n \in Artifacts : dir'[n] = dir[n]
    BY <1>0, <1>1, NameFacts DEF TypeOK
  <2>3. dir[Manifest] = Nobody
    BY <1>0, <2>1, Unmarked, NameFacts DEF Active, Producing, Started
  <2>4. /\ \A i \in 1..NumShards : dir[Final(i)] = r /\ Final(i) \in Artifacts
        /\ dir[ManifestTemp(r)] = r /\ dir[Sidecar] = r
    BY <1>0, NameFacts DEF Present, Shape, Full, Producing, Shards
  <2> QED
    BY <2>1, <2>2, <2>3, <2>4, NameFacts DEF Present, Producing, Late
<1>6. (r \in durable => Synced(r))'
  BY <1>0, <1>1, NameFacts DEF Unlock, Goto, Set, dirVars, ownVars, abortVars, envVars, TypeOK,
     Synced, Producing
<1>7. Listed(r)'
  BY <1>0, <1>1, NameFacts DEF Unlock, Goto, Set, dirVars, ownVars, abortVars, envVars, TypeOK,
     Listed, Shape, Nothing, OwnedSet, Started
<1>8. Cleaned(r)'
  BY <1>0, <1>1, NameFacts DEF Unlock, Goto, Set, dirVars, ownVars, abortVars, Cleaned
<1>9. r \notin unconfirmed' => ((crashes > 0 => r \in durable) => Marked(r))' /\ Recoverable(r)'
  BY <1>0, <1>1, NameFacts DEF Unlock, Goto, Set, dirVars, ownVars, abortVars, envVars, TypeOK,
     RunInv, Marked, Recoverable, Listed, Started, Shape
<1>10. /\ SuccessOf(r)' /\ FailureOf(r)' /\ (Started(r) /\ held[r] = 1 => dir[Lock] = r)'
       /\ Active(r)' => held'[r] = 1 \/ dir'[Sidecar] = r
  BY <1>0, <1>1, <1>4, NameFacts DEF Unlock, Goto, Set, dirVars, ownVars, abortVars, envVars,
     TypeOK, SuccessOf, FailureOf, Started, Active, Present
<1> QED
  BY <1>2, <1>3, <1>4, <1>5, <1>6, <1>7, <1>8, <1>9, <1>10, StepKeeps DEF Own, RunInv

LEMMA RenameManifestKeeps == ASSUME CommitInv, NEW r \in Runs, RenameManifest(r) PROVE StepOf(r) /\ CommitInv'
<1>0. /\ pc[r] = "manifestrename" /\ TypeOK /\ Counted(r) /\ RunInv(r) /\ Shape(r) /\ Present(r) /\ Listed(r) /\ Cleaned(r)
      /\ (r \in durable => Synced(r)) /\ (Started(r) /\ held[r] = 1 => dir[Lock] = r)
      /\ Active(r) => /\ \A n \in Artifacts : dir[n] \in {r, Nobody}
                      /\ held[r] = 1 \/ dir[Sidecar] = r
      /\ r # Nobody /\ NumShards \in Nat \ {0}
  BY Knows DEF RenameManifest
<1>1. /\ dir' = [dir EXCEPT ![ManifestTemp(r)] = Nobody, ![Manifest] = r]
      /\ disk' = [disk EXCEPT ![ManifestTemp(r)] = @ \cup {Nobody}, ![Manifest] = @ \cup {r}]
      /\ exists' = exists /\ DirStep(r) /\ DirType'
  <2>1. /\ ManifestTemp(r) \in Artifacts /\ Manifest \in Artifacts /\ ManifestTemp(r) # Manifest
        /\ Rename(ManifestTemp(r), Manifest) /\ Active(r)
    BY <1>0, NameFacts DEF RenameManifest, Active, Late
  <2>2. dir[ManifestTemp(r)] = r /\ dir[Manifest] \in {r, Nobody}
    BY <1>0, <2>1 DEF RenameManifest, Present
  <2> QED
    BY <1>0, <2>1, <2>2, NameFacts, RenameStep, RenameEffect
<1>2. TypeOK'
  <2>1. pc' \in [Runs -> Working \cup {"committed", "retract", "retractsync", "invalidate",
                 "invalidatesync", "remove", "release", "cleanupsync", "rmdir", "failed",
                 "dead"}]
    BY <1>0 DEF RenameManifest, Goto, TypeOK, Working, Preparing
  <2>2. /\ held' \in [Runs -> 0..1] /\ made' \in [Runs -> 0..1] /\ marker' \in [Runs -> 0..1]
        /\ staged' \in [Runs -> 0..NumShards] /\ renamed' \in [Runs -> 0..NumShards]
        /\ temps' \in [Runs -> 0..2] /\ sidecars' \in [Runs -> 0..1]
        /\ cleaned' \in [Runs -> Nat] /\ again' \in [Runs -> 0..1]
    BY <1>0 DEF RenameManifest, Goto, Set, abortVars, TypeOK
  <2> QED
    BY <1>0, <1>1, <2>1, <2>2 DEF RenameManifest, Goto, Set, envVars, TypeOK, DirType
<1>3. StepOf(r)
  BY <1>0, <1>1 DEF RenameManifest, Goto, Set, dirVars, ownVars, abortVars, envVars, TypeOK,
     StepOf, Active, Late
<1>4. Shape(r)'
  BY <1>0 DEF RenameManifest, Goto, Set, dirVars, ownVars, abortVars, envVars, TypeOK, Counted,
     Shape, Nothing, Full, OwnedLen, Producing
<1>5. Present(r)'
  BY <1>0, <1>1, NameFacts DEF RenameManifest, Goto, Set, dirVars, ownVars, abortVars, envVars,
     TypeOK, Present, Shards, Late
<1>6. (r \in durable => Synced(r))'
  BY <1>0, <1>1, NameFacts DEF RenameManifest, Goto, Set, dirVars, ownVars, abortVars, envVars,
     TypeOK, Synced, Late
<1>7. Listed(r)'
  BY <1>0, <1>1, NameFacts DEF RenameManifest, Goto, Set, dirVars, ownVars, abortVars, envVars,
     TypeOK, Listed, Shape, Nothing, Full, OwnedSet, Started, Cleaned
<1>8. Cleaned(r)'
  BY <1>0, <1>1, NameFacts DEF RenameManifest, Goto, Set, dirVars, ownVars, abortVars, Cleaned
<1>9. r \notin unconfirmed' => ((crashes > 0 => r \in durable) => Marked(r))' /\ Recoverable(r)'
  <2>1. /\ \A n \in Artifacts : n \notin {Manifest, ManifestTemp(r)} => dir'[n] = dir[n] /\ disk'[n] = disk[n]
        /\ \A n \in Artifacts : dir'[n] \in {r, Nobody} \/ dir'[n] = dir[n]
        /\ \A n \in Artifacts : disk'[n] \subseteq disk[n] \cup {r, Nobody}
        /\ dir'[Manifest] = r /\ solid' = solid /\ durable' = durable
    BY <1>0, <1>1, NameFacts DEF RenameManifest, envVars, TypeOK
  <2>2. \A i \in Shards : dir'[Final(i)] = r /\ disk'[Final(i)] = disk[Final(i)]
    <3>1. \A i \in Shards : dir[Final(i)] = r
      BY <1>0 DEF Present, Shape, Full, Late, Shards
    <3> QED
      BY <2>1, <3>1, NameFacts
  <2>3. \A n \in Artifacts : dir'[n] \in {r, Nobody}
    BY <1>0, <2>1 DEF Active, Late
  <2>4. r \in durable => /\ \A i \in Shards : disk'[Final(i)] = {r} /\ <<r, Final(i)>> \in solid'
                         /\ \A n \in Artifacts : disk'[n] \subseteq {r, Nobody}
    BY <1>0, <2>1, <2>2 DEF Synced, Producing, Late
  <2> QED
    BY <2>1, <2>2, <2>3, <2>4 DEF Marked, Recoverable
<1>10. /\ SuccessOf(r)' /\ FailureOf(r)' /\ (Started(r) /\ held[r] = 1 => dir[Lock] = r)'
       /\ Active(r)' => held'[r] = 1 \/ dir'[Sidecar] = r
  BY <1>0, <1>1, <1>4, NameFacts DEF RenameManifest, Goto, Set, dirVars, ownVars, abortVars,
     envVars, TypeOK, SuccessOf, FailureOf, Started, Active, Late
<1> QED
  BY <1>2, <1>3, <1>4, <1>5, <1>6, <1>7, <1>8, <1>9, <1>10, StepKeeps DEF Own, RunInv

LEMMA ConfirmKeeps == ASSUME CommitInv, NEW r \in Runs, Confirm(r) PROVE StepOf(r) /\ CommitInv'
<1>0. /\ pc[r] = "manifestsync" /\ TypeOK /\ Counted(r) /\ RunInv(r) /\ Shape(r) /\ Present(r) /\ Listed(r) /\ Cleaned(r)
      /\ (r \in durable => Synced(r)) /\ (Started(r) /\ held[r] = 1 => dir[Lock] = r)
      /\ Active(r) => /\ \A n \in Artifacts : dir[n] \in {r, Nobody}
                      /\ held[r] = 1 \/ dir[Sidecar] = r
      /\ r # Nobody /\ NumShards \in Nat \ {0}
  BY Knows DEF Confirm
<1>1. /\ dir' = dir /\ exists' = exists /\ DirStep(r) /\ DirType'
      /\ \A n \in Names : IF r \in durable THEN disk'[n] = {dir[n]} ELSE disk'[n] = disk[n]
  BY <1>0, SyncStep DEF Confirm
<1>2. TypeOK'
  BY <1>0, <1>1, NameFacts DEF Confirm, Goto, Set, dirVars, ownVars, abortVars, envVars, TypeOK,
     DirType
<1>3. StepOf(r)
  BY <1>0, <1>1 DEF Confirm, Goto, Set, dirVars, ownVars, abortVars, envVars, TypeOK, StepOf,
     Active, Late
<1>4. Shape(r)'
  BY <1>0 DEF Confirm, Goto, Set, dirVars, ownVars, abortVars, envVars, TypeOK, Counted, Shape,
     Nothing, Full, OwnedLen, Producing
<1>5. Present(r)'
  BY <1>0, <1>1, NameFacts DEF Confirm, Goto, Set, dirVars, ownVars, abortVars, envVars, TypeOK,
     Present, Late
<1>6. (r \in durable => Synced(r))'
  BY <1>0, <1>1, NameFacts DEF Confirm, Goto, Set, dirVars, ownVars, abortVars, envVars, TypeOK,
     Synced, Late
<1>7. Listed(r)'
  BY <1>0, <1>1, NameFacts DEF Confirm, Goto, Set, dirVars, ownVars, abortVars, envVars, TypeOK,
     Listed, Shape, Nothing, Started
<1>8. Cleaned(r)'
  BY <1>0, <1>1, NameFacts DEF Confirm, Goto, Set, dirVars, ownVars, abortVars, Cleaned
<1>9. r \notin unconfirmed' => ((crashes > 0 => r \in durable) => Marked(r))' /\ Recoverable(r)'
  BY <1>0, <1>1, NameFacts DEF Confirm, Goto, Set, dirVars, ownVars, abortVars, envVars, TypeOK,
     RunInv, Marked, Recoverable, Listed, Started, Shape
<1>10. /\ SuccessOf(r)' /\ FailureOf(r)' /\ (Started(r) /\ held[r] = 1 => dir[Lock] = r)'
       /\ Active(r)' => held'[r] = 1 \/ dir'[Sidecar] = r
  BY <1>0, <1>1, <1>4, NameFacts, SMTT(30) DEF Confirm, Goto, Set, dirVars, ownVars, abortVars, envVars,
     TypeOK, SuccessOf, FailureOf, Started, Active, Late, Shape, Present, Synced
<1> QED
  BY <1>2, <1>3, <1>4, <1>5, <1>6, <1>7, <1>8, <1>9, <1>10, StepKeeps DEF Own, RunInv

(* A run that failed aborts, and nothing of it has changed yet.            *)
LEMMA FailKeeps == ASSUME CommitInv, ExtractMulti = FALSE, NEW r \in Runs, Fail(r) PROVE StepOf(r) /\ CommitInv'
<1>0. /\ pc[r] \in Working /\ TypeOK /\ Counted(r) /\ RunInv(r) /\ Shape(r) /\ Present(r) /\ Listed(r) /\ Cleaned(r)
      /\ (r \in durable => Synced(r)) /\ (Started(r) /\ held[r] = 1 => dir[Lock] = r)
      /\ Active(r) => /\ \A n \in Artifacts : dir[n] \in {r, Nobody}
                      /\ held[r] = 1 \/ dir[Sidecar] = r
      /\ r # Nobody /\ NumShards \in Nat \ {0}
  BY Knows DEF Fail, Working, Preparing
<1>1. dir' = dir /\ disk' = disk /\ exists' = exists /\ DirStep(r) /\ DirType'
  BY <1>0, UnchangedStep DEF Fail, dirVars
<1>11. /\held'[r] = held[r] /\ staged'[r] = staged[r] /\ renamed'[r] = renamed[r]
       /\ temps'[r] = temps[r] /\ sidecars'[r] = sidecars[r]
       /\ marker'[r] = marker[r] /\ cleaned'[r] = cleaned[r] /\ botched' = botched
       /\ again'[r] = 1 => again[r] = 1 \/ pc[r] \in Preparing
       /\ unconfirmed \subseteq unconfirmed'
       /\ \/ pc[r] \in {"directory", "lock"} /\ pc'[r] = "rmdir"
          \/ pc[r] = "manifestsync" /\ pc'[r] = "retract" /\ r \in unconfirmed'
          \/ pc[r] \notin {"directory", "lock", "manifestsync"} /\ pc'[r] = "invalidate"
  BY <1>0 DEF Fail, Goto, ownVars, TypeOK
<1>2. TypeOK'
  <2>1. pc' \in [Runs -> Working \cup {"committed", "retract", "retractsync", "invalidate",
                 "invalidatesync", "remove", "release", "cleanupsync", "rmdir", "failed",
                 "dead"}]
    BY <1>0 DEF Fail, Goto, TypeOK, AfterInvalidate, Cleanup
  <2>2. /\ held' \in [Runs -> 0..1] /\ made' \in [Runs -> 0..1] /\ marker' \in [Runs -> 0..1]
        /\ staged' \in [Runs -> 0..NumShards] /\ renamed' \in [Runs -> 0..NumShards]
        /\ temps' \in [Runs -> 0..2] /\ sidecars' \in [Runs -> 0..1]
        /\ cleaned' \in [Runs -> Nat] /\ again' \in [Runs -> 0..1]
    BY <1>0 DEF Fail, Goto, Set, ownVars, TypeOK
  <2>3. /\ faults' \in [Runs -> Nat] /\ botched' \subseteq Runs /\ unconfirmed' \subseteq Runs
        /\ kills' \in Nat /\ crashes' = crashes /\ durable' = durable /\ solid' = solid /\ exists' \in 0..1
    BY <1>0, <1>1 DEF Fail, Goto, Set, envVars, TypeOK
  <2> QED
    BY <1>0, <1>1, <2>1, <2>2, <2>3 DEF TypeOK, DirType
<1>12. Active(r)' => Active(r)
  BY <1>0, <1>11 DEF Active, Producing, Late, Undoing, Shape, Nothing, Preparing, Working
<1>3. StepOf(r)
  <2>1. /\ crashes' = crashes /\ durable' = durable /\ solid' = solid
        /\ \A q \in Runs \ {r} :
             /\ pc'[q] = pc[q] /\ held'[q] = held[q] /\ staged'[q] = staged[q] /\ renamed'[q] = renamed[q]
             /\ temps'[q] = temps[q] /\ sidecars'[q] = sidecars[q] /\ marker'[q] = marker[q]
             /\ cleaned'[q] = cleaned[q] /\ again'[q] = again[q]
             /\ q \in unconfirmed' <=> q \in unconfirmed
             /\ q \in botched' <=> q \in botched
    BY <1>0 DEF Fail, Goto, Set, ownVars, envVars
  <2> QED
    BY <1>1, <1>12, <2>1 DEF StepOf
<1>4. Shape(r)'
  <2>1. CASE pc[r] \in {"directory", "lock"}
    BY <1>0, <1>11, <2>1 DEF Shape, Nothing, OwnedLen, Producing
  <2>2. CASE pc[r] = "manifestsync"
    BY <1>0, <1>11, <2>2 DEF Shape, Nothing, Full, OwnedLen, Producing, Preparing
  <2>3. CASE pc[r] \in Working \ {"directory", "lock", "manifestsync"}
    <3>1. /\ pc'[r] = "invalidate" /\ marker[r] = 0 /\ cleaned[r] = 0 /\ (again'[r] = 1 => Nothing(r))
          /\ Nothing(r) \/ (staged[r] > 0 /\ (held[r] = 1 \/ Full(r)))
      BY <1>0, <1>11, <2>3 DEF Shape, Nothing, Full, Producing, Preparing, Working, TypeOK
    <3>2. OwnedLen(r)' >= 0
      BY <1>0, <1>11 DEF OwnedLen, Counted
    <3> QED
      BY <1>0, <1>11, <3>1, <3>2 DEF Shape, Nothing, Full, Producing, Undoing
  <2> QED
    BY <1>0, <2>1, <2>2, <2>3
<1>5. Present(r)'
  BY <1>11 DEF Present, Producing, Late
<1>6. (r \in durable => Synced(r))'
  BY <1>11 DEF Synced, Producing, Late
<1>7. Listed(r)'
  <2>1. CASE pc[r] = "directory"
    BY <1>0, <1>1, <2>1 DEF Listed, Cleaned, Untouched
  <2>2. CASE pc[r] # "directory"
    BY <1>0, <1>1, <1>11, <2>2 DEF Listed, Started, OwnedSet, Working, Preparing
  <2> QED
    BY <2>1, <2>2
<1>8. Cleaned(r)'
  BY <1>0, <1>1, <1>11 DEF Cleaned, Untouched, Gone, Shape, Nothing
<1>9. r \notin unconfirmed' => ((crashes > 0 => r \in durable) => Marked(r))' /\ Recoverable(r)'
  <2>1. crashes' = crashes /\ durable' = durable /\ solid' = solid
    BY DEF Fail, envVars, Cleanup
  <2> QED
    BY <1>0, <1>1, <1>11, <2>1, NameFacts DEF RunInv, Marked, Recoverable
<1>10. /\ SuccessOf(r)' /\ FailureOf(r)' /\ (Started(r) /\ held[r] = 1 => dir[Lock] = r)'
       /\ Active(r)' => held'[r] = 1 \/ dir'[Sidecar] = r
  <2>1. SuccessOf(r)' /\ FailureOf(r)'
    BY <1>11 DEF SuccessOf, FailureOf
  <2>2. (Started(r) /\ held[r] = 1 => dir[Lock] = r)'
    BY <1>0, <1>1, <1>11, NameFacts DEF Started, Shape, Working, Preparing
  <2>3. Active(r)' => held'[r] = 1 \/ dir'[Sidecar] = r
    BY <1>0, <1>1, <1>11, <1>12, NameFacts
  <2> QED
    BY <2>1, <2>2, <2>3
<1> QED
  BY <1>2, <1>3, <1>4, <1>5, <1>6, <1>7, <1>8, <1>9, <1>10, StepKeeps DEF Own, RunInv

(* The manifest goes first, and only when it is the run's own.             *)
LEMMA InvalidateKeeps == ASSUME CommitInv, NEW r \in Runs, Invalidate(r) PROVE StepOf(r) /\ CommitInv'
<1>0. /\ pc[r] \in {"retract", "invalidate"} /\ TypeOK /\ Counted(r) /\ RunInv(r) /\ Shape(r) /\ Present(r) /\ Listed(r) /\ Cleaned(r)
      /\ (r \in durable => Synced(r)) /\ (Started(r) /\ held[r] = 1 => dir[Lock] = r)
      /\ Active(r) => /\ \A n \in Artifacts : dir[n] \in {r, Nobody}
                      /\ held[r] = 1 \/ dir[Sidecar] = r
      /\ r # Nobody /\ NumShards \in Nat \ {0}
  BY Knows DEF Invalidate
<1>1. /\ DirStep(r) /\ DirType' /\ exists' = exists
      /\ \A n \in Names : n # Manifest \/ marker[r] = 0 => dir'[n] = dir[n] /\ disk'[n] = disk[n]
      /\ dir'[Manifest] \in {dir[Manifest], Nobody}
      /\ marker[r] = 1 /\ marker'[r] = 0 => dir'[Manifest] = Nobody
  <2>1. CASE UNCHANGED <<dirVars, marker>>
    BY <1>0, <2>1, UnchangedStep DEF dirVars
  <2>2. CASE marker[r] # 0 /\ Put(Manifest, Nobody)
    <3>1. Active(r)
      BY <1>0, <2>2 DEF Shape, Full, Active, Undoing, OwnedLen, TypeOK
    <3> QED
      BY <1>0, <2>2, <3>1, PutStep, PutEffect, NameFacts DEF TypeOK
  <2> QED
    BY <2>1, <2>2 DEF Invalidate, Cleanup
<1>11. /\held'[r] = held[r] /\ staged'[r] = staged[r] /\ renamed'[r] = renamed[r]
       /\ temps'[r] = temps[r] /\ sidecars'[r] = sidecars[r]
       /\ cleaned'[r] = cleaned[r] /\ again'[r] = again[r] /\ unconfirmed' = unconfirmed /\ cleaned[r] = 0
       /\ marker'[r] \in {0, marker[r]}
       /\ r \notin botched' => r \notin botched /\ marker'[r] = 0
       /\ \/ pc[r] = "retract" /\ pc'[r] \in {"retractsync", "invalidate"}
          \/ pc[r] = "invalidate" /\ pc'[r] \in {"invalidatesync", "remove"}
       /\ marker[r] = 1 => r \in unconfirmed
  BY <1>0 DEF Invalidate, Cleanup, AfterInvalidate, Goto, Set, abortVars, TypeOK, Shape
<1>2. TypeOK'
  <2>1. pc' \in [Runs -> Working \cup {"committed", "retract", "retractsync", "invalidate",
                 "invalidatesync", "remove", "release", "cleanupsync", "rmdir", "failed",
                 "dead"}]
    BY <1>0 DEF Invalidate, Goto, TypeOK, AfterInvalidate, Cleanup
  <2>2. /\ held' \in [Runs -> 0..1] /\ made' \in [Runs -> 0..1] /\ marker' \in [Runs -> 0..1]
        /\ staged' \in [Runs -> 0..NumShards] /\ renamed' \in [Runs -> 0..NumShards]
        /\ temps' \in [Runs -> 0..2] /\ sidecars' \in [Runs -> 0..1]
        /\ cleaned' \in [Runs -> Nat] /\ again' \in [Runs -> 0..1]
    BY <1>0 DEF Invalidate, Goto, Set, abortVars, Cleanup, TypeOK
  <2>3. /\ faults' \in [Runs -> Nat] /\ botched' \subseteq Runs /\ unconfirmed' \subseteq Runs
        /\ kills' \in Nat /\ crashes' = crashes /\ durable' = durable /\ solid' = solid /\ exists' \in 0..1
    BY <1>0, <1>1 DEF Invalidate, Goto, Set, envVars, Cleanup, TypeOK
  <2> QED
    BY <1>0, <1>1, <2>1, <2>2, <2>3 DEF TypeOK, DirType
<1>12. Active(r)' => Active(r)
  BY <1>0, <1>11 DEF Active, Producing, Late, Undoing, Shape, OwnedLen
<1>3. StepOf(r)
  <2>1. /\ crashes' = crashes /\ durable' = durable /\ solid' = solid
        /\ \A q \in Runs \ {r} :
             /\ pc'[q] = pc[q] /\ held'[q] = held[q] /\ staged'[q] = staged[q] /\ renamed'[q] = renamed[q]
             /\ temps'[q] = temps[q] /\ sidecars'[q] = sidecars[q] /\ marker'[q] = marker[q]
             /\ cleaned'[q] = cleaned[q] /\ again'[q] = again[q]
             /\ q \in unconfirmed' <=> q \in unconfirmed
             /\ q \in botched' <=> q \in botched
    BY <1>0 DEF Invalidate, Goto, Set, abortVars, envVars, Cleanup, TypeOK
  <2> QED
    BY <1>1, <1>12, <2>1 DEF StepOf
<1>4. Shape(r)'
  BY <1>0, <1>11 DEF Shape, Nothing, Full, OwnedLen, Producing, Undoing
<1>5. Present(r)'
  BY <1>11 DEF Present, Producing, Late
<1>6. (r \in durable => Synced(r))'
  BY <1>11 DEF Synced, Producing, Late
<1>7. Listed(r)'
  BY <1>0, <1>1, <1>11 DEF Listed, Started, OwnedSet, Cleaned, Untouched
<1>8. Cleaned(r)'
  BY <1>0, <1>1, <1>11 DEF Cleaned, Untouched, Gone, Shape, Nothing
<1>9. r \notin unconfirmed' => ((crashes > 0 => r \in durable) => Marked(r))' /\ Recoverable(r)'
  <2> SUFFICES ASSUME r \notin unconfirmed' PROVE ((crashes > 0 => r \in durable) => Marked(r))' /\ Recoverable(r)'
    OBVIOUS
  <2>1. crashes' = crashes /\ durable' = durable /\ solid' = solid
    BY DEF Invalidate, envVars
  <2>2. \A n \in Names : dir'[n] = dir[n] /\ disk'[n] = disk[n]
    BY <1>0, <1>1, <1>11 DEF TypeOK
  <2> QED
    BY <1>0, <1>11, <2>1, <2>2, NameFacts DEF RunInv, Marked, Recoverable
<1>10. /\ SuccessOf(r)' /\ FailureOf(r)' /\ (Started(r) /\ held[r] = 1 => dir[Lock] = r)'
       /\ Active(r)' => held'[r] = 1 \/ dir'[Sidecar] = r
  <2>1. SuccessOf(r)' /\ FailureOf(r)'
    BY <1>11 DEF SuccessOf, FailureOf
  <2>2. (Started(r) /\ held[r] = 1 => dir[Lock] = r)'
    BY <1>0, <1>1, <1>11, NameFacts DEF Started, Shape
  <2>3. Active(r)' => held'[r] = 1 \/ dir'[Sidecar] = r
    BY <1>0, <1>1, <1>11, <1>12, NameFacts
  <2> QED
    BY <2>1, <2>2, <2>3
<1> QED
  BY <1>2, <1>3, <1>4, <1>5, <1>6, <1>7, <1>8, <1>9, <1>10, StepKeeps DEF Own, RunInv

LEMMA SyncInvalidatedKeeps == ASSUME CommitInv, NEW r \in Runs, SyncInvalidated(r) PROVE StepOf(r) /\ CommitInv'
<1>0. /\ pc[r] \in {"retractsync", "invalidatesync"} /\ TypeOK /\ Counted(r) /\ RunInv(r) /\ Shape(r) /\ Present(r) /\ Listed(r) /\ Cleaned(r)
      /\ (r \in durable => Synced(r)) /\ (Started(r) /\ held[r] = 1 => dir[Lock] = r)
      /\ Active(r) => /\ \A n \in Artifacts : dir[n] \in {r, Nobody}
                      /\ held[r] = 1 \/ dir[Sidecar] = r
      /\ r # Nobody /\ NumShards \in Nat \ {0}
  BY Knows DEF SyncInvalidated
<1>1. /\ dir' = dir /\ exists' = exists /\ DirStep(r) /\ DirType'
      /\ \/ \A n \in Names : disk'[n] = disk[n]
         \/ r \in durable /\ \A n \in Names : disk'[n] = {dir[n]}
      /\ r \in durable /\ r \notin botched' => \A n \in Names : disk'[n] = {dir[n]}
  <2>1. CASE SyncDirectory(r)
    BY <1>0, <2>1, SyncStep
  <2>2. CASE UNCHANGED dirVars /\ botched' = botched \cup {r}
    BY <1>0, <2>2, UnchangedStep DEF dirVars
  <2> QED
    BY <2>1, <2>2 DEF SyncInvalidated, Cleanup
<1>11. /\held'[r] = held[r] /\ staged'[r] = staged[r] /\ renamed'[r] = renamed[r]
       /\ temps'[r] = temps[r] /\ sidecars'[r] = sidecars[r]
       /\ cleaned'[r] = cleaned[r] /\ again'[r] = again[r] /\ unconfirmed' = unconfirmed /\ cleaned[r] = 0
       /\ marker'[r] = marker[r] /\ (r \notin botched' => r \notin botched)
       /\ \/ pc[r] = "retractsync" /\ pc'[r] = "invalidate"
          \/ pc[r] = "invalidatesync" /\ pc'[r] = "remove"
  BY <1>0 DEF SyncInvalidated, Cleanup, AfterInvalidate, Goto, Set, ownVars, abortVars, TypeOK,
     Shape
<1>2. TypeOK'
  <2>1. pc' \in [Runs -> Working \cup {"committed", "retract", "retractsync", "invalidate",
                 "invalidatesync", "remove", "release", "cleanupsync", "rmdir", "failed",
                 "dead"}]
    BY <1>0 DEF SyncInvalidated, Goto, TypeOK, AfterInvalidate, Cleanup
  <2>2. /\ held' \in [Runs -> 0..1] /\ made' \in [Runs -> 0..1] /\ marker' \in [Runs -> 0..1]
        /\ staged' \in [Runs -> 0..NumShards] /\ renamed' \in [Runs -> 0..NumShards]
        /\ temps' \in [Runs -> 0..2] /\ sidecars' \in [Runs -> 0..1]
        /\ cleaned' \in [Runs -> Nat] /\ again' \in [Runs -> 0..1]
    BY <1>0 DEF SyncInvalidated, Goto, Set, ownVars, abortVars, TypeOK
  <2>3. /\ faults' \in [Runs -> Nat] /\ botched' \subseteq Runs /\ unconfirmed' \subseteq Runs
        /\ kills' \in Nat /\ crashes' = crashes /\ durable' = durable /\ solid' = solid /\ exists' \in 0..1
    BY <1>0, <1>1 DEF SyncInvalidated, Goto, Set, envVars, Cleanup, TypeOK
  <2> QED
    BY <1>0, <1>1, <2>1, <2>2, <2>3 DEF TypeOK, DirType
<1>12. Active(r)' => Active(r)
  BY <1>0, <1>11 DEF Active, Producing, Late, Undoing, Shape, OwnedLen
<1>3. StepOf(r)
  <2>1. /\ crashes' = crashes /\ durable' = durable /\ solid' = solid
        /\ \A q \in Runs \ {r} :
             /\ pc'[q] = pc[q] /\ held'[q] = held[q] /\ staged'[q] = staged[q] /\ renamed'[q] = renamed[q]
             /\ temps'[q] = temps[q] /\ sidecars'[q] = sidecars[q] /\ marker'[q] = marker[q]
             /\ cleaned'[q] = cleaned[q] /\ again'[q] = again[q]
             /\ q \in unconfirmed' <=> q \in unconfirmed
             /\ q \in botched' <=> q \in botched
    BY <1>0 DEF SyncInvalidated, Goto, Set, ownVars, abortVars, envVars, Cleanup
  <2> QED
    BY <1>1, <1>12, <2>1 DEF StepOf
<1>4. Shape(r)'
  BY <1>0, <1>11 DEF Shape, Nothing, Full, OwnedLen, Producing, Undoing
<1>5. Present(r)'
  BY <1>11 DEF Present, Producing, Late
<1>6. (r \in durable => Synced(r))'
  BY <1>11 DEF Synced, Producing, Late
<1>7. Listed(r)'
  BY <1>0, <1>1, <1>11 DEF Listed, Started, OwnedSet, Cleaned, Untouched
<1>8. Cleaned(r)'
  BY <1>0, <1>1, <1>11 DEF Cleaned, Untouched, Gone, Shape, Nothing
<1>9. r \notin unconfirmed' => ((crashes > 0 => r \in durable) => Marked(r))' /\ Recoverable(r)'
  <2>1. crashes' = crashes /\ durable' = durable /\ solid' = solid
    BY DEF SyncInvalidated, envVars, Cleanup
  <2> QED
    BY <1>0, <1>1, <1>11, <2>1, NameFacts DEF RunInv, Marked, Recoverable
<1>10. /\ SuccessOf(r)' /\ FailureOf(r)' /\ (Started(r) /\ held[r] = 1 => dir[Lock] = r)'
       /\ Active(r)' => held'[r] = 1 \/ dir'[Sidecar] = r
  <2>1. SuccessOf(r)' /\ FailureOf(r)'
    BY <1>11 DEF SuccessOf, FailureOf
  <2>2. (Started(r) /\ held[r] = 1 => dir[Lock] = r)'
    BY <1>0, <1>1, <1>11, NameFacts DEF Started, Shape
  <2>3. Active(r)' => held'[r] = 1 \/ dir'[Sidecar] = r
    BY <1>0, <1>1, <1>11, <1>12, NameFacts
  <2> QED
    BY <2>1, <2>2, <2>3
<1> QED
  BY <1>2, <1>3, <1>4, <1>5, <1>6, <1>7, <1>8, <1>9, <1>10, StepKeeps DEF Own, RunInv

(* Every path of the list is the run's own, as long as it goes through it. *)
LEMMA RemoveOwnedKeeps == ASSUME CommitInv, NEW r \in Runs, RemoveOwned(r) PROVE StepOf(r) /\ CommitInv'
<1>0. /\ pc[r] = "remove" /\ TypeOK /\ Counted(r) /\ RunInv(r) /\ Shape(r) /\ Present(r) /\ Listed(r) /\ Cleaned(r)
      /\ (r \in durable => Synced(r)) /\ (Started(r) /\ held[r] = 1 => dir[Lock] = r)
      /\ Active(r) => /\ \A n \in Artifacts : dir[n] \in {r, Nobody}
                      /\ held[r] = 1 \/ dir[Sidecar] = r
      /\ r # Nobody /\ NumShards \in Nat \ {0}
  BY Knows DEF RemoveOwned
<1>01. /\ Len(Owned(r)) = OwnedLen(r) /\ OwnedLen(r) \in Nat /\ OwnedSet(r) \subseteq Artifacts \ {Manifest}
       /\ \A k \in 1..OwnedLen(r) : Owned(r)[k] \in OwnedSet(r)
       /\ \A n \in OwnedSet(r) : \E k \in 1..OwnedLen(r) : Owned(r)[k] = n
       /\ \A k \in 1..OwnedLen(r) : sidecars[r] = 1 /\ Owned(r)[k] = Sidecar => k = OwnedLen(r)
       /\ cleaned[r] \in Nat /\ cleaned[r] <= OwnedLen(r)
  BY <1>0, OwnedFacts DEF TypeOK, Shape
<1>02. cleaned[r] < OwnedLen(r) =>
         /\ Active(r) /\ cleaned[r] + 1 \in 1..OwnedLen(r)
         /\ Owned(r)[cleaned[r] + 1] \in Artifacts \ {Manifest}
  <2>1. cleaned[r] < OwnedLen(r) => cleaned[r] + 1 \in 1..OwnedLen(r)
    BY <1>01
  <2>2. cleaned[r] < OwnedLen(r) => staged[r] > 0
    BY <1>0, <1>01 DEF Shape, Nothing, OwnedLen, Undoing
  <2> QED
    BY <1>0, <1>01, <2>1, <2>2 DEF Active, Undoing
<1>1. /\ DirStep(r) /\ DirType' /\ exists' = exists
      /\ \A n \in Names : dir'[n] \in {dir[n], Nobody} /\ disk'[n] \subseteq disk[n] \cup {Nobody}
      /\ \A n \in Names : dir'[n] # dir[n] => cleaned[r] < OwnedLen(r) /\ n = Owned(r)[cleaned[r] + 1]
      /\ cleaned[r] < OwnedLen(r) /\ r \notin botched' => dir'[Owned(r)[cleaned[r] + 1]] = Nobody
  <2>1. CASE UNCHANGED dirVars /\ (cleaned[r] < OwnedLen(r) => botched' = botched \cup {r})
    BY <1>0, <2>1, UnchangedStep DEF dirVars, TypeOK
  <2>2. CASE cleaned[r] < OwnedLen(r) /\ Put(Owned(r)[cleaned[r] + 1], Nobody)
    BY <1>0, <1>02, <2>2, PutStep, PutEffect, NameFacts DEF TypeOK
  <2> QED
    BY <1>01, <2>1, <2>2 DEF RemoveOwned, Cleanup
<1>11. /\held'[r] = held[r] /\ staged'[r] = staged[r] /\ renamed'[r] = renamed[r]
       /\ temps'[r] = temps[r] /\ sidecars'[r] = sidecars[r]
       /\ again'[r] = again[r] /\ unconfirmed' = unconfirmed /\ marker'[r] = marker[r]
       /\ r \notin botched' => r \notin botched
       /\ \/ cleaned[r] < OwnedLen(r) /\ pc'[r] = "remove" /\ cleaned'[r] = cleaned[r] + 1
          \/ cleaned[r] = OwnedLen(r) /\ pc'[r] = "release" /\ cleaned'[r] = cleaned[r] /\ dir' = dir
  BY <1>0, <1>01 DEF RemoveOwned, Cleanup, Goto, Set, dirVars, ownVars, TypeOK
<1>2. TypeOK'
  <2>1. pc' \in [Runs -> Working \cup {"committed", "retract", "retractsync", "invalidate",
                 "invalidatesync", "remove", "release", "cleanupsync", "rmdir", "failed",
                 "dead"}] /\ cleaned' \in [Runs -> Nat]
    <3>1. /\ pc' = pc \/ pc' = [pc EXCEPT ![r] = "release"]
          /\ cleaned' = cleaned \/ cleaned' = [cleaned EXCEPT ![r] = cleaned[r] + 1]
      BY DEF RemoveOwned, Goto, Set
    <3>2. [pc EXCEPT ![r] = "release"] \in [Runs -> Working \cup {"committed", "retract", "retractsync",
                 "invalidate", "invalidatesync", "remove", "release", "cleanupsync", "rmdir", "failed",
                 "dead"}]
      BY <1>0 DEF TypeOK
    <3>3. [cleaned EXCEPT ![r] = cleaned[r] + 1] \in [Runs -> Nat]
      BY <1>0 DEF TypeOK
    <3> QED
      BY <1>0, <3>1, <3>2, <3>3 DEF TypeOK
  <2>2. faults' \in [Runs -> Nat] /\ botched' \subseteq Runs
    BY <1>0, SMTT(30) DEF RemoveOwned, Cleanup, Set, TypeOK
  <2>3. UNCHANGED <<solid, ownVars, again, unconfirmed, envVars>>
    BY DEF RemoveOwned
  <2> QED
    BY <1>0, <1>1, <2>1, <2>2, <2>3 DEF TypeOK, DirType, ownVars, envVars
<1>12. Active(r)' => Active(r)
  BY <1>0, <1>11 DEF Active, Producing, Late, Undoing, Shape
<1>3. StepOf(r)
  <2>1. /\ crashes' = crashes /\ durable' = durable /\ solid' = solid
        /\ \A q \in Runs \ {r} :
             /\ pc'[q] = pc[q] /\ held'[q] = held[q] /\ staged'[q] = staged[q] /\ renamed'[q] = renamed[q]
             /\ temps'[q] = temps[q] /\ sidecars'[q] = sidecars[q] /\ marker'[q] = marker[q]
             /\ cleaned'[q] = cleaned[q] /\ again'[q] = again[q]
             /\ q \in unconfirmed' <=> q \in unconfirmed
             /\ q \in botched' <=> q \in botched
    BY <1>0 DEF RemoveOwned, Goto, Set, ownVars, envVars, Cleanup, TypeOK
  <2> QED
    BY <1>1, <1>12, <2>1 DEF StepOf
<1>4. Shape(r)'
  <2>1. OwnedLen(r)' = OwnedLen(r)
    BY <1>11 DEF OwnedLen
  <2> QED
    BY <1>0, <1>01, <1>11, <2>1 DEF Shape, Nothing, Full, Producing, Undoing
<1>5. Present(r)'
  BY <1>11 DEF Present, Producing, Late
<1>6. (r \in durable => Synced(r))'
  BY <1>11 DEF Synced, Producing, Late
<1>7. Listed(r)'
  BY <1>0, <1>1, <1>11 DEF Listed, Started, OwnedSet, Cleaned, Untouched
<1>8. Cleaned(r)'
  <2>1. Owned(r)' = Owned(r)
    BY <1>11 DEF Owned, Temporaries
  <2>2. ASSUME r \notin botched', pc'[r] = "remove", NEW k \in 1..cleaned'[r] PROVE dir'[Owned(r)[k]] # r
    <3>1. k \in 1..cleaned[r] \/ k = cleaned[r] + 1
      BY <1>01, <1>11, <2>2
    <3>2. CASE k = cleaned[r] + 1
      BY <1>0, <1>1, <1>11, <2>2, <3>2
    <3>3. CASE k \in 1..cleaned[r]
      <4>1. dir[Owned(r)[k]] # r
        BY <1>0, <1>11, <2>2, <3>3 DEF Cleaned
      <4>2. Owned(r)[k] \in Names
        BY <1>01, <3>3, NameFacts
      <4> QED
        BY <1>0, <1>1, <4>1, <4>2
    <3> QED
      BY <3>1, <3>2, <3>3
  <2>3. ASSUME r \notin botched', pc'[r] = "release", NEW n \in Artifacts PROVE dir'[n] # r
    <3>1. marker[r] = 0 /\ \A k \in 1..OwnedLen(r) : dir[Owned(r)[k]] # r
      BY <1>0, <1>11, <2>3 DEF Cleaned
    <3>2. n \notin OwnedSet(r) \/ dir[n] # r
      BY <1>01, <3>1
    <3> QED
      BY <1>0, <1>1, <1>11, <2>3, <3>1, <3>2, NameFacts DEF Listed, Started
  <2> QED
    BY <1>0, <1>11, <2>1, <2>2, <2>3 DEF Cleaned
<1>9. r \notin unconfirmed' => ((crashes > 0 => r \in durable) => Marked(r))' /\ Recoverable(r)'
  <2>1. r \in unconfirmed' \/ marker[r] = 0
    BY <1>0, <1>11 DEF Shape, TypeOK
  <2>2. CASE marker[r] = 0
    <3>1. dir'[Manifest] # r /\ disk'[Manifest] \subseteq disk[Manifest] \cup {Nobody}
      BY <1>0, <1>1, <2>2, Unmarked, NameFacts DEF Started
    <3>2. unconfirmed' = unconfirmed /\ durable' = durable /\ Started(r)
      BY <1>0 DEF RemoveOwned, envVars, Started
    <3> QED
      BY <2>2, <3>1, <3>2, StaysUnmarked
  <2> QED
    BY <2>1, <2>2
<1>10. /\ SuccessOf(r)' /\ FailureOf(r)' /\ (Started(r) /\ held[r] = 1 => dir[Lock] = r)'
       /\ Active(r)' => held'[r] = 1 \/ dir'[Sidecar] = r
  <2>1. dir'[Lock] = dir[Lock]
    BY <1>02, <1>1, NameFacts
  <2>2. ASSUME Active(r)' PROVE held'[r] = 1 \/ dir'[Sidecar] = r
    <3>1. cleaned[r] + 1 < OwnedLen(r) /\ Active(r)
      <4>1. OwnedLen(r)' = OwnedLen(r)
        BY <1>11 DEF OwnedLen
      <4>2. cleaned'[r] < OwnedLen(r) /\ pc'[r] = "remove"
        BY <1>11, <2>2, <4>1 DEF Active, Producing, Late, Undoing
      <4> QED
        BY <1>01, <1>02, <1>11, <4>2
    <3>2. Owned(r)[cleaned[r] + 1] = Sidecar => sidecars[r] = 1
      <4>1. Owned(r)[cleaned[r] + 1] \in OwnedSet(r)
        BY <1>01, <1>02, <3>1
      <4>2. /\ \A i \in 1..staged[r] : Stage(i) # Sidecar
            /\ \A i \in 1..renamed[r] : Final(i) # Sidecar
        BY <1>0, NameFacts DEF Counted, Shards
      <4> QED
        BY <4>1, <4>2, NameFacts DEF OwnedSet
    <3>3. Owned(r)[cleaned[r] + 1] # Sidecar
      BY <1>01, <1>02, <3>1, <3>2
    <3> QED
      BY <1>0, <1>1, <1>11, <3>1, <3>3, NameFacts
  <2> QED
    BY <1>0, <1>11, <2>1, <2>2 DEF SuccessOf, FailureOf, Started
<1> QED
  BY <1>2, <1>3, <1>4, <1>5, <1>6, <1>7, <1>8, <1>9, <1>10, StepKeeps DEF Own, RunInv

LEMMA ReleaseLockKeeps == ASSUME CommitInv, NEW r \in Runs, ReleaseLock(r) PROVE StepOf(r) /\ CommitInv'
<1>0. /\ pc[r] = "release" /\ TypeOK /\ Counted(r) /\ RunInv(r) /\ Shape(r) /\ Present(r) /\ Listed(r) /\ Cleaned(r)
      /\ (r \in durable => Synced(r)) /\ (Started(r) /\ held[r] = 1 => dir[Lock] = r)
      /\ Active(r) => /\ \A n \in Artifacts : dir[n] \in {r, Nobody}
                      /\ held[r] = 1 \/ dir[Sidecar] = r
      /\ r # Nobody /\ NumShards \in Nat \ {0}
  BY Knows DEF ReleaseLock
<1>1. /\ DirStep(r) /\ DirType' /\ exists' = exists
      /\ \A n \in Names : n # Lock \/ held[r] = 0 => dir'[n] = dir[n] /\ disk'[n] = disk[n]
      /\ dir'[Lock] \in {dir[Lock], Nobody}
      /\ held'[r] = 0 /\ held[r] = 1 => dir'[Lock] = Nobody
      /\ held'[r] = 1 => dir'[Lock] = dir[Lock]
  <2>1. CASE UNCHANGED <<dirVars, held>>
    BY <1>0, <2>1, UnchangedStep DEF dirVars
  <2>2. CASE held[r] = 1 /\ Put(Lock, Nobody) /\ held' = Set(held, r, 0)
    <3>1. dir[Lock] = r
      BY <1>0, <2>2 DEF Started
    <3> QED
      BY <1>0, <2>2, <3>1, PutStep, PutEffect, NameFacts DEF TypeOK, Set
  <2> QED
    BY <2>1, <2>2 DEF ReleaseLock, Cleanup
<1>11. /\ staged'[r] = staged[r] /\ renamed'[r] = renamed[r] /\ temps'[r] = temps[r] /\ sidecars'[r] = sidecars[r]
       /\ again'[r] = again[r] /\ unconfirmed' = unconfirmed /\ marker'[r] = marker[r]
       /\ cleaned'[r] = cleaned[r] /\ pc'[r] = "cleanupsync" /\ held'[r] \in {0, held[r]} /\ held[r] \in 0..1
       /\ r \notin botched' => r \notin botched /\ held'[r] = 0
  BY <1>0 DEF ReleaseLock, Cleanup, Goto, Set, abortVars, TypeOK
<1>2. TypeOK'
  <2>1. pc' \in [Runs -> Working \cup {"committed", "retract", "retractsync", "invalidate",
                 "invalidatesync", "remove", "release", "cleanupsync", "rmdir", "failed",
                 "dead"}]
    BY <1>0 DEF ReleaseLock, Goto, TypeOK, AfterInvalidate, Cleanup
  <2>2. /\ held' \in [Runs -> 0..1] /\ made' \in [Runs -> 0..1] /\ marker' \in [Runs -> 0..1]
        /\ staged' \in [Runs -> 0..NumShards] /\ renamed' \in [Runs -> 0..NumShards]
        /\ temps' \in [Runs -> 0..2] /\ sidecars' \in [Runs -> 0..1]
        /\ cleaned' \in [Runs -> Nat] /\ again' \in [Runs -> 0..1]
    BY <1>0 DEF ReleaseLock, Goto, Set, abortVars, Cleanup, TypeOK
  <2>3. /\ faults' \in [Runs -> Nat] /\ botched' \subseteq Runs /\ unconfirmed' \subseteq Runs
        /\ kills' \in Nat /\ crashes' = crashes /\ durable' = durable /\ solid' = solid /\ exists' \in 0..1
    BY <1>0, <1>1 DEF ReleaseLock, Goto, Set, envVars, Cleanup, TypeOK
  <2> QED
    BY <1>0, <1>1, <2>1, <2>2, <2>3 DEF TypeOK, DirType
<1>12. Active(r)' => Active(r)
  BY <1>0, <1>11 DEF Active, Producing, Late, Undoing, Shape
<1>3. StepOf(r)
  <2>1. /\ crashes' = crashes /\ durable' = durable /\ solid' = solid
        /\ \A q \in Runs \ {r} :
             /\ pc'[q] = pc[q] /\ held'[q] = held[q] /\ staged'[q] = staged[q] /\ renamed'[q] = renamed[q]
             /\ temps'[q] = temps[q] /\ sidecars'[q] = sidecars[q] /\ marker'[q] = marker[q]
             /\ cleaned'[q] = cleaned[q] /\ again'[q] = again[q]
             /\ q \in unconfirmed' <=> q \in unconfirmed
             /\ q \in botched' <=> q \in botched
    BY <1>0 DEF ReleaseLock, Goto, Set, abortVars, envVars, Cleanup, TypeOK
  <2> QED
    BY <1>1, <1>12, <2>1 DEF StepOf
<1>4. Shape(r)'
  BY <1>0, <1>11 DEF Shape, Nothing, Full, OwnedLen, Producing, Undoing
<1>5. Present(r)'
  BY <1>11 DEF Present, Producing, Late
<1>6. (r \in durable => Synced(r))'
  BY <1>11 DEF Synced, Producing, Late
<1>7. Listed(r)'
  BY <1>0, <1>1, <1>11 DEF Listed, Started, OwnedSet, Cleaned, Untouched
<1>8. Cleaned(r)'
  <2> SUFFICES ASSUME r \notin botched' PROVE marker'[r] = 0 /\ held'[r] = 0 /\ \A n \in Names : dir'[n] # r
    BY <1>11 DEF Cleaned
  <2>1. r \notin botched /\ held'[r] = 0 /\ marker[r] = 0 /\ \A n \in Artifacts : dir[n] # r
    BY <1>0, <1>11 DEF Cleaned
  <2>2. \A n \in Artifacts : dir'[n] # r
    BY <1>1, <2>1, NameFacts
  <2>3. CASE held[r] = 1
    BY <1>0, <1>1, <1>11, <2>1, <2>2, <2>3, NameFacts
  <2>4. CASE held[r] = 0
    <3>1. Lock \notin OwnedSet(r)
      BY <1>0, OwnedFacts, NameFacts
    <3>2. dir[Lock] # r
      BY <1>0, <2>4, <3>1, NameFacts DEF Listed, Started
    <3> QED
      BY <1>1, <1>11, <2>1, <2>2, <2>4, <3>2, NameFacts
  <2> QED
    BY <1>11, <2>3, <2>4
<1>9. r \notin unconfirmed' => ((crashes > 0 => r \in durable) => Marked(r))' /\ Recoverable(r)'
  <2>1. crashes' = crashes /\ durable' = durable /\ solid' = solid
    BY DEF ReleaseLock, envVars, Cleanup
  <2> QED
    BY <1>0, <1>1, <1>11, <2>1, NameFacts DEF RunInv, Marked, Recoverable
<1>10. /\ SuccessOf(r)' /\ FailureOf(r)' /\ (Started(r) /\ held[r] = 1 => dir[Lock] = r)'
       /\ Active(r)' => held'[r] = 1 \/ dir'[Sidecar] = r
  <2>1. SuccessOf(r)' /\ FailureOf(r)'
    BY <1>11 DEF SuccessOf, FailureOf
  <2>2. (Started(r) /\ held[r] = 1 => dir[Lock] = r)'
    BY <1>0, <1>1, <1>11, NameFacts DEF Started, Shape
  <2>3. Active(r)' => held'[r] = 1 \/ dir'[Sidecar] = r
    BY <1>0, <1>1, <1>11, <1>12, NameFacts DEF Active, Producing, Late, Undoing
  <2> QED
    BY <2>1, <2>2, <2>3
<1> QED
  BY <1>2, <1>3, <1>4, <1>5, <1>6, <1>7, <1>8, <1>9, <1>10, StepKeeps DEF Own, RunInv

LEMMA SyncCleanupKeeps == ASSUME CommitInv, NEW r \in Runs, SyncCleanup(r) PROVE StepOf(r) /\ CommitInv'
<1>0. /\ pc[r] = "cleanupsync" /\ TypeOK /\ Counted(r) /\ RunInv(r) /\ Shape(r) /\ Present(r) /\ Listed(r) /\ Cleaned(r)
      /\ (r \in durable => Synced(r)) /\ (Started(r) /\ held[r] = 1 => dir[Lock] = r)
      /\ Active(r) => /\ \A n \in Artifacts : dir[n] \in {r, Nobody}
                      /\ held[r] = 1 \/ dir[Sidecar] = r
      /\ r # Nobody /\ NumShards \in Nat \ {0}
  BY Knows DEF SyncCleanup
<1>1. /\ dir' = dir /\ exists' = exists /\ DirStep(r) /\ DirType'
      /\ \/ \A n \in Names : disk'[n] = disk[n]
         \/ r \in durable /\ \A n \in Names : disk'[n] = {dir[n]}
      /\ r \in durable /\ r \notin botched' => \A n \in Names : disk'[n] = {dir[n]}
  <2>1. CASE SyncDirectory(r)
    BY <1>0, <2>1, SyncStep
  <2>2. CASE UNCHANGED dirVars /\ botched' = botched \cup {r}
    BY <1>0, <2>2, UnchangedStep DEF dirVars
  <2> QED
    BY <2>1, <2>2 DEF SyncCleanup, Cleanup
<1>11. /\held'[r] = held[r] /\ staged'[r] = staged[r] /\ renamed'[r] = renamed[r]
       /\ temps'[r] = temps[r] /\ sidecars'[r] = sidecars[r]
       /\ cleaned'[r] = cleaned[r] /\ again'[r] = again[r] /\ unconfirmed' = unconfirmed
       /\ marker'[r] = marker[r] /\ (r \notin botched' => r \notin botched) /\ pc'[r] = "rmdir"
       /\ durable' = durable
  BY <1>0 DEF SyncCleanup, Cleanup, Goto, Set, ownVars, abortVars, envVars, TypeOK
<1>2. TypeOK'
  <2>1. pc' \in [Runs -> Working \cup {"committed", "retract", "retractsync", "invalidate",
                 "invalidatesync", "remove", "release", "cleanupsync", "rmdir", "failed",
                 "dead"}]
    BY <1>0 DEF SyncCleanup, Goto, TypeOK, AfterInvalidate, Cleanup
  <2>2. /\ held' \in [Runs -> 0..1] /\ made' \in [Runs -> 0..1] /\ marker' \in [Runs -> 0..1]
        /\ staged' \in [Runs -> 0..NumShards] /\ renamed' \in [Runs -> 0..NumShards]
        /\ temps' \in [Runs -> 0..2] /\ sidecars' \in [Runs -> 0..1]
        /\ cleaned' \in [Runs -> Nat] /\ again' \in [Runs -> 0..1]
    BY <1>0 DEF SyncCleanup, Goto, Set, ownVars, abortVars, TypeOK
  <2>3. /\ faults' \in [Runs -> Nat] /\ botched' \subseteq Runs /\ unconfirmed' \subseteq Runs
        /\ kills' \in Nat /\ crashes' = crashes /\ durable' = durable /\ solid' = solid /\ exists' \in 0..1
    BY <1>0, <1>1 DEF SyncCleanup, Goto, Set, envVars, Cleanup, TypeOK
  <2> QED
    BY <1>0, <1>1, <2>1, <2>2, <2>3 DEF TypeOK, DirType
<1>12. Active(r)' => Active(r)
  BY <1>0, <1>11 DEF Active, Producing, Late, Undoing, Shape
<1>3. StepOf(r)
  <2>1. /\ crashes' = crashes /\ durable' = durable /\ solid' = solid
        /\ \A q \in Runs \ {r} :
             /\ pc'[q] = pc[q] /\ held'[q] = held[q] /\ staged'[q] = staged[q] /\ renamed'[q] = renamed[q]
             /\ temps'[q] = temps[q] /\ sidecars'[q] = sidecars[q] /\ marker'[q] = marker[q]
             /\ cleaned'[q] = cleaned[q] /\ again'[q] = again[q]
             /\ q \in unconfirmed' <=> q \in unconfirmed
             /\ q \in botched' <=> q \in botched
    BY <1>0 DEF SyncCleanup, Goto, Set, ownVars, abortVars, envVars, Cleanup
  <2> QED
    BY <1>1, <1>12, <2>1 DEF StepOf
<1>4. Shape(r)'
  BY <1>0, <1>11 DEF Shape, Nothing, Full, OwnedLen, Producing, Undoing
<1>5. Present(r)'
  BY <1>11 DEF Present, Producing, Late
<1>6. (r \in durable => Synced(r))'
  BY <1>11 DEF Synced, Producing, Late
<1>7. Listed(r)'
  BY <1>0, <1>1, <1>11 DEF Listed, Started, OwnedSet, Cleaned, Untouched
<1>8. Cleaned(r)'
  BY <1>0, <1>1, <1>11 DEF Cleaned, Untouched, Gone, Shape, Nothing
<1>9. r \notin unconfirmed' => ((crashes > 0 => r \in durable) => Marked(r))' /\ Recoverable(r)'
  <2>1. crashes' = crashes /\ durable' = durable /\ solid' = solid
    BY DEF SyncCleanup, envVars, Cleanup
  <2> QED
    BY <1>0, <1>1, <1>11, <2>1, NameFacts DEF RunInv, Marked, Recoverable
<1>10. /\ SuccessOf(r)' /\ FailureOf(r)' /\ (Started(r) /\ held[r] = 1 => dir[Lock] = r)'
       /\ Active(r)' => held'[r] = 1 \/ dir'[Sidecar] = r
  <2>1. SuccessOf(r)' /\ FailureOf(r)'
    BY <1>11 DEF SuccessOf, FailureOf
  <2>2. (Started(r) /\ held[r] = 1 => dir[Lock] = r)'
    BY <1>0, <1>1, <1>11, NameFacts DEF Started, Shape
  <2>3. Active(r)' => held'[r] = 1 \/ dir'[Sidecar] = r
    BY <1>0, <1>1, <1>11, <1>12, NameFacts
  <2> QED
    BY <2>1, <2>2, <2>3
<1> QED
  BY <1>2, <1>3, <1>4, <1>5, <1>6, <1>7, <1>8, <1>9, <1>10, StepKeeps DEF Own, RunInv

LEMMA RemoveDirectoryKeeps == ASSUME CommitInv, NEW r \in Runs, RemoveDirectory(r) PROVE StepOf(r) /\ CommitInv'
<1>0. /\ pc[r] = "rmdir" /\ TypeOK /\ Counted(r) /\ RunInv(r) /\ Shape(r) /\ Present(r) /\ Listed(r) /\ Cleaned(r)
      /\ (r \in durable => Synced(r)) /\ (Started(r) /\ held[r] = 1 => dir[Lock] = r)
      /\ Active(r) => /\ \A n \in Artifacts : dir[n] \in {r, Nobody}
                      /\ held[r] = 1 \/ dir[Sidecar] = r
      /\ r # Nobody /\ NumShards \in Nat \ {0}
  BY Knows DEF RemoveDirectory
<1>1. dir' = dir /\ disk' = disk /\ DirStep(r) /\ DirType'
  BY <1>0, UnchangedStep DEF RemoveDirectory
<1>11. /\held'[r] = held[r] /\ staged'[r] = staged[r] /\ renamed'[r] = renamed[r]
       /\ temps'[r] = temps[r] /\ sidecars'[r] = sidecars[r]
       /\ cleaned'[r] = 0 /\ again'[r] = 0 /\ unconfirmed' = unconfirmed /\ again[r] \in 0..1
       /\ marker'[r] = marker[r] /\ botched' = botched /\ durable' = durable
       /\ \/ again[r] = 1 /\ pc'[r] = "invalidate"
          \/ again[r] = 0 /\ pc'[r] = "failed"
  BY <1>0 DEF RemoveDirectory, Goto, Set, envVars, TypeOK
<1>2. TypeOK'
  <2>1. pc' \in [Runs -> Working \cup {"committed", "retract", "retractsync", "invalidate",
                 "invalidatesync", "remove", "release", "cleanupsync", "rmdir", "failed",
                 "dead"}]
    BY <1>0 DEF RemoveDirectory, Goto, TypeOK, AfterInvalidate, Cleanup
  <2>2. /\ held' \in [Runs -> 0..1] /\ made' \in [Runs -> 0..1] /\ marker' \in [Runs -> 0..1]
        /\ staged' \in [Runs -> 0..NumShards] /\ renamed' \in [Runs -> 0..NumShards]
        /\ temps' \in [Runs -> 0..2] /\ sidecars' \in [Runs -> 0..1]
        /\ cleaned' \in [Runs -> Nat] /\ again' \in [Runs -> 0..1]
    BY <1>0 DEF RemoveDirectory, Goto, Set, TypeOK
  <2>3. /\ faults' \in [Runs -> Nat] /\ botched' \subseteq Runs /\ unconfirmed' \subseteq Runs
        /\ kills' \in Nat /\ crashes' = crashes /\ durable' = durable /\ solid' = solid /\ exists' \in 0..1
    BY <1>0, <1>1 DEF RemoveDirectory, Goto, Set, envVars, TypeOK
  <2> QED
    BY <1>0, <1>1, <2>1, <2>2, <2>3 DEF TypeOK, DirType
<1>12. Active(r)' => Active(r)
  BY <1>0, <1>11 DEF Active, Producing, Late, Undoing, Shape, Nothing
<1>3. StepOf(r)
  <2>1. /\ crashes' = crashes /\ durable' = durable /\ solid' = solid
        /\ \A q \in Runs \ {r} :
             /\ pc'[q] = pc[q] /\ held'[q] = held[q] /\ staged'[q] = staged[q] /\ renamed'[q] = renamed[q]
             /\ temps'[q] = temps[q] /\ sidecars'[q] = sidecars[q] /\ marker'[q] = marker[q]
             /\ cleaned'[q] = cleaned[q] /\ again'[q] = again[q]
             /\ q \in unconfirmed' <=> q \in unconfirmed
             /\ q \in botched' <=> q \in botched
    BY <1>0 DEF RemoveDirectory, Goto, Set, envVars
  <2> QED
    BY <1>1, <1>12, <2>1 DEF StepOf
<1>4. Shape(r)'
  BY <1>0, <1>11 DEF Shape, Nothing, Full, OwnedLen, Producing, Undoing, Counted
<1>5. Present(r)'
  BY <1>11 DEF Present, Producing, Late
<1>6. (r \in durable => Synced(r))'
  BY <1>11 DEF Synced, Producing, Late
<1>7. Listed(r)'
  BY <1>0, <1>1, <1>11 DEF Listed, Started, OwnedSet, Cleaned, Untouched
<1>8. Cleaned(r)'
  BY <1>0, <1>1, <1>11 DEF Cleaned, Untouched, Gone, Shape, Nothing
<1>9. r \notin unconfirmed' => ((crashes > 0 => r \in durable) => Marked(r))' /\ Recoverable(r)'
  <2>1. crashes' = crashes /\ durable' = durable /\ solid' = solid
    BY DEF RemoveDirectory, envVars, Cleanup
  <2> QED
    BY <1>0, <1>1, <1>11, <2>1, NameFacts DEF RunInv, Marked, Recoverable
<1>10. /\ SuccessOf(r)' /\ FailureOf(r)' /\ (Started(r) /\ held[r] = 1 => dir[Lock] = r)'
       /\ Active(r)' => held'[r] = 1 \/ dir'[Sidecar] = r
  <2>1. FailureOf(r)'
    BY <1>0, <1>1, <1>11 DEF FailureOf, Cleaned, Gone
  <2>2. ~Active(r)'
    BY <1>0, <1>11 DEF Active, Producing, Late, Undoing, Shape, Nothing
  <2> QED
    BY <1>0, <1>1, <1>11, <2>1, <2>2 DEF SuccessOf, Started
<1> QED
  BY <1>2, <1>3, <1>4, <1>5, <1>6, <1>7, <1>8, <1>9, <1>10, StepKeeps DEF Own, RunInv

(* A killed run leaves what it has; the others go on.                      *)
LEMMA KillKeeps == ASSUME CommitInv, NEW r \in Runs, Kill(r) PROVE StepOf(r) /\ CommitInv'
<1>0. /\ pc[r] # "dead" /\ TypeOK /\ Counted(r) /\ RunInv(r) /\ Shape(r) /\ Present(r) /\ Listed(r) /\ Cleaned(r)
      /\ (r \in durable => Synced(r)) /\ (Started(r) /\ held[r] = 1 => dir[Lock] = r)
      /\ Active(r) => /\ \A n \in Artifacts : dir[n] \in {r, Nobody}
                      /\ held[r] = 1 \/ dir[Sidecar] = r
      /\ r # Nobody /\ NumShards \in Nat \ {0}
  BY Knows DEF Kill, Started
<1>1. dir' = dir /\ disk' = disk /\ exists' = exists /\ DirStep(r) /\ DirType'
  BY <1>0, UnchangedStep DEF Kill, dirVars
<1>11. pc'[r] = "dead" /\ unconfirmed' = unconfirmed
  BY <1>0 DEF Kill, Goto, TypeOK
<1>2. TypeOK'
  <2>1. pc' \in [Runs -> Working \cup {"committed", "retract", "retractsync", "invalidate",
                 "invalidatesync", "remove", "release", "cleanupsync", "rmdir", "failed",
                 "dead"}]
    BY <1>0 DEF Kill, Goto, TypeOK, AfterInvalidate, Cleanup
  <2>2. /\ held' \in [Runs -> 0..1] /\ made' \in [Runs -> 0..1] /\ marker' \in [Runs -> 0..1]
        /\ staged' \in [Runs -> 0..NumShards] /\ renamed' \in [Runs -> 0..NumShards]
        /\ temps' \in [Runs -> 0..2] /\ sidecars' \in [Runs -> 0..1]
        /\ cleaned' \in [Runs -> Nat] /\ again' \in [Runs -> 0..1]
    BY <1>0 DEF Kill, Goto, Set, ownVars, abortVars, TypeOK
  <2>3. /\ faults' \in [Runs -> Nat] /\ botched' \subseteq Runs /\ unconfirmed' \subseteq Runs
        /\ kills' \in Nat /\ crashes' = crashes /\ durable' = durable /\ solid' = solid /\ exists' \in 0..1
    BY <1>0, <1>1 DEF Kill, Goto, Set, TypeOK
  <2> QED
    BY <1>0, <1>1, <2>1, <2>2, <2>3 DEF TypeOK, DirType
<1>12. Active(r)' => Active(r)
  BY <1>11 DEF Active, Producing, Late, Undoing
<1>3. StepOf(r)
  <2>1. /\ crashes' = crashes /\ durable' = durable /\ solid' = solid
        /\ \A q \in Runs \ {r} :
             /\ pc'[q] = pc[q] /\ held'[q] = held[q] /\ staged'[q] = staged[q] /\ renamed'[q] = renamed[q]
             /\ temps'[q] = temps[q] /\ sidecars'[q] = sidecars[q] /\ marker'[q] = marker[q]
             /\ cleaned'[q] = cleaned[q] /\ again'[q] = again[q]
             /\ q \in unconfirmed' <=> q \in unconfirmed
             /\ q \in botched' <=> q \in botched
    BY <1>0 DEF Kill, Goto, Set, ownVars, abortVars
  <2> QED
    BY <1>1, <1>12, <2>1 DEF StepOf
<1>7. Listed(r)'
  BY <1>11 DEF Listed, Started
<1>8. Cleaned(r)'
  BY <1>11 DEF Cleaned
<1>9. r \notin unconfirmed' => ((crashes > 0 => r \in durable) => Marked(r))' /\ Recoverable(r)'
  <2>1. crashes' = crashes /\ durable' = durable /\ solid' = solid
    BY DEF Kill, envVars, Cleanup
  <2> QED
    BY <1>0, <1>1, <1>11, <2>1, NameFacts DEF RunInv, Marked, Recoverable
<1>10. /\ SuccessOf(r)' /\ FailureOf(r)' /\ (Started(r) /\ held[r] = 1 => dir[Lock] = r)'
       /\ Active(r)' => held'[r] = 1 \/ dir'[Sidecar] = r
  BY <1>11 DEF SuccessOf, FailureOf, Started, Active, Producing, Late, Undoing
<1> QED
  BY <1>2, <1>3, <1>11, <1>7, <1>8, <1>9, <1>10, StepKeeps DEF Own, RunInv

(* After a crash every entry is one it had, and nobody is running: what a  *)
(* durable run's manifest stands for was synced before the manifest.       *)
LEMMA CrashKeeps == ASSUME CommitInv, Crash PROVE CommitInv'
<1>0. TypeOK
  BY DEF CommitInv
<1>1. /\ \A n \in Names : dir'[n] \in disk[n] /\ disk'[n] = {dir'[n]}
      /\ dir' \in [Names -> Runs \cup {Nobody}] /\ disk' \in [Names -> SUBSET (Runs \cup {Nobody})]
  <2>1. PICK after \in [Unsettled -> Runs \cup {Nobody}] :
          /\ \A n \in Unsettled : after[n] \in disk[n]
          /\ dir' = [n \in Names |-> IF n \in Unsettled THEN after[n] ELSE dir[n]]
    BY DEF Crash
  <2>2. \A n \in Names : dir'[n] \in disk[n] /\ dir'[n] \in Runs \cup {Nobody}
    BY <1>0, <2>1 DEF TypeOK, Unsettled
  <2>3. disk' = [n \in Names |-> {dir'[n]}]
    BY DEF Crash
  <2> QED
    BY <2>1, <2>2, <2>3
<1>2. /\ crashes' > 0 /\ crashes' \in Nat
      /\ UNCHANGED <<exists, solid, ownVars, abortVars, unconfirmed, faults, botched, kills, durable>>
      /\ \A r \in Runs : pc'[r] = (IF Started(r) THEN "dead" ELSE pc[r])
      /\ pc' = [r \in Runs |-> IF Started(r) THEN "dead" ELSE pc[r]]
  BY <1>0 DEF Crash, TypeOK
<1>3. TypeOK'
  <2>1. pc' \in [Runs -> Working \cup {"committed", "retract", "retractsync", "invalidate",
                 "invalidatesync", "remove", "release", "cleanupsync", "rmdir", "failed",
                 "dead"}]
    BY <1>0, <1>2 DEF TypeOK
  <2> QED
    BY <1>0, <1>1, <1>2, <2>1 DEF TypeOK, ownVars, abortVars
<1>4. \A r \in Runs : ~Started(r)' /\ ~Active(r)'
  BY <1>2 DEF Started, Active, Producing, Late, Undoing
<1>5. SuccessIsDurable'
  <2> SUFFICES ASSUME NEW r \in durable, pc'[r] = "committed",
                      NEW n \in {Manifest, Sidecar} \cup {Final(i) : i \in Shards}
               PROVE  disk'[n] = {r} /\ <<r, n>> \in solid'
    BY <1>2 DEF SuccessIsDurable
  <2>1. r \in Runs /\ n \in Names
    BY <1>0, DurableAssumption, NameFacts DEF TypeOK
  <2>2. disk[n] = {r} /\ <<r, n>> \in solid
    BY <1>2, <2>1 DEF CommitInv, SuccessIsDurable
  <2> QED
    BY <1>1, <1>2, <2>1, <2>2
<1>6. CleanFailure'
  BY <1>1, <1>2 DEF CommitInv, CleanFailure
<1>7. ASSUME NEW r \in Runs PROVE RunInv(r)'
  <2>1. RunInv(r)
    BY DEF CommitInv
  <2>2. pc'[r] # "dead" => pc'[r] = pc[r] /\ pc[r] \in {"directory", "committed", "failed"}
    BY <1>2 DEF Started
  <2>3. pc'[r] # "dead" => Shape(r)' /\ Present(r)' /\ Synced(r)'
    <3>1. /\ held' = held /\ staged' = staged /\ renamed' = renamed /\ temps' = temps /\ sidecars' = sidecars
          /\ marker' = marker /\ cleaned' = cleaned /\ again' = again /\ unconfirmed' = unconfirmed
      BY <1>2 DEF ownVars, abortVars
    <3>2. pc'[r] # "dead" => Shape(r)'
      BY <2>1, <2>2, <3>1 DEF RunInv, Shape, Nothing, Full, OwnedLen
    <3>3. pc'[r] # "dead" => Present(r)' /\ Synced(r)'
      BY <2>2 DEF Present, Synced, Producing, Late
    <3> QED
      BY <3>2, <3>3
  <2>4. Listed(r)'
    BY <1>4 DEF Listed
  <2>5. Cleaned(r)'
    <3>1. pc'[r] \in {"directory", "committed", "failed", "dead"}
      BY <2>2
    <3>2. ASSUME pc'[r] = "directory" PROVE Untouched(r)'
      BY <1>1, <2>1, <2>2, <3>2 DEF RunInv, Cleaned, Untouched
    <3> QED
      BY <3>1, <3>2 DEF Cleaned
  <2>6. ASSUME r \notin unconfirmed', r \in durable, dir'[Manifest] = r PROVE Marked(r)'
    <3>1. dir[Manifest] = r
      BY <1>1, <1>2, <2>1, <2>6, NameFacts DEF RunInv, Recoverable
    <3>2. /\ \A i \in Shards : disk[Final(i)] = {r} /\ <<r, Final(i)>> \in solid
          /\ \A n \in Artifacts : disk[n] \subseteq {r, Nobody}
      BY <1>2, <2>1, <2>6, <3>1 DEF RunInv, Marked
    <3>3. \A i \in Shards : dir'[Final(i)] = r /\ disk'[Final(i)] = {r} /\ <<r, Final(i)>> \in solid'
      BY <1>1, <1>2, <3>2, NameFacts
    <3>4. \A n \in Artifacts : dir'[n] \in {r, Nobody} /\ disk'[n] \subseteq {r, Nobody}
      BY <1>1, <3>2, NameFacts
    <3> QED
      BY <3>3, <3>4 DEF Marked
  <2>7. Recoverable(r)'
    BY <1>1, NameFacts DEF Recoverable
  <2>8. durable' = durable /\ crashes' > 0
    BY <1>2
  <2>9. (crashes' > 0 => r \in durable') /\ r \notin unconfirmed' => Marked(r)'
    BY <2>6, <2>8 DEF Marked
  <2> QED
    BY <2>3, <2>4, <2>5, <2>7, <2>9 DEF RunInv
<1> QED
  BY <1>3, <1>4, <1>5, <1>6, <1>7 DEF CommitInv, LockMine, Exclusive

LEMMA StutterKeeps == ASSUME CommitInv, UNCHANGED vars PROVE CommitInv'
<1>0. UNCHANGED <<dir, disk, exists, solid, pc, held, made, staged, renamed, temps, sidecars, marker,
                  cleaned, again, unconfirmed, faults, botched, kills, crashes, durable>>
  BY DEF vars, dirVars, ownVars, abortVars, envVars
<1>1. TypeOK' /\ SuccessIsDurable' /\ CleanFailure'
  BY <1>0 DEF CommitInv, TypeOK, SuccessIsDurable, CleanFailure
<1>2. LockMine' /\ Exclusive'
  BY <1>0 DEF CommitInv, LockMine, Exclusive, Started, Active, OwnedLen
<1>3. ASSUME NEW r \in Runs PROVE RunInv(r)'
  <2>1. RunInv(r)
    BY DEF CommitInv
  <2>2. Shape(r) => Shape(r)'
    BY <1>0 DEF Shape, Nothing, Full, OwnedLen
  <2>3. Present(r) => Present(r)'
    BY <1>0 DEF Present
  <2>4. Synced(r) => Synced(r)'
    BY <1>0 DEF Synced
  <2>5. Listed(r)'
    BY <1>0, <2>1 DEF RunInv, Listed, Started, OwnedSet
  <2>6. Cleaned(r)'
    BY <1>0, <2>1 DEF RunInv, Cleaned, Untouched, Gone, Owned, Temporaries
  <2>7. (Marked(r) => Marked(r)') /\ (Recoverable(r) => Recoverable(r)')
    BY <1>0 DEF Marked, Recoverable
  <2> QED
    BY <1>0, <2>1, <2>2, <2>3, <2>4, <2>5, <2>6, <2>7 DEF RunInv
<1> QED
  BY <1>1, <1>2, <1>3 DEF CommitInv

------------------------------------------------------------------------------
(* The theorems.                                                           *)

LEMMA CommitInvInit == Init => CommitInv
<1> SUFFICES ASSUME Init PROVE CommitInv
  OBVIOUS
<1>0. /\ \A r \in Runs : /\ pc[r] = "directory" /\ held[r] = 0 /\ made[r] = 0 /\ staged[r] = 0
                         /\ renamed[r] = 0 /\ temps[r] = 0 /\ sidecars[r] = 0 /\ marker[r] = 0
                         /\ cleaned[r] = 0 /\ again[r] = 0 /\ r # Nobody
      /\ \A n \in Names : dir[n] = Nobody /\ disk[n] = {Nobody}
  BY DurableAssumption DEF Init, Zero
<1>1. TypeOK
  BY DurableAssumption DEF Init, Zero, TypeOK, Working
<1>2. SuccessIsDurable /\ CleanFailure /\ LockMine /\ Exclusive
  <2>1. durable \subseteq Runs
    BY DurableAssumption DEF Init
  <2> QED
    BY <1>0, <2>1 DEF SuccessIsDurable, CleanFailure, LockMine, Exclusive, Active, Producing, Late
<1>3. ASSUME NEW r \in Runs PROVE RunInv(r)
  <2>1. Shape(r)
    BY <1>0 DEF Shape, Nothing, OwnedLen, Producing, Undoing
  <2>2. Present(r) /\ Synced(r)
    BY <1>0 DEF Present, Synced, Producing, Late
  <2>3. Listed(r) /\ Cleaned(r)
    BY <1>0 DEF Listed, Cleaned, Started, Untouched
  <2>4. Marked(r) /\ Recoverable(r)
    BY <1>0, NameFacts DEF Marked, Recoverable
  <2> QED
    BY <2>1, <2>2, <2>3, <2>4 DEF RunInv
<1> QED
  BY <1>1, <1>2, <1>3 DEF CommitInv

LEMMA RunStep ==
  ASSUME ExtractMulti = FALSE, CommitInv, NEW r \in Runs, Progress(r) \/ Fail(r) \/ Abort(r) \/ Kill(r)
  PROVE  StepOf(r) /\ CommitInv'
<1>1. ASSUME Progress(r) PROVE StepOf(r) /\ CommitInv'
  BY <1>1, EnsureDirectoryKeeps, TakeLockKeeps, LockTakenKeeps, SyncLockKeeps, InspectKeeps,
     OpenShardKeeps, FinalizeShardKeeps, RenameShardKeeps, SyncShardsKeeps, WriteSidecarKeeps,
     RenameSidecarKeeps, WriteManifestKeeps, UnlockKeeps, RenameManifestKeeps,
     ConfirmKeeps DEF Progress
<1>2. ASSUME Abort(r) PROVE StepOf(r) /\ CommitInv'
  BY <1>2, InvalidateKeeps, SyncInvalidatedKeeps, RemoveOwnedKeeps, ReleaseLockKeeps,
     SyncCleanupKeeps, RemoveDirectoryKeeps DEF Abort
<1>3. ASSUME Fail(r) \/ Kill(r) PROVE StepOf(r) /\ CommitInv'
  BY <1>3, FailKeeps, KillKeeps
<1> QED
  BY <1>1, <1>2, <1>3

LEMMA CommitInvStep ==
  ASSUME ExtractMulti = FALSE, CommitInv, [Next]_vars
  PROVE  CommitInv'
  BY RunStep, CrashKeeps, StutterKeeps DEF Next, Ended

LEMMA CommitInvariant == ASSUME ExtractMulti = FALSE PROVE Spec => []CommitInv
<1>1. CommitInv /\ [Next]_vars => CommitInv'
  BY CommitInvStep
<1> QED
  BY <1>1, CommitInvInit, PTL DEF Spec

(* manifest.json is the reader marker (durable_commit.go, writeManifest):  *)
(* whoever finds it finds all of that run's shards, content and all, and   *)
(* nothing of another run, after any crash for a durable run, unless the   *)
(* run reported its commit unconfirmed.                                    *)
THEOREM MarkerTrusted == ASSUME ExtractMulti = FALSE PROVE Spec => []MarkerMeansGeneration
<1>1. CommitInv => MarkerMeansGeneration
  <2> SUFFICES ASSUME CommitInv, NEW r \in Runs \ unconfirmed, dir[Manifest] = r, crashes > 0 => r \in durable
               PROVE  /\ \A i \in Shards : dir[Final(i)] = r /\ (crashes > 0 => <<r, Final(i)>> \in solid)
                      /\ \A n \in Artifacts : dir[n] \in {r, Nobody}
    BY DEF MarkerMeansGeneration
  <2>1. Marked(r)
    BY DEF CommitInv, RunInv
  <2> QED
    BY <2>1 DEF Marked
<1> QED
  BY <1>1, CommitInvariant, PTL

(* What a run reports is what the disk holds: after the last directory     *)
(* sync of writeManifest no crash and no other run can lose the commit,    *)
(* and an abort without a fault of its own leaves nothing behind.          *)
THEOREM ReportsTrusted == ASSUME ExtractMulti = FALSE PROVE Spec => []ReportedIsOnDisk
<1>1. CommitInv => ReportedIsOnDisk
  BY DEF CommitInv, ReportedIsOnDisk
<1> QED
  BY <1>1, CommitInvariant, PTL

(* localAggregateCommit "never removes paths it did not create and track   *)
(* itself": whatever fails, no step of one run takes away or replaces a    *)
(* file of another.                                                        *)
THEOREM ForeignFilesKept == ASSUME ExtractMulti = FALSE PROVE Spec => NeverTouchesForeignFile
<1>1. ASSUME CommitInv, [Next]_vars
      PROVE  [\A r, q \in Runs, n \in Names :
                pc'[r] # pc[r] \/ cleaned'[r] # cleaned[r] =>
                    (dir[n] = q /\ dir'[n] # q => q = r \/ crashes' # crashes)]_vars
  <2> SUFFICES ASSUME NEW r \in Runs, NEW q \in Runs, NEW n \in Names, Next,
                      pc'[r] # pc[r] \/ cleaned'[r] # cleaned[r], dir[n] = q, dir'[n] # q
               PROVE  q = r \/ crashes' # crashes
    BY <1>1
  <2>1. ASSUME NEW p \in Runs, Progress(p) \/ Fail(p) \/ Abort(p) \/ Kill(p) PROVE q = r
    <3>1. StepOf(p)
      BY <1>1, <2>1, RunStep
    <3>2. p = r
      BY <3>1 DEF StepOf
    <3> QED
      BY <3>1, <3>2, DurableAssumption DEF StepOf, DirStep
  <2>2. CASE Crash
    BY <1>1, <2>2 DEF Crash, CommitInv, TypeOK
  <2>3. CASE Ended
    BY <2>3 DEF Ended, vars, dirVars
  <2> QED
    BY <2>1, <2>2, <2>3 DEF Next
<1> QED
  BY <1>1, CommitInvariant, PTL DEF Spec, NeverTouchesForeignFile

------------------------------------------------------------------------------
(* The directory as its readers see it implements Publication.             *)

(* A durable run's manifest can only be lost, not replaced, in a crash.    *)
Settled == \A r \in durable : dir[Manifest] = r => disk[Manifest] \subseteq {r, Nobody}
Reported == {r \in durable : pc[r] = "committed"}

LEMMA PutElsewhere ==
  ASSUME TypeOK, NEW n \in Names \ {Manifest}, NEW v, Put(n, v)
  PROVE  dir'[Manifest] = dir[Manifest] /\ disk'[Manifest] = disk[Manifest]
  BY NameFacts DEF TypeOK, Put, Write

(* What a step of a run does to the manifest.                              *)
Bystander ==
    /\ dir'[Manifest] = dir[Manifest]
    /\ disk'[Manifest] \in {disk[Manifest], {dir[Manifest]}}

LEMMA ManifestStep ==
  ASSUME CommitInv, NEW r \in Runs, Progress(r) \/ Fail(r) \/ Abort(r) \/ Kill(r)
  PROVE  \/ Bystander /\ pc[r] # "committed" /\ (pc'[r] = "committed" => Confirm(r))
         \/ RenameManifest(r)
         \/ /\ dir'[Manifest] = Nobody /\ Active(r)
            /\ pc[r] # "committed" /\ pc'[r] # "committed"
<1>0. TypeOK
  BY DEF CommitInv
<1>1. CASE EnsureDirectory(r) \/ LockTaken(r) \/ Inspect(r) \/ FinalizeShard(r) \/ Fail(r)
            \/ RemoveDirectory(r) \/ Kill(r)
  <2>1. dir' = dir /\ disk' = disk
    BY <1>1 DEF EnsureDirectory, LockTaken, Inspect, FinalizeShard, Fail, RemoveDirectory, Kill,
       dirVars
  <2>2. pc[r] # "committed" /\ pc'[r] # "committed"
    BY <1>0, <1>1 DEF EnsureDirectory, LockTaken, Inspect, FinalizeShard, Fail, RemoveDirectory,
       Kill, Goto, TypeOK, Working, Preparing, Started
  <2> QED
    BY <2>1, <2>2 DEF Bystander
<1>2. CASE SyncLock(r) \/ SyncShards(r) \/ Confirm(r) \/ SyncInvalidated(r) \/ SyncCleanup(r)
  <2>1. SyncDirectory(r) \/ UNCHANGED dirVars
    BY <1>2 DEF SyncLock, SyncShards, Confirm, SyncInvalidated, SyncCleanup, Cleanup
  <2>2. Bystander
    BY <1>0, <2>1, SyncStep, NameFacts DEF Bystander, dirVars
  <2>3. pc[r] # "committed" /\ (pc'[r] = "committed" => Confirm(r))
    BY <1>0, <1>2 DEF SyncLock, SyncShards, Confirm, SyncInvalidated, SyncCleanup, Goto,
       AfterInvalidate, TypeOK
  <2> QED
    BY <2>2, <2>3
<1>3. CASE TakeLock(r) \/ OpenShard(r) \/ WriteSidecar(r) \/ WriteManifest(r) \/ Unlock(r)
  <2>1. PICK n \in {Lock, Stage(staged[r] + 1), SidecarTemp(r), ManifestTemp(r)}, v \in {r, Nobody} : Put(n, v)
    BY <1>3 DEF TakeLock, OpenShard, WriteSidecar, WriteManifest, Unlock
  <2>2. pc[r] # "committed" /\ pc'[r] # "committed"
    BY <1>0, <1>3 DEF TakeLock, OpenShard, WriteSidecar, WriteManifest, Unlock, Goto, TypeOK
  <2>3. n # Manifest
    BY DEF Lock, Stage, SidecarTemp, ManifestTemp, Manifest
  <2>4. Bystander
    BY <1>0, <2>1, <2>3, NameFacts DEF TypeOK, Put, Write, Bystander
  <2> QED
    BY <2>2, <2>4
<1>4. CASE RenameShard(r) \/ RenameSidecar(r)
  <2>1. PICK from \in {Stage(renamed[r] + 1), SidecarTemp(r)}, to \in {Final(renamed[r] + 1), Sidecar} :
          Rename(from, to)
    BY <1>4 DEF RenameShard, RenameSidecar
  <2>2. pc[r] # "committed" /\ pc'[r] # "committed"
    BY <1>0, <1>4 DEF RenameShard, RenameSidecar, Goto, TypeOK
  <2>3. from # Manifest /\ to # Manifest
    BY DEF Stage, Final, SidecarTemp, Sidecar, Manifest
  <2>4. Bystander
    BY <1>0, <2>1, <2>3, NameFacts DEF TypeOK, Rename, Write, Bystander
  <2> QED
    BY <2>2, <2>4
<1>5. CASE Invalidate(r)
  <2>1. pc[r] # "committed" /\ pc'[r] # "committed"
    BY <1>0, <1>5 DEF Invalidate, Cleanup, AfterInvalidate, Goto, TypeOK
  <2>2. CASE UNCHANGED dirVars
    BY <2>1, <2>2 DEF Bystander, dirVars
  <2>3. CASE marker[r] # 0 /\ Put(Manifest, Nobody)
    <3>1. pc[r] \in {"retract", "invalidate"} /\ pc[r] # "dead"
      BY <1>5 DEF Invalidate
    <3>2. Active(r)
      BY <1>0, <2>3, <3>1, Knows DEF Shape, Full, Active, Undoing, OwnedLen, TypeOK
    <3>3. dir'[Manifest] = Nobody
      BY <1>0, <2>3, NameFacts, PutEffect DEF TypeOK
    <3> QED
      BY <2>1, <3>2, <3>3
  <2> QED
    BY <1>5, <2>2, <2>3 DEF Invalidate, Cleanup
<1>6. CASE RemoveOwned(r)
  <2>1. /\ pc[r] = "remove" /\ pc'[r] # "committed"
    BY <1>0, <1>6 DEF RemoveOwned, Goto, TypeOK
  <2>2. Counted(r) /\ cleaned[r] \in Nat
    BY <1>0 DEF TypeOK, Counted
  <2>3. CASE UNCHANGED dirVars
    BY <2>1, <2>3 DEF Bystander, dirVars
  <2>4. CASE cleaned[r] < Len(Owned(r)) /\ Put(Owned(r)[cleaned[r] + 1], Nobody)
    <3>1. Owned(r)[cleaned[r] + 1] \in Names \ {Manifest}
      BY <2>2, <2>4, OwnedFacts, NameFacts
    <3>2. Bystander
      BY <1>0, <2>4, <3>1, PutElsewhere DEF Bystander
    <3> QED
      BY <2>1, <3>2
  <2> QED
    BY <1>6, <2>3, <2>4 DEF RemoveOwned, Cleanup
<1>7. CASE ReleaseLock(r)
  <2>1. pc[r] = "release" /\ pc'[r] # "committed"
    BY <1>0, <1>7 DEF ReleaseLock, Goto, TypeOK
  <2>2. UNCHANGED dirVars \/ Put(Lock, Nobody)
    BY <1>7 DEF ReleaseLock, Cleanup
  <2>3. Bystander
    BY <1>0, <2>2, PutElsewhere, NameFacts DEF Bystander, dirVars
  <2> QED
    BY <2>1, <2>3
<1> QED
  BY <1>1, <1>2, <1>3, <1>4, <1>5, <1>6, <1>7 DEF Progress, Abort

(* The rename puts the manifest where none is.                             *)
LEMMA RenamedManifest ==
  ASSUME CommitInv, NEW r \in Runs, RenameManifest(r)
  PROVE  /\ dir[Manifest] = Nobody /\ dir'[Manifest] = r /\ disk'[Manifest] = disk[Manifest] \cup {r}
         /\ r \in durable => disk[Manifest] \subseteq {r, Nobody}
         /\ pc[r] = "manifestrename" /\ pc'[r] = "manifestsync"
<1>1. pc[r] = "manifestrename" /\ pc'[r] = "manifestsync" /\ Rename(ManifestTemp(r), Manifest) /\ TypeOK
  BY DEF RenameManifest, Goto, CommitInv, TypeOK
<1>2. /\ Present(r) /\ (r \in durable => Synced(r))
  BY <1>1, Knows
<1>3. dir[ManifestTemp(r)] = r /\ dir[Manifest] = Nobody /\ (r \in durable => disk[Manifest] \subseteq {r, Nobody})
  BY <1>1, <1>2, NameFacts DEF Present, Synced
<1> QED
  BY <1>1, <1>3, RenameEffect, NameFacts DEF TypeOK

LEMMA SettledStep ==
  ASSUME ExtractMulti = FALSE, CommitInv, Settled, [Next]_vars
  PROVE  Settled'
<1> SUFFICES ASSUME NEW q \in durable', dir'[Manifest] = q PROVE disk'[Manifest] \subseteq {q, Nobody}
  BY DEF Settled
<1>1. ASSUME NEW r \in Runs, Progress(r) \/ Fail(r) \/ Abort(r) \/ Kill(r)
      PROVE  disk'[Manifest] \subseteq {q, Nobody}
  <2>1. durable' = durable /\ q # Nobody
    <3>1. StepOf(r)
      BY <1>1, RunStep
    <3> QED
      BY <3>1, DurableAssumption DEF StepOf, CommitInv, TypeOK
  <2>2. CASE Bystander
    BY <2>1, <2>2 DEF Bystander, Settled
  <2>3. CASE RenameManifest(r)
    BY <2>1, <2>3, RenamedManifest
  <2> QED
    BY <1>1, <2>1, <2>2, <2>3, ManifestStep
<1>2. CASE Crash
  BY <1>2, NameFacts DEF Crash
<1>3. CASE UNCHANGED vars
  BY <1>3 DEF vars, dirVars, envVars, Settled
<1> QED
  BY <1>1, <1>2, <1>3 DEF Next, Ended

(* A reported manifest is the one a reader sees, before and after a crash. *)
LEMMA ReportedVisible ==
  ASSUME CommitInv, NEW q \in Reported
  PROVE  q \in Runs /\ dir[Manifest] = q /\ disk[Manifest] = {q}
<1>1. q \in Runs /\ disk[Manifest] = {q}
  <2>1. durable \subseteq Runs
    BY DurableAssumption DEF CommitInv, TypeOK
  <2>2. Manifest \in {Manifest, Sidecar} \cup {Final(i) : i \in Shards}
    OBVIOUS
  <2> QED
    BY <2>1, <2>2 DEF Reported, CommitInv, SuccessIsDurable
<1> QED
  BY <1>1, NameFacts DEF CommitInv, TypeOK

LEMMA RunPublishes ==
  ASSUME ExtractMulti = FALSE, CommitInv, NEW r \in Runs, Progress(r) \/ Fail(r) \/ Abort(r) \/ Kill(r)
  PROVE  [Pub!PubNext]_<<dir[Manifest], Reported, durable>>
<1>1. durable' = durable /\ durable \subseteq Runs /\ \A q \in Runs \ {r} : pc'[q] = pc[q]
  <2>1. StepOf(r)
    BY RunStep
  <2> QED
    BY <2>1, DurableAssumption DEF StepOf, CommitInv, TypeOK
<1>2. CASE Bystander /\ pc[r] # "committed" /\ (pc'[r] = "committed" => Confirm(r))
  <2>1. CASE pc'[r] # "committed" \/ r \notin durable
    <3>1. Reported' = Reported
      BY <1>1, <1>2, <2>1 DEF Reported
    <3> QED
      BY <1>1, <1>2, <3>1 DEF Bystander
  <2>2. CASE pc'[r] = "committed" /\ r \in durable
    <3>1. Reported' = Reported \cup {r}
      BY <1>1, <1>2, <2>2 DEF Reported
    <3>2. pc[r] = "manifestsync" /\ pc[r] # "dead"
      BY <1>2, <2>2 DEF Confirm
    <3>3. dir[Manifest] = r
      BY <3>2, Knows DEF Present
    <3> QED
      BY <1>1, <1>2, <3>1, <3>3 DEF Bystander, Pub!PubNext, Pub!Confirm, Reported
  <2> QED
    BY <2>1, <2>2
<1>3. CASE RenameManifest(r)
  <2>1. /\ dir[Manifest] = Nobody /\ dir'[Manifest] = r
        /\ pc[r] = "manifestrename" /\ pc'[r] = "manifestsync"
    BY <1>3, RenamedManifest
  <2>2. Reported = {} /\ Reported' = Reported
    BY <1>1, <2>1, ReportedVisible, DurableAssumption DEF Reported
  <2> QED
    BY <1>1, <2>1, <2>2 DEF Pub!PubNext, Pub!Publish, Reported
<1>4. CASE dir'[Manifest] = Nobody /\ Active(r) /\ pc[r] # "committed" /\ pc'[r] # "committed"
  <2>1. Reported' = Reported
    BY <1>1, <1>4 DEF Reported
  <2>2. dir[Manifest] \in {r, Nobody}
    BY <1>4, NameFacts DEF CommitInv, Exclusive
  <2>3. Reported = {}
    BY <1>4, <2>2, ReportedVisible, DurableAssumption DEF Reported
  <2> QED
    BY <1>1, <1>4, <2>1, <2>3 DEF Pub!PubNext, Pub!Withdraw, Reported
<1> QED
  BY <1>2, <1>3, <1>4, ManifestStep

LEMMA CrashPublishes ==
  ASSUME CommitInv, Settled, Crash
  PROVE  [Pub!PubNext]_<<dir[Manifest], Reported, durable>>
<1>0. TypeOK
  BY DEF CommitInv
<1>1. dir'[Manifest] \in disk[Manifest] /\ dir'[Manifest] \in Runs \cup {Nobody}
  <2>1. PICK after \in [Unsettled -> Runs \cup {Nobody}] :
          /\ \A n \in Unsettled : after[n] \in disk[n]
          /\ dir' = [n \in Names |-> IF n \in Unsettled THEN after[n] ELSE dir[n]]
    BY DEF Crash
  <2> QED
    BY <1>0, <2>1, NameFacts DEF TypeOK, Unsettled
<1>2. durable' = durable /\ durable \subseteq Runs
  BY <1>0, DurableAssumption DEF Crash, TypeOK
<1>3. Reported' = Reported
  BY <1>2 DEF Crash, Reported, Started
<1>4. CASE Reported # {}
  <2>1. dir'[Manifest] = dir[Manifest]
    BY <1>1, <1>4, ReportedVisible
  <2> QED
    BY <1>2, <1>3, <2>1
<1>5. CASE Reported = {}
  <2>1. CASE dir'[Manifest] = dir[Manifest]
    BY <1>2, <1>3, <2>1
  <2>2. CASE dir'[Manifest] = Nobody
    BY <1>2, <1>3, <1>5, <2>2 DEF Pub!PubNext, Pub!Withdraw, Reported
  <2>3. CASE dir'[Manifest] \in Runs /\ dir'[Manifest] # dir[Manifest]
    <3>1. dir[Manifest] \in (Runs \ durable) \cup {Nobody}
      BY <1>0, <1>1, <2>3, NameFacts, DurableAssumption DEF TypeOK, Settled
    <3> QED
      BY <1>2, <1>3, <1>5, <2>3, <3>1 DEF Pub!PubNext, Pub!Publish, Pub!Resurface, Reported
  <2> QED
    BY <1>1, <2>1, <2>2, <2>3
<1> QED
  BY <1>4, <1>5

(* The protocol implements what readers are promised: at most one          *)
(* generation is published by its manifest, and once a durable run has     *)
(* reported success the generation stays, through crashes and later runs.  *)
THEOREM ImplementsPublication == ASSUME ExtractMulti = FALSE PROVE Spec => PublicationSpec
<1>1. Init => Pub!PubInit /\ Settled
  <2> SUFFICES ASSUME Init PROVE Pub!PubInit /\ Settled
    OBVIOUS
  <2>1. dir[Manifest] = Nobody /\ disk[Manifest] = {Nobody} /\ durable \subseteq Runs
        /\ \A r \in Runs : pc[r] = "directory"
    BY NameFacts, DurableAssumption DEF Init
  <2> QED
    BY <2>1 DEF Pub!PubInit, Settled
<1>2. CommitInv /\ Settled /\ [Next]_vars => Settled'
  BY SettledStep
<1>3. CommitInv /\ Settled /\ [Next]_vars => [Pub!PubNext]_Pub!pubVars
  <2> SUFFICES ASSUME CommitInv, Settled, [Next]_vars PROVE [Pub!PubNext]_<<dir[Manifest], Reported, durable>>
    BY DEF Pub!pubVars, Reported
  <2>1. CASE UNCHANGED vars
    BY <2>1 DEF vars, dirVars, envVars, Reported
  <2> QED
    BY <2>1, RunPublishes, CrashPublishes DEF Next, Ended
<1> QED
  BY <1>1, <1>2, <1>3, CommitInvariant, PTL DEF Spec, PublicationSpec, Pub!PubSpec
==============================================================================
