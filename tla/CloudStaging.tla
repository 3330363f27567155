---------------------------- MODULE CloudStaging ------------------------------
(***************************************************************************)
(* The cloud session of a run (internal/uriio): workers acquire objects    *)
(* through one staging budget into one staging directory, read them and    *)
(* clean them up, while the committer publishes an output through the same *)
(* session; the session is closed when the workers have been joined        *)
(* (cmd/sumpter/commands/extract_multi_dispatch.go, prepareInput).  The    *)
(* object store may answer with transient and permanent errors, an object  *)
(* may change between HEAD and GET, and a file may not be removable.       *)
(***************************************************************************)
EXTENDS Integers, Sequences, FiniteSets, FiniteSetsExt

CONSTANTS
    Workers,        \* the goroutines that acquire
    Objects,        \* the inputs, in the order they are scheduled
    OutputPath,     \* where the output is staged
    Budgets,        \* the possible StagingBudgetConfigs
    RetryLimit,     \* acquireRetryLimit
    MaxFaults,      \* bound on permanent errors and failing file operations
    MayCancel       \* TRUE: the run may be canceled

(* An object: the path its key is staged under (safeStagePath drops the    *)
(* bucket and empty and "." segments), the size HEAD reports, the declared *)
(* size or -1, the size GET reports and the bytes its stream holds.        *)
Object == [path : STRING, size : Nat, declared : Int, got : Nat, stream : Nat]

ASSUME StagingAssumption ==
    /\ IsFiniteSet(Workers) /\ Workers # {}
    /\ Objects \in Seq(Object) /\ Objects # <<>>
    /\ Budgets \subseteq [maxBytes : Nat \ {0}, maxFiles : Nat \ {0}, objectMax : Nat \ {0}]
    /\ RetryLimit \in Nat /\ MaxFaults \in Nat /\ MayCancel \in BOOLEAN
    /\ \A i \in DOMAIN Objects : Objects[i].path # OutputPath

VARIABLES
    wpc, job,       \* each worker's program counter and the object it is at
    attempt,        \* retryTransient's attempt
    next,           \* the next object to schedule
    caps,           \* the budget's caps; never change
    usedFiles, usedBytes, admitBlocked,     \* StagingBudget
    kept,           \* the objects whose reservation a failed cleanup keeps
    disk,           \* staged path -> what is there
    stageDir,       \* none, open, or, once the session is closed, gone or left
    provider,       \* the pool holds the provider of the bucket
    ppc,            \* where the committer's output is
    store,          \* what a reader of the destination finds
    ctx, faults

budget == <<caps, usedFiles, usedBytes, admitBlocked, kept>>
shared == <<disk, stageDir, provider>>
output == <<ppc, store>>
vars == <<wpc, job, attempt, next, budget, shared, output, ctx, faults>>

Indices == DOMAIN Objects
Paths == {Objects[i].path : i \in Indices} \cup {OutputPath}
Output == 0                             \* the owner of the staged output
Absent == [owner |-> -1, bytes |-> 0]

Init ==
    /\ wpc = [w \in Workers |-> "idle"] /\ job = [w \in Workers |-> 1]
    /\ attempt = [w \in Workers |-> 0] /\ next = 1
    /\ caps \in Budgets
    /\ usedFiles = 0 /\ usedBytes = 0 /\ admitBlocked = FALSE /\ kept = {}
    /\ disk = [p \in Paths |-> Absent] /\ stageDir = "none" /\ provider = FALSE
    /\ ppc = "idle" /\ store = "none"
    /\ ctx = "live" /\ faults = 0

-------------------------------------------------------------------------------
Faults(n) == faults + n <= MaxFaults /\ faults' = faults + n
Fault == Faults(1)
Goto(w, label) == wpc' = [wpc EXCEPT ![w] = label]
Obj(w) == Objects[job[w]]

(* A goroutine in cond.Wait runs Admit's loop again after a Broadcast.     *)
Broadcast(pcs) == [w \in Workers |-> IF pcs[w] = "asleep" THEN "admit" ELSE pcs[w]]

(* Release, after which the worker is at label.                            *)
Release(w, label) ==
    /\ usedFiles' = Max({0, usedFiles - 1}) /\ usedBytes' = Max({0, usedBytes - Obj(w).size})
    /\ wpc' = Broadcast([wpc EXCEPT ![w] = label])
    /\ UNCHANGED <<caps, admitBlocked, kept>>

Remove(p) == disk' = [disk EXCEPT ![p] = Absent]

(* os.Remove whose error is ignored.                                       *)
TryRemove(p) == \/ Remove(p) /\ UNCHANGED faults
                \/ Fault /\ UNCHANGED disk

-------------------------------------------------------------------------------
(* acquireS3                                                               *)

Take(w) ==
    /\ wpc[w] = "idle" /\ next <= Len(Objects) /\ ctx = "live"
    /\ job' = [job EXCEPT ![w] = next] /\ next' = next + 1 /\ Goto(w, "dir")
    /\ UNCHANGED <<attempt, budget, shared, output, ctx, faults>>

(* ensureStageDir: the first acquire or output creates the directory.      *)
EnsureStageDir(w) ==
    /\ wpc[w] = "dir"
    /\ \/ stageDir' = "open" /\ Goto(w, "provider") /\ UNCHANGED faults
       \/ stageDir = "none" /\ Fault /\ Goto(w, "idle") /\ UNCHANGED stageDir
    /\ UNCHANGED <<job, attempt, next, budget, disk, provider, output, ctx>>

(* ProviderPool.Provider constructs once per handle and bucket.            *)
GetProvider(w) ==
    /\ wpc[w] = "provider"
    /\ \/ provider' = TRUE /\ Goto(w, "head") /\ UNCHANGED faults
       \/ ~provider /\ Fault /\ Goto(w, "idle") /\ UNCHANGED provider
    /\ attempt' = [attempt EXCEPT ![w] = 0]
    /\ UNCHANGED <<job, next, budget, disk, stageDir, output, ctx>>

(* The gates on HEAD's size that come before the budget: the declared      *)
(* size, and the per-object cap prepareInput passes as maxBytes.           *)
HeadAccepted(o) == (o.declared >= 0 => o.size = o.declared) /\ o.size <= caps.objectMax

HeadObject(w) ==
    /\ wpc[w] = "head"
    /\ Goto(w, IF HeadAccepted(Obj(w)) THEN "admit" ELSE "idle")
    /\ attempt' = [attempt EXCEPT ![w] = 0]
    /\ UNCHANGED <<job, next, budget, shared, output, ctx, faults>>

(* retryTransient: a throttled or unavailable answer is retried.           *)
Retry(w) ==
    /\ wpc[w] \in {"head", "get"} /\ attempt[w] < RetryLimit /\ ctx = "live"
    /\ attempt' = [attempt EXCEPT ![w] = attempt[w] + 1]
    /\ UNCHANGED <<wpc, job, next, budget, shared, output, ctx, faults>>

(* A transient answer to the last attempt, a permanent error, or the       *)
(* context's; the reservation of a failed GET is released.                 *)
RequestFails(w) ==
    /\ wpc[w] \in {"head", "get"}
    /\ \/ (attempt[w] = RetryLimit \/ ctx = "done") /\ UNCHANGED faults
       \/ Fault
    /\ IF wpc[w] = "get" THEN Release(w, "idle") ELSE Goto(w, "idle") /\ UNCHANGED budget
    /\ UNCHANGED <<job, attempt, next, shared, output, ctx>>

-------------------------------------------------------------------------------
(* StagingBudget.Admit                                                     *)

Fits(o) == usedFiles < caps.maxFiles /\ usedBytes + o.size <= caps.maxBytes

(* A size over the whole budget could wait for ever and is refused, as is  *)
(* everything after a cancellation or a failed cleanup.                    *)
Refused(o) == o.size > caps.maxBytes \/ ctx = "done" \/ admitBlocked

Admit(w) ==
    /\ wpc[w] = "admit"
    /\ IF Refused(Obj(w)) THEN Goto(w, "idle") /\ UNCHANGED <<usedFiles, usedBytes>>
       ELSE IF Fits(Obj(w))
       THEN /\ usedFiles' = usedFiles + 1 /\ usedBytes' = usedBytes + Obj(w).size
            /\ Goto(w, "get")
       ELSE Goto(w, "asleep") /\ UNCHANGED <<usedFiles, usedBytes>>
    /\ UNCHANGED <<job, attempt, next, caps, admitBlocked, kept, shared, output, ctx, faults>>

(* context.AfterFunc's Broadcast.                                          *)
WakeCanceled ==
    /\ ctx = "done" /\ \E w \in Workers : wpc[w] = "asleep"
    /\ wpc' = Broadcast(wpc)
    /\ UNCHANGED <<job, attempt, next, budget, shared, output, ctx, faults>>

-------------------------------------------------------------------------------
(* Staging, reading, cleanup.                                              *)

(* GET; a reported size above the admitted one is rejected.                *)
GetObject(w) ==
    /\ wpc[w] = "get"
    /\ IF Obj(w).got > Obj(w).size THEN Release(w, "idle")
       ELSE Goto(w, "write") /\ UNCHANGED budget
    /\ UNCHANGED <<job, attempt, next, shared, output, ctx, faults>>

Min2(a, b) == IF a <= b THEN a ELSE b

(* Variant: the file is opened without O_EXCL.                             *)
WriteOver(w) ==
    /\ wpc[w] = "write" /\ Goto(w, "check")
    /\ disk' = [disk EXCEPT ![Obj(w).path] =
                   [owner |-> job[w], bytes |-> Min2(Obj(w).stream, Obj(w).size + 1)]]
    /\ UNCHANGED <<job, attempt, next, budget, stageDir, provider, output, ctx, faults>>

(* writeStagedFile creates with O_EXCL and copies at most size+1 bytes.    *)
Write(w) ==
    /\ wpc[w] = "write" /\ disk[Obj(w).path] = Absent /\ Goto(w, "check")
    /\ disk' = [disk EXCEPT ![Obj(w).path] =
                   [owner |-> job[w], bytes |-> Min2(Obj(w).stream, Obj(w).size + 1)]]
    /\ UNCHANGED <<job, attempt, next, budget, stageDir, provider, output, ctx, faults>>

(* The path is taken by another object of the run, or the file cannot be   *)
(* created.                                                                *)
CreateFails(w) ==
    /\ wpc[w] = "write"
    /\ \/ disk[Obj(w).path] # Absent /\ UNCHANGED faults
       \/ Fault
    /\ Release(w, "idle")
    /\ UNCHANGED <<job, attempt, next, shared, output, ctx>>

(* The file of a failed acquire, of at most bytes, is removed as far as    *)
(* possible, after n operations that failed, and its reservation released  *)
(* either way.                                                             *)
Discard(w, bytes, n) ==
    /\ \/ Faults(n) /\ Remove(Obj(w).path)
       \/ /\ Faults(n + 1)
          /\ \E b \in bytes : disk' = [disk EXCEPT ![Obj(w).path] = [owner |-> job[w], bytes |-> b]]
    /\ Release(w, "idle")

(* Copying or closing fails, or the context ends the copy.                 *)
WriteFails(w) ==
    /\ wpc[w] = "write" /\ disk[Obj(w).path] = Absent
    /\ \E n \in {0, 1} :
          /\ n = 0 => ctx = "done"
          /\ Discard(w, 0..Min2(Obj(w).stream, Obj(w).size + 1), n)
    /\ UNCHANGED <<job, attempt, next, stageDir, provider, output, ctx>>

(* Variant: the file is kept whatever its size.                            *)
CheckSkipped(w) ==
    /\ wpc[w] = "check" /\ Goto(w, "held")
    /\ UNCHANGED <<job, attempt, next, budget, shared, output, ctx, faults>>

(* StagedBytesExceedAdmit: a file longer than its reservation, or that     *)
(* cannot be examined, is not kept.                                        *)
Check(w) ==
    /\ wpc[w] = "check"
    /\ LET bytes == disk[Obj(w).path].bytes
       IN  \/ bytes <= Obj(w).size /\ Goto(w, "held") /\ UNCHANGED <<budget, disk, faults>>
           \/ bytes > Obj(w).size /\ Discard(w, {bytes}, 0)
           \/ Discard(w, {bytes}, 1)
    /\ UNCHANGED <<job, attempt, next, stageDir, provider, output, ctx>>

(* AcquiredSource.Cleanup, after the input is built.                       *)
Cleanup(w) ==
    /\ wpc[w] = "held" /\ Remove(Obj(w).path) /\ Release(w, "idle")
    /\ UNCHANGED <<job, attempt, next, stageDir, provider, output, ctx, faults>>

(* Variant: NoteCleanupFailure does not wake the waiters.                  *)
CleanupFailsSilently(w) ==
    /\ wpc[w] = "held" /\ Fault
    /\ admitBlocked' = TRUE /\ kept' = kept \cup {job[w]}
    /\ Goto(w, "idle")
    /\ UNCHANGED <<job, attempt, next, caps, usedFiles, usedBytes, shared, output, ctx>>

(* The file cannot be removed: its reservation stays and NoteCleanupFailure*)
(* stops further admissions.                                               *)
CleanupFails(w) ==
    /\ wpc[w] = "held" /\ Fault
    /\ admitBlocked' = TRUE /\ kept' = kept \cup {job[w]}
    /\ wpc' = Broadcast([wpc EXCEPT ![w] = "idle"])
    /\ UNCHANGED <<job, attempt, next, caps, usedFiles, usedBytes, shared, output, ctx>>

WorkerStep(w) ==
    \/ Take(w) \/ EnsureStageDir(w) \/ GetProvider(w) \/ HeadObject(w) \/ RequestFails(w)
    \/ Admit(w) \/ GetObject(w) \/ Write(w) \/ CreateFails(w) \/ WriteFails(w) \/ Check(w)
    \/ Cleanup(w) \/ CleanupFails(w)

-------------------------------------------------------------------------------
(* OpenOutput and Publish, on the committer's goroutine.                   *)

OpenOutput ==
    /\ ppc = "idle" /\ stageDir \in {"none", "open"} /\ ctx = "live"
    /\ stageDir' = "open" /\ ppc' = "write"
    /\ UNCHANGED <<wpc, job, attempt, next, budget, disk, provider, store, ctx, faults>>

WriteOutput ==
    /\ ppc = "write" /\ ppc' = "put"
    /\ disk' = [disk EXCEPT ![OutputPath] = [owner |-> Output, bytes |-> 1]]
    /\ UNCHANGED <<wpc, job, attempt, next, budget, stageDir, provider, store, ctx, faults>>

(* One PUT of the whole file, then a best-effort removal.                  *)
Publish ==
    /\ ppc = "put" /\ disk[OutputPath].owner = Output
    /\ ppc' = "published" /\ store' = "whole" /\ provider' = TRUE
    /\ TryRemove(OutputPath)
    /\ UNCHANGED <<wpc, job, attempt, next, budget, stageDir, ctx>>

(* Provider, open or PUT fails: nothing appears, the staged file stays.    *)
PublishFails ==
    /\ ppc = "put" /\ ppc' = "failed"
    /\ \/ ctx = "done" /\ UNCHANGED faults
       \/ Fault
    /\ UNCHANGED <<wpc, job, attempt, next, budget, shared, store, ctx>>

Committer == OpenOutput \/ WriteOutput \/ Publish \/ PublishFails

-------------------------------------------------------------------------------
Cancel ==
    /\ MayCancel /\ ctx = "live" /\ stageDir \in {"none", "open"}
    /\ ctx' = "done"
    /\ UNCHANGED <<wpc, job, attempt, next, budget, shared, output, faults>>

Idle == \A w \in Workers : wpc[w] = "idle"
Scheduled == next > Len(Objects) \/ ctx = "done"

(* Session.Close, deferred by the command: RemoveAll, then every provider. *)
Close ==
    /\ Idle /\ Scheduled /\ ppc \in {"idle", "published", "failed"}
    /\ stageDir \in {"none", "open"}
    /\ \/ disk' = [p \in Paths |-> Absent] /\ stageDir' = "gone" /\ UNCHANGED faults
       \/ stageDir = "open" /\ Fault /\ stageDir' = "left" /\ UNCHANGED disk
    /\ provider' = FALSE
    /\ UNCHANGED <<wpc, job, attempt, next, budget, output, ctx>>

Closed == stageDir \in {"gone", "left"} /\ UNCHANGED vars

Next ==
    \/ \E w \in Workers : WorkerStep(w) \/ Retry(w)
    \/ WakeCanceled \/ Committer \/ Cancel \/ Close \/ Closed

(* Every goroutine that can run does, the after-func included.  No         *)
(* fairness is needed of Retry, which is bounded, nor of Cancel.           *)
Fairness ==
    /\ \A w \in Workers : WF_vars(WorkerStep(w))
    /\ WF_vars(WakeCanceled) /\ WF_vars(WriteOutput \/ Publish \/ PublishFails)
    /\ WF_vars(Close)

Spec == Init /\ [][Next]_vars
FairSpec == Spec /\ Fairness

-------------------------------------------------------------------------------
(* Properties.                                                             *)

TypeOK ==
    /\ wpc \in [Workers -> {"idle", "dir", "provider", "head", "admit", "asleep", "get",
                            "write", "check", "held"}]
    /\ job \in [Workers -> Indices] /\ attempt \in [Workers -> 0..RetryLimit]
    /\ next \in 1..Len(Objects) + 1
    /\ caps \in Budgets
    /\ usedFiles \in 0..caps.maxFiles /\ usedBytes \in 0..caps.maxBytes
    /\ admitBlocked \in BOOLEAN /\ kept \subseteq Indices
    /\ disk \in [Paths -> [owner : Indices \cup {Output, -1}, bytes : Nat]]
    /\ stageDir \in {"none", "open", "gone", "left"} /\ provider \in BOOLEAN
    /\ ppc \in {"idle", "write", "put", "published", "failed"}
    /\ store \in {"none", "whole"} /\ ctx \in {"live", "done"} /\ faults \in 0..MaxFaults

(* The objects that have a reservation.                                    *)
Reserved == kept \cup {job[w] : w \in {v \in Workers : wpc[v] \in {"get", "write", "check", "held"}}}

(* The budget's counters are exactly the reservations that exist: none is  *)
(* released twice or forgotten on an error path, and the clamps at zero    *)
(* never hide one.                                                         *)
UsageAccounted ==
    /\ usedFiles = Cardinality(Reserved)
    /\ usedBytes = MapThenSumSet(LAMBDA i : Objects[i].size, Reserved)

(* The staged inputs whose object has no reservation.                      *)
Unreserved == {p \in Paths \ {OutputPath} : disk[p] # Absent /\ disk[p].owner \notin Reserved}

(* What lies in the staging directory is covered by the budget: a staged   *)
(* input is no longer than its object's reservation, but for the one byte  *)
(* that makes StagedBytesExceedAdmit reject it; and a file is left there   *)
(* without a reservation only where an operation on it failed, at most one *)
(* for each failure (the removals of writeStagedFile and acquireS3Bounded  *)
(* are best-effort and release the reservation anyway).                    *)
DiskWithinBudget ==
    /\ \A p \in Paths \ {OutputPath} : disk[p] # Absent =>
         LET i == disk[p].owner
         IN  /\ disk[p].bytes <= Objects[i].size + 1
             /\ i \in Reserved /\ disk[p].bytes > Objects[i].size =>
                  \E w \in Workers : wpc[w] = "check" /\ job[w] = i
    /\ Cardinality(Unreserved) <= faults

(* Two keys can share a staged path; the file a worker reads is still its  *)
(* own object's, from the write until its cleanup.                         *)
HeldIsOwn ==
    \A w \in Workers : wpc[w] \in {"check", "held"} => disk[Obj(w).path].owner = job[w]

(* When the session is closed nothing it staged is left, neither by failed *)
(* acquires nor by a failed publish, unless RemoveAll itself failed.       *)
NothingStagedAfterClose ==
    stageDir = "gone" => \A p \in Paths : disk[p] = Absent

(* Every acquire ends and the session is closed: no waiter is left behind  *)
(* by a release, a failed cleanup or a cancellation.                       *)
SessionEnds == <>(stageDir \in {"gone", "left"})
(* The budget holds: its counters stay within both caps and are exactly    *)
(* the reservations, and the files on disk are covered by them, but for    *)
(* one for every operation that failed.                                    *)
BudgetHeld == TypeOK /\ UsageAccounted /\ DiskWithinBudget

(* A staged file belongs to the worker that reads it, and none outlives    *)
(* the session.                                                            *)
StagedFilesOwned == HeldIsOwn /\ NothingStagedAfterClose
===============================================================================
