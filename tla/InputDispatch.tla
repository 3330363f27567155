---------------------------- MODULE InputDispatch ----------------------------
(***************************************************************************)
(* extract-multi's concurrent input dispatch                               *)
(* (cmd/sumpter/commands/extract_multi_dispatch.go,                        *)
(* processInputsConcurrentWorkers): a feeder goroutine schedules input     *)
(* ordinals, worker goroutines parse an input and build its bundle, and    *)
(* the calling goroutine drains the results and commits them in ordinal    *)
(* order.  Ordinals are 1-based, as in builtInputOutcome.ordinal.          *)
(***************************************************************************)
EXTENDS Integers, Sequences, FiniteSets, FiniteSetsExt

CONSTANTS
    NumInputs,          \* len(files)
    Workers,            \* the worker goroutines; InputWorkers of them
    MaxInFlightRecords, \* the in-flight record ceiling
    Contents,           \* the possible input sets: functions from ordinals to Content
    ContinueOnError,    \* --continue-on-error
    Prefetch,           \* cap of acquireSem, or 0 when input is not bounded cloud input
    ParentCancel,       \* TRUE: the parent context may be canceled
    CommitFaults        \* TRUE: a commit may fail with an output error

Inputs == 1..NumInputs
Window == 2 * Cardinality(Workers)

(* What one input turns into when it is built: its verdict and the number  *)
(* of records its bundles hold.  "failed" is a recoverable input or recipe *)
(* failure, "terminal" one wrapped by terminalDispatch.                    *)
Content == [kind : {"built", "failed", "terminal"}, records : Nat]

ASSUME DispatchAssumption ==
    /\ NumInputs \in Nat \ {0}
    /\ IsFiniteSet(Workers) /\ Workers # {}
    /\ MaxInFlightRecords \in Nat \ {0}
    /\ Contents \subseteq [Inputs -> Content]
    /\ ContinueOnError \in BOOLEAN /\ ParentCancel \in BOOLEAN
    /\ CommitFaults \in BOOLEAN
    /\ Prefetch \in Nat

VARIABLES
    content,    \* the inputs of this run; never changes
    fpc, fidx,  \* the feeder's program counter and the ordinal it schedules
    wpc, wjob,  \* each worker's program counter and the outcome it holds
    slots,      \* length of the slots channel
    freed,      \* length of the one-place freed channel
    inFlight,   \* inFlightRecords
    results,    \* resultChan
    dpc, next,  \* the drain's program counter and the next ordinal to commit
    pending,    \* outcomes that arrived out of order
    committed,  \* every outcome handed to commitBuiltOutcome, in that order
    runErr,     \* the error processInputsConcurrentWorkers returns
    ctx         \* the run's context: "live", or who canceled it

vars == <<content, fpc, fidx, wpc, wjob, slots, freed, inFlight, results,
          dpc, next, pending, committed, runErr, ctx>>

feederVars == <<fpc, fidx>>
workerVars == <<wpc, wjob>>
drainVars  == <<dpc, next, pending, committed, runErr>>

Outcome == [idx : Inputs, records : Nat,
            kind : {"unbuilt", "built", "failed", "terminal", "canceled", "swallowed"}]
Unbuilt(i) == [idx |-> i, kind |-> "unbuilt", records |-> 0]
NoJob == Unbuilt(1)

CtxDone == ctx # "live"

Init ==
    /\ content \in Contents
    /\ fpc = "ceiling" /\ fidx = 1
    /\ wpc = [w \in Workers |-> "idle"] /\ wjob = [w \in Workers |-> NoJob]
    /\ slots = 0 /\ freed = 0 /\ inFlight = 0 /\ results = <<>>
    /\ dpc = "recv" /\ next = 1 /\ pending = {} /\ committed = <<>>
    /\ runErr = "none" /\ ctx = "live"

------------------------------------------------------------------------------
(* The feeder goroutine.                                                   *)

(* Loads inFlightRecords; at or above the ceiling it goes on to wait.      *)
FeederCheckCeiling ==
    /\ fpc = "ceiling"
    /\ fpc' = IF fidx > NumInputs THEN "done"
              ELSE IF inFlight >= MaxInFlightRecords THEN "wait" ELSE "slot"
    /\ UNCHANGED <<content, fidx, workerVars, slots, freed, inFlight, results,
                   drainVars, ctx>>

(* Variant: an if instead of a for, so a stale signal passes the ceiling.  *)
FeederWakeNoRecheck ==
    /\ fpc = "wait" /\ freed = 1
    /\ freed' = 0 /\ fpc' = "slot"
    /\ UNCHANGED <<content, fidx, workerVars, slots, inFlight, results, drainVars, ctx>>

(* <-freed, then the ceiling is checked again.                             *)
FeederWake ==
    /\ fpc = "wait" /\ freed = 1
    /\ freed' = 0 /\ fpc' = "ceiling"
    /\ UNCHANGED <<content, fidx, workerVars, slots, inFlight, results, drainVars, ctx>>

(* Variant: the slots channel is unbounded.                                *)
FeederTakeSlotUnbounded ==
    /\ fpc = "slot"
    /\ slots' = slots + 1 /\ fpc' = "send"
    /\ UNCHANGED <<content, fidx, workerVars, freed, inFlight, results, drainVars, ctx>>

(* slots <- struct{}{}                                                     *)
FeederTakeSlot ==
    /\ fpc = "slot" /\ slots < Window
    /\ slots' = slots + 1 /\ fpc' = "send"
    /\ UNCHANGED <<content, fidx, workerVars, freed, inFlight, results, drainVars, ctx>>

(* Each of the feeder's three selects has a ctx.Done() case; the deferred  *)
(* close(workChan) follows.                                                *)
FeederCanceled ==
    /\ fpc \in {"wait", "slot", "send"} /\ CtxDone
    /\ fpc' = "done"
    /\ UNCHANGED <<content, fidx, workerVars, slots, freed, inFlight, results,
                   drainVars, ctx>>

(* Variant: the feeder schedules the first input twice.                    *)
HandoffTwice(w) ==
    /\ fpc = "send" /\ wpc[w] = "idle"
    /\ fpc' = "ceiling" /\ fidx' = IF fidx = 1 /\ slots = 1 THEN 1 ELSE fidx + 1
    /\ wpc' = [wpc EXCEPT ![w] = IF Prefetch > 0 THEN "prepare" ELSE "build"]
    /\ wjob' = [wjob EXCEPT ![w] = Unbuilt(fidx)]
    /\ UNCHANGED <<content, slots, freed, inFlight, results, drainVars, ctx>>

(* The unbuffered workChan: feeder and worker meet.                        *)
Handoff(w) ==
    /\ fpc = "send" /\ wpc[w] = "idle"
    /\ fpc' = "ceiling" /\ fidx' = fidx + 1
    /\ wpc' = [wpc EXCEPT ![w] = IF Prefetch > 0 THEN "prepare" ELSE "build"]
    /\ wjob' = [wjob EXCEPT ![w] = Unbuilt(fidx)]
    /\ UNCHANGED <<content, slots, freed, inFlight, results, drainVars, ctx>>

Feeder == FeederCheckCeiling \/ FeederWake \/ FeederTakeSlot \/ FeederCanceled

------------------------------------------------------------------------------
(* Worker goroutines.                                                      *)

Builders == {w \in Workers : wpc[w] = "build"}

(* acquireSem <- struct{}{}; the semaphore is held until the build ends.   *)
WorkerAcquire(w) ==
    /\ wpc[w] = "prepare" /\ Cardinality(Builders) < Prefetch
    /\ wpc' = [wpc EXCEPT ![w] = "build"]
    /\ UNCHANGED <<content, feederVars, wjob, slots, freed, inFlight, results,
                   drainVars, ctx>>

(* prepareInput's select takes ctx.Done(): the outcome is the context's    *)
(* error as the input's parseErr, with no records.                         *)
WorkerPrepareCanceled(w) ==
    /\ wpc[w] = "prepare" /\ CtxDone
    /\ wpc' = [wpc EXCEPT ![w] = "send"]
    /\ wjob' = [wjob EXCEPT ![w] = [idx |-> wjob[w].idx, kind |-> "canceled", records |-> 0]]
    /\ UNCHANGED <<content, feederVars, slots, freed, inFlight, results,
                   drainVars, ctx>>

(* What building input i gives: its content, or, once the context is done, *)
(* the context's error from the acquisition or the extraction core.        *)
BuildOutcomes(i) ==
    {[idx |-> i, kind |-> content[i].kind, records |-> content[i].records]}
    \cup {[idx |-> i, kind |-> "canceled", records |-> r] :
             r \in IF CtxDone THEN 0..content[i].records ELSE {}}

(* buildInputOutcome, then atomic.AddInt64(&inFlightRecords, o.records).   *)
WorkerBuild(w) ==
    /\ wpc[w] = "build"
    /\ \E o \in BuildOutcomes(wjob[w].idx) :
          /\ wjob' = [wjob EXCEPT ![w] = o]
          /\ inFlight' = inFlight + o.records
    /\ wpc' = [wpc EXCEPT ![w] = "send"]
    /\ UNCHANGED <<content, feederVars, slots, freed, results, drainVars, ctx>>

(* resultChan <- o                                                         *)
WorkerSend(w) ==
    /\ wpc[w] = "send" /\ Len(results) < Window
    /\ results' = Append(results, wjob[w])
    /\ wpc' = [wpc EXCEPT ![w] = "idle"] /\ wjob' = [wjob EXCEPT ![w] = NoJob]
    /\ UNCHANGED <<content, feederVars, slots, freed, inFlight, drainVars, ctx>>

(* The send's ctx.Done() case (the outcome is dropped), or workChan closed.*)
WorkerExit(w) ==
    /\ \/ wpc[w] = "send" /\ CtxDone
       \/ wpc[w] = "idle" /\ fpc = "done"
    /\ wpc' = [wpc EXCEPT ![w] = "done"]
    /\ UNCHANGED <<content, feederVars, wjob, slots, freed, inFlight, results,
                   drainVars, ctx>>

WorkerStep(w) ==
    WorkerAcquire(w) \/ WorkerPrepareCanceled(w) \/ WorkerBuild(w) \/ WorkerSend(w)
        \/ WorkerExit(w)

------------------------------------------------------------------------------
(* The drain and ordered committer, on the calling goroutine.              *)

DrainReceive ==
    /\ dpc = "recv" /\ next <= NumInputs /\ results # <<>>
    /\ pending' = pending \cup {Head(results)} /\ results' = Tail(results)
    /\ dpc' = "emit"
    /\ UNCHANGED <<content, feederVars, workerVars, slots, freed, inFlight, next,
                   committed, runErr, ctx>>

(* Variant: the context's error is not kept.                               *)
DrainCanceledSilently ==
    /\ dpc = "recv" /\ next <= NumInputs /\ CtxDone
    /\ dpc' = "stop"
    /\ UNCHANGED <<content, feederVars, workerVars, slots, freed, inFlight, results,
                   next, pending, committed, runErr, ctx>>

(* The drain's ctx.Done() case.                                            *)
DrainCanceled ==
    /\ dpc = "recv" /\ next <= NumInputs /\ CtxDone
    /\ runErr' = "canceled" /\ dpc' = "stop"
    /\ UNCHANGED <<content, feederVars, workerVars, slots, freed, inFlight, results,
                   next, pending, committed, ctx>>

(* No pending outcome for next: back to the drain loop and its condition.  *)
EmitNotReady ==
    /\ dpc = "emit" /\ \A o \in pending : o.idx # next
    /\ dpc' = IF next > NumInputs THEN "stop" ELSE "recv"
    /\ UNCHANGED <<content, feederVars, workerVars, slots, freed, inFlight, results,
                   next, pending, committed, runErr, ctx>>

(* The outcome commitBuiltOutcome settles.  A built one is settled as the  *)
(* context's error when the per-input target sees the context done; and    *)
(* under --continue-on-error a recipe's commit error that is not marked    *)
(* terminal is passed over, and no ledger has the input.                   *)
SettledAs(o) ==
    {o} \cup {s \in {[o EXCEPT !.kind = "canceled"]} : CtxDone /\ o.kind = "built"}
        \cup {s \in {[o EXCEPT !.kind = "swallowed"]} :
                 CommitFaults /\ ContinueOnError /\ o.kind = "built"}

(* What commitBuiltOutcome may return for o: "none" is nil.  A failing     *)
(* commit returns its error when it is terminal or the run is fail-fast.   *)
CommitErrors(o) ==
    CASE o.kind = "terminal" -> {"terminal"}
      [] OTHER ->
           (IF o.kind = "built" \/ ContinueOnError THEN {"none"}
            ELSE IF o.kind = "canceled" THEN {"canceled"} ELSE {"input"})
           \cup (IF CommitFaults THEN {"terminal"} ELSE {})

(* Variant: outcomes are committed as they arrive.                         *)
CommitUnordered ==
    /\ dpc = "emit"
    /\ \E o \in pending :
          /\ pending' = pending \ {o}
          /\ committed' = Append(committed, o)
          /\ inFlight' = inFlight - o.records
          /\ dpc' = IF o.records > 0 THEN "signal" ELSE "release"
    /\ UNCHANGED <<content, feederVars, workerVars, slots, freed, results, next,
                   runErr, ctx>>

(* commitBuiltOutcome of the next ordinal and, when it returns nil, the    *)
(* decrement of inFlightRecords; an error leaves the drain loop.           *)
Commit ==
    /\ dpc = "emit"
    /\ \E o \in pending :
          /\ o.idx = next
          /\ pending' = pending \ {o}
          /\ \E s \in SettledAs(o) : \E err \in CommitErrors(s) :
                /\ committed' = Append(committed, s)
                /\ runErr' = err
                /\ IF err # "none"
                   THEN dpc' = "stop" /\ UNCHANGED inFlight
                   ELSE /\ inFlight' = inFlight - o.records
                        /\ dpc' = IF o.records > 0 THEN "signal" ELSE "release"
    /\ UNCHANGED <<content, feederVars, workerVars, slots, freed, results, next, ctx>>

(* Variant: the signal is not sent.                                        *)
SignalFreedLost ==
    /\ dpc = "signal" /\ dpc' = "release"
    /\ UNCHANGED <<content, feederVars, workerVars, slots, freed, inFlight, results,
                   next, pending, committed, runErr, ctx>>

(* The non-blocking send on freed.                                         *)
SignalFreed ==
    /\ dpc = "signal"
    /\ freed' = 1 /\ dpc' = "release"
    /\ UNCHANGED <<content, feederVars, workerVars, slots, inFlight, results,
                   next, pending, committed, runErr, ctx>>

(* next++ and <-slots.                                                     *)
ReleaseSlot ==
    /\ dpc = "release" /\ slots > 0
    /\ next' = next + 1 /\ slots' = slots - 1 /\ dpc' = "emit"
    /\ UNCHANGED <<content, feederVars, workerVars, freed, inFlight, results,
                   pending, committed, runErr, ctx>>

(* cancel() after the drain.                                               *)
Stop ==
    /\ dpc = "stop"
    /\ ctx' = IF ctx = "live" THEN "own" ELSE ctx
    /\ dpc' = "join"
    /\ UNCHANGED <<content, feederVars, workerVars, slots, freed, inFlight, results,
                   next, pending, committed, runErr>>

(* wg.Wait() and return runErr.  The wait group counts the workers only.   *)
Join ==
    /\ dpc = "join" /\ \A w \in Workers : wpc[w] = "done"
    /\ dpc' = "returned"
    /\ UNCHANGED <<content, feederVars, workerVars, slots, freed, inFlight, results,
                   next, pending, committed, runErr, ctx>>

Drain == DrainReceive \/ DrainCanceled \/ EmitNotReady \/ Commit \/ SignalFreed
            \/ ReleaseSlot \/ Stop \/ Join

------------------------------------------------------------------------------
(* SIGINT or SIGTERM cancels the parent context, at any moment.            *)
CancelParent ==
    /\ ParentCancel /\ ctx = "live" /\ dpc # "returned"
    /\ ctx' = "parent"
    /\ UNCHANGED <<content, feederVars, workerVars, slots, freed, inFlight, results,
                   drainVars>>

(* Every goroutine has exited.                                             *)
Terminated ==
    /\ dpc = "returned" /\ fpc = "done"
    /\ UNCHANGED vars

Next ==
    \/ Feeder
    \/ \E w \in Workers : Handoff(w) \/ WorkerStep(w)
    \/ Drain
    \/ CancelParent
    \/ Terminated

(* The Go scheduler runs every runnable goroutine; which ready case a      *)
(* select takes is left open.                                              *)
Fairness ==
    /\ WF_vars(Feeder)
    /\ WF_vars(\E w \in Workers : Handoff(w))
    /\ \A w \in Workers : WF_vars(WorkerStep(w))
    /\ WF_vars(Drain)

Spec == Init /\ [][Next]_vars
FairSpec == Spec /\ Fairness

------------------------------------------------------------------------------
(* classifyProcessRunTerminal of the run's error, given that finalize adds *)
(* only the partial failure of a recipe with recorded failures; an error   *)
(* that was passed over is recorded nowhere.                               *)
TerminalClass ==
    CASE runErr = "none" ->
           IF \E i \in DOMAIN committed : committed[i].kind \notin {"built", "swallowed"}
           THEN "partial" ELSE "completed"
      [] runErr = "canceled" -> "canceled"
      [] OTHER -> "run_error"

TypeOK ==
    /\ content \in Contents
    /\ fpc \in {"ceiling", "wait", "slot", "send", "done"}
    /\ fidx \in 1..NumInputs + 1
    /\ wpc \in [Workers -> {"idle", "prepare", "build", "send", "done"}]
    /\ wjob \in [Workers -> Outcome]
    /\ slots \in 0..Window
    /\ freed \in 0..1
    /\ inFlight \in Int
    /\ results \in Seq(Outcome)
    /\ dpc \in {"recv", "emit", "signal", "release", "stop", "join", "returned"}
    /\ next \in 1..NumInputs + 1
    /\ pending \in SUBSET Outcome
    /\ committed \in Seq(Outcome)
    /\ runErr \in {"none", "canceled", "input", "terminal"}
    /\ ctx \in {"live", "parent", "own"}

------------------------------------------------------------------------------
(* Properties.                                                             *)

(* The outcomes scheduled and not yet committed, and the ordinals they     *)
(* belong to.                                                              *)
Held ==
    {wjob[w] : w \in {v \in Workers : wpc[v] \in {"prepare", "build", "send"}}}
    \cup {results[i] : i \in DOMAIN results} \cup pending

(* Every input that has been scheduled and not committed lies inside the   *)
(* look-ahead window that starts at the next ordinal to commit, and none   *)
(* is in two places: "pending (bounded by window)".                        *)
InFlightWithinWindow ==
    /\ \A o \in Held : next <= o.idx /\ o.idx < next + Window
    /\ \A i, j \in DOMAIN results : results[i].idx = results[j].idx => i = j
    /\ \A o, p \in Held : o.idx = p.idx => o = p

(* A worker that has built an outcome never waits for the committer:       *)
(* resultChan has room for every outcome the window lets exist.            *)
SendNeverBlocks ==
    \A w \in Workers : wpc[w] = "send" => Len(results) < Window

(* inFlightRecords is exactly the records of the outcomes built and not    *)
(* yet committed, as long as the run has not been canceled.                *)
RecordAccounting ==
    ~CtxDone /\ dpc \notin {"stop", "join"} =>
        inFlight = MapThenSumSet(LAMBDA o : o.records, Held)

(* The record ceiling paces scheduling: it is overshot by at most what the *)
(* workers were building, and the one input the feeder had already passed, *)
(* when it was reached.                                                    *)
CeilingOvershoot ==
    inFlight < MaxInFlightRecords
        + (Cardinality(Workers) + 1) * Max({content[i].records : i \in Inputs})

(* A run classified "completed" has committed every input, and each one    *)
(* with the content a serial run gives it; no failed, skipped or canceled  *)
(* input hides behind a completed terminal event.  The one exception the   *)
(* code makes is an input whose output error --continue-on-error passes    *)
(* over, which a run with CommitFaults reaches: the classification does    *)
(* not see it, and a fail-fast run has none.                               *)
CompletedMeansAllBuilt ==
    dpc = "returned" /\ TerminalClass = "completed" =>
        /\ Len(committed) = NumInputs
        /\ \A i \in Inputs :
              /\ content[i].kind = "built"
              /\ committed[i].idx = i /\ committed[i].records = content[i].records
              /\ \/ committed[i].kind = "built"
                 \/ committed[i].kind = "swallowed" /\ ContinueOnError /\ CommitFaults

(* processInputsConcurrentWorkers implements the ordered commit contract.  *)
Abs == INSTANCE OrderedCommit WITH
    settled <- [i \in 1..Len(committed) |-> committed[i].idx],
    verdict <- IF dpc = "returned" THEN IF runErr = "none" THEN "ok" ELSE "error"
               ELSE IF runErr = "none" THEN "running" ELSE "failing"

OrderedCommitSpec == Abs!AbsSpec

(* Every run ends and leaves no goroutine behind, whatever fails and       *)
(* whenever it is canceled: no lost freed signal, no stranded feeder or    *)
(* worker.                                                                 *)
Terminates == <>(dpc = "returned" /\ fpc = "done")
(* What the run holds ahead of the committer stays bounded: the result     *)
(* channel always has room, the in-flight record count is exact, and the   *)
(* ceiling is overshot by no more than the builds already under way.       *)
LookAheadBounded == SendNeverBlocks /\ RecordAccounting /\ CeilingOvershoot
==============================================================================
