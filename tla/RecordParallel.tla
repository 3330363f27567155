---------------------------- MODULE RecordParallel ----------------------------
(***************************************************************************)
(* Record-index extraction of one document (internal/extract/parallel): a  *)
(* scheduler reads the index and hands records to workers, results are put *)
(* back into record order within a window, and given to a sink.            *)
(*                                                                         *)
(* The xml route has a scheduler, workers, an aggregator and a consumer    *)
(* (scheduler.go, extractor.go, aggregator.go, orchestrator.go); the json  *)
(* route reorders in the consumer and checks more (json.go).  The context  *)
(* may be canceled, the sink may fail and the source may change.           *)
(***************************************************************************)
EXTENDS Integers, Sequences, FiniteSets, SequencesExt

CONSTANTS
    Workers,        \* the worker goroutines
    Commands,       \* the possible runs, see Command
    MaxFaults,      \* bound on failing sink calls
    MayCancel,      \* TRUE: the caller's context may be canceled
    MayChange       \* TRUE: the source may change while it is read

(* A record of the index: ok; bad, its extraction fails; large, over the   *)
(* record limit; unreadable, the index cannot be read from here on (both   *)
(* stores' iterators stay where they failed).  Record numbers count from 1 *)
(* as index build writes them.                                             *)
Kinds == {"ok", "bad", "large", "unreadable"}
Command == [route : {"xml", "json"}, index : Seq(Kinds), declared : Nat,
            requested : Int, skipLarge : BOOLEAN, verify : BOOLEAN]

ASSUME RecordAssumption ==
    /\ IsFiniteSet(Workers) /\ Workers # {}
    /\ Commands \subseteq Command
    /\ MaxFaults \in Nat /\ MayCancel \in BOOLEAN /\ MayChange \in BOOLEAN

VARIABLES
    cmd,                \* the run; never changes
    spc, cur, pos,      \* scheduler: program counter, record in hand, last record read
    slots,              \* windowSlots in use
    work,               \* workChan (xml; the json route's is unbuffered)
    wk,                 \* what each worker holds
    res, resClosed,     \* resultChan
    buf, nextExp,       \* the reorder buffer and nextExpected
    apc,                \* aggregator (xml) or drain loop (json)
    skipped, snap,      \* skippedRecords, and the aggregator's copy of them
    held,               \* the result in the consumer's hands
    emitted,            \* the records the sink accepted, in order
    failed,             \* FailedRecords > 0
    firstErr, sinkErr,  \* the consumer's errors; 0 is nil
    ctx, source, faults,
    phase, outcome

sched == <<spc, cur, pos, skipped>>
chans == <<work, wk, res, resClosed>>
order == <<buf, nextExp, apc, snap>>
sink == <<held, emitted, firstErr, sinkErr>>
world == <<ctx, source, faults>>
ending == <<phase, outcome>>
vars == <<cmd, sched, slots, chans, order, sink, failed, world, ending>>

-------------------------------------------------------------------------------
capReorderWindow(requested, workers) == IF requested > 0 THEN requested ELSE workers * 2
Window == capReorderWindow(cmd.requested, Cardinality(Workers))
Total == Len(cmd.index)
Xml == cmd.route = "xml"
Json == cmd.route = "json"

(* Once the index cannot be read, localCounter goes on counting failures;  *)
(* at most Window of them are in flight, so the numbers past the records   *)
(* are reused in a cycle.                                                  *)
After(num) == IF num = Total + Window + 1 THEN Total + 1 ELSE num + 1

NoResult == [num |-> 0, what |-> "none"]
Result(num, what) == [num |-> num, what |-> what]
Results == [num : 0 .. Total + Window + 1, what : {"none", "ok", "skip", "err"}]
Idle == [pc |-> "idle", num |-> 0]

ResultCap == IF Xml THEN 2 * Cardinality(Workers) ELSE Cardinality(Workers)
LoopTop == IF Xml THEN "look" ELSE "read"
Room == Len(res) < ResultCap
Canceled == ctx # "live"

Init ==
    /\ cmd \in Commands
    /\ spc = LoopTop /\ cur = NoResult /\ pos = 0 /\ skipped = {}
    /\ slots = 0
    /\ work = <<>> /\ wk = [w \in Workers |-> Idle] /\ res = <<>> /\ resClosed = FALSE
    /\ buf = {} /\ nextExp = 1 /\ apc = "start" /\ snap = {}
    /\ held = NoResult /\ emitted = <<>> /\ firstErr = 0 /\ sinkErr = FALSE
    /\ failed = FALSE
    /\ ctx = "live" /\ source = "same" /\ faults = 0
    /\ phase = "open" /\ outcome = "none"

-------------------------------------------------------------------------------
(* With VerifyIndex the source must have the index's size and hash before  *)
(* any record is read (the json route hashes the file it holds open).      *)
VerifyIntegrity == cmd.verify => source = "same"

Start ==
    /\ phase = "open"
    /\ IF VerifyIntegrity
       THEN phase' = "run" /\ UNCHANGED outcome
       ELSE phase' = "done" /\ outcome' = "failed"
    /\ UNCHANGED <<cmd, sched, slots, chans, order, sink, failed, world>>

-------------------------------------------------------------------------------
(* The scheduler.  It holds the result it is about to send, or for a       *)
(* record to extract the number with the outcome "none".                   *)
KindAt(p) == IF p > Total THEN "eof" ELSE cmd.index[p]
NextPos == IF pos > 0 /\ KindAt(pos) = "unreadable" THEN pos ELSE pos + 1
NextNum == After(cur.num)

(* scheduleWorkStreaming's loop looks at the context, then reads the index. *)
Look ==
    /\ Xml /\ spc = "look" /\ phase = "run"
    /\ spc' = IF Canceled THEN "done" ELSE "read"
    /\ UNCHANGED <<cmd, cur, pos, skipped, slots, chans, order, sink, failed, world, ending>>

XmlResult(kind) ==
    CASE kind = "unreadable" -> "err"
      [] kind = "large" -> IF cmd.skipLarge THEN "skip" ELSE "err"
      [] OTHER -> "none"

(* A failed read becomes a result of its own and the loop goes on; the     *)
(* iterator reports a canceled context as a failed read.                   *)
ScheduleXml ==
    /\ Xml /\ spc = "read"
    /\ LET kind == IF Canceled THEN "unreadable" ELSE KindAt(NextPos)
       IN  IF kind = "eof"
           THEN spc' = "done" /\ UNCHANGED <<cur, pos>>
           ELSE /\ spc' = "slot" /\ cur' = Result(NextNum, XmlResult(kind))
                /\ pos' = IF Canceled THEN pos ELSE NextPos
    /\ UNCHANGED <<cmd, skipped, slots, chans, order, sink, failed, world, ending>>

(* The json scheduler validates a record before it takes a slot; a failure *)
(* to read, to validate or to count ends it with a terminal result.        *)
ScheduleJson ==
    /\ Json /\ spc = "read" /\ phase = "run"
    /\ LET k == KindAt(pos + 1)
           fails == k \in {"unreadable", "large"} \/ (k = "eof" /\ cmd.declared # pos) \/ Canceled
       IN  /\ spc' = IF fails THEN "terminal" ELSE IF k = "eof" THEN "done" ELSE "slot"
           /\ cur' = IF k = "eof" /\ ~fails THEN cur ELSE Result(cur.num + 1, IF fails THEN "err" ELSE "none")
           /\ pos' = IF k = "eof" \/ fails THEN pos ELSE pos + 1
    /\ UNCHANGED <<cmd, skipped, slots, chans, order, sink, failed, world, ending>>

(* acquireWindowSlot; the send of a skipped record is preceded by its      *)
(* entry in skippedRecords.                                                *)
AcquireSlot ==
    /\ spc = "slot"
    /\ \/ /\ slots < Window
          /\ slots' = slots + 1 /\ spc' = "send"
          /\ skipped' = IF cur.what = "skip" THEN skipped \cup {cur.num} ELSE skipped
       \/ Canceled /\ spc' = "done" /\ UNCHANGED <<slots, skipped>>
    /\ UNCHANGED <<cmd, cur, pos, chans, order, sink, failed, world, ending>>

Release(n) == IF n > 0 THEN n - 1 ELSE 0

(* The send of an item or a result, or its abandonment: the xml scheduler  *)
(* then gives the slot back, the json one does not.                        *)
SendItem ==
    /\ spc = "send" /\ cur.what = "none" /\ spc' = LoopTop
    /\ \/ Xml /\ Len(work) < 2 * Cardinality(Workers) /\ work' = Append(work, cur.num) /\ UNCHANGED wk
       \/ /\ Json
          /\ \E w \in Workers : wk[w] = Idle /\ wk' = [wk EXCEPT ![w] = [pc |-> "extract", num |-> cur.num]]
          /\ UNCHANGED work
    /\ UNCHANGED <<cmd, cur, pos, skipped, slots, res, resClosed, order, sink, failed, world, ending>>

SendResult ==
    /\ \/ spc = "send" /\ cur.what # "none" /\ spc' = LoopTop
       \/ spc = "terminal" /\ spc' = "done"
    /\ Room /\ res' = Append(res, cur)
    /\ failed' = (failed \/ cur.what = "err")
    /\ UNCHANGED <<cmd, cur, pos, skipped, slots, work, wk, resClosed, order, sink, world, ending>>

Abandon ==
    /\ spc \in {"send", "terminal"} /\ Canceled
    /\ spc' = "done" /\ slots' = IF Xml THEN Release(slots) ELSE slots
    /\ UNCHANGED <<cmd, cur, pos, skipped, chans, order, sink, failed, world, ending>>

-------------------------------------------------------------------------------
(* The workers.  workChan is closed when the scheduler is done.            *)
TakeWork(w) ==
    /\ wk[w] = Idle /\ Xml /\ work # <<>>
    /\ wk' = [wk EXCEPT ![w] = [pc |-> "extract", num |-> Head(work)]]
    /\ work' = Tail(work)
    /\ UNCHANGED <<cmd, sched, slots, res, resClosed, order, sink, failed, world, ending>>

(* ExtractRecord, or process: the json route checks the record's bytes     *)
(* against the index before it parses them.                                *)
Extract(w) ==
    /\ wk[w].pc = "extract"
    /\ LET bad == cmd.index[wk[w].num] = "bad" \/ (Json /\ source = "changed")
       IN  /\ wk' = [wk EXCEPT ![w].pc = IF bad THEN "err" ELSE "ok"]
           /\ failed' = (failed \/ bad)
    /\ UNCHANGED <<cmd, sched, slots, work, res, resClosed, order, sink, world, ending>>

(* The xml worker blocks until there is room; the json one gives up when   *)
(* the context is done.                                                    *)
Deliver(w) ==
    /\ wk[w].pc \in {"ok", "err"}
    /\ \/ Room /\ res' = Append(res, Result(wk[w].num, wk[w].pc)) /\ wk' = [wk EXCEPT ![w] = Idle]
       \/ Json /\ Canceled /\ wk' = [wk EXCEPT ![w].pc = "gone"] /\ UNCHANGED res
    /\ UNCHANGED <<cmd, sched, slots, work, resClosed, order, sink, failed, world, ending>>

WorkerDone(w) ==
    /\ wk[w] = Idle /\ spc = "done" /\ work = <<>>
    /\ wk' = [wk EXCEPT ![w].pc = "gone"]
    /\ UNCHANGED <<cmd, sched, slots, work, res, resClosed, order, sink, failed, world, ending>>

(* Variant: the channel is closed when the index is read.                  *)
CloseResultsEarly ==
    /\ ~resClosed /\ spc = "done"
    /\ resClosed' = TRUE
    /\ UNCHANGED <<cmd, sched, slots, work, wk, res, order, sink, failed, world, ending>>

(* wg.Wait, then the result channel is closed; the json scheduler is one   *)
(* of the goroutines waited for.                                           *)
CloseResults ==
    /\ ~resClosed /\ (Json => spc = "done") /\ \A w \in Workers : wk[w].pc = "gone"
    /\ resClosed' = TRUE
    /\ UNCHANGED <<cmd, sched, slots, work, wk, res, order, sink, failed, world, ending>>

-------------------------------------------------------------------------------
(* The aggregator (xml), or the loop that drains the results (json).       *)
InBuf(num) == \E r \in buf : r.num = num
Take(num) == CHOOSE r \in buf : r.num = num

(* GetSkippedRecords is called once, while the scheduler already runs.     *)
Collect ==
    /\ apc = "start" /\ phase = "run"
    /\ apc' = "recv" /\ snap' = skipped
    /\ UNCHANGED <<cmd, sched, slots, chans, buf, nextExp, sink, failed, world, ending>>

(* A result with the number of a buffered one takes its place.  After a    *)
(* failure the json route only drains.                                     *)
Receive ==
    /\ apc = "recv" /\ res # <<>>
    /\ res' = Tail(res)
    /\ IF Json /\ (sinkErr \/ firstErr # 0)
       THEN UNCHANGED <<buf, apc>>
       ELSE buf' = {r \in buf : r.num # Head(res).num} \cup {Head(res)} /\ apc' = "emit"
    /\ UNCHANGED <<cmd, sched, slots, work, wk, resClosed, nextExp, snap, sink, failed, world, ending>>

NothingNext ==
    /\ apc = "emit" /\ ~InBuf(nextExp)
    /\ apc' = "recv"
    /\ UNCHANGED <<cmd, sched, slots, chans, buf, nextExp, snap, sink, failed, world, ending>>

(* Variant: a result that carries no row keeps its slot.                   *)
EmitKeepsSlot ==
    /\ Xml /\ apc \in {"emit", "drain"} /\ InBuf(nextExp) /\ held = NoResult
    /\ held' = Take(nextExp)
    /\ buf' = buf \ {Take(nextExp)} /\ nextExp' = After(nextExp)
    /\ slots' = IF Take(nextExp).what = "ok" THEN Release(slots) ELSE slots
    /\ UNCHANGED <<cmd, sched, chans, apc, snap, emitted, firstErr, sinkErr, failed, world, ending>>

(* Add and the final drain: the next result goes to the consumer over an   *)
(* unbuffered channel, then its slot is given back.                        *)
Emit ==
    /\ Xml /\ apc \in {"emit", "drain"} /\ InBuf(nextExp) /\ held = NoResult
    /\ held' = Take(nextExp)
    /\ buf' = buf \ {Take(nextExp)} /\ nextExp' = After(nextExp)
    /\ slots' = Release(slots)
    /\ UNCHANGED <<cmd, sched, chans, apc, snap, emitted, firstErr, sinkErr, failed, world, ending>>

(* The results have ended: what is missing up to the header's count is     *)
(* passed over, a record known to be skipped with its slot.                *)
FinalDrain ==
    /\ Xml /\ resClosed /\ res = <<>>
    /\ \/ apc = "recv" /\ apc' = "drain" /\ UNCHANGED <<nextExp, slots>>
       \/ /\ apc = "drain" /\ nextExp <= cmd.declared /\ (~InBuf(nextExp) \/ nextExp \in snap)
          /\ nextExp' = nextExp + 1
          /\ slots' = IF nextExp \in snap THEN Release(slots) ELSE slots
          /\ UNCHANGED apc
       \/ apc = "drain" /\ nextExp > cmd.declared /\ apc' = "done" /\ UNCHANGED <<nextExp, slots>>
    /\ UNCHANGED <<cmd, sched, chans, buf, snap, sink, failed, world, ending>>

-------------------------------------------------------------------------------
(* The consumer.  OnRecord accepts a row or fails.                         *)
OnRecord(num) ==
    \/ emitted' = Append(emitted, num) /\ UNCHANGED <<sinkErr, ctx, faults>>
    \/ /\ faults < MaxFaults /\ faults' = faults + 1
       /\ sinkErr' = TRUE /\ ctx' = "canceled" /\ UNCHANGED emitted

Consume ==
    /\ held # NoResult /\ held' = NoResult
    /\ firstErr' = IF held.what = "err" /\ firstErr = 0 THEN held.num ELSE firstErr
    /\ IF held.what = "ok" /\ ~sinkErr THEN OnRecord(held.num) ELSE UNCHANGED <<emitted, sinkErr, ctx, faults>>
    /\ UNCHANGED <<cmd, sched, slots, chans, order, failed, source, ending>>

(* The json loop hands the next record to the sink itself; the first       *)
(* failure in record order cancels the run.                                *)
DrainJson ==
    /\ Json /\ apc = "emit" /\ InBuf(nextExp)
    /\ buf' = buf \ {Take(nextExp)} /\ slots' = Release(slots)
    /\ IF Take(nextExp).what = "err"
       THEN firstErr' = nextExp /\ ctx' = "canceled" /\ apc' = "recv" /\ UNCHANGED <<nextExp, emitted, sinkErr, faults>>
       ELSE OnRecord(nextExp) /\ nextExp' = nextExp + 1 /\ apc' = (IF sinkErr' THEN "recv" ELSE "emit") /\ UNCHANGED firstErr
    /\ UNCHANGED <<cmd, sched, chans, snap, held, failed, source, ending>>

-------------------------------------------------------------------------------
(* OnFileBoundary may fail like any call of the sink; the result of a      *)
(* clean run is then an error too.                                         *)
Finish(clean) ==
    /\ phase' = "done"
    /\ \/ outcome' = (IF clean THEN "applied" ELSE "failed") /\ UNCHANGED faults
       \/ faults < MaxFaults /\ faults' = faults + 1 /\ outcome' = "failed"

FinishXml ==
    /\ Xml /\ phase = "run" /\ apc = "done" /\ held = NoResult
    /\ Finish(~sinkErr /\ ~failed)
    /\ UNCHANGED <<cmd, sched, slots, chans, order, sink, failed, ctx, source>>

(* Variant: the context is looked at before the final checks only.         *)
FinishJsonStale ==
    /\ Json /\ resClosed /\ res = <<>> /\ apc = "recv"
    /\ LET clean == ~sinkErr /\ firstErr = 0 /\ ~Canceled /\ buf = {}
       IN  \/ phase = "run" /\ clean /\ phase' = "check" /\ UNCHANGED <<outcome, faults>>
           \/ phase = "run" /\ ~clean /\ Finish(FALSE)
           \/ phase = "check" /\ Finish(source # "replaced")
    /\ UNCHANGED <<cmd, sched, slots, chans, order, sink, failed, ctx, source>>

(* After the results: the failure, the context, the buffer; then the path  *)
(* must still name the held file, with VerifyIndex the file must still     *)
(* hash to the index, and the context is looked at again.                  *)
FinishJson ==
    /\ Json /\ resClosed /\ res = <<>> /\ apc = "recv"
    /\ LET clean == ~sinkErr /\ firstErr = 0 /\ ~Canceled /\ buf = {}
       IN  \/ phase = "run" /\ clean /\ phase' = "check" /\ UNCHANGED <<outcome, faults>>
           \/ phase = "run" /\ ~clean /\ Finish(FALSE)
           \/ /\ phase = "check"
              /\ Finish(source # "replaced" /\ VerifyIntegrity /\ ~Canceled)
    /\ UNCHANGED <<cmd, sched, slots, chans, order, sink, failed, ctx, source>>

-------------------------------------------------------------------------------
(* The caller cancels; another process rewrites the file or replaces it.   *)
Cancel ==
    /\ MayCancel /\ phase \in {"run", "check"} /\ ctx = "live" /\ ctx' = "canceled"
    /\ UNCHANGED <<cmd, sched, slots, chans, order, sink, failed, source, faults, ending>>

ChangeSource ==
    /\ MayChange /\ phase # "done" /\ source = "same" /\ source' \in {"changed", "replaced"}
    /\ UNCHANGED <<cmd, sched, slots, chans, order, sink, failed, ctx, faults, ending>>

Scheduler == Look \/ ScheduleXml \/ ScheduleJson \/ AcquireSlot \/ SendItem \/ SendResult \/ Abandon
Worker(w) == TakeWork(w) \/ Extract(w) \/ Deliver(w) \/ WorkerDone(w)
Aggregator == Collect \/ Receive \/ NothingNext \/ Emit \/ FinalDrain \/ DrainJson
(* Extract is the same run with a list as its sink and no cancellation.    *)
Consumer == Start \/ Consume \/ FinishXml \/ FinishJson

(* The call has returned and every goroutine has ended.                    *)
Ended == phase = "done" /\ UNCHANGED vars

Next ==
    \/ Scheduler \/ (\E w \in Workers : Worker(w)) \/ CloseResults \/ Aggregator \/ Consumer
    \/ Cancel \/ ChangeSource \/ Ended

Spec == Init /\ [][Next]_vars

(* The Go scheduler runs every goroutine that can go on.                   *)
FairSpec ==
    /\ Spec /\ WF_vars(Scheduler) /\ (\A w \in Workers : WF_vars(Worker(w)))
    /\ WF_vars(CloseResults) /\ WF_vars(Aggregator) /\ WF_vars(Consumer)

-------------------------------------------------------------------------------
TypeOK ==
    /\ cmd \in Commands
    /\ spc \in {"look", "read", "slot", "send", "terminal", "done"} /\ cur \in Results /\ pos \in 0 .. Total
    /\ slots \in 0 .. Window /\ skipped \subseteq 1 .. Total /\ snap \subseteq skipped
    /\ work \in Seq(1 .. Total) /\ Len(work) <= 2 * Cardinality(Workers)
    /\ wk \in [Workers -> [pc : {"idle", "extract", "ok", "err", "gone"}, num : 0 .. Total]]
    /\ res \in Seq(Results) /\ Len(res) <= ResultCap /\ resClosed \in BOOLEAN
    /\ buf \subseteq Results /\ nextExp \in Nat
    /\ apc \in {"start", "recv", "emit", "drain", "done"}
    /\ held \in Results /\ emitted \in Seq(1 .. Total)
    /\ failed \in BOOLEAN /\ firstErr \in Nat /\ sinkErr \in BOOLEAN
    /\ ctx \in {"live", "canceled"} /\ source \in {"same", "changed", "replaced"} /\ faults \in 0 .. MaxFaults
    /\ phase \in {"open", "run", "check", "done"} /\ outcome \in {"none", "applied", "failed"}

Good(n) == cmd.index[n] = "ok"
Skippable(n) == Xml /\ cmd.skipLarge /\ cmd.index[n] = "large"

(* EmittedInOrder: the sink gets records in index order and never one      *)
(* whose predecessors are still out: behind a row lie only rows, records   *)
(* skipped as too large and, in the xml route, records that failed.        *)
EmittedInOrder ==
    \A i \in 1 .. Len(emitted) :
        LET before == IF i = 1 THEN 0 ELSE emitted[i - 1]
        IN  /\ emitted[i] > before
            /\ \A n \in before + 1 .. emitted[i] - 1 : Xml /\ ~Good(n)

(* The records between the scheduler's slot and the sink.                  *)
InFlight ==
    (IF spc = "send" THEN 1 ELSE 0) + Len(work) + Cardinality({w \in Workers : wk[w].pc \in {"extract", "ok", "err"}})
    + Len(res) + Cardinality(buf)

(* WindowHeld: never more than the reorder window of records are between   *)
(* the scheduler and the sink, however slow the record at the front is     *)
(* (the json route's terminal result takes no slot), and no slot is lost:  *)
(* while the run is live there are exactly as many in use.                 *)
WindowHeld ==
    /\ InFlight <= Window + (IF Json THEN 1 ELSE 0)
    /\ (Xml /\ apc \in {"start", "recv", "emit"}) => slots = InFlight

(* ClosedMeansNoSender: when the result channel is closed neither the      *)
(* scheduler nor a worker can still send on it (a late send would panic),  *)
(* and a call that gives its result leaves no goroutine behind.            *)
ClosedMeansNoSender == (resClosed \/ outcome = "applied") => spc = "done" /\ \A w \in Workers : wk[w].pc = "gone"

(* AppliedMeansComplete: a run that reports an applied document gave the   *)
(* sink every record except the ones skipped as too large, and none        *)
(* failed; a json run that was canceled is never a short success.          *)
AppliedMeansComplete ==
    outcome = "applied" =>
        /\ ~sinkErr /\ firstErr = 0
        /\ Json => (~Canceled /\ cmd.declared = Total)
        /\ (Json \/ ~Canceled) => {emitted[i] : i \in DOMAIN emitted} = {n \in 1 .. Total : ~Skippable(n)}
        /\ \A n \in 1 .. nextExp - 1 : (n <= Total /\ ~Canceled) => (Good(n) \/ Skippable(n))

(* LowestFailureReported: the failure a run reports is the first in record *)
(* order, whichever worker finished first; a sink failure comes before it. *)
LowestFailureReported ==
    (firstErr # 0 /\ ~sinkErr) => \A n \in 1 .. firstErr - 1 : n <= Total => (Skippable(n) \/ \E i \in DOMAIN emitted : emitted[i] = n)

(* VerifiedSource: a json run with VerifyIndex that reports an applied     *)
(* document read the bytes the index describes from start to end.          *)
VerifiedSource == (Json /\ outcome = "applied") => source # "replaced" /\ (cmd.verify => source = "same")

(* RecordRunEnds: unless the xml scheduler meets an index it cannot read,  *)
(* the call returns, canceled or not, whatever fails.                      *)
Readable == Json \/ \A n \in 1 .. Total : cmd.index[n] # "unreadable"
RecordRunEnds == <>(Readable => phase = "done")

(* ReturnsOnReadError: the call returns also when the index cannot be read *)
(* (integration_test.go, ToSinkReturnsOnIteratorReadError).                *)
ReturnsOnReadError == <>(phase = "done")
(* ResultsFaithful: the rows leave in index order, an applied document is  *)
(* complete and of the source that was verified, and the failure reported  *)
(* is the first.                                                           *)
ResultsFaithful == EmittedInOrder /\ AppliedMeansComplete /\ LowestFailureReported /\ VerifiedSource

(* ChannelsSafe: the reorder window is neither exceeded nor leaked, and    *)
(* nothing is sent on a closed channel.                                    *)
ChannelsSafe == TypeOK /\ WindowHeld /\ ClosedMeansNoSender
===============================================================================
