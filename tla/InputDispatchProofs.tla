------------------------- MODULE InputDispatchProofs -------------------------
(***************************************************************************)
(* Proofs about InputDispatch, for every number of inputs and workers and  *)
(* every content.                                                          *)
(***************************************************************************)
EXTENDS InputDispatch, SetSums, TLAPS

------------------------------------------------------------------------------
(* Type correctness.                                                       *)

(* The feeder past its loop condition holds a real ordinal.                *)
FeederOrdinal == fpc \in {"wait", "slot", "send"} => fidx <= NumInputs

(* The drain past its loop condition, and a commit in progress, have an    *)
(* ordinal left to commit.                                                 *)
DrainOrdinal == dpc \in {"recv", "signal", "release"} => next <= NumInputs

TypeInv == TypeOK /\ FeederOrdinal /\ DrainOrdinal

LEMMA WindowType == Window \in Nat
  BY FS_CardinalityType, DispatchAssumption DEF Window

LEMMA ContentType ==
  ASSUME TypeOK, NEW i \in Inputs
  PROVE  content[i] \in Content
  BY DispatchAssumption DEF TypeOK

LEMMA BuildOutcomesType ==
  ASSUME TypeOK, NEW i \in Inputs
  PROVE  BuildOutcomes(i) \subseteq Outcome
  BY ContentType DEF BuildOutcomes, Outcome, Content

LEMMA SettledAsType ==
  ASSUME NEW o \in Outcome
  PROVE  SettledAs(o) \subseteq {s \in Outcome : s.idx = o.idx /\ s.records = o.records}
  BY DEF SettledAs, Outcome

(* The parts of a commit step, for an outcome o settled as s.              *)
CommitOf(o, s, err) ==
    /\ o \in pending /\ s \in Outcome /\ o \in Outcome
    /\ o.idx = next /\ s.idx = next /\ next <= NumInputs
    /\ err \in {"none", "canceled", "input", "terminal"}
    /\ pending' = pending \ {o}
    /\ committed' = Append(committed, s)
    /\ runErr' = err
    /\ IF err # "none" THEN dpc' = "stop" /\ UNCHANGED inFlight
       ELSE /\ inFlight' = inFlight - o.records
            /\ dpc' = IF o.records > 0 THEN "signal" ELSE "release"

LEMMA CommitParts ==
  ASSUME TypeOK, Commit
  PROVE  \E o \in pending, s \in Outcome,
            err \in {"none", "canceled", "input", "terminal"} :
            s \in SettledAs(o) /\ CommitOf(o, s, err)
<1>1. PICK o \in pending : \E s \in SettledAs(o) : \E err \in CommitErrors(s) :
         /\ o.idx = next
         /\ pending' = pending \ {o}
         /\ committed' = Append(committed, s)
         /\ runErr' = err
         /\ IF err # "none" THEN dpc' = "stop" /\ UNCHANGED inFlight
            ELSE /\ inFlight' = inFlight - o.records
                 /\ dpc' = IF o.records > 0 THEN "signal" ELSE "release"
  BY DEF Commit
<1>2. PICK s \in SettledAs(o) : \E err \in CommitErrors(s) :
         /\ o.idx = next
         /\ pending' = pending \ {o}
         /\ committed' = Append(committed, s)
         /\ runErr' = err
         /\ IF err # "none" THEN dpc' = "stop" /\ UNCHANGED inFlight
            ELSE /\ inFlight' = inFlight - o.records
                 /\ dpc' = IF o.records > 0 THEN "signal" ELSE "release"
  BY <1>1
<1>3. PICK err \in CommitErrors(s) :
         /\ o.idx = next
         /\ pending' = pending \ {o}
         /\ committed' = Append(committed, s)
         /\ runErr' = err
         /\ IF err # "none" THEN dpc' = "stop" /\ UNCHANGED inFlight
            ELSE /\ inFlight' = inFlight - o.records
                 /\ dpc' = IF o.records > 0 THEN "signal" ELSE "release"
  BY <1>2
<1>4. o \in Outcome /\ s \in Outcome /\ s.idx = o.idx /\ o.idx \in Inputs
  BY <1>2, SettledAsType DEF TypeOK, Outcome
<1>5. err \in {"none", "canceled", "input", "terminal"}
  BY <1>3 DEF CommitErrors
<1>6. next <= NumInputs
  BY <1>3, <1>4, DispatchAssumption DEF Inputs
<1> QED
  BY <1>3, <1>4, <1>5, <1>6 DEF CommitOf

LEMMA AppendFacts ==
  ASSUME NEW c \in Seq(Outcome), NEW s \in Outcome
  PROVE  /\ Len(c) \in Nat
         /\ Append(c, s) \in Seq(Outcome) /\ Len(Append(c, s)) = Len(c) + 1
         /\ Append(c, s)[Len(c) + 1] = s
         /\ \A i \in 1..Len(c) : Append(c, s)[i] = c[i] /\ c[i] \in Outcome
  OBVIOUS

LEMMA TypeInit == Init => TypeInv
  BY WindowType, DispatchAssumption
     DEF Init, TypeInv, TypeOK, FeederOrdinal, DrainOrdinal, NoJob, Unbuilt, Outcome, Inputs

LEMMA TypeStep == TypeInv /\ [Next]_vars => TypeInv'
<1> SUFFICES ASSUME TypeInv, [Next]_vars PROVE TypeInv'
  OBVIOUS
<1> USE DEF TypeInv, FeederOrdinal, DrainOrdinal
<1> USE WindowType, DispatchAssumption
<1>1. CASE Feeder
  BY <1>1, SMTT(30) DEF Feeder, FeederCheckCeiling, FeederWake, FeederTakeSlot, FeederCanceled,
              TypeOK, feederVars, workerVars, drainVars
<1>2. ASSUME NEW w \in Workers, Handoff(w) PROVE TypeInv'
  <2>1. Unbuilt(fidx) \in Outcome
    BY <1>2 DEF Handoff, Unbuilt, Outcome, TypeOK, Inputs
  <2> QED
    BY <1>2, <2>1 DEF Handoff, TypeOK, feederVars, workerVars, drainVars
<1>3. ASSUME NEW w \in Workers, WorkerStep(w) PROVE TypeInv'
  <2>1. CASE WorkerAcquire(w)
    BY <2>1 DEF WorkerAcquire, TypeOK, feederVars, workerVars, drainVars
  <2>2. CASE WorkerPrepareCanceled(w)
    BY <2>2 DEF WorkerPrepareCanceled, TypeOK, Outcome, feederVars, workerVars, drainVars
  <2>3. CASE WorkerBuild(w)
    <3>1. wjob[w] \in Outcome /\ wjob[w].idx \in Inputs
      BY DEF TypeOK, Outcome
    <3>2. PICK o \in BuildOutcomes(wjob[w].idx) :
             wjob' = [wjob EXCEPT ![w] = o] /\ inFlight' = inFlight + o.records
      BY <2>3 DEF WorkerBuild
    <3>3. o \in Outcome
      BY <3>1, BuildOutcomesType
    <3>4. o.records \in Int
      BY <3>3 DEF Outcome
    <3> QED
      BY <2>3, <3>2, <3>3, <3>4 DEF WorkerBuild, TypeOK, feederVars, workerVars, drainVars
  <2>4. CASE WorkerSend(w)
    <3>1. NoJob \in Outcome
      BY DEF NoJob, Unbuilt, Outcome, Inputs
    <3> QED
      BY <2>4, <3>1 DEF WorkerSend, TypeOK, feederVars, workerVars, drainVars
  <2>5. CASE WorkerExit(w)
    BY <2>5 DEF WorkerExit, TypeOK, feederVars, workerVars, drainVars
  <2> QED
    BY <1>3, <2>1, <2>2, <2>3, <2>4, <2>5 DEF WorkerStep
<1>4. CASE Drain
  <2>1. CASE DrainReceive
    BY <2>1 DEF DrainReceive, TypeOK, feederVars, workerVars, drainVars
  <2>2. CASE DrainCanceled
    BY <2>2 DEF DrainCanceled, TypeOK, feederVars, workerVars, drainVars
  <2>3. CASE EmitNotReady
    BY <2>3 DEF EmitNotReady, TypeOK, feederVars, workerVars, drainVars
  <2>4. CASE Commit
    <3>1. PICK o \in pending, s \in Outcome,
               err \in {"none", "canceled", "input", "terminal"} : CommitOf(o, s, err)
      BY <2>4, CommitParts
    <3>2. o.records \in Int
      BY <3>1 DEF CommitOf, Outcome
    <3> QED
      BY <2>4, <3>1, <3>2 DEF Commit, CommitOf, TypeOK, feederVars, workerVars
  <2>5. CASE SignalFreed
    BY <2>5 DEF SignalFreed, TypeOK, feederVars, workerVars, drainVars
  <2>6. CASE ReleaseSlot
    BY <2>6 DEF ReleaseSlot, TypeOK, feederVars, workerVars, drainVars
  <2>7. CASE Stop
    BY <2>7 DEF Stop, TypeOK, feederVars, workerVars, drainVars
  <2>8. CASE Join
    BY <2>8 DEF Join, TypeOK, feederVars, workerVars, drainVars
  <2> QED
    BY <1>4, <2>1, <2>2, <2>3, <2>4, <2>5, <2>6, <2>7, <2>8 DEF Drain
<1>5. CASE CancelParent
  BY <1>5 DEF CancelParent, TypeOK, feederVars, workerVars, drainVars
<1>6. CASE UNCHANGED vars
  BY <1>6 DEF vars, TypeOK
<1> QED
  BY <1>1, <1>2, <1>3, <1>4, <1>5, <1>6 DEF Next, Terminated

(* Every variable of the dispatch keeps its type, for any number of inputs *)
(* and workers: the window is never exceeded and no ordinal outside the    *)
(* input set is ever scheduled or committed.                               *)
THEOREM TypeCorrect == Spec => []TypeOK
<1>1. TypeInv => TypeOK
  BY DEF TypeInv
<1> QED
  BY <1>1, TypeInit, TypeStep, PTL DEF Spec

------------------------------------------------------------------------------
(* Ordered commit.                                                         *)

(* Where the drain is determines how many inputs have been settled, and    *)
(* they are the first ones, in order.                                      *)
OrderInv ==
    /\ \A i \in 1..Len(committed) : committed[i].idx = i
    /\ dpc \in {"recv", "emit"} => Len(committed) = next - 1 /\ runErr = "none"
    /\ dpc \in {"signal", "release"} => Len(committed) = next /\ runErr = "none"
    /\ dpc \in {"stop", "join", "returned"} /\ runErr = "none"
          => Len(committed) = NumInputs

LEMMA OrderInit == Init => OrderInv
  BY DispatchAssumption DEF Init, OrderInv

LEMMA OrderStep == TypeInv /\ OrderInv /\ [Next]_vars => OrderInv'
<1> SUFFICES ASSUME TypeInv, OrderInv, [Next]_vars PROVE OrderInv'
  OBVIOUS
<1> USE DispatchAssumption
<1>1. CASE Commit
  <2>1. PICK o \in pending, s \in Outcome,
             err \in {"none", "canceled", "input", "terminal"} : CommitOf(o, s, err)
    BY <1>1, CommitParts DEF TypeInv
  <2>2. committed \in Seq(Outcome) /\ Len(committed) = next - 1 /\ next \in Nat
    BY <1>1 DEF TypeInv, TypeOK, OrderInv, Commit
  <2>3. committed' = Append(committed, s) /\ s.idx = next
    BY <2>1 DEF CommitOf
  <2>4. Len(committed') = Len(committed) + 1
    BY <2>2, <2>3
  <2>5. \A i \in 1..Len(committed') : committed'[i].idx = i
    <3> SUFFICES ASSUME NEW i \in 1..Len(committed') PROVE committed'[i].idx = i
      OBVIOUS
    <3>1. CASE i = Len(committed) + 1
      BY <2>2, <2>3, <3>1, AppendFacts
    <3>2. CASE i \in 1..Len(committed)
      <4>1. committed'[i] = committed[i]
        BY <2>2, <2>3, <3>2, AppendFacts
      <4> QED
        BY <3>2, <4>1 DEF OrderInv
    <3> QED
      BY <2>2, <2>4, <3>1, <3>2
  <2>6. /\ err # "none" => dpc' = "stop" /\ runErr' # "none"
        /\ err = "none" => dpc' \in {"signal", "release"} /\ runErr' = "none"
    BY <2>1 DEF CommitOf
  <2>7. next' = next
    BY <1>1 DEF Commit
  <2> QED
    BY <2>2, <2>4, <2>5, <2>6, <2>7 DEF OrderInv, TypeInv, TypeOK
<1>2. CASE DrainReceive \/ DrainCanceled \/ EmitNotReady \/ SignalFreed
             \/ ReleaseSlot \/ Stop \/ Join
  BY <1>2 DEF DrainReceive, DrainCanceled, EmitNotReady, SignalFreed, ReleaseSlot, Stop,
              Join, OrderInv, TypeInv, TypeOK, DrainOrdinal
<1>3. CASE UNCHANGED drainVars
  BY <1>3 DEF drainVars, OrderInv
<1>4. CASE UNCHANGED vars
  BY <1>4 DEF vars, OrderInv
<1>5. ASSUME Feeder \/ CancelParent \/ (\E w \in Workers : Handoff(w) \/ WorkerStep(w))
      PROVE  UNCHANGED drainVars
  BY <1>5 DEF Feeder, FeederCheckCeiling, FeederWake, FeederTakeSlot, FeederCanceled,
              CancelParent, Handoff, WorkerStep, WorkerAcquire, WorkerPrepareCanceled,
              WorkerBuild, WorkerSend, WorkerExit
<1> QED
  BY <1>1, <1>2, <1>3, <1>4, <1>5 DEF Next, Drain, Terminated

Settled == [i \in 1..Len(committed) |-> committed[i].idx]
Verdict ==
    IF dpc = "returned" THEN IF runErr = "none" THEN "ok" ELSE "error"
    ELSE IF runErr = "none" THEN "running" ELSE "failing"

LEMMA SettledAppend ==
  ASSUME NEW c \in Seq(Outcome), NEW s \in Outcome
  PROVE  [i \in 1..Len(Append(c, s)) |-> Append(c, s)[i].idx]
            = Append([i \in 1..Len(c) |-> c[i].idx], s.idx)
<1> DEFINE f == [i \in 1..Len(c) |-> c[i].idx]
           g == [i \in 1..Len(Append(c, s)) |-> Append(c, s)[i].idx]
<1>0. Len(c) \in Nat /\ \A o \in Outcome : o.idx \in Nat
  BY AppendFacts, DispatchAssumption DEF Outcome, Inputs
<1>1. f \in Seq(Nat) /\ Len(f) = Len(c)
  <2>1. \A i \in 1..Len(c) : c[i].idx \in Nat
    BY <1>0, AppendFacts
  <2> QED
    BY <1>0, <2>1
<1>2. g \in Seq(Nat) /\ Len(g) = Len(c) + 1
  <2>1. \A i \in 1..Len(c) + 1 : Append(c, s)[i].idx \in Nat
    BY <1>0, AppendFacts
  <2>2. Len(Append(c, s)) = Len(c) + 1
    BY AppendFacts
  <2> QED
    BY <1>0, <2>1, <2>2
<1>3. Append(f, s.idx) \in Seq(Nat) /\ Len(Append(f, s.idx)) = Len(c) + 1
  BY <1>0, <1>1
<1>4. ASSUME NEW i \in 1..Len(c) + 1 PROVE g[i] = Append(f, s.idx)[i]
  <2>0. g[i] = Append(c, s)[i].idx
    BY AppendFacts
  <2>1. CASE i = Len(c) + 1
    <3>1. Append(f, s.idx)[i] = s.idx
      BY <1>0, <1>1, <2>1
    <3> QED
      BY <2>0, <2>1, <3>1, AppendFacts
  <2>2. CASE i \in 1..Len(c)
    <3>1. Append(f, s.idx)[i] = f[i] /\ f[i] = c[i].idx
      BY <1>0, <1>1, <2>2
    <3> QED
      BY <2>0, <2>2, <3>1, AppendFacts
  <2> QED
    BY <1>0, <1>4, <2>1, <2>2
<1> HIDE DEF f, g
<1> QED
  <2>1. g = Append(f, s.idx)
    BY <1>2, <1>3, <1>4
  <2> QED
    BY <2>1 DEF f, g

LEMMA AbsInitHolds == Init => Abs!AbsInit
  BY DEF Init, Abs!AbsInit

LEMMA AbsStep ==
  TypeInv /\ OrderInv /\ TypeInv' /\ OrderInv' /\ [Next]_vars => [Abs!AbsNext]_(Abs!absVars)
<1> SUFFICES ASSUME TypeInv, OrderInv, TypeInv', OrderInv', [Next]_vars
             PROVE  [Abs!AbsNext]_(Abs!absVars)
  OBVIOUS
<1> USE DispatchAssumption
<1>0. Len(committed) \in Nat /\ Len(Settled) = Len(committed)
  BY DEF TypeInv, TypeOK, Settled
<1>1. CASE Commit
  <2>1. PICK o \in pending, s \in Outcome,
             err \in {"none", "canceled", "input", "terminal"} : CommitOf(o, s, err)
    BY <1>1, CommitParts DEF TypeInv
  <2>2. committed \in Seq(Outcome) /\ Len(committed) = next - 1 /\ runErr = "none"
          /\ dpc = "emit" /\ next \in Nat
    BY <1>1 DEF TypeInv, TypeOK, OrderInv, Commit
  <2>3. Settled' = Append(Settled, s.idx)
    BY <2>1, <2>2, SettledAppend DEF Settled, CommitOf
  <2>4. s.idx = Len(Settled) + 1 /\ Len(Settled) < NumInputs
    BY <1>0, <2>1, <2>2 DEF CommitOf
  <2>5. Verdict = "running" /\ Verdict' \in {"running", "failing"}
    BY <2>1, <2>2 DEF CommitOf, Verdict
  <2> QED
    BY <2>3, <2>4, <2>5 DEF Settled, Verdict, Abs!AbsNext, Abs!Settle
<1>2. CASE DrainCanceled
  <2>1. /\ Verdict = "running" /\ Verdict' = "failing" /\ Settled' = Settled
        /\ Len(committed) < NumInputs
    BY <1>2 DEF DrainCanceled, Verdict, Settled, OrderInv, TypeInv, TypeOK
  <2> QED
    BY <1>0, <2>1 DEF Settled, Verdict, Abs!AbsNext, Abs!Abandon
<1>3. CASE Join
  <2>1. Settled' = Settled /\ dpc = "join" /\ dpc' = "returned" /\ runErr' = runErr
    BY <1>3 DEF Join, Settled
  <2>2. runErr = "none" => Len(committed) = NumInputs
    BY <2>1 DEF OrderInv
  <2> QED
    BY <1>0, <2>1, <2>2 DEF Settled, Verdict, Abs!AbsNext, Abs!Return
<1>4. CASE DrainReceive \/ EmitNotReady \/ SignalFreed \/ ReleaseSlot \/ Stop
  <2>1. Settled' = Settled /\ Verdict' = Verdict
    BY <1>4 DEF DrainReceive, EmitNotReady, SignalFreed, ReleaseSlot, Stop, Settled, Verdict
  <2> QED
    BY <2>1 DEF Settled, Verdict, Abs!absVars
<1>5. CASE UNCHANGED drainVars
  BY <1>5 DEF drainVars, Abs!absVars
<1>6. CASE UNCHANGED vars
  BY <1>6 DEF vars, Abs!absVars
<1>7. ASSUME Feeder \/ CancelParent \/ (\E w \in Workers : Handoff(w) \/ WorkerStep(w))
      PROVE  UNCHANGED drainVars
  BY <1>7 DEF Feeder, FeederCheckCeiling, FeederWake, FeederTakeSlot, FeederCanceled,
              CancelParent, Handoff, WorkerStep, WorkerAcquire, WorkerPrepareCanceled,
              WorkerBuild, WorkerSend, WorkerExit
<1> QED
  BY <1>1, <1>2, <1>3, <1>4, <1>5, <1>6, <1>7 DEF Next, Drain, Terminated

(* The concurrent dispatch implements the ordered-commit contract: inputs  *)
(* are settled in ordinal order, once each, nothing after a failed commit, *)
(* and success only when all of them are settled; for any number of inputs *)
(* and workers, any ceiling and any prefetch window.                       *)
THEOREM ImplementsOrderedCommit == Spec => OrderedCommitSpec
<1>1. Spec => [](TypeInv /\ OrderInv)
  <2>1. Init => TypeInv /\ OrderInv
    BY TypeInit, OrderInit
  <2>2. TypeInv /\ OrderInv /\ [Next]_vars => TypeInv' /\ OrderInv'
    BY TypeStep, OrderStep
  <2> QED
    BY <2>1, <2>2, PTL DEF Spec
<1> QED
  BY <1>1, AbsInitHolds, AbsStep, PTL DEF Spec, OrderedCommitSpec, Abs!AbsSpec

------------------------------------------------------------------------------
(* A completed run holds what the inputs hold.                             *)

Faithful(o) ==
    o.kind \in {"built", "swallowed"} =>
        /\ content[o.idx].kind = "built" /\ o.records = content[o.idx].records
        /\ o.kind = "swallowed" => ContinueOnError /\ CommitFaults

FaithfulInv ==
    /\ \A w \in Workers : Faithful(wjob[w])
    /\ \A i \in 1..Len(results) : Faithful(results[i])
    /\ \A o \in pending : Faithful(o)
    /\ \A i \in 1..Len(committed) : Faithful(committed[i])

LEMMA FaithfulStep == TypeInv /\ FaithfulInv /\ [Next]_vars => FaithfulInv'
<1> SUFFICES ASSUME TypeInv, FaithfulInv, [Next]_vars PROVE FaithfulInv'
  OBVIOUS
<1>0. \A o : content' = content /\ Faithful(o) => Faithful(o)'
  BY DEF Faithful
<1>1. content' = content
  BY DEF Next, vars, Feeder, FeederCheckCeiling, FeederWake, FeederTakeSlot, FeederCanceled,
         CancelParent, Handoff, WorkerStep, WorkerAcquire, WorkerPrepareCanceled,
         WorkerBuild, WorkerSend, WorkerExit, Drain, DrainReceive, DrainCanceled,
         EmitNotReady, Commit, SignalFreed, ReleaseSlot, Stop, Join, Terminated
<1>2. ASSUME NEW w \in Workers, Handoff(w) PROVE FaithfulInv'
  <2>1. Unbuilt(fidx).kind \notin {"built", "swallowed"}
    BY DEF Unbuilt
  <2> QED
    BY <1>0, <1>1, <1>2, <2>1 DEF Handoff, FaithfulInv, Faithful, drainVars, TypeInv, TypeOK
<1>3. ASSUME NEW w \in Workers, WorkerBuild(w) PROVE FaithfulInv'
  <2>1. PICK o \in BuildOutcomes(wjob[w].idx) : wjob' = [wjob EXCEPT ![w] = o]
    BY <1>3 DEF WorkerBuild
  <2>2. Faithful(o)'
    <3>1. content[wjob[w].idx] \in Content
      BY ContentType DEF TypeInv, TypeOK, Outcome
    <3> QED
      BY <1>1, <2>1, <3>1 DEF Faithful, BuildOutcomes, Content
  <2> QED
    BY <1>0, <1>1, <1>3, <2>1, <2>2
       DEF WorkerBuild, FaithfulInv, Faithful, drainVars, TypeInv, TypeOK
<1>4. ASSUME NEW w \in Workers, WorkerPrepareCanceled(w) PROVE FaithfulInv'
  BY <1>1, <1>4 DEF WorkerPrepareCanceled, FaithfulInv, Faithful, drainVars, TypeInv, TypeOK
<1>5. ASSUME NEW w \in Workers, WorkerSend(w) PROVE FaithfulInv'
  <2>1. Faithful(NoJob)'
    BY DEF Faithful, NoJob, Unbuilt
  <2>2. /\ results \in Seq(Outcome) /\ wjob[w] \in Outcome
        /\ results' = Append(results, wjob[w])
    BY <1>5 DEF WorkerSend, TypeInv, TypeOK
  <2>3. \A i \in 1..Len(results') : results'[i] = wjob[w] \/ \E j \in 1..Len(results) : results'[i] = results[j]
    <3>1. Len(results) \in Nat /\ Len(results') = Len(results) + 1
      BY <2>2, AppendFacts
    <3>2. results'[Len(results) + 1] = wjob[w]
      BY <2>2, AppendFacts
    <3>3. \A i \in 1..Len(results) : results'[i] = results[i]
      BY <2>2, AppendFacts
    <3>4. \A i \in 1..Len(results') : i = Len(results) + 1 \/ i \in 1..Len(results)
      BY <3>1
    <3> QED
      BY <3>2, <3>3, <3>4
  <2>4. \A i \in 1..Len(results') : Faithful(results[i])'
    BY <1>1, <2>3 DEF FaithfulInv, Faithful
  <2> QED
    BY <1>0, <1>1, <1>5, <2>1, <2>4
       DEF WorkerSend, FaithfulInv, Faithful, drainVars, TypeInv, TypeOK
<1>6. CASE DrainReceive
  <2>1. /\ results \in Seq(Outcome) /\ results # <<>>
        /\ results' = Tail(results) /\ pending' = pending \cup {Head(results)}
    BY <1>6 DEF DrainReceive, TypeInv, TypeOK
  <2>2. Head(results) = results[1] /\ 1 \in 1..Len(results)
    BY <2>1
  <2>3. \A i \in 1..Len(results') : results'[i] = results[i + 1] /\ i + 1 \in 1..Len(results)
    BY <2>1
  <2> QED
    BY <1>0, <1>1, <1>6, <2>1, <2>2, <2>3
       DEF DrainReceive, FaithfulInv, Faithful, workerVars
<1>7. CASE Commit
  <2>1. PICK o \in pending, s \in Outcome,
             err \in {"none", "canceled", "input", "terminal"} :
             s \in SettledAs(o) /\ CommitOf(o, s, err)
    BY <1>7, CommitParts DEF TypeInv
  <2>2. committed \in Seq(Outcome) /\ committed' = Append(committed, s)
           /\ pending' = pending \ {o} /\ o \in Outcome
    BY <2>1 DEF CommitOf, TypeInv, TypeOK
  <2>3. Faithful(s)'
    BY <1>1, <2>1, <2>2 DEF SettledAs, FaithfulInv, Faithful, Outcome
  <2>4. \A i \in 1..Len(committed') : committed'[i] = s \/ \E j \in 1..Len(committed) : committed'[i] = committed[j]
    <3>1. Len(committed) \in Nat /\ Len(committed') = Len(committed) + 1
      BY <2>2, AppendFacts
    <3>2. committed'[Len(committed) + 1] = s
      BY <2>2, AppendFacts
    <3>3. \A i \in 1..Len(committed) : committed'[i] = committed[i]
      BY <2>2, AppendFacts
    <3>4. \A i \in 1..Len(committed') : i = Len(committed) + 1 \/ i \in 1..Len(committed)
      BY <3>1
    <3> QED
      BY <3>2, <3>3, <3>4
  <2>5. \A i \in 1..Len(committed') : Faithful(committed[i])'
    BY <1>1, <2>3, <2>4 DEF FaithfulInv, Faithful
  <2> QED
    BY <1>0, <1>1, <1>7, <2>2, <2>5 DEF Commit, FaithfulInv, Faithful, workerVars
<1>8. CASE UNCHANGED <<wjob, results, pending, committed>>
  BY <1>1, <1>8 DEF FaithfulInv, Faithful
<1>9. ASSUME \/ Feeder \/ CancelParent \/ DrainCanceled \/ EmitNotReady \/ SignalFreed
             \/ ReleaseSlot \/ Stop \/ Join \/ UNCHANGED vars
             \/ \E w \in Workers : WorkerAcquire(w) \/ WorkerExit(w)
      PROVE  UNCHANGED <<wjob, results, pending, committed>>
  BY <1>9 DEF Feeder, FeederCheckCeiling, FeederWake, FeederTakeSlot, FeederCanceled,
              CancelParent, WorkerAcquire, WorkerExit, DrainCanceled, EmitNotReady,
              SignalFreed, ReleaseSlot, Stop, Join, vars, drainVars, workerVars
<1> QED
  BY <1>2, <1>3, <1>4, <1>5, <1>6, <1>7, <1>8, <1>9 DEF Next, WorkerStep, Drain, Terminated

LEMMA FaithfulInit == Init => FaithfulInv
  BY DEF Init, FaithfulInv, Faithful, NoJob, Unbuilt

LEMMA InvariantsHold == Spec => [](TypeInv /\ OrderInv /\ FaithfulInv)
<1>1. Init => TypeInv /\ OrderInv /\ FaithfulInv
  BY TypeInit, OrderInit, FaithfulInit
<1>2. TypeInv /\ OrderInv /\ FaithfulInv /\ [Next]_vars
        => TypeInv' /\ OrderInv' /\ FaithfulInv'
  BY TypeStep, OrderStep, FaithfulStep
<1> QED
  BY <1>1, <1>2, PTL DEF Spec

(* A run that ends in the completed class has settled every input with the *)
(* records a serial run gives it, for any schedule of the workers, but for *)
(* those whose output error continue-on-error swallowed.                   *)
THEOREM CompletedIsComplete == Spec => []CompletedMeansAllBuilt
<1>1. TypeInv /\ OrderInv /\ FaithfulInv => CompletedMeansAllBuilt
  <2> SUFFICES ASSUME TypeInv, OrderInv, FaithfulInv, dpc = "returned",
                      TerminalClass = "completed"
               PROVE  /\ Len(committed) = NumInputs
                      /\ \A i \in Inputs :
                            /\ content[i].kind = "built"
                            /\ committed[i].idx = i /\ committed[i].records = content[i].records
                            /\ \/ committed[i].kind = "built"
                               \/ committed[i].kind = "swallowed" /\ ContinueOnError /\ CommitFaults
    BY DEF CompletedMeansAllBuilt
  <2>1. runErr = "none" /\ \A i \in DOMAIN committed : committed[i].kind \in {"built", "swallowed"}
    BY DEF TerminalClass, TypeInv, TypeOK
  <2>2. Len(committed) = NumInputs
    BY <2>1 DEF OrderInv
  <2>3. ASSUME NEW i \in Inputs
        PROVE  /\ committed[i].kind \in {"built", "swallowed"} /\ committed[i].idx = i
               /\ Faithful(committed[i])
    <3>1. i \in 1..Len(committed) /\ i \in DOMAIN committed
      BY <2>2 DEF Inputs, TypeInv, TypeOK
    <3> QED
      BY <2>1, <3>1 DEF OrderInv, FaithfulInv
  <2> QED
    BY <2>2, <2>3 DEF Faithful
<1> QED
  BY <1>1, InvariantsHold, PTL

------------------------------------------------------------------------------
(* The look-ahead window.                                                  *)

Active(w) == wpc[w] \in {"prepare", "build", "send"}

(* No ordinal is in two places at once.                                    *)
UniqueInv ==
    /\ \A v, w \in Workers : Active(v) /\ Active(w) /\ wjob[v].idx = wjob[w].idx => v = w
    /\ \A i, j \in 1..Len(results) : results[i].idx = results[j].idx => i = j
    /\ \A o, p \in pending : o.idx = p.idx => o = p
    /\ \A w \in Workers, i \in 1..Len(results) : Active(w) => wjob[w].idx # results[i].idx
    /\ \A w \in Workers, o \in pending : Active(w) => wjob[w].idx # o.idx
    /\ \A i \in 1..Len(results), o \in pending : results[i].idx # o.idx

(* The first ordinal that may still be in flight.                          *)
First == IF dpc \in {"signal", "release"} THEN next + 1 ELSE next

(* An ordinal in flight has been scheduled and not committed.              *)
InRange(o) == First <= o.idx /\ o.idx < fidx

RangeInv ==
    /\ First <= fidx
    /\ \A w \in Workers : Active(w) => InRange(wjob[w])
    /\ \A i \in 1..Len(results) : InRange(results[i])
    /\ \A o \in pending : InRange(o)

(* Every scheduled and uncommitted ordinal has its slot.                   *)
SlotInv ==
    /\ fidx <= next + slots
    /\ fpc = "send" => fidx + 1 <= next + slots

WindowInv == UniqueInv /\ RangeInv /\ SlotInv

LEMMA IdxType == ASSUME NEW o \in Outcome PROVE o.idx \in Nat
  BY DispatchAssumption DEF Outcome, Inputs

LEMMA WindowInit == Init => WindowInv
  BY DispatchAssumption
     DEF Init, WindowInv, UniqueInv, RangeInv, SlotInv, Active, First

LEMMA SlotStep == TypeInv /\ SlotInv /\ [Next]_vars => SlotInv'
  BY WindowType, DispatchAssumption, SMTT(30)
     DEF TypeInv, TypeOK, SlotInv, Next, vars, Feeder, FeederCheckCeiling, FeederWake,
         FeederTakeSlot, FeederCanceled, CancelParent, Handoff, WorkerStep, WorkerAcquire,
         WorkerPrepareCanceled, WorkerBuild, WorkerSend, WorkerExit, Drain, DrainReceive,
         DrainCanceled, EmitNotReady, Commit, SignalFreed, ReleaseSlot, Stop, Join,
         Terminated, feederVars, drainVars

LEMMA WindowStep == TypeInv /\ WindowInv /\ [Next]_vars => WindowInv'
<1> SUFFICES ASSUME TypeInv, WindowInv, [Next]_vars PROVE UniqueInv' /\ RangeInv'
  BY SlotStep DEF WindowInv
<1> USE DispatchAssumption
<1>0. next \in Nat /\ fidx \in Nat /\ results \in Seq(Outcome)
        /\ pending \subseteq Outcome /\ \A w \in Workers : wjob[w] \in Outcome
  BY DEF TypeInv, TypeOK
<1>1. ASSUME NEW w \in Workers, Handoff(w) PROVE UniqueInv' /\ RangeInv'
  <2>1. /\ wjob' = [wjob EXCEPT ![w] = Unbuilt(fidx)] /\ Unbuilt(fidx).idx = fidx
        /\ fidx' = fidx + 1 /\ UNCHANGED <<results, pending, dpc, next>>
        /\ \A v \in Workers \ {w} : wpc'[v] = wpc[v] /\ wjob'[v] = wjob[v]
        /\ wjob'[w] = Unbuilt(fidx) /\ ~Active(w)
    BY <1>1 DEF Handoff, Unbuilt, drainVars, Active, TypeInv, TypeOK
  <2>2. First' = First /\ First <= fidx
    BY <1>0, <2>1 DEF First, WindowInv, RangeInv
  <2>3. First \in Nat
    BY <1>0 DEF First
  <2>4. UniqueInv'
    <3>1. /\ \A v \in Workers : Active(v) => wjob[v].idx # fidx
          /\ \A i \in 1..Len(results) : results[i].idx # fidx
          /\ \A o \in pending : o.idx # fidx
      BY <1>0, IdxType DEF RangeInv, InRange, WindowInv
    <3>2. wjob'[w].idx = fidx /\ \A v \in Workers \ {w} : Active(v)' <=> Active(v)
      BY <2>1 DEF Active
    <3> QED
      BY <2>1, <3>1, <3>2 DEF UniqueInv, WindowInv
  <2>5. RangeInv'
    BY <1>0, <2>1, <2>2, <2>3, IdxType DEF RangeInv, InRange, Active, WindowInv
  <2> QED
    BY <2>4, <2>5
<1>2. ASSUME NEW w \in Workers, WorkerPrepareCanceled(w) \/ WorkerBuild(w) \/ WorkerAcquire(w)
      PROVE  UniqueInv' /\ RangeInv'
  <2>1. /\ UNCHANGED <<results, pending, dpc, next, fidx>> /\ Active(w)
        /\ \A v \in Workers : wjob'[v].idx = wjob[v].idx /\ (Active(v)' => Active(v))
    BY <1>0, <1>2 DEF WorkerPrepareCanceled, WorkerBuild, WorkerAcquire, BuildOutcomes,
                      drainVars, feederVars, Active, TypeInv, TypeOK
  <2> QED
    BY <2>1 DEF UniqueInv, RangeInv, InRange, First, WindowInv
<1>3. ASSUME NEW w \in Workers, WorkerSend(w) PROVE UniqueInv' /\ RangeInv'
  <2>1. /\ UNCHANGED <<pending, dpc, next, fidx>> /\ Active(w) /\ ~Active(w)'
        /\ \A v \in Workers \ {w} : wjob'[v] = wjob[v] /\ (Active(v)' => Active(v))
        /\ results' = Append(results, wjob[w])
    BY <1>0, <1>3 DEF WorkerSend, drainVars, feederVars, Active, TypeInv, TypeOK
  <2>2. /\ Len(results) \in Nat /\ Len(results') = Len(results) + 1
        /\ results'[Len(results) + 1] = wjob[w]
        /\ \A i \in 1..Len(results) : results'[i] = results[i]
    BY <1>0, <2>1, AppendFacts
  <2>3. \A i \in 1..Len(results') : i = Len(results) + 1 \/ i \in 1..Len(results)
    BY <2>2
  <2>4. UniqueInv'
    BY <2>1, <2>2, <2>3 DEF UniqueInv, WindowInv
  <2>5. RangeInv'
    BY <2>1, <2>2, <2>3 DEF RangeInv, InRange, First, WindowInv
  <2> QED
    BY <2>4, <2>5
<1>4. CASE DrainReceive
  <2>1. /\ UNCHANGED <<wpc, wjob, next, fidx>> /\ First' = First
        /\ pending' = pending \cup {Head(results)} /\ results' = Tail(results)
        /\ results # <<>>
    BY <1>4 DEF DrainReceive, First, workerVars, feederVars
  <2>2. /\ 1 \in 1..Len(results) /\ Head(results) = results[1]
        /\ \A i \in 1..Len(results') : results'[i] = results[i + 1]
                                        /\ i + 1 \in 1..Len(results) /\ i + 1 # 1
        /\ \A i, j \in 1..Len(results') : i + 1 = j + 1 => i = j
    BY <1>0, <2>1
  <2>3. UniqueInv'
    BY <2>1, <2>2 DEF UniqueInv, WindowInv, Active
  <2>4. RangeInv'
    BY <2>1, <2>2 DEF RangeInv, InRange, WindowInv, Active
  <2> QED
    BY <2>3, <2>4
<1>5. CASE Commit
  <2>1. PICK o \in pending, s \in Outcome,
             err \in {"none", "canceled", "input", "terminal"} : CommitOf(o, s, err)
    BY <1>5, CommitParts DEF TypeInv
  <2>2. /\ o.idx = next /\ pending' = pending \ {o}
        /\ UNCHANGED <<wpc, wjob, next, fidx, results>> /\ dpc = "emit"
    BY <1>5, <2>1 DEF Commit, CommitOf, workerVars, feederVars
  <2>3. First = next /\ First' \in {next, next + 1}
    BY <2>2 DEF First
  <2>4. UniqueInv'
    BY <2>2 DEF UniqueInv, WindowInv, Active
  <2>5. RangeInv'
    BY <1>0, <2>1, <2>2, <2>3, IdxType DEF UniqueInv, RangeInv, InRange, WindowInv, Active
  <2> QED
    BY <2>4, <2>5
<1>6. CASE ReleaseSlot
  BY <1>0, <1>6 DEF ReleaseSlot, UniqueInv, RangeInv, InRange, First, WindowInv, Active,
                    workerVars, feederVars
<1>7. CASE DrainCanceled \/ EmitNotReady \/ SignalFreed \/ Stop \/ Join \/ CancelParent
             \/ Feeder \/ UNCHANGED vars
  <2>1. UNCHANGED <<wpc, wjob, next, fidx, results, pending>> /\ First' = First
    BY <1>7 DEF DrainCanceled, EmitNotReady, SignalFreed, Stop, Join, CancelParent, Feeder,
                FeederCheckCeiling, FeederWake, FeederTakeSlot, FeederCanceled, First, vars,
                workerVars, feederVars, drainVars
  <2> QED
    BY <2>1 DEF UniqueInv, RangeInv, InRange, WindowInv, Active
<1>8. ASSUME NEW w \in Workers, WorkerExit(w) PROVE UniqueInv' /\ RangeInv'
  <2>1. /\ UNCHANGED <<wjob, results, pending, dpc, next, fidx>>
        /\ \A v \in Workers : Active(v)' => Active(v)
    BY <1>0, <1>8 DEF WorkerExit, drainVars, feederVars, Active, TypeInv, TypeOK
  <2> QED
    BY <2>1 DEF UniqueInv, RangeInv, InRange, First, WindowInv
<1> QED
  BY <1>1, <1>2, <1>3, <1>4, <1>5, <1>6, <1>7, <1>8 DEF Next, WorkerStep, Drain, Terminated

LEMMA InFlightUnique == ASSUME TypeInv, WindowInv PROVE InFlightWithinWindow
<1>0. /\ next \in Nat /\ fidx \in Nat /\ slots \in Nat /\ slots <= Window
      /\ results \in Seq(Outcome) /\ First \in Nat /\ next <= First
      /\ Held \subseteq Outcome /\ DOMAIN results = 1..Len(results)
  BY WindowType, DispatchAssumption DEF TypeInv, TypeOK, First, Held
<1>1. \A o \in Held : InRange(o)
  BY <1>0 DEF Held, WindowInv, RangeInv, Active
<1>2. \A o \in Held : next <= o.idx /\ o.idx < next + Window
  BY <1>0, <1>1, IdxType, WindowType DEF InRange, WindowInv, SlotInv
<1>3. \A i, j \in DOMAIN results : results[i].idx = results[j].idx => i = j
  BY <1>0 DEF WindowInv, UniqueInv
<1>4. \A o, p \in Held : o.idx = p.idx => o = p
  BY <1>0 DEF Held, WindowInv, UniqueInv, Active
<1> QED
  BY <1>2, <1>3, <1>4 DEF InFlightWithinWindow

(* At any moment the inputs in flight are inside the look-ahead window and *)
(* each is in one place, for any number of workers: the memory held ahead  *)
(* of the ordered committer is bounded by the window.                      *)
THEOREM WindowBoundsInFlight == Spec => []InFlightWithinWindow
<1>1. TypeInv /\ WindowInv => InFlightWithinWindow
  BY InFlightUnique
<1>2. Init => TypeInv /\ WindowInv
  BY TypeInit, WindowInit
<1>3. TypeInv /\ WindowInv /\ [Next]_vars => TypeInv' /\ WindowInv'
  BY TypeStep, WindowStep
<1> QED
  BY <1>1, <1>2, <1>3, PTL DEF Spec

------------------------------------------------------------------------------
(* What is held ahead of the committer: the result channel and the record  *)
(* counter.                                                                *)

LEMMA HeldFinite ==
  ASSUME TypeInv, WindowInv
  PROVE  Held \subseteq Outcome /\ IsFiniteSet(Held)
<1>1. Held \subseteq Outcome
  BY DEF Held, TypeInv, TypeOK
<1> DEFINE f == [o \in Held |-> o.idx]
<1>2. f \in Injection(Held, Inputs)
  BY <1>1, InFlightUnique DEF Injection, IsInjective, Outcome, InFlightWithinWindow
<1>3. IsFiniteSet(Inputs)
  BY FS_Interval, DispatchAssumption DEF Inputs
<1> HIDE DEF f
<1> QED
  BY <1>1, <1>2, <1>3, FS_Injection

LEMMA HeldFinitePrime ==
  ASSUME TypeInv', WindowInv'
  PROVE  Held' \subseteq Outcome /\ IsFiniteSet(Held')
<1>1. (Held \subseteq Outcome /\ IsFiniteSet(Held))'
  BY HeldFinite, PTL
<1> QED
  BY <1>1

(* Every outcome of the window fits into resultChan, so a worker that has  *)
(* built one never waits.                                                  *)
LEMMA RoomToSend == ASSUME TypeInv, WindowInv PROVE SendNeverBlocks
<1> SUFFICES ASSUME NEW w \in Workers, wpc[w] = "send" PROVE Len(results) < Window
  BY DEF SendNeverBlocks
<1> DEFINE n == Len(results)
<1> DEFINE f == [i \in 1..(n + 1) |-> IF i = n + 1 THEN wjob[w].idx ELSE results[i].idx]
<1>1. n \in Nat /\ next \in Nat /\ results \in Seq(Outcome) /\ DOMAIN results = 1..n
  BY DispatchAssumption DEF TypeInv, TypeOK
<1>2. wjob[w] \in Held /\ \A i \in 1..n : results[i] \in Held
  BY <1>1 DEF Held
<1>3. \A o \in Held : o.idx \in next..(next + Window - 1)
  BY <1>1, HeldFinite, InFlightUnique, IdxType, WindowType DEF InFlightWithinWindow
<1>4. \A i \in 1..n : wjob[w].idx # results[i].idx
  BY DEF WindowInv, UniqueInv, Active
<1>5. \A i, j \in 1..n : results[i].idx = results[j].idx => i = j
  BY DEF WindowInv, UniqueInv
<1>6. f \in Injection(1..(n + 1), next..(next + Window - 1))
  <2>1. \A i \in 1..(n + 1) : i = n + 1 \/ i \in 1..n
    BY <1>1
  <2> HIDE DEF n
  <2> QED
    BY <1>2, <1>3, <1>4, <1>5, <2>1 DEF Injection, IsInjective
<1>7. /\ IsFiniteSet(next..(next + Window - 1)) /\ Cardinality(next..(next + Window - 1)) <= Window
      /\ Cardinality(1..(n + 1)) = n + 1
  <2>1. next \in Int /\ next + Window - 1 \in Int /\ 1 \in Int /\ n + 1 \in Int /\ ~(1 > n + 1) /\ n + 1 - 1 + 1 = n + 1
    BY <1>1, WindowType
  <2>2. Cardinality(1..(n + 1)) = n + 1
    BY <2>1, FS_Interval
  <2>3. PICK b \in Int : b = next + Window - 1
    BY <2>1
  <2>4. IsFiniteSet(next..b) /\ Cardinality(next..b) = IF next > b THEN 0 ELSE b - next + 1
    BY <2>1, FS_Interval
  <2>5. IsFiniteSet(next..b) /\ Cardinality(next..b) <= Window
    BY <1>1, <2>3, <2>4, WindowType
  <2> QED
    BY <2>2, <2>3, <2>5
<1> HIDE DEF f
<1>8. Cardinality(1..(n + 1)) <= Cardinality(next..(next + Window - 1))
  BY <1>6, <1>7, FS_Injection
<1> QED
  BY <1>1, <1>7, <1>8, WindowType, FS_CardinalityType

(* What resultChan holds after a send, and before a receive.               *)
LEMMA AppendRange ==
  ASSUME NEW c \in Seq(Outcome), NEW s \in Outcome
  PROVE  {Append(c, s)[i] : i \in DOMAIN Append(c, s)} = {c[i] : i \in DOMAIN c} \cup {s}
<1> DEFINE d == Append(c, s)
<1>1. PICK n \in Nat : n = Len(c)
  OBVIOUS
<1>2. DOMAIN c = 1..n /\ DOMAIN d = 1..(n + 1) /\ d[n + 1] = s /\ \A i \in 1..n : d[i] = c[i]
  BY <1>1
<1>3. 1..(n + 1) = (1..n) \cup {n + 1}
  BY <1>1
<1> HIDE DEF d
<1>4. {d[i] : i \in DOMAIN d} = {c[i] : i \in DOMAIN c} \cup {s}
  BY <1>2, <1>3
<1> QED
  BY <1>4 DEF d

LEMMA TailRange ==
  ASSUME NEW c \in Seq(Outcome), c # <<>>
  PROVE  {c[i] : i \in DOMAIN c} = {Tail(c)[i] : i \in DOMAIN Tail(c)} \cup {Head(c)}
<1> DEFINE d == Tail(c)
<1>1. PICK n \in Nat : n + 1 = Len(c)
  OBVIOUS
<1>2. DOMAIN c = 1..(n + 1) /\ DOMAIN d = 1..n /\ Head(c) = c[1] /\ \A i \in 1..n : d[i] = c[i + 1]
  BY <1>1
<1>3. \A i \in 1..(n + 1) : i = 1 \/ (i - 1 \in 1..n /\ i = (i - 1) + 1)
  BY <1>1
<1>4. 1 \in 1..(n + 1) /\ \A i \in 1..n : i + 1 \in 1..(n + 1)
  BY <1>1
<1> HIDE DEF d
<1>5. ASSUME NEW i \in DOMAIN c PROVE c[i] \in {d[k] : k \in DOMAIN d} \cup {Head(c)}
  <2>1. CASE i # 1
    <3>1. i - 1 \in DOMAIN d /\ d[i - 1] = c[i]
      BY <1>2, <1>3, <2>1
    <3> QED
      BY <3>1
  <2> QED
    BY <1>2, <2>1
<1>6. ASSUME NEW k \in DOMAIN d PROVE d[k] \in {c[i] : i \in DOMAIN c}
  BY <1>2, <1>4
<1>7. Head(c) \in {c[i] : i \in DOMAIN c}
  BY <1>2, <1>4
<1> QED
  BY <1>5, <1>6, <1>7 DEF d

(* The records of a set of outcomes.                                       *)
Records == [o \in Outcome |-> o.records]

LEMMA RecordSum ==
  ASSUME NEW S \in SUBSET Outcome, IsFiniteSet(S)
  PROVE  MapThenSumSet(LAMBDA o : o.records, S) = SumOf(Records, S)
<1> DEFINE Sums(f) == f = [s \in SUBSET S |-> IF s = {} THEN 0 ELSE Picked(s).records + f[s \ {Picked(s)}]]
<1>1. MapThenSumSet(LAMBDA o : o.records, S) = (CHOOSE f : Sums(f))[S]
  BY Zenon DEF MapThenSumSet, MapThenFoldSet, Picked
<1>2. ASSUME NEW f PROVE Sums(f) <=> Solves(Records, f, S)
  <2>1. \A s \in SUBSET S : s # {} => Records[Picked(s)] = Picked(s).records
    BY DEF Picked, Records
  <2> QED
    BY <2>1 DEF Solves
<1>3. \E f : Sums(f)
  BY <1>2, SumRecursion
<1>4. PICK e : e = CHOOSE f : Sums(f)
  OBVIOUS
<1>5. Sums(e)
  <2> HIDE DEF Sums
  <2> QED
    BY <1>3, <1>4, Zenon
<1>6. Solves(Records, e, S)
  BY <1>2, <1>5
<1> HIDE DEF Sums
<1>7. e[S] = SumOf(Records, S)
  BY <1>6, SumRecursion
<1> QED
  BY <1>1, <1>4, <1>7

(* While the counter is exact.                                             *)
Exact == ~CtxDone /\ dpc \notin {"stop", "join"}

(* A drain that has stopped has canceled the context, and an input that is *)
(* not built has no records yet.                                           *)
CountInv ==
    /\ dpc \in {"join", "returned"} => CtxDone
    /\ \A w \in Workers : wpc[w] \in {"prepare", "build"} => wjob[w].records = 0
    /\ Exact => inFlight = SumOf(Records, Held)

LEMMA CountStep ==
  ASSUME TypeInv, WindowInv, CountInv, [Next]_vars, TypeInv', WindowInv'
  PROVE  CountInv'
<1> USE DispatchAssumption
<1>0. /\ Held \subseteq Outcome /\ IsFiniteSet(Held) /\ Held' \subseteq Outcome /\ IsFiniteSet(Held')
      /\ \A o, p \in Held : o.idx = p.idx => o = p
      /\ Records \in [Outcome -> Nat] /\ \A o \in Outcome : Records[o] = o.records
      /\ results \in Seq(Outcome) /\ pending \subseteq Outcome
      /\ wjob \in [Workers -> Outcome] /\ inFlight \in Int
      /\ wpc \in [Workers -> {"idle", "prepare", "build", "send", "done"}]
  <2>1. Held \subseteq Outcome /\ IsFiniteSet(Held) /\ Held' \subseteq Outcome /\ IsFiniteSet(Held')
    BY HeldFinite, HeldFinitePrime
  <2>2. \A o, p \in Held : o.idx = p.idx => o = p
    BY InFlightUnique DEF InFlightWithinWindow
  <2>3. Records \in [Outcome -> Nat] /\ \A o \in Outcome : Records[o] = o.records
    BY DEF Records, Outcome
  <2> QED
    BY <2>1, <2>2, <2>3 DEF TypeInv, TypeOK
<1>1. ASSUME NEW w \in Workers, Handoff(w) PROVE CountInv'
  <2>1. /\ wpc' = [wpc EXCEPT ![w] = wpc'[w]] /\ wpc'[w] \in {"prepare", "build"} /\ wpc[w] = "idle"
        /\ wjob' = [wjob EXCEPT ![w] = Unbuilt(fidx)] /\ Unbuilt(fidx).records = 0 /\ Unbuilt(fidx).idx = fidx
        /\ UNCHANGED <<results, pending, inFlight, dpc, ctx>>
    BY <1>0, <1>1 DEF Handoff, Unbuilt, drainVars
  <2>2. Held' = Held \cup {Unbuilt(fidx)}
    BY <1>0, <2>1 DEF Held
  <2>3. Unbuilt(fidx) \notin Held
    <3>1. \A o \in Held : InRange(o)
      <4>1. DOMAIN results = 1..Len(results)
        BY <1>0
      <4> QED
        BY <4>1 DEF Held, WindowInv, RangeInv, Active
    <3>2. fidx \in Nat
      BY DEF TypeInv, TypeOK
    <3> QED
      BY <1>0, <2>1, <3>1, <3>2, IdxType DEF InRange
  <2>4. SumOf(Records, Held') = SumOf(Records, Held)
    <3>1. Unbuilt(fidx) \in Outcome \ Held
      BY <1>0, <2>2, <2>3
    <3>2. SumOf(Records, Held \cup {Unbuilt(fidx)}) = SumOf(Records, Held) + Records[Unbuilt(fidx)]
          /\ SumOf(Records, Held) \in Nat
      BY <1>0, <3>1, SumAdd
    <3> QED
      BY <1>0, <2>1, <2>2, <3>1, <3>2
  <2> QED
    BY <1>0, <2>1, <2>4 DEF CountInv, Exact, CtxDone
<1>2. ASSUME NEW w \in Workers, WorkerBuild(w) PROVE CountInv'
  <2>1. PICK o \in BuildOutcomes(wjob[w].idx) :
           wjob' = [wjob EXCEPT ![w] = o] /\ inFlight' = inFlight + o.records
    BY <1>2 DEF WorkerBuild
  <2> DEFINE j == wjob[w]
  <2>2. /\ wpc[w] = "build" /\ wpc' = [wpc EXCEPT ![w] = "send"] /\ UNCHANGED <<results, pending, dpc, ctx>>
        /\ j \in Held /\ j.records = 0 /\ o.idx = j.idx /\ j \in Outcome
    BY <1>0, <1>2, <2>1 DEF WorkerBuild, drainVars, Held, CountInv, BuildOutcomes
  <2>3. Held' = (Held \ {j}) \cup {o}
    <3>1. /\ \A v \in Workers \ {w} : Active(v) => wjob[v] # j
          /\ \A i \in DOMAIN results : results[i] # j
          /\ j \notin pending
      BY <1>0, <2>2, SMTT(30) DEF WindowInv, UniqueInv, Active
    <3> QED
      BY <1>0, <2>1, <2>2, <3>1 DEF Held, Active
  <2>4. o \in Outcome \ (Held \ {j})
    BY <1>0, <2>2, <2>3
  <2>5. SumOf(Records, Held') = SumOf(Records, Held) + o.records
    <3>1. SumOf(Records, Held) = Records[j] + SumOf(Records, Held \ {j}) /\ SumOf(Records, Held) \in Nat
      BY <1>0, <2>2, SumRemove
    <3>2. IsFiniteSet(Held \ {j}) /\ Held \ {j} \in SUBSET Outcome
      BY <1>0, FS_RemoveElement
    <3>3. SumOf(Records, (Held \ {j}) \cup {o}) = SumOf(Records, Held \ {j}) + Records[o]
          /\ SumOf(Records, Held \ {j}) \in Nat
      BY <1>0, <2>4, <3>2, SumAdd
    <3>4. Records[j] = 0 /\ Records[o] = o.records
      BY <1>0, <2>2, <2>4
    <3> QED
      BY <2>3, <3>1, <3>3, <3>4
  <2> QED
    BY <1>0, <2>1, <2>2, <2>5 DEF CountInv, Exact, CtxDone
<1>3. CASE Commit
  <2>1. PICK o \in pending, s \in Outcome,
             err \in {"none", "canceled", "input", "terminal"} : CommitOf(o, s, err)
    BY <1>3, CommitParts DEF TypeInv
  <2>2. /\ pending' = pending \ {o} /\ UNCHANGED <<wpc, wjob, results, ctx>> /\ dpc = "emit"
        /\ (dpc' # "stop" => inFlight' = inFlight - o.records) /\ dpc' \in {"stop", "signal", "release"}
    BY <1>3, <2>1 DEF Commit, CommitOf, workerVars
  <2>3. Held' = Held \ {o}
    <3>1. /\ \A v \in Workers : Active(v) => wjob[v] # o
          /\ \A i \in DOMAIN results : results[i] # o
      BY <1>0 DEF WindowInv, UniqueInv
    <3> QED
      BY <1>0, <2>2, <3>1 DEF Held, Active
  <2>4. SumOf(Records, Held) = o.records + SumOf(Records, Held')
    <3>1. o \in Held
      BY DEF Held
    <3> QED
      BY <1>0, <2>3, <3>1, SumRemove, SMTT(30)
  <2>5. SumOf(Records, Held') \in Nat /\ o.records \in Nat
    BY <1>0, SumRemove DEF Outcome
  <2> QED
    BY <1>0, <2>2, <2>4, <2>5 DEF CountInv, Exact, CtxDone
<1>4. ASSUME Exact' => Exact /\ Held' = Held /\ inFlight' = inFlight,
             \A w \in Workers : wpc'[w] \in {"prepare", "build"} => wpc[w] \in {"prepare", "build"} /\ wjob'[w] = wjob[w],
             dpc' \in {"join", "returned"} => CtxDone'
      PROVE  CountInv'
  BY <1>4 DEF CountInv
<1>5. ASSUME NEW w \in Workers, WorkerAcquire(w) \/ WorkerPrepareCanceled(w) \/ WorkerExit(w) PROVE CountInv'
  <2>1. /\ UNCHANGED <<results, pending, dpc, ctx, inFlight>>
        /\ \A v \in Workers \ {w} : wpc'[v] = wpc[v] /\ wjob'[v] = wjob[v]
        /\ wpc'[w] \in {"prepare", "build"} => wpc[w] \in {"prepare", "build"} /\ wjob'[w] = wjob[w]
        /\ ~CtxDone => wjob'[w] = wjob[w] /\ (Active(w)' <=> Active(w))
    BY <1>0, <1>5 DEF WorkerAcquire, WorkerPrepareCanceled, WorkerExit, drainVars, Active
  <2>2. ~CtxDone => Held' = Held
    <3>1. ~CtxDone => \A v \in Workers : (wpc'[v] \in {"prepare", "build", "send"} <=> wpc[v] \in {"prepare", "build", "send"})
                                         /\ wjob'[v] = wjob[v]
      BY <2>1 DEF Active
    <3> QED
      BY <2>1, <3>1 DEF Held
  <2> QED
    BY <1>4, <2>1, <2>2 DEF Exact, CtxDone, CountInv
<1>6. ASSUME NEW w \in Workers, WorkerSend(w) PROVE CountInv'
  <2>1. /\ results' = Append(results, wjob[w]) /\ wpc[w] = "send" /\ wpc' = [wpc EXCEPT ![w] = "idle"]
        /\ wjob' = [wjob EXCEPT ![w] = NoJob] /\ UNCHANGED <<pending, dpc, ctx, inFlight>>
    BY <1>6 DEF WorkerSend, drainVars
  <2>2. {results'[i] : i \in DOMAIN results'} = {results[i] : i \in DOMAIN results} \cup {wjob[w]}
    <3>1. wjob[w] \in Outcome /\ results \in Seq(Outcome)
      BY <1>0
    <3>2. PICK j \in Outcome : j = wjob[w]
      BY <3>1
    <3>3. {Append(results, j)[i] : i \in DOMAIN Append(results, j)} = {results[i] : i \in DOMAIN results} \cup {j}
      BY <3>1, AppendRange, Zenon
    <3>4. results' = Append(results, j)
      BY <2>1, <3>2
    <3> QED
      BY <3>2, <3>3, <3>4, Zenon
  <2>3. Held' = Held
    <3>1. {wjob'[v] : v \in {u \in Workers : wpc'[u] \in {"prepare", "build", "send"}}} \cup {wjob[w]}
            = {wjob[v] : v \in {u \in Workers : wpc[u] \in {"prepare", "build", "send"}}}
      BY <1>0, <2>1
    <3> HIDE <2>1
    <3>2. pending' = pending
      BY <2>1
    <3> QED
      BY <2>2, <3>1, <3>2 DEF Held
  <2> QED
    BY <1>0, <1>4, <2>1, <2>3 DEF Exact, CtxDone, CountInv
<1>7. CASE DrainReceive
  <2>1. /\ results # <<>> /\ pending' = pending \cup {Head(results)} /\ results' = Tail(results)
        /\ UNCHANGED <<wpc, wjob, inFlight, ctx>> /\ dpc = "recv" /\ dpc' = "emit"
    BY <1>7 DEF DrainReceive, workerVars
  <2>2. {results[i] : i \in DOMAIN results} = {results'[i] : i \in DOMAIN results'} \cup {Head(results)}
    BY <1>0, <2>1, TailRange, ZenonT(40)
  <2>3. Held' = Held
    BY <2>1, <2>2 DEF Held
  <2> QED
    BY <1>4, <2>1, <2>3 DEF Exact, CtxDone
<1>8. CASE DrainCanceled \/ EmitNotReady \/ SignalFreed \/ ReleaseSlot \/ Stop \/ Join \/ CancelParent
             \/ Feeder \/ UNCHANGED vars
  <2>1. /\ UNCHANGED <<wpc, wjob, results, pending, inFlight>>
        /\ (Exact' => Exact) /\ (dpc' \in {"join", "returned"} => CtxDone')
    BY <1>8 DEF DrainCanceled, EmitNotReady, SignalFreed, ReleaseSlot, Stop, Join, CancelParent, Feeder,
                FeederCheckCeiling, FeederWake, FeederTakeSlot, FeederCanceled, vars, Exact, CtxDone, CountInv,
                workerVars, feederVars, drainVars
  <2>2. Held' = Held
    BY <2>1 DEF Held
  <2> QED
    BY <1>4, <2>1, <2>2
<1> QED
  BY <1>1, <1>2, <1>3, <1>5, <1>6, <1>7, <1>8 DEF Next, WorkerStep, Drain, Terminated

(* The ceiling.  An input that is scheduled adds at most Largest records,  *)
(* and the feeder looked at the counter before it scheduled one: so the    *)
(* records built, and the most that can still be built of what is already  *)
(* scheduled, stay below the ceiling and one input for each worker and the *)
(* feeder.                                                                 *)
Largest == Max({content[i].records : i \in Inputs})
Unfinished == {w \in Workers : wpc[w] \in {"prepare", "build"}}
Passed == IF fpc \in {"slot", "send"} THEN 1 ELSE 0
CeilingInv ==
    inFlight + (Cardinality(Unfinished) + Passed) * Largest
        < MaxInFlightRecords + (Cardinality(Workers) + 1) * Largest

LEMMA LargestBounds ==
  ASSUME TypeOK
  PROVE  Largest \in Nat /\ \A i \in Inputs : content[i].records \in Nat /\ content[i].records <= Largest
<1> DEFINE S == {content[i].records : i \in Inputs}
<1> DEFINE f == [i \in Inputs |-> content[i].records]
<1>1. \A i \in Inputs : content[i].records \in Nat
  BY ContentType DEF Content
<1>2. S \subseteq Nat /\ S # {}
  BY <1>1, DispatchAssumption DEF Inputs
<1>3. IsFiniteSet(Inputs)
  BY FS_Interval, DispatchAssumption DEF Inputs
<1>4. f \in Surjection(Inputs, S)
  BY DEF Surjection
<1>5. IsFiniteSet(S)
  <2> HIDE DEF f, S
  <2> QED
    BY <1>3, <1>4, FS_Surjection
<1>6. Max(S) \in S /\ \A x \in S : x <= Max(S)
  <2> HIDE DEF S
  <2> QED
    BY <1>2, <1>5, GreatestElement
<1> QED
  BY <1>1, <1>2, <1>6 DEF Largest

LEMMA Count ==
  ASSUME TypeOK
  PROVE  /\ IsFiniteSet(Unfinished) /\ Cardinality(Unfinished) \in Nat /\ Cardinality(Workers) \in Nat
         /\ Cardinality(Unfinished) <= Cardinality(Workers)
<1>1. Unfinished \in SUBSET Workers
  BY DEF Unfinished
<1> QED
  BY <1>1, FS_Subset, FS_CardinalityType, DispatchAssumption

LEMMA Times ==
  ASSUME NEW a \in Nat, NEW b \in Nat, NEW r \in Nat
  PROVE  /\ a * r \in Nat /\ (a + 1) * r = a * r + r /\ (a <= b => a * r <= b * r)
  OBVIOUS

LEMMA CeilingStep ==
  ASSUME TypeInv, CeilingInv, [Next]_vars, TypeInv'
  PROVE  CeilingInv'
<1> DEFINE n == Cardinality(Unfinished)
<1> DEFINE W == Cardinality(Workers)
<1>0. /\ Largest \in Nat /\ n \in Nat /\ W \in Nat /\ n <= W /\ inFlight \in Int /\ inFlight' \in Int
      /\ IsFiniteSet(Unfinished) /\ MaxInFlightRecords \in Nat
      /\ wpc \in [Workers -> {"idle", "prepare", "build", "send", "done"}] /\ wjob \in [Workers -> Outcome]
  BY LargestBounds, Count, DispatchAssumption DEF TypeInv, TypeOK
<1>1. content' = content /\ Largest' = Largest
  <2>1. content' = content
    BY DEF Next, vars, Feeder, FeederCheckCeiling, FeederWake, FeederTakeSlot, FeederCanceled, CancelParent,
           Handoff, WorkerStep, WorkerAcquire, WorkerPrepareCanceled, WorkerBuild, WorkerSend, WorkerExit,
           Drain, DrainReceive, DrainCanceled, EmitNotReady, Commit, SignalFreed, ReleaseSlot, Stop, Join, Terminated
  <2> QED
    BY <2>1 DEF Largest
<1>2. Passed \in {0, 1} /\ Passed' \in {0, 1} /\ IsFiniteSet(Unfinished') /\ Cardinality(Unfinished') \in Nat
  <2>1. Unfinished' \in SUBSET Workers
    BY DEF Unfinished
  <2> QED
    BY <2>1, FS_Subset, FS_CardinalityType, DispatchAssumption DEF Passed
(* Nothing is added, and no more is to come.                               *)
<1>3. ASSUME inFlight' <= inFlight, Unfinished' \subseteq Unfinished, Passed' <= Passed PROVE CeilingInv'
  <2>1. Cardinality(Unfinished') <= n
    BY <1>0, <1>3, FS_Subset
  <2>2. Cardinality(Unfinished') + Passed' <= n + Passed /\ n + Passed \in Nat
        /\ Cardinality(Unfinished') + Passed' \in Nat
    BY <1>0, <1>2, <1>3, <2>1
  <2>3. (Cardinality(Unfinished') + Passed') * Largest <= (n + Passed) * Largest
    BY <1>0, <2>2, Times
  <2>4. (Cardinality(Unfinished') + Passed') * Largest \in Nat /\ (n + Passed) * Largest \in Nat
        /\ (W + 1) * Largest \in Nat
    BY <1>0, <2>2, Times
  <2> QED
    BY <1>0, <1>1, <1>3, <2>3, <2>4 DEF CeilingInv
<1>4. CASE FeederCheckCeiling
  <2>1. UNCHANGED <<inFlight, wpc>> /\ (Passed' = 1 => inFlight < MaxInFlightRecords)
    BY <1>0, <1>4 DEF FeederCheckCeiling, workerVars, Passed
  <2>2. Unfinished' = Unfinished
    BY <2>1 DEF Unfinished
  <2>3. CASE Passed' = 1
    <3>1. (n + 1) * Largest <= (W + 1) * Largest /\ (n + 1) * Largest \in Nat /\ (W + 1) * Largest \in Nat
      <4>1. n + 1 \in Nat /\ W + 1 \in Nat /\ n + 1 <= W + 1
        BY <1>0
      <4> QED
        BY <1>0, <4>1, Times
    <3> QED
      BY <1>0, <1>1, <2>1, <2>2, <2>3, <3>1 DEF CeilingInv
  <2>4. CASE Passed' = 0
    BY <1>0, <1>2, <1>3, <2>1, <2>2, <2>4
  <2> QED
    BY <1>2, <2>3, <2>4
<1>5. ASSUME NEW w \in Workers, Handoff(w) PROVE CeilingInv'
  <2>1. inFlight' = inFlight /\ Passed = 1 /\ Passed' = 0
    BY <1>5 DEF Handoff, Passed
  <2>2. Unfinished' = Unfinished \cup {w} /\ w \notin Unfinished
    BY <1>0, <1>5 DEF Handoff, Unfinished
  <2>3. Cardinality(Unfinished') = n + 1
    BY <1>0, <2>2, FS_AddElement
  <2> QED
    BY <1>0, <1>1, <2>1, <2>3 DEF CeilingInv
<1>6. ASSUME NEW w \in Workers, WorkerBuild(w) PROVE CeilingInv'
  <2>1. PICK o \in BuildOutcomes(wjob[w].idx) : inFlight' = inFlight + o.records
    BY <1>6 DEF WorkerBuild
  <2>2. o.records \in Nat /\ o.records <= Largest
    <3>1. wjob[w].idx \in Inputs
      BY <1>0 DEF Outcome
    <3>2. PICK c \in Nat : c = content[wjob[w].idx].records /\ c <= Largest
      BY <3>1, LargestBounds DEF TypeInv
    <3>3. o.records = c \/ o.records \in 0..c
      BY <2>1, <3>2 DEF BuildOutcomes
    <3> QED
      BY <1>0, <3>2, <3>3
  <2>3. Unfinished' = Unfinished \ {w} /\ w \in Unfinished
    BY <1>0, <1>6 DEF WorkerBuild, Unfinished
  <2>4. Cardinality(Unfinished') = n - 1 /\ n - 1 \in Nat
    BY <1>0, <1>2, <2>3, FS_RemoveElement
  <2>5. Passed' = Passed
    BY <1>6 DEF WorkerBuild, feederVars, Passed
  <2>6. (n + Passed) * Largest = (n - 1 + Passed) * Largest + Largest
        /\ (n - 1 + Passed) * Largest \in Nat /\ (W + 1) * Largest \in Nat
    <3>1. PICK k \in Nat : k = n - 1 + Passed /\ n + Passed = k + 1
      BY <1>0, <1>2, <2>4
    <3> QED
      BY <1>0, <3>1, Times
  <2> QED
    BY <1>0, <1>1, <2>1, <2>2, <2>4, <2>5, <2>6 DEF CeilingInv
<1>7. CASE Commit
  <2>1. PICK o \in pending, s \in Outcome,
             err \in {"none", "canceled", "input", "terminal"} : CommitOf(o, s, err)
    BY <1>7, CommitParts DEF TypeInv
  <2>2. o.records \in Nat /\ inFlight' \in {inFlight, inFlight - o.records}
    BY <2>1 DEF CommitOf, Outcome
  <2>3. Unfinished' = Unfinished /\ Passed' = Passed
    BY <1>7 DEF Commit, workerVars, feederVars, Unfinished, Passed
  <2> QED
    BY <1>0, <1>2, <1>3, <2>2, <2>3
<1>8. ASSUME NEW w \in Workers,
             WorkerAcquire(w) \/ WorkerPrepareCanceled(w) \/ WorkerSend(w) \/ WorkerExit(w) PROVE CeilingInv'
  <2>1. inFlight' = inFlight /\ Unfinished' \subseteq Unfinished /\ Passed' = Passed
    BY <1>0, <1>8 DEF WorkerAcquire, WorkerPrepareCanceled, WorkerSend, WorkerExit, feederVars, Unfinished, Passed
  <2> QED
    BY <1>0, <1>2, <1>3, <2>1
<1>9. CASE FeederWake \/ FeederTakeSlot \/ FeederCanceled \/ DrainReceive \/ DrainCanceled \/ EmitNotReady
             \/ SignalFreed \/ ReleaseSlot \/ Stop \/ Join \/ CancelParent \/ UNCHANGED vars
  <2>1. inFlight' = inFlight /\ wpc' = wpc /\ Passed' <= Passed
    BY <1>9 DEF FeederWake, FeederTakeSlot, FeederCanceled, DrainReceive, DrainCanceled, EmitNotReady, SignalFreed,
                ReleaseSlot, Stop, Join, CancelParent, vars, workerVars, feederVars, Passed
  <2>2. Unfinished' = Unfinished
    BY <2>1 DEF Unfinished
  <2> QED
    BY <1>0, <1>3, <2>1, <2>2
<1> QED
  BY <1>4, <1>5, <1>6, <1>7, <1>8, <1>9 DEF Next, WorkerStep, Drain, Feeder, Terminated

LEMMA LookAheadInit == Init => CountInv /\ CeilingInv
<1> SUFFICES ASSUME Init PROVE CountInv /\ CeilingInv
  OBVIOUS
<1>1. TypeOK
  BY TypeInit DEF TypeInv
<1>2. CountInv
  <2>1. Held = {}
    BY DEF Init, Held
  <2> QED
    BY <2>1, SumEmpty DEF Init, CountInv, Exact
<1>3. CeilingInv
  <2>1. Unfinished = {} /\ Passed = 0 /\ inFlight = 0
    BY DEF Init, Unfinished, Passed
  <2>2. Cardinality(Unfinished) = 0
    BY <2>1, FS_EmptySet
  <2>3. (Cardinality(Workers) + 1) * Largest \in Nat /\ 0 * Largest = 0 /\ Largest \in Nat
    <3>1. Cardinality(Workers) + 1 \in Nat
      BY <1>1, Count
    <3> QED
      BY <1>1, <3>1, LargestBounds, Times
  <2> QED
    BY <2>1, <2>2, <2>3, DispatchAssumption DEF CeilingInv
<1> QED
  BY <1>2, <1>3

(* What the dispatch holds ahead of the committer is bounded, for any      *)
(* number of inputs and workers: a built outcome always finds room in      *)
(* resultChan, inFlightRecords is exact until the run is stopped, and the  *)
(* ceiling is overshot by at most one input for each worker and the feeder *)
(* (processInputsConcurrentWorkers).                                       *)
THEOREM LookAheadHeld == Spec => []LookAheadBounded
<1>1. TypeInv /\ WindowInv /\ CountInv /\ CeilingInv => LookAheadBounded
  <2> SUFFICES ASSUME TypeInv, WindowInv, CountInv, CeilingInv PROVE LookAheadBounded
    OBVIOUS
  <2>1. RecordAccounting
    <3>1. MapThenSumSet(LAMBDA o : o.records, Held) = SumOf(Records, Held)
      BY HeldFinite, RecordSum, Zenon
    <3>2. CtxDone \/ dpc \in {"stop", "join"} \/ inFlight = SumOf(Records, Held)
      BY DEF CountInv, Exact
    <3>3. CtxDone \/ dpc \in {"stop", "join"} \/ inFlight = MapThenSumSet(LAMBDA o : o.records, Held)
      BY <3>1, <3>2, Zenon
    <3> QED
      BY <3>3, Zenon DEF RecordAccounting
  <2>2. CeilingOvershoot
    <3>1. TypeOK /\ inFlight \in Int /\ Cardinality(Unfinished) + Passed \in Nat /\ Largest \in Nat
          /\ Cardinality(Workers) + 1 \in Nat /\ MaxInFlightRecords \in Nat
      BY Count, LargestBounds, DispatchAssumption DEF TypeInv, TypeOK, Passed
    <3>2. (Cardinality(Unfinished) + Passed) * Largest \in Nat /\ (Cardinality(Workers) + 1) * Largest \in Nat
      BY <3>1, Times
    <3>3. inFlight < MaxInFlightRecords + (Cardinality(Workers) + 1) * Largest
      BY <3>1, <3>2 DEF CeilingInv
    <3> QED
      BY <3>3 DEF CeilingOvershoot, Largest
  <2> QED
    BY <2>1, <2>2, RoomToSend DEF LookAheadBounded
<1>2. Init => TypeInv /\ WindowInv /\ CountInv /\ CeilingInv
  BY TypeInit, WindowInit, LookAheadInit
<1>3. TypeInv /\ WindowInv /\ CountInv /\ CeilingInv /\ [Next]_vars
        => TypeInv' /\ WindowInv' /\ CountInv' /\ CeilingInv'
  BY TypeStep, WindowStep, CountStep, CeilingStep
<1> QED
  BY <1>1, <1>2, <1>3, PTL DEF Spec
==============================================================================
