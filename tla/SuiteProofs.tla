------------------------------ MODULE SuiteProofs ------------------------------
(***************************************************************************)
(* Proofs about the components that one run of TLC checks side by side     *)
(* (MCSuite), which share no state:                                        *)
(*                                                                         *)
(*   1. an extract command (ExtractRun) and its declared inputs            *)
(*      (InputIdentity): for every number of inputs, every command line,   *)
(*      every file list, and any number of failing steps and of changes    *)
(*      other programs make to the files;                                  *)
(*   2. the run slot of a run id (ProcessCard), for every set of processes *)
(*      and every number of attempts, deaths and failing file operations,  *)
(*      and the event stream written into it (EventStream), for every      *)
(*      number of progress events and ticks and every set of artifacts;    *)
(*   3. sequential operators, for every input: external fields and source  *)
(*      paths (FieldScope), index headers, streams, records and            *)
(*      verification (IndexFormat), the plan of an extract-multi run       *)
(*      (MultiPlan);                                                       *)
(*   4. the record index's build (IndexBuild), for any number of records,  *)
(*      edits of the source and failing file operations: the invariant     *)
(*      says, for every step of the build, where the old and the new files *)
(*      of each writer are, which is what a process that dies there leaves *)
(*      behind.                                                            *)
(***************************************************************************)
EXTENDS ExtractRun, InputIdentity, ProcessCard, EventStream, MultiPlan, IndexFormat, IndexBuild,
        FiniteSetTheorems, SequenceTheorems, TLAPS

-------------------------------------------------------------------------------
(* The inductive invariant of ExtractRun.                                  *)

XEarly == {"options", "resolve", "discover", "preview", "acquire", "route", "read",
           "index", "source", "floors", "indexed"}
XStagesOf == XEarly \cup {"collect", "write", "finish", "done"}
XAnyAnswer == {"applied", "notApplicable", "failed", "errorUnmarked", "plain", "mismatched"}

XTypeOK ==
    /\ xOpts \in XLines /\ xPc \in XStagesOf /\ xAt \in Nat \ {0} /\ xCohort \in 0..XInputs
    /\ xIn \in {"none", "open", "closed"} /\ xOut \in {"none", "open", "closed"}
    /\ xResults \in Seq(XAnyAnswer) /\ xWrites \subseteq (1..XInputs) \X XFormats
    /\ xLedger \in Seq((1..XInputs) \X XAnyAnswer) /\ xListed \in Seq((1..XInputs) \X XFormats)
    /\ xFailures \in Seq(1..XInputs) /\ xApplied \in Nat
    /\ xDisp \in Seq((1..XInputs) \X XAnyAnswer) /\ xProfile \in [1..XInputs -> Nat]
    /\ xFirst \in BOOLEAN /\ xFaults \in Nat

(* The route a stage belongs to, and where the run is on it.               *)
XPlace ==
    /\ xPc \notin {"options", "done"} => ~XRefused(xOpts)
    /\ xPc \in {"index", "source", "floors", "indexed"} => xOpts.index
    /\ xPc \in {"resolve", "discover", "preview", "acquire", "route", "read", "collect"} => ~xOpts.index
    /\ xPc = "preview" => xOpts.dry
    /\ xPc \in {"source", "floors", "indexed"} => xAt = 1 /\ xCohort = 1
    /\ xPc = "write" => xAt \in XCohort /\ (xOpts.index => xCohort = 1)
    /\ xPc = "read" => Len(xResults) = xAt - 1 /\ xAt <= xCohort + 1
    /\ xPc \in {"collect", "write"} /\ ~xOpts.index => Len(xResults) = xCohort
    /\ xPc = "collect" => xAt <= xCohort + 1
    /\ xPc \in {"options", "resolve", "discover", "preview", "acquire", "route"} => xResults = <<>>
    /\ xPc # "done" => xExit = "running"

(* Only the input that is being read has a snapshot.                       *)
XSnapped ==
    /\ xPc \notin {"read", "done"} => xSnap = {}
    /\ xPc = "read" => xSnap \subseteq {xAt} \cap (XCohort \ xMissed)

(* What the books say when the first n inputs are settled, m of them in    *)
(* the ledger.                                                             *)
XClean == xFailures = <<>> /\ ~xFirst
XProfiled(n) ==
    \A i \in 1..XInputs : /\ xProfile[i] <= 1
                          /\ xProfile[i] = 1 => i <= n /\ (xOpts.out => \A f \in xOpts.formats : <<i, f>> \in xWrites)
                          /\ XClean /\ i <= n => xProfile[i] = 1
XLedgered(m) == XClean /\ XManifest => {xLedger[k][1] : k \in DOMAIN xLedger} = 1..m
XCounted(n) == /\ xOpts.cont /\ ~xOpts.index => xApplied + Len(xFailures) = n
               /\ xOpts.index => xFailures = <<>>
XDisposed(m) ==
    xOpts.app => \A i \in 1..m : (\E k \in DOMAIN xDisp : xDisp[k][1] = i) \/ xResults[i] = "errorUnmarked"
XSettled(n, m) == XProfiled(n) /\ XLedgered(m) /\ XCounted(n) /\ XDisposed(m)
XListedExactly ==
    XManifest => {xListed[k] : k \in DOMAIN xListed} = xWrites /\ Len(xListed) = Cardinality(xWrites)

XBooks ==
    /\ xPc \in XEarly => /\ xWrites = {} /\ xLedger = <<>> /\ xListed = <<>> /\ xFailures = <<>>
                         /\ xApplied = 0 /\ xDisp = <<>> /\ (\A i \in 1..XInputs : xProfile[i] = 0)
                         /\ ~xFirst
    /\ xPc = "collect" => XSettled(xAt - 1, xAt - 1)
    /\ xPc = "write" => XSettled(xAt - 1, xAt)
    /\ xPc = "finish" => XSettled(xCohort, xCohort)
    /\ xPc # "done" => XListedExactly
    /\ xPc \notin {"finish", "done"} => xSidecars = {}

(* ExtractReleases and BufferedRunHonest, before copies are left behind    *)
(* and outputs share names: over the writes instead of the files.          *)
XSessionsClosed ==
    xPc = "done" => xIn # "open" /\ xOut # "open" /\ (xSnap # {} => xExit = "snapshotLeft")
XWritesHonest ==
    /\ \A i \in 1..XInputs :
         /\ xProfile[i] <= 1
         /\ xProfile[i] = 1 /\ xOpts.out => \A f \in xOpts.formats : <<i, f>> \in xWrites
    /\ "manifest" \in xSidecars =>
         {xListed[k] : k \in DOMAIN xListed} = xWrites /\ Len(xListed) = Cardinality(xWrites)
    /\ "failures" \in xSidecars => xApplied + Len(xFailures) = xCohort
    /\ "dispositions" \in xSidecars =>
         \A i \in XCohort : (\E k \in DOMAIN xDisp : xDisp[k][1] = i) \/ xResults[i] = "errorUnmarked"
    /\ xExit = "ok" /\ ~xOpts.dry =>
         /\ \A i \in XCohort : xProfile[i] = 1
         /\ XManifest => {xLedger[k][1] : k \in DOMAIN xLedger} = XCohort

XInv == XTypeOK /\ XPlace /\ XSnapped /\ XBooks /\ XSessionsClosed /\ XWritesHonest

-------------------------------------------------------------------------------
(* The run of an extract command.                                          *)

LEMMA XLineFields ==
  ASSUME xOpts \in XLines
  PROVE  /\ xOpts.index \in BOOLEAN /\ xOpts.dry \in BOOLEAN /\ xOpts.cont \in BOOLEAN
         /\ xOpts.app \in BOOLEAN /\ xOpts.floors \in BOOLEAN /\ xOpts.out \in BOOLEAN
         /\ xOpts.manifest \in BOOLEAN /\ xOpts.formats \subseteq XFormats
BY XAssumption

LEMMA XStarts == XInit => XInv
<1> SUFFICES ASSUME XInit PROVE XInv
  OBVIOUS
<1> DEFINE line == (1..XInputs) \X XAnyAnswer
           listing == (1..XInputs) \X XFormats
<1>0. /\ xLedger \in Seq(line) /\ xListed \in Seq(listing) /\ xDisp \in Seq(line)
      /\ xResults \in Seq(XAnyAnswer) /\ xFailures \in Seq(1..XInputs)
  <2> HIDE DEF line, listing
  <2> QED
    BY DEF XInit
<1>a. xProfile \in [1..XInputs -> Nat] /\ xWrites \subseteq listing /\ xCohort \in 0..XInputs
  BY XAssumption DEF XInit
<1>b. /\ xOpts \in XLines /\ xPc \in XStagesOf /\ xAt \in Nat \ {0} /\ xApplied \in Nat /\ xFaults \in Nat
      /\ xFirst \in BOOLEAN /\ xIn \in {"none", "open", "closed"} /\ xOut \in {"none", "open", "closed"}
  <2>1. xOpts \in XLines
    BY DEF XInit
  <2>2. xPc \in XStagesOf
    BY DEF XInit, XStagesOf, XEarly
  <2>3. xAt \in Nat \ {0} /\ xApplied \in Nat /\ xFaults \in Nat
    BY DEF XInit
  <2>4. xFirst \in BOOLEAN
    BY DEF XInit
  <2>5. xIn \in {"none", "open", "closed"} /\ xOut \in {"none", "open", "closed"}
    BY DEF XInit
  <2> QED
    BY <2>1, <2>2, <2>3, <2>4, <2>5
<1>1. XTypeOK
  BY <1>0, <1>a, <1>b DEF XTypeOK
<1>2. XPlace /\ XSnapped
  BY DEF XInit, XPlace, XSnapped
<1>3. XListedExactly
  BY FS_EmptySet DEF XInit, XListedExactly
<1>4. XBooks
  BY <1>3 DEF XInit, XBooks, XEarly
<1>5. XSessionsClosed /\ XWritesHonest
  BY DEF XInit, XSessionsClosed, XWritesHonest
<1> QED
  BY <1>1, <1>2, <1>4, <1>5 DEF XInv

(* While the run is before its sidecars, honest books are honest output.   *)
LEMMA XUnderWay ==
  ASSUME XTypeOK', XPlace', XBooks', XSnapped', xPc' \notin {"finish", "done"}
  PROVE  XInv'
<1>1. xSidecars' = {} /\ xExit' = "running"
  BY DEF XBooks, XPlace
<1>2. \A i \in 1..XInputs :
        /\ xProfile'[i] <= 1
        /\ xProfile'[i] = 1 /\ xOpts'.out => \A f \in xOpts'.formats : <<i, f>> \in xWrites'
  <2>1. CASE xPc' \in XEarly
    BY <2>1 DEF XBooks
  <2>2. CASE xPc' = "collect"
    BY <2>2 DEF XBooks, XSettled, XProfiled
  <2>3. CASE xPc' = "write"
    BY <2>3 DEF XBooks, XSettled, XProfiled
  <2> QED
    BY <2>1, <2>2, <2>3 DEF XTypeOK, XStagesOf
<1>3. XWritesHonest' /\ XSessionsClosed'
  BY <1>1, <1>2 DEF XWritesHonest, XSessionsClosed
<1> QED
  BY <1>3 DEF XInv

(* A return closes the sessions; what it leaves is judged on its own.      *)
LEMMA XReturns ==
  ASSUME XTypeOK, XTypeOK', NEW code, XReturn(code), xSnap' = {} \/ code = "snapshotLeft",
         XWritesHonest'
  PROVE  XInv'
<1>1. xPc' = "done" /\ xExit' = code /\ xIn' # "open" /\ xOut' # "open"
  BY DEF XReturn, XClosed, XTypeOK
<1>2. XPlace'
  BY <1>1 DEF XPlace
<1>3. XSnapped' /\ XBooks' /\ XSessionsClosed'
  BY <1>1 DEF XSnapped, XBooks, XSessionsClosed, XEarly
<1> QED
  BY <1>2, <1>3 DEF XInv

LEMMA XReturnTypes ==
  ASSUME XTypeOK, NEW code, XReturn(code)
  PROVE  xPc' \in XStagesOf /\ xIn' \in {"none", "open", "closed"} /\ xOut' \in {"none", "open", "closed"}
BY DEF XTypeOK, XReturn, XClosed, XStagesOf

(* A return before the sidecars is honest when it says no more than that   *)
(* the run did not succeed.                                                *)
LEMMA XFails ==
  ASSUME XInv, xPc \notin {"finish", "done"}, XTypeOK', NEW code, XReturn(code),
         code = "ok" => xOpts.dry, xSnap' = {} \/ code = "snapshotLeft",
         xOpts' = xOpts, xSidecars' = xSidecars, xProfile' = xProfile, xWrites' = xWrites
  PROVE  XInv'
<1>1. xSidecars' = {} /\ xExit' = code
  BY DEF XInv, XBooks, XReturn
<1>2. XWritesHonest'
  BY <1>1 DEF XInv, XWritesHonest
<1> QED
  BY <1>2, XReturns DEF XInv

LEMMA XCounts ==
  ASSUME XTypeOK, XFine \/ XFaulty
  PROVE  xFaults' \in Nat
BY DEF XTypeOK, XFine, XFaulty

(* Before the first output the books are empty and stay so, whether the    *)
(* run goes on or returns.                                                 *)
XMoves ==
    /\ UNCHANGED <<xOpts, xBook>> /\ (XFine \/ XFaulty)
    /\ xAt' \in Nat \ {0} /\ xCohort' \in 0..XInputs /\ xResults' \in Seq(XAnyAnswer)

LEMMA XMoveTypes ==
  ASSUME XTypeOK, XMoves, xPc' \in XStagesOf,
         xIn' \in {"none", "open", "closed"}, xOut' \in {"none", "open", "closed"}
  PROVE  XTypeOK'
BY XCounts DEF XMoves, XTypeOK, xBook

LEMMA XGoesOn ==
  ASSUME XInv, xPc \in XEarly, xPc' \in XEarly, XMoves,
         xIn' \in {"none", "open", "closed"}, xOut' \in {"none", "open", "closed"},
         XPlace', XSnapped'
  PROVE  XInv'
<1>1. XListedExactly'
  BY DEF XInv, XBooks, XListedExactly, XManifest, XMoves, xBook, XEarly
<1>2. XBooks'
  BY <1>1 DEF XInv, XBooks, XMoves, xBook, XEarly
<1>3. XTypeOK'
  BY XMoveTypes DEF XInv, XStagesOf
<1> QED
  BY <1>2, <1>3, XUnderWay DEF XEarly

LEMMA XReturnsEarly ==
  ASSUME XInv, xPc \in XEarly, XMoves, NEW code, XReturn(code),
         code = "ok" => xOpts.dry, xSnap' = {} \/ code = "snapshotLeft"
  PROVE  XInv'
<1>1. XTypeOK'
  BY XMoveTypes, XReturnTypes DEF XInv
<1> QED
  BY <1>1, XFails DEF XEarly, XMoves, xBook

(* Preflight, resolution and discovery.                                    *)
LEMMA XPreflightKeeps == ASSUME XInv, XPreflight PROVE XInv'
<1>0. /\ xPc = "options" /\ xPc \in XEarly /\ XTypeOK /\ xSnap' = {}
      /\ UNCHANGED <<xOpts, xAt, xCohort, xSnap, xLeft, xMissed, xResults, xBook>>
  BY DEF XInv, XPreflight, XEarly, XSnapped
<1>1. XFine \/ XFaulty
  BY DEF XPreflight
<1>2. CASE XReturn("refused")
  BY <1>0, <1>1, <1>2, XReturnsEarly DEF XMoves, XTypeOK
<1>3. CASE /\ XFine /\ ~XRefused(xOpts) /\ xPc' = (IF xOpts.index THEN "index" ELSE "resolve")
           /\ UNCHANGED <<xIn, xOut, xExit>>
  <2>1. XPlace' /\ XSnapped'
    BY <1>0, <1>3, XLineFields DEF XTypeOK, XInv, XPlace, XSnapped
  <2> QED
    BY <1>0, <1>1, <1>3, <2>1, XGoesOn DEF XMoves, XTypeOK, XEarly
<1> QED
  BY <1>2, <1>3 DEF XPreflight

LEMMA XResolveKeeps == ASSUME XInv, XResolve PROVE XInv'
<1>0. /\ xPc = "resolve" /\ xPc \in XEarly /\ XTypeOK /\ xSnap' = {}
      /\ UNCHANGED <<xOpts, xAt, xCohort, xSnap, xLeft, xMissed, xResults, xBook>>
  BY DEF XInv, XResolve, XEarly, XSnapped
<1>1. XFine \/ XFaulty
  BY DEF XResolve
<1>2. CASE XReturn("refused")
  BY <1>0, <1>1, <1>2, XReturnsEarly DEF XMoves, XTypeOK
<1>3. CASE /\ XFine /\ xPc' = "discover" /\ UNCHANGED <<xOut, xExit>>
           /\ xIn' = (IF xOpts.cloudIn THEN "open" ELSE "none")
  <2>1. XPlace' /\ XSnapped'
    BY <1>0, <1>3 DEF XInv, XPlace, XSnapped
  <2> QED
    BY <1>0, <1>1, <1>3, <2>1, XGoesOn DEF XMoves, XTypeOK, XEarly
<1> QED
  BY <1>2, <1>3 DEF XResolve

LEMMA XDiscoverKeeps == ASSUME XInv, XDiscover PROVE XInv'
<1>0. /\ xPc = "discover" /\ xPc \in XEarly /\ XTypeOK /\ xSnap' = {}
      /\ UNCHANGED <<xOpts, xSnap, xLeft, xMissed, xResults, xBook>>
  BY DEF XInv, XDiscover, XEarly, XSnapped
<1>1. XFine \/ XFaulty
  BY DEF XDiscover
<1>2. CASE XReturn("error") /\ UNCHANGED <<xAt, xCohort>>
  BY <1>0, <1>1, <1>2, XReturnsEarly DEF XMoves, XTypeOK
<1>3. CASE /\ xCohort' \in 0..XInputs /\ xAt' = 1
           /\ xPc' = (IF xOpts.dry THEN "preview" ELSE "acquire") /\ UNCHANGED <<xIn, xOut, xExit>>
  <2>1. XPlace' /\ XSnapped'
    BY <1>0, <1>3, XLineFields DEF XTypeOK, XInv, XPlace, XSnapped
  <2> QED
    BY <1>0, <1>1, <1>3, <2>1, XGoesOn DEF XMoves, XTypeOK, XEarly
<1> QED
  BY <1>2, <1>3 DEF XDiscover, XReturnEarly

LEMMA XPreviewKeeps == ASSUME XInv, XPreview PROVE XInv'
<1>0. /\ xPc = "preview" /\ XTypeOK /\ xSnap' = {} /\ xOpts.dry
      /\ UNCHANGED <<xOpts, xAt, xCohort, xSnap, xLeft, xMissed, xResults, xBook>>
  BY DEF XInv, XPreview, XPlace, XSnapped
<1>1. XFine \/ XFaulty
  BY DEF XPreview
<1>2. PICK code \in {"error", "ok"} : XReturn(code)
  BY DEF XPreview
<1> QED
  BY <1>0, <1>1, <1>2, XReturnsEarly DEF XMoves, XTypeOK, XEarly

LEMMA XAcquireKeeps == ASSUME XInv, XAcquire PROVE XInv'
<1>0. /\ xPc = "acquire" /\ xPc \in XEarly /\ XTypeOK /\ xSnap' = {}
      /\ UNCHANGED <<xOpts, xCohort, xSnap, xLeft, xResults, xBook>>
  BY DEF XInv, XAcquire, XEarly, XSnapped
<1>1. XFine \/ XFaulty
  BY DEF XAcquire
<1>2. CASE XReturn("error") /\ UNCHANGED <<xAt, xMissed>>
  BY <1>0, <1>1, <1>2, XReturnsEarly DEF XMoves, XTypeOK
<1>3. CASE xAt' = xAt + 1 /\ UNCHANGED <<xPc, xIn, xOut, xExit>>
  <2>1. XPlace' /\ XSnapped'
    BY <1>0, <1>3 DEF XInv, XPlace, XSnapped
  <2> QED
    BY <1>0, <1>1, <1>3, <2>1, XGoesOn DEF XMoves, XTypeOK, XEarly
<1> QED
  BY <1>2, <1>3 DEF XAcquire, XReturnEarly

LEMMA XRouteKeeps == ASSUME XInv, XRoute PROVE XInv'
<1>0. /\ xPc = "acquire" /\ xPc \in XEarly /\ XTypeOK /\ xSnap' = {}
      /\ UNCHANGED <<xOpts, xAt, xCohort, xSnap, xLeft, xMissed, xResults, xBook>>
  BY DEF XInv, XRoute, XEarly, XSnapped
<1>1. XFine \/ XFaulty
  BY DEF XRoute
<1>2. CASE XReturn("error")
  BY <1>0, <1>1, <1>2, XReturnsEarly DEF XMoves, XTypeOK
<1>3. CASE /\ UNCHANGED <<xIn, xExit>> /\ xPc' = "route"
           /\ xOut' = (IF xOpts.cloudOut /\ xOpts.out THEN "open" ELSE "none")
  <2>1. XPlace' /\ XSnapped'
    BY <1>0, <1>3 DEF XInv, XPlace, XSnapped
  <2> QED
    BY <1>0, <1>1, <1>3, <2>1, XGoesOn DEF XMoves, XTypeOK, XEarly
<1> QED
  BY <1>2, <1>3 DEF XRoute, XReturnEarly

LEMMA XChooseKeeps == ASSUME XInv, XChoose PROVE XInv'
<1>0. /\ xPc = "route" /\ xPc \in XEarly /\ XTypeOK /\ xSnap' = {}
      /\ UNCHANGED <<xOpts, xCohort, xSnap, xLeft, xMissed, xResults, xBook>> /\ xAt' = 1
  BY DEF XInv, XChoose, XEarly, XSnapped
<1>1. XFine \/ XFaulty
  BY DEF XChoose
<1>2. ASSUME NEW code \in {"error", "delegated"}, XReturn(code) PROVE XInv'
  BY <1>0, <1>1, <1>2, XReturnsEarly DEF XMoves, XTypeOK
<1>3. CASE xPc' = "read" /\ UNCHANGED <<xIn, xOut, xExit>>
  <2>1. XPlace' /\ XSnapped'
    BY <1>0, <1>3 DEF XInv, XPlace, XSnapped, XTypeOK
  <2> QED
    BY <1>0, <1>1, <1>3, <2>1, XGoesOn DEF XMoves, XTypeOK, XEarly
<1> QED
  BY <1>2, <1>3 DEF XChoose

(* The record-index drivers up to the extraction.                          *)
LEMMA XOpenIndexKeeps == ASSUME XInv, XOpenIndex PROVE XInv'
<1>0. /\ xPc = "index" /\ xPc \in XEarly /\ XTypeOK /\ xSnap' = {}
      /\ UNCHANGED <<xOpts, xSnap, xLeft, xMissed, xResults, xBook>> /\ xAt' = 1 /\ xCohort' = 1
      /\ xCohort' \in 0..XInputs
  BY XAssumption DEF XInv, XOpenIndex, XEarly, XSnapped
<1>1. XFine \/ XFaulty
  BY DEF XOpenIndex
<1>2. CASE XReturn("error")
  BY <1>0, <1>1, <1>2, XReturnsEarly DEF XMoves, XTypeOK
<1>3. CASE /\ xPc' = "source" /\ UNCHANGED <<xOut, xExit>>
           /\ xIn' = (IF xOpts.cloudIn THEN "open" ELSE "none")
  <2>1. XPlace' /\ XSnapped'
    BY <1>0, <1>3 DEF XInv, XPlace, XSnapped
  <2> QED
    BY <1>0, <1>1, <1>3, <2>1, XGoesOn DEF XMoves, XTypeOK, XEarly
<1> QED
  BY <1>2, <1>3 DEF XOpenIndex

LEMMA XIndexSourceKeeps == ASSUME XInv, XIndexSource PROVE XInv'
<1>0. /\ xPc = "source" /\ xPc \in XEarly /\ XTypeOK /\ xSnap' = {}
      /\ UNCHANGED <<xOpts, xAt, xCohort, xSnap, xLeft, xMissed, xResults, xBook>>
  BY DEF XInv, XIndexSource, XEarly, XSnapped
<1>1. XFine \/ XFaulty
  BY DEF XIndexSource
<1>2. CASE XReturn("error")
  BY <1>0, <1>1, <1>2, XReturnsEarly DEF XMoves, XTypeOK
<1>3. CASE /\ xPc' = "floors" /\ UNCHANGED <<xIn, xExit>>
           /\ xOut' = (IF xOpts.cloudOut /\ xOpts.out THEN "open" ELSE "none")
  <2>1. XPlace' /\ XSnapped'
    BY <1>0, <1>3 DEF XInv, XPlace, XSnapped
  <2> QED
    BY <1>0, <1>1, <1>3, <2>1, XGoesOn DEF XMoves, XTypeOK, XEarly
<1> QED
  BY <1>2, <1>3 DEF XIndexSource, XReturnEarly

LEMMA XIndexExtractKeeps == ASSUME XInv, XIndexExtract PROVE XInv'
<1>0. /\ xPc = "floors" /\ xPc \in XEarly /\ XTypeOK /\ xSnap' = {}
      /\ UNCHANGED <<xOpts, xAt, xCohort, xSnap, xLeft, xMissed, xResults, xBook>>
  BY DEF XInv, XIndexExtract, XEarly, XSnapped
<1>1. XFine \/ XFaulty
  BY DEF XIndexExtract
<1>2. CASE XReturn("error")
  BY <1>0, <1>1, <1>2, XReturnsEarly DEF XMoves, XTypeOK
<1>3. CASE xPc' = "indexed" /\ UNCHANGED <<xIn, xOut, xExit>>
  <2>1. XPlace' /\ XSnapped'
    BY <1>0, <1>3 DEF XInv, XPlace, XSnapped
  <2> QED
    BY <1>0, <1>1, <1>3, <2>1, XGoesOn DEF XMoves, XTypeOK, XEarly
<1> QED
  BY <1>2, <1>3 DEF XIndexExtract

(* Reading the inputs.                                                     *)
LEMMA XReadAt ==
  ASSUME XInv, xPc = "read"
  PROVE  /\ XTypeOK /\ xPc \in XEarly /\ ~xOpts.index /\ ~XRefused(xOpts) /\ xExit = "running"
         /\ Len(xResults) = xAt - 1 /\ xAt \in Nat \ {0} /\ xAt <= xCohort + 1
         /\ xCohort \in 0..XInputs /\ xResults \in Seq(XAnyAnswer)
         /\ xSnap \subseteq {xAt} \cap (XCohort \ xMissed)
BY DEF XInv, XEarly, XPlace, XTypeOK, XSnapped

(* A result takes the next place of the channel.                           *)
LEMMA XPutKeeps ==
  ASSUME XInv, xPc = "read", xAt \in XCohort, NEW d \in XAnyAnswer, XPut(d), XFine \/ XFaulty,
         xSnap' = {}, UNCHANGED <<xOpts, xPc, xCohort, xIn, xOut, xMissed, xBook, xExit>>
  PROVE  XInv'
<1>1. /\ xResults' \in Seq(XAnyAnswer) /\ Len(xResults') = xAt' - 1
      /\ xAt' \in Nat \ {0} /\ xAt' <= xCohort' + 1
  BY XReadAt, XAssumption DEF XPut, XCohort
<1>2. XPlace' /\ XSnapped'
  BY <1>1, XReadAt DEF XPlace, XSnapped
<1> QED
  BY <1>1, <1>2, XReadAt, XGoesOn DEF XMoves, XTypeOK

LEMMA XReadRefusedKeeps == ASSUME XInv, XReadRefused PROVE XInv'
<1>1. xPc = "read" /\ xAt \in XCohort /\ (XFine \/ XFaulty) /\ XPut("failed")
      /\ UNCHANGED <<xOpts, xPc, xCohort, xIn, xOut, xMissed, xBook, xExit>>
  BY DEF XReadRefused
<1>2. xSnap' = {}
  BY <1>1, XReadAt DEF XReadRefused
<1> QED
  BY <1>1, <1>2, XPutKeeps DEF XAnyAnswer

LEMMA XSnapshotKeeps == ASSUME XInv, XSnapshot PROVE XInv'
<1>1. /\ xPc = "read" /\ xAt \in XCohort \ xMissed /\ XFine /\ xSnap' = xSnap \cup {xAt}
      /\ UNCHANGED <<xOpts, xPc, xAt, xCohort, xIn, xOut, xMissed, xResults, xBook, xExit>>
  BY DEF XSnapshot
<1>2. XPlace' /\ XSnapped'
  BY <1>1, XReadAt DEF XPlace, XSnapped, XCohort
<1> QED
  BY <1>1, <1>2, XReadAt, XGoesOn DEF XMoves, XTypeOK

LEMMA XReadKeeps == ASSUME XInv, XRead PROVE XInv'
<1>0. /\ xPc = "read" /\ xAt \in XCohort /\ (XFine \/ XFaulty)
      /\ UNCHANGED <<xOpts, xCohort, xMissed, xBook>>
  BY DEF XRead
<1>1. ASSUME NEW d \in XAnyAnswer, xSnap' = {}, XPut(d), UNCHANGED <<xPc, xIn, xOut, xExit>>
      PROVE  XInv'
  BY <1>0, <1>1, XPutKeeps
<1>2. ASSUME NEW code \in {"error", "snapshotLeft"}, XReturn(code), UNCHANGED <<xAt, xResults>>,
             xSnap' = {} \/ code = "snapshotLeft"
      PROVE  XInv'
  BY <1>0, <1>2, XReadAt, XReturnsEarly DEF XMoves
<1>3. XAnswers \subseteq XAnyAnswer /\ "failed" \in XAnyAnswer
  BY DEF XAnswers, XAnyAnswer
<1>4. CASE xSnap' = {} /\ XPut("failed") /\ UNCHANGED <<xPc, xIn, xOut, xExit>>
  BY <1>1, <1>3, <1>4
<1>5. CASE xSnap' = {} /\ (\E d \in XAnswers : XPut(d)) /\ UNCHANGED <<xPc, xIn, xOut, xExit>>
  BY <1>1, <1>3, <1>5
<1>6. CASE xSnap' = {} /\ XReturn("error") /\ UNCHANGED <<xAt, xResults>>
  BY <1>2, <1>6
<1>7. CASE XReturn("snapshotLeft") /\ UNCHANGED <<xAt, xResults>>
  BY <1>2, <1>7
<1> QED
  BY <1>4, <1>5, <1>6, <1>7 DEF XRead

LEMMA XReadDoneKeeps == ASSUME XInv, XReadDone PROVE XInv'
<1>0. /\ xPc = "read" /\ xAt = xCohort + 1 /\ xPc' = "collect" /\ xAt' = 1
      /\ UNCHANGED <<xOpts, xCohort, xIn, xOut, xSnap, xLeft, xMissed, xResults, xBook, xFaults, xExit>>
  BY DEF XReadDone, xSession
<1>1. XTypeOK'
  BY <1>0, XReadAt DEF XTypeOK, xBook, XStagesOf
<1>2. XPlace' /\ XSnapped'
  BY <1>0, XReadAt DEF XPlace, XSnapped, XCohort
<1>3. /\ xLedger = <<>> /\ xFailures = <<>> /\ xApplied = 0
      /\ (\A i \in 1..XInputs : xProfile[i] = 0) /\ xSidecars = {} /\ XListedExactly
  BY <1>0, XReadAt DEF XInv, XBooks
<1>4. XProfiled(0)' /\ XCounted(0)' /\ XDisposed(0)'
  BY <1>0, <1>3 DEF XProfiled, XCounted, XDisposed, xBook
<1>5. XLedgered(0)'
  <2>1. {xLedger'[k][1] : k \in DOMAIN xLedger'} = {}
    BY <1>0, <1>3 DEF xBook
  <2> QED
    BY <2>1 DEF XLedgered
<1>6. XListedExactly'
  BY <1>0, <1>3 DEF XListedExactly, XManifest, xBook
<1>7. XBooks'
  BY <1>0, <1>3, <1>4, <1>5, <1>6 DEF XBooks, XSettled, XEarly, xBook
<1> QED
  BY <1>0, <1>1, <1>2, <1>7, XUnderWay

(* Settling the results in order.                                          *)
LEMMA XCollectAt ==
  ASSUME XInv, xPc = "collect"
  PROVE  /\ XTypeOK /\ ~xOpts.index /\ ~XRefused(xOpts) /\ xExit = "running" /\ xSnap = {}
         /\ Len(xResults) = xCohort /\ xAt \in Nat \ {0} /\ xAt <= xCohort + 1
         /\ xCohort \in 0..XInputs /\ XInputs \in Nat /\ xResults \in Seq(XAnyAnswer) /\ xSidecars = {}
         /\ XProfiled(xAt - 1) /\ XLedgered(xAt - 1) /\ XCounted(xAt - 1) /\ XDisposed(xAt - 1)
         /\ XListedExactly
<1>1. /\ XTypeOK /\ ~xOpts.index /\ ~XRefused(xOpts) /\ xExit = "running" /\ xSnap = {}
      /\ Len(xResults) = xCohort /\ xAt \in Nat \ {0} /\ xAt <= xCohort + 1
      /\ xCohort \in 0..XInputs /\ XInputs \in Nat /\ xResults \in Seq(XAnyAnswer)
  BY XAssumption DEF XInv, XPlace, XTypeOK, XSnapped
<1>2. XSettled(xAt - 1, xAt - 1) /\ XListedExactly /\ xSidecars = {}
  BY DEF XInv, XBooks
<1> QED
  BY <1>1, <1>2 DEF XSettled

(* A further row of the summary keeps the earlier ones.                    *)
LEMMA XSummarised ==
  ASSUME XInv, xPc = "collect", xAt \in XCohort, NEW n \in Nat, n = xAt, NEW d \in XAnyAnswer,
         xDisp' = Append(xDisp, <<xAt, d>>) \/ (xDisp' = xDisp /\ (~xOpts.app \/ xResults[xAt] = "errorUnmarked")),
         UNCHANGED <<xOpts, xResults>>
  PROVE  XDisposed(n)'
<1> DEFINE rows == (1..XInputs) \X XAnyAnswer
<1>1. xDisp \in Seq(rows) /\ xAt \in Nat \ {0} /\ XDisposed(xAt - 1) /\ <<xAt, d>> \in rows
  BY XCollectAt DEF XTypeOK, XCohort
<1> HIDE DEF rows
<1>2. ASSUME NEW k \in DOMAIN xDisp PROVE k \in DOMAIN xDisp' /\ xDisp'[k] = xDisp[k]
  BY <1>1, <1>2
<1>3. ASSUME xOpts.app, NEW i \in 1..xAt
      PROVE  (\E k \in DOMAIN xDisp' : xDisp'[k][1] = i) \/ xResults[i] = "errorUnmarked"
  <2>1. CASE i \in 1..(xAt - 1)
    BY <1>1, <1>2, <1>3, <2>1 DEF XDisposed
  <2>2. CASE i = xAt /\ xDisp' = Append(xDisp, <<xAt, d>>)
    <3>1. Len(xDisp) + 1 \in DOMAIN xDisp' /\ xDisp'[Len(xDisp) + 1] = <<xAt, d>>
      BY <1>1, <2>2
    <3> QED
      BY <2>2, <3>1
  <2>3. CASE i = xAt /\ xDisp' = xDisp
    BY <1>3, <2>3
  <2> QED
    BY <1>1, <2>1, <2>2, <2>3
<1> QED
  BY <1>3 DEF XDisposed

(* The lines a settled input leaves in the summary, in failures.json and   *)
(* in the ledger.                                                          *)
XLined ==
    /\ UNCHANGED <<xOpts, xCohort, xSnap, xLeft, xMissed, xResults, xWrites, xListed, xApplied, xProfile, xSidecars>>
    /\ XFine \/ XFaulty
    /\ \E d \in XAnyAnswer :
         \/ xDisp' = Append(xDisp, <<xAt, d>>)
         \/ xDisp' = xDisp /\ (~xOpts.app \/ xResults[xAt] = "errorUnmarked")
    /\ \E d \in XAnyAnswer : xLedger' \in {xLedger, Append(xLedger, <<xAt, d>>)}

LEMMA XLinedTypes ==
  ASSUME XInv, xPc = "collect", xAt \in XCohort, XLined, xFailures' \in Seq(1..XInputs),
         xFirst' \in BOOLEAN, xAt' \in Nat \ {0}, xPc' \in XStagesOf,
         xIn' \in {"none", "open", "closed"}, xOut' \in {"none", "open", "closed"}
  PROVE  XTypeOK'
<1> DEFINE rows == (1..XInputs) \X XAnyAnswer
<1>1. \A d \in XAnyAnswer : <<xAt, d>> \in rows
  BY XCollectAt DEF XCohort
<1>2. xDisp \in Seq(rows) /\ xLedger \in Seq(rows)
  BY XCollectAt DEF XTypeOK
<1> HIDE DEF rows
<1>3. xDisp' \in Seq(rows) /\ xLedger' \in Seq(rows)
  <2>1. PICK d \in XAnyAnswer : xDisp' \in {xDisp, Append(xDisp, <<xAt, d>>)}
    BY DEF XLined
  <2>2. PICK e \in XAnyAnswer : xLedger' \in {xLedger, Append(xLedger, <<xAt, e>>)}
    BY DEF XLined
  <2>3. \A s \in Seq(rows), r \in rows : Append(s, r) \in Seq(rows)
    OBVIOUS
  <2> QED
    BY <1>1, <1>2, <2>1, <2>2, <2>3
<1>4. xFaults' \in Nat
  BY XCounts, XCollectAt DEF XLined
<1> QED
  BY <1>3, <1>4, XCollectAt DEF XLined, XTypeOK, rows

LEMMA XFailureMarks ==
  ASSUME XInv, xPc = "collect", xAt \in XCohort, XFailure
  PROVE  /\ xFailures' \in Seq(1..XInputs) /\ xFirst' \in BOOLEAN
         /\ xOpts.cont => Len(xFailures') = Len(xFailures) + 1
         /\ xFailures' # <<>> \/ xFirst'
<1>1. xAt \in 1..XInputs /\ xFailures \in Seq(1..XInputs) /\ xOpts.cont \in BOOLEAN /\ xFirst \in BOOLEAN
  BY XCollectAt, XLineFields DEF XTypeOK, XCohort
<1>2. CASE xOpts.cont
  <2>1. xFailures' = Append(xFailures, xAt)
    BY <1>2 DEF XFailure
  <2>2. xFailures' \in Seq(1..XInputs) /\ Len(xFailures') = Len(xFailures) + 1 /\ Len(xFailures) \in Nat
    BY <1>1, <2>1
  <2>3. xFailures' # <<>>
    BY <2>2
  <2>4. xFirst' \in BOOLEAN
    BY DEF XFailure
  <2> QED
    BY <2>2, <2>3, <2>4
<1>3. CASE ~xOpts.cont
  BY <1>1, <1>3 DEF XFailure
<1> QED
  BY <1>1, <1>2, <1>3

(* A failed input is counted, and is nobody's success.                     *)
LEMMA XFailedSettles ==
  ASSUME XInv, xPc = "collect", xAt \in XCohort, XLined, XFailure, XNextInput
  PROVE  XInv'
<1>0. /\ xAt' = xAt + 1 /\ UNCHANGED <<xPc, xIn, xOut, xExit>> /\ xAt \in Nat
      /\ UNCHANGED <<xOpts, xCohort, xSnap, xLeft, xMissed, xResults, xWrites, xListed, xApplied, xProfile, xSidecars>>
  BY XCollectAt DEF XNextInput, XLined
<1>1. XTypeOK'
  BY <1>0, XCollectAt, XFailureMarks, XLinedTypes, SMTT(30) DEF XTypeOK
<1>2. XPlace' /\ XSnapped'
  BY <1>0, XCollectAt DEF XPlace, XSnapped, XCohort
<1>3. PICK n \in Nat : n = xAt
  BY <1>0
<1>4. ~XClean'
  BY XFailureMarks DEF XClean
<1>5. XProfiled(n)'
  <2> SUFFICES ASSUME NEW i \in 1..XInputs
               PROVE  /\ xProfile[i] <= 1
                      /\ xProfile[i] = 1 => i <= n /\ (xOpts.out => \A f \in xOpts.formats : <<i, f>> \in xWrites)
    BY <1>0, <1>4 DEF XProfiled
  <2> QED
    BY <1>3, XCollectAt DEF XProfiled
<1>6. XCounted(n)'
  <2>1. xFailures \in Seq(1..XInputs) /\ xFailures' \in Seq(1..XInputs) /\ xApplied \in Nat
    BY XCollectAt, XFailureMarks DEF XTypeOK
  <2>2. xOpts.cont => xApplied + Len(xFailures) = n - 1
    BY <1>3, XCollectAt DEF XCounted
  <2>3. xOpts.cont => xApplied + Len(xFailures') = n
    BY <2>1, <2>2, XFailureMarks
  <2> QED
    BY <1>0, <2>3, XCollectAt DEF XCounted
<1>7. XLedgered(n)'
  BY <1>4 DEF XLedgered
<1>8. XDisposed(n)'
  BY <1>0, <1>3, XSummarised DEF XLined
<1>9. XListedExactly' /\ xSidecars' = {}
  BY <1>0, XCollectAt DEF XListedExactly, XManifest
<1>10. XBooks'
  <2>1. xAt' - 1 = n /\ xPc' = "collect"
    BY <1>0, <1>3
  <2>2. XSettled(n, n)'
    BY <1>5, <1>6, <1>7, <1>8 DEF XSettled
  <2>3. XSettled(xAt - 1, xAt - 1)'
    BY <2>1, <2>2
  <2> QED
    BY <1>9, <2>1, <2>3 DEF XBooks, XEarly
<1> QED
  BY <1>0, <1>1, <1>2, <1>10, XUnderWay

LEMMA XLinedReturn ==
  ASSUME XInv, xPc = "collect", xAt \in XCohort, XLined, XReturn("error"), xAt' = xAt,
         XFailure \/ UNCHANGED <<xFailures, xFirst>>
  PROVE  XInv'
<1>1. xFailures' \in Seq(1..XInputs) /\ xFirst' \in BOOLEAN
  BY XCollectAt, XFailureMarks DEF XTypeOK
<1>2. XTypeOK'
  BY <1>1, XCollectAt, XLinedTypes, XReturnTypes
<1> QED
  BY <1>2, XCollectAt, XFails DEF XLined

LEMMA XSettleFailedKeeps ==
  ASSUME XInv, xPc = "collect", xAt \in XCohort, NEW b, XSettleFailed(b),
         b = TRUE \/ (b = FALSE /\ XResult = "errorUnmarked"),
         UNCHANGED <<xOpts, xCohort, xSnap, xLeft, xMissed, xResults>>
  PROVE  XInv'
<1>1. XFailure /\ (XFine \/ XFaulty) /\ "failed" \in XAnyAnswer
  BY DEF XSettleFailed, XAnyAnswer
<1>2. xDisp' = Append(xDisp, <<xAt, "failed">>) \/ (xDisp' = xDisp /\ xResults[xAt] = "errorUnmarked")
  BY DEF XSettleFailed, XSummarise, XResult
<1>3. xLedger' \in {xLedger, Append(xLedger, <<xAt, "failed">>)}
  BY DEF XSettleFailed, XLedgerLine
<1>4. XLined
  BY <1>1, <1>2, <1>3 DEF XLined, XSettleFailed
<1>5. CASE XNextInput
  BY <1>1, <1>4, <1>5, XFailedSettles
<1>6. CASE UNCHANGED <<xLedger, xAt>> /\ XReturn("error")
  BY <1>1, <1>4, <1>6, XLinedReturn
<1> QED
  BY <1>5, <1>6 DEF XSettleFailed

(* A return that leaves the books as they are.                             *)
LEMMA XPlainReturn ==
  ASSUME XInv, xPc = "collect", xAt \in XCohort, XReturn("error"), XFine \/ XFaulty,
         UNCHANGED <<xAt, xBook, xOpts, xCohort, xSnap, xLeft, xMissed, xResults>>
  PROVE  XInv'
<1>1. XTypeOK'
  BY XCollectAt, XReturnTypes, XCounts DEF XTypeOK, xBook
<1> QED
  BY <1>1, XCollectAt, XFails DEF xBook

LEMMA XCollectFailedKeeps == ASSUME XInv, XCollectFailed PROVE XInv'
BY XSettleFailedKeeps DEF XCollectFailed

LEMMA XCollectErrorKeeps == ASSUME XInv, XCollectError PROVE XInv'
<1>1. CASE XSettleFailed(FALSE)
  BY <1>1, XSettleFailedKeeps DEF XCollectError
<1>2. CASE XFine /\ XReturn("error") /\ UNCHANGED <<xAt, xBook>>
  BY <1>2, XPlainReturn DEF XCollectError
<1> QED
  BY <1>1, <1>2 DEF XCollectError

LEMMA XFloorMissKeeps == ASSUME XInv, XFloorMiss PROVE XInv'
<1>0. /\ xPc = "collect" /\ xAt \in XCohort /\ (XFine \/ XFaulty)
      /\ UNCHANGED <<xOpts, xCohort, xSnap, xLeft, xMissed, xResults>>
  BY DEF XFloorMiss
<1>1. CASE /\ XSummarise("failed") /\ XFailure
           /\ \/ XFine /\ XLedgerLine("failed") /\ XNextInput
              \/ XFaulty /\ XManifest /\ UNCHANGED <<xLedger, xAt>> /\ XReturn("error")
           /\ UNCHANGED <<xWrites, xListed, xApplied, xProfile, xSidecars>>
  <2>1. "failed" \in XAnyAnswer /\ xDisp' = Append(xDisp, <<xAt, "failed">>)
    BY <1>1 DEF XSummarise, XAnyAnswer
  <2>2. xLedger' \in {xLedger, Append(xLedger, <<xAt, "failed">>)}
    BY <1>1 DEF XLedgerLine
  <2>3. XLined
    BY <1>0, <1>1, <2>1, <2>2 DEF XLined
  <2> QED
    BY <1>0, <1>1, <2>3, XFailedSettles, XLinedReturn
<1>2. CASE XReturn("error") /\ UNCHANGED <<xAt, xBook>>
  BY <1>0, <1>2, XPlainReturn
<1> QED
  BY <1>1, <1>2 DEF XFloorMiss

(* A sequence with one more line has one more member.                      *)
LEMMA XOneMore ==
  ASSUME NEW S, NEW s \in Seq(S), NEW e \in S, NEW t, t = Append(s, e)
  PROVE  /\ t \in Seq(S) /\ Len(t) = Len(s) + 1 /\ Len(s) \in Nat
         /\ {t[k] : k \in DOMAIN t} = {s[k] : k \in DOMAIN s} \cup {e}
<1>1. t \in Seq(S) /\ Len(t) = Len(s) + 1 /\ Len(s) \in Nat /\ DOMAIN t = 1..(Len(s) + 1) /\ DOMAIN s = 1..Len(s)
  OBVIOUS
<1>2. (\A k \in DOMAIN s : k \in DOMAIN t /\ t[k] = s[k]) /\ t[Len(s) + 1] = e
  BY <1>1
<1>3. Len(s) + 1 \in DOMAIN t /\ \A k \in DOMAIN t : k \in DOMAIN s \/ k = Len(s) + 1
  BY <1>1
<1>4. {t[k] : k \in DOMAIN t} = {s[k] : k \in DOMAIN s} \cup {e}
  BY <1>2, <1>3
<1> QED
  BY <1>1, <1>4

LEMMA XOneMoreRow ==
  ASSUME NEW S, NEW s \in Seq(S), NEW e \in S, NEW t, t = Append(s, e)
  PROVE  {t[k][1] : k \in DOMAIN t} = {s[k][1] : k \in DOMAIN s} \cup {e[1]}
<1>1. Len(s) \in Nat /\ DOMAIN t = 1..(Len(s) + 1) /\ DOMAIN s = 1..Len(s)
  OBVIOUS
<1>2. (\A k \in DOMAIN s : k \in DOMAIN t /\ t[k] = s[k]) /\ t[Len(s) + 1] = e
  BY <1>1
<1>3. Len(s) + 1 \in DOMAIN t /\ \A k \in DOMAIN t : k \in DOMAIN s \/ k = Len(s) + 1
  BY <1>1
<1> QED
  BY <1>2, <1>3

LEMMA XSettledSame ==
  ASSUME UNCHANGED <<xOpts, xResults, xWrites, xLedger, xFailures, xApplied, xDisp, xProfile, xFirst>>,
         NEW n, NEW m, XSettled(n, m)
  PROVE  XSettled(n, m)'
<1>1. XClean' = XClean /\ XManifest' = XManifest
  BY DEF XClean, XManifest
<1>2. XProfiled(n)'
  BY <1>1 DEF XSettled, XProfiled
<1>3. XLedgered(m)'
  BY <1>1 DEF XSettled, XLedgered
<1>4. XCounted(n)' /\ XDisposed(m)'
  BY DEF XSettled, XCounted, XDisposed
<1> QED
  BY <1>2, <1>3, <1>4 DEF XSettled

LEMMA XAcceptKeeps == ASSUME XInv, XAccept PROVE XInv'
<1>0. /\ xPc = "collect" /\ xAt \in XCohort /\ XResult \in XAnyAnswer
      /\ UNCHANGED <<xOpts, xAt, xCohort, xSnap, xLeft, xMissed, xResults, xWrites, xListed, xFailures,
                     xApplied, xProfile, xSidecars, xFirst>>
      /\ (XFine \/ XFaulty)
  BY DEF XAccept, XAnyAnswer
<1>1. xDisp' = Append(xDisp, <<xAt, XResult>>) \/ (xDisp' = xDisp /\ ~xOpts.app)
  BY DEF XAccept, XSummarise
<1>2. xLedger' \in {xLedger, Append(xLedger, <<xAt, XResult>>)}
  BY DEF XAccept, XLedgerLine
<1>3. XLined
  BY <1>0, <1>1, <1>2 DEF XLined
<1>4. CASE XReturn("error")
  BY <1>0, <1>3, <1>4, XLinedReturn
<1>5. CASE XFine /\ XLedgerLine(XResult) /\ xPc' = "write" /\ UNCHANGED <<xIn, xOut, xExit>>
  <2>1. XTypeOK'
    BY <1>0, <1>3, <1>5, XLinedTypes, XCollectAt DEF XTypeOK, XStagesOf
  <2>2. XPlace' /\ XSnapped'
    BY <1>0, <1>5, XCollectAt DEF XPlace, XSnapped, XCohort
  <2>3. PICK n \in Nat : n = xAt
    BY XCollectAt, <1>0
  <2>4. XClean' = XClean /\ XManifest' = XManifest
    BY <1>0 DEF XClean, XManifest
  <2>5. XProfiled(n - 1)' /\ XCounted(n - 1)'
    BY <1>0, <2>3, <2>4, XCollectAt DEF XProfiled, XCounted
  <2>6. XDisposed(n)'
    BY <1>0, <1>1, <2>3, XSummarised
  <2>7. XLedgered(n)'
    <3> SUFFICES ASSUME XClean, XManifest
                 PROVE  {xLedger'[k][1] : k \in DOMAIN xLedger'} = 1..n
      BY <2>4 DEF XLedgered
    <3> DEFINE rows == (1..XInputs) \X XAnyAnswer
    <3>1. xLedger \in Seq(rows) /\ <<xAt, XResult>> \in rows
      BY <1>0, XCollectAt DEF XTypeOK, XCohort
    <3> HIDE DEF rows
    <3>2. xLedger' = Append(xLedger, <<xAt, XResult>>)
      BY <1>5 DEF XLedgerLine
    <3>3. {xLedger[k][1] : k \in DOMAIN xLedger} = 1..(xAt - 1)
      BY <1>0, XCollectAt DEF XLedgered
    <3>4. {xLedger'[k][1] : k \in DOMAIN xLedger'} = (1..(xAt - 1)) \cup {xAt}
      <4> DEFINE e == <<xAt, XResult>>
      <4>1. e[1] = xAt /\ e \in rows
        BY <3>1
      <4> HIDE DEF e
      <4>2. xLedger' = Append(xLedger, e)
        BY <3>2 DEF e
      <4>3. {xLedger'[k][1] : k \in DOMAIN xLedger'} = {xLedger[k][1] : k \in DOMAIN xLedger} \cup {e[1]}
        BY <3>1, <4>1, <4>2, XOneMoreRow
      <4> QED
        BY <3>3, <4>1, <4>3
    <3>5. (1..(xAt - 1)) \cup {xAt} = 1..xAt
      BY <1>0, XCollectAt
    <3> QED
      BY <2>3, <3>4, <3>5
  <2>8. XListedExactly' /\ xSidecars' = {}
    BY <1>0, <2>4, XCollectAt DEF XListedExactly
  <2>9. XBooks'
    <3>1. XSettled(n - 1, n)'
      BY <2>5, <2>6, <2>7 DEF XSettled
    <3>2. XSettled(xAt - 1, xAt)'
      BY <1>0, <2>3, <3>1
    <3> QED
      BY <1>5, <2>8, <3>2 DEF XBooks, XEarly
  <2> QED
    BY <1>5, <2>1, <2>2, <2>9, XUnderWay
<1> QED
  BY <1>4, <1>5 DEF XAccept

(* Writing an input.                                                       *)
LEMMA XWriteAt ==
  ASSUME XInv, xPc = "write"
  PROVE  /\ XTypeOK /\ ~XRefused(xOpts) /\ xExit = "running" /\ xSnap = {} /\ xSidecars = {}
         /\ xAt \in XCohort /\ xAt \in 1..XInputs /\ xCohort \in 0..XInputs /\ XInputs \in Nat
         /\ (xOpts.index => xCohort = 1) /\ (~xOpts.index => Len(xResults) = xCohort)
         /\ XSettled(xAt - 1, xAt) /\ XListedExactly /\ IsFiniteSet(xWrites)
<1>1. /\ XTypeOK /\ ~XRefused(xOpts) /\ xExit = "running" /\ xSnap = {}
      /\ xAt \in XCohort /\ xCohort \in 0..XInputs /\ XInputs \in Nat
      /\ (xOpts.index => xCohort = 1) /\ (~xOpts.index => Len(xResults) = xCohort)
  BY XAssumption DEF XInv, XPlace, XTypeOK, XSnapped
<1>2. XSettled(xAt - 1, xAt) /\ XListedExactly /\ xSidecars = {}
  BY DEF XInv, XBooks
<1>3. xAt \in 1..XInputs
  BY <1>1 DEF XCohort
<1>4. IsFiniteSet(xWrites)
  <2>0. IsFiniteSet({"json"}) /\ XFormats = {"json"} \cup {"parquet"}
    BY FS_Singleton DEF XFormats
  <2>a. IsFiniteSet(1..XInputs)
    BY <1>1, FS_Interval
  <2>b. IsFiniteSet(XFormats)
    BY <2>0, FS_AddElement
  <2>1. IsFiniteSet(1..XInputs) /\ IsFiniteSet(XFormats)
    BY <2>a, <2>b
  <2>2. IsFiniteSet((1..XInputs) \X XFormats)
    BY <2>1, FS_Product
  <2> QED
    BY <1>1, <2>2, FS_Subset DEF XTypeOK
<1> QED
  BY <1>1, <1>2, <1>3, <1>4

LEMMA XWriteFormatKeeps == ASSUME XInv, NEW f \in XFormats, XWriteFormat(f) PROVE XInv'
<1>0. /\ xPc = "write" /\ <<xAt, f>> \notin xWrites
      /\ UNCHANGED <<xOpts, xAt, xCohort, xSnap, xLeft, xMissed, xResults, xLedger, xFailures,
                     xApplied, xDisp, xProfile, xSidecars, xFirst>>
      /\ (XFine \/ XFaulty)
  BY DEF XWriteFormat, XUnwritten
<1>1. CASE XReturn("error") /\ UNCHANGED <<xWrites, xListed>>
  <2>1. XTypeOK'
    BY <1>0, <1>1, XWriteAt, XReturnTypes, XCounts DEF XTypeOK
  <2> QED
    BY <1>0, <1>1, <2>1, XWriteAt, XFails
<1>2. CASE XWriteOut(f) /\ UNCHANGED <<xPc, xIn, xOut, xExit>>
  <2> DEFINE listing == (1..XInputs) \X XFormats
  <2>1. xListed \in Seq(listing) /\ <<xAt, f>> \in listing /\ xWrites \subseteq listing
    BY <1>0, XWriteAt DEF XTypeOK
  <2>2. xWrites' = xWrites \cup {<<xAt, f>>} /\ XManifest' = XManifest
    BY <1>0, <1>2 DEF XWriteOut, XStored, XManifest
  <2> HIDE DEF listing
  <2>3. xListed' \in Seq(listing) /\ xWrites' \subseteq listing
    BY <1>2, <2>1, <2>2, XOneMore DEF XWriteOut
  <2>4. XListedExactly'
    <3> SUFFICES ASSUME XManifest
                 PROVE  {xListed'[k] : k \in DOMAIN xListed'} = xWrites' /\ Len(xListed') = Cardinality(xWrites')
      BY <2>2 DEF XListedExactly
    <3>1. xListed' = Append(xListed, <<xAt, f>>)
      BY <1>2 DEF XWriteOut
    <3>2. {xListed[k] : k \in DOMAIN xListed} = xWrites /\ Len(xListed) = Cardinality(xWrites)
      BY <1>0, XWriteAt DEF XListedExactly
    <3>3. Cardinality(xWrites') = Cardinality(xWrites) + 1
      BY <1>0, <2>2, XWriteAt, FS_AddElement
    <3> QED
      BY <2>1, <2>2, <3>1, <3>2, <3>3, XOneMore
  <2>5. XTypeOK'
    BY <1>0, <1>2, <2>3, XWriteAt, XCounts DEF XTypeOK, listing
  <2>6. XPlace' /\ XSnapped'
    BY <1>0, <1>2, XWriteAt DEF XPlace, XSnapped, XCohort
  <2>7. XSettled(xAt - 1, xAt)'
    <3>1. XClean' = XClean
      BY <1>0 DEF XClean
    <3>2. XProfiled(xAt - 1)'
      BY <1>0, <2>2, <3>1, XWriteAt DEF XSettled, XProfiled
    <3>3. XLedgered(xAt)'
      BY <1>0, <2>2, <3>1, XWriteAt DEF XSettled, XLedgered
    <3>4. XCounted(xAt - 1)' /\ XDisposed(xAt)'
      BY <1>0, XWriteAt DEF XSettled, XCounted, XDisposed
    <3> QED
      BY <3>2, <3>3, <3>4 DEF XSettled
  <2>8. XBooks'
    BY <1>0, <1>2, <2>4, <2>7, XWriteAt DEF XBooks, XEarly
  <2> QED
    BY <1>0, <1>2, <2>5, <2>6, <2>8, XUnderWay
<1> QED
  BY <1>1, <1>2 DEF XWriteFormat

LEMMA XWrittenKeeps == ASSUME XInv, XWritten PROVE XInv'
<1>0. /\ xPc = "write" /\ (xOpts.out => XUnwritten = {}) /\ xProfile' = XObserve /\ xApplied' = xApplied + 1
      /\ xPc' = (IF xOpts.index THEN "finish" ELSE "collect")
      /\ xAt' = (IF xOpts.index THEN 1 ELSE xAt + 1)
      /\ UNCHANGED <<xOpts, xCohort, xIn, xOut, xSnap, xLeft, xMissed, xResults, xWrites, xLedger, xListed,
                     xFailures, xDisp, xSidecars, xFirst, xFaults, xExit>>
  BY DEF XWritten, xSession
<1>1. xProfile \in [1..XInputs -> Nat] /\ xApplied \in Nat /\ xAt \in Nat /\ xAt \in 1..XInputs
      /\ xAt \in 1..xCohort /\ xCohort \in 0..XInputs /\ XInputs \in Nat /\ xOpts.index \in BOOLEAN
  BY <1>0, XWriteAt, XLineFields DEF XTypeOK, XCohort
<1>2. XProfiled(xAt - 1) /\ XLedgered(xAt) /\ XCounted(xAt - 1) /\ XDisposed(xAt)
  BY <1>0, XWriteAt DEF XSettled
<1>3. xProfile[xAt] = 0
  <2>1. xProfile[xAt] \in Nat /\ xProfile[xAt] <= 1
    BY <1>1, <1>2 DEF XProfiled
  <2>2. xProfile[xAt] # 1
    BY <1>1, <1>2 DEF XProfiled
  <2> QED
    BY <2>1, <2>2
<1>4. /\ xProfile' \in [1..XInputs -> Nat] /\ xProfile'[xAt] = 1
      /\ \A i \in (1..XInputs) \ {xAt} : xProfile'[i] = xProfile[i]
  BY <1>0, <1>1, <1>3 DEF XObserve
<1>5. XTypeOK'
  <2>1. xPc' \in XStagesOf /\ xAt' \in Nat \ {0} /\ xApplied' \in Nat
    BY <1>0, <1>1 DEF XStagesOf
  <2> QED
    BY <1>0, <1>4, <2>1, XWriteAt DEF XTypeOK
<1>6. PICK n \in Nat : n = xAt
  BY <1>1
<1>7. XClean' = XClean /\ XManifest' = XManifest
  BY <1>0 DEF XClean, XManifest
<1>8. XProfiled(n)'
  <2> SUFFICES ASSUME NEW i \in 1..XInputs
               PROVE  /\ xProfile'[i] <= 1
                      /\ xProfile'[i] = 1 => i <= n /\ (xOpts.out => \A f \in xOpts.formats : <<i, f>> \in xWrites)
                      /\ XClean /\ i <= n => xProfile'[i] = 1
    BY <1>0, <1>7 DEF XProfiled
  <2>1. CASE i = xAt
    BY <1>0, <1>1, <1>4, <1>6, <2>1 DEF XUnwritten
  <2>2. CASE i # xAt
    <3>1. xProfile'[i] = xProfile[i]
      BY <1>4, <2>2
    <3>2. i <= n => i <= n - 1
      BY <1>1, <1>6, <2>2
    <3> QED
      BY <1>1, <1>2, <1>6, <3>1, <3>2 DEF XProfiled
  <2> QED
    BY <2>1, <2>2
<1>9. XCounted(n)'
  <2>1. xFailures \in Seq(1..XInputs)
    BY <1>0, XWriteAt DEF XTypeOK
  <2> QED
    BY <1>0, <1>1, <1>2, <1>6, <2>1 DEF XCounted
<1>10. XLedgered(n)' /\ XDisposed(n)'
  BY <1>0, <1>2, <1>6, <1>7 DEF XLedgered, XDisposed
<1>11. XSettled(n, n)'
  BY <1>8, <1>9, <1>10 DEF XSettled
<1>12. XListedExactly' /\ xSidecars' = {} /\ xExit' = "running" /\ XSnapped'
  BY <1>0, <1>7, XWriteAt DEF XListedExactly, XSnapped
<1>13. XPlace'
  BY <1>0, <1>1, XWriteAt DEF XPlace, XCohort
<1>14. CASE xOpts.index
  <2>1. xPc' = "finish" /\ xCohort' = n
    BY <1>0, <1>1, <1>6, <1>14, XWriteAt
  <2>2. XBooks'
    BY <1>11, <1>12, <2>1 DEF XBooks, XEarly
  <2>3. XSessionsClosed' /\ XWritesHonest'
    BY <1>8, <1>12, <2>1 DEF XSessionsClosed, XWritesHonest, XProfiled
  <2> QED
    BY <1>5, <1>12, <1>13, <2>2, <2>3 DEF XInv
<1>15. CASE ~xOpts.index
  <2>1. xPc' = "collect" /\ xAt' - 1 = n
    BY <1>0, <1>1, <1>6, <1>15
  <2>2. XBooks'
    BY <1>11, <1>12, <2>1 DEF XBooks, XEarly
  <2> QED
    BY <1>5, <1>12, <1>13, <2>1, <2>2, XUnderWay
<1> QED
  BY <1>14, <1>15

LEMMA XCollectDoneKeeps == ASSUME XInv, XCollectDone PROVE XInv'
<1>0. /\ xPc = "collect" /\ xAt = xCohort + 1 /\ xPc' = "finish" /\ xAt' = 1
      /\ UNCHANGED <<xOpts, xCohort, xIn, xOut, xSnap, xLeft, xMissed, xResults, xBook, xFaults, xExit>>
  BY DEF XCollectDone, xSession
<1>1. XTypeOK'
  BY <1>0, XCollectAt DEF XTypeOK, xBook, XStagesOf
<1>2. XPlace' /\ XSnapped'
  BY <1>0, XCollectAt DEF XPlace, XSnapped
<1>3. XSettled(xAt - 1, xAt - 1) /\ XListedExactly /\ xSidecars = {}
  BY <1>0, XCollectAt DEF XSettled
<1>4. xAt - 1 = xCohort
  BY <1>0, XCollectAt
<1>5. XSettled(xCohort, xCohort)'
  <2>1. PICK n : n = xCohort
    OBVIOUS
  <2>2. XSettled(n, n)
    BY <1>3, <1>4, <2>1
  <2>3. XSettled(n, n)'
    BY <1>0, <2>2, XSettledSame DEF xBook
  <2> QED
    BY <1>0, <2>1, <2>3
<1>6. XBooks'
  BY <1>0, <1>3, <1>5 DEF XBooks, XEarly, XListedExactly, XManifest, xBook
<1>7. XSessionsClosed' /\ XWritesHonest'
  <2>1. XProfiled(xCohort)' /\ xSidecars' = {} /\ xExit' = "running"
    BY <1>0, <1>3, <1>5, XCollectAt DEF XSettled, xBook
  <2> QED
    BY <1>0, <2>1 DEF XSessionsClosed, XWritesHonest, XProfiled
<1> QED
  BY <1>1, <1>2, <1>6, <1>7 DEF XInv

(* The sidecars and the exit code.                                         *)
LEMMA XFinishAt ==
  ASSUME XInv, xPc = "finish"
  PROVE  /\ XTypeOK /\ ~XRefused(xOpts) /\ xExit = "running" /\ xSnap = {} /\ XWritesHonest
         /\ XProfiled(xCohort) /\ XLedgered(xCohort) /\ XCounted(xCohort) /\ XDisposed(xCohort)
         /\ XListedExactly
<1>1. XTypeOK /\ ~XRefused(xOpts) /\ xExit = "running" /\ xSnap = {} /\ XWritesHonest
  BY DEF XInv, XPlace, XSnapped
<1>2. XSettled(xCohort, xCohort) /\ XListedExactly
  BY DEF XInv, XBooks
<1> QED
  BY <1>1, <1>2 DEF XSettled

LEMMA XFinishStepKeeps == ASSUME XInv, XFinishStep PROVE XInv'
<1>0. /\ xPc = "finish" /\ xAt \in DOMAIN XSidecars /\ (XFine \/ XFaulty)
      /\ UNCHANGED <<xOpts, xCohort, xSnap, xLeft, xMissed, xResults, xWrites, xLedger, xListed,
                     xFailures, xApplied, xDisp, xProfile, xFirst>>
  BY DEF XFinishStep
<1> DEFINE s == XSidecars[xAt]
<1>1. CASE XReturn("error") /\ UNCHANGED <<xAt, xSidecars>>
  <2>1. XTypeOK'
    BY <1>0, <1>1, XFinishAt, XReturnTypes, XCounts DEF XTypeOK
  <2>2. XWritesHonest'
    BY <1>0, <1>1, XFinishAt DEF XWritesHonest, XReturn, XCohort
  <2> QED
    BY <1>0, <1>1, <2>1, <2>2, XFinishAt, XReturns
<1>2. CASE /\ xAt' = xAt + 1 /\ UNCHANGED <<xPc, xIn, xOut, xExit>>
           /\ xSidecars' = (IF XWanted(s) THEN xSidecars \cup {s} ELSE xSidecars)
  <2>1. XTypeOK'
    <3>1. xAt' \in Nat \ {0} /\ xFaults' \in Nat
      BY <1>0, <1>2, XFinishAt, XCounts DEF XTypeOK
    <3> QED
      BY <1>0, <1>2, <3>1, XFinishAt DEF XTypeOK
  <2>2. XPlace' /\ XSnapped'
    BY <1>0, <1>2, XFinishAt DEF XPlace, XSnapped
  <2>3. XBooks'
    <3>1. PICK n : n = xCohort
      OBVIOUS
    <3>2. XSettled(n, n)
      BY <1>0, <3>1, XFinishAt DEF XSettled
    <3>3. XSettled(n, n)'
      BY <1>0, <3>2, XSettledSame
    <3>4. XSettled(xCohort, xCohort)'
      BY <1>0, <3>1, <3>3
    <3>5. XListedExactly'
      BY <1>0, XFinishAt DEF XListedExactly, XManifest
    <3> QED
      BY <1>0, <1>2, <3>4, <3>5 DEF XBooks, XEarly
  <2>4. XWritesHonest'
    <3>1. \A i \in 1..XInputs :
            /\ xProfile[i] <= 1
            /\ xProfile[i] = 1 /\ xOpts.out => \A f \in xOpts.formats : <<i, f>> \in xWrites
      BY <1>0, XFinishAt DEF XProfiled
    <3>2. "manifest" \in xSidecars' =>
            {xListed[k] : k \in DOMAIN xListed} = xWrites /\ Len(xListed) = Cardinality(xWrites)
      <4>1. CASE "manifest" \in xSidecars
        BY <1>0, <4>1, XFinishAt DEF XWritesHonest
      <4>2. CASE s = "manifest" /\ XWanted(s)
        <5>1. XManifest
          BY <4>2 DEF XWanted
        <5> QED
          BY <1>0, <5>1, XFinishAt DEF XListedExactly
      <4> QED
        BY <1>2, <4>1, <4>2
    <3>3. "failures" \in xSidecars' => xApplied + Len(xFailures) = xCohort
      <4>1. CASE "failures" \in xSidecars
        BY <1>0, <4>1, XFinishAt DEF XWritesHonest
      <4>2. CASE s = "failures" /\ XWanted(s)
        <5>1. xOpts.cont /\ Len(xFailures) > 0
          BY <4>2 DEF XWanted
        <5>2. xFailures # <<>>
          BY <5>1
        <5> QED
          BY <1>0, <5>1, <5>2, XFinishAt DEF XCounted
      <4> QED
        BY <1>2, <4>1, <4>2
    <3>4. "dispositions" \in xSidecars' =>
            \A i \in XCohort : (\E k \in DOMAIN xDisp : xDisp[k][1] = i) \/ xResults[i] = "errorUnmarked"
      <4>1. CASE "dispositions" \in xSidecars
        BY <1>0, <4>1, XFinishAt DEF XWritesHonest
      <4>2. CASE s = "dispositions" /\ XWanted(s)
        <5>1. xOpts.app
          BY <4>2 DEF XWanted
        <5> QED
          BY <1>0, <5>1, XFinishAt DEF XDisposed, XCohort
      <4> QED
        BY <1>2, <4>1, <4>2
    <3>5. xExit' = "running"
      BY <1>0, <1>2, XFinishAt
    <3> QED
      BY <1>0, <3>1, <3>2, <3>3, <3>4, <3>5 DEF XWritesHonest, XCohort
  <2>5. XSessionsClosed'
    BY <1>0, <1>2 DEF XSessionsClosed
  <2> QED
    BY <2>1, <2>2, <2>3, <2>4, <2>5 DEF XInv
<1> QED
  BY <1>1, <1>2 DEF XFinishStep

LEMMA XFinishKeeps == ASSUME XInv, XFinish PROVE XInv'
<1> DEFINE code == IF xFirst THEN "error" ELSE IF Len(xFailures) > 0 THEN "partial" ELSE "ok"
<1>0. /\ xPc = "finish" /\ XFine /\ XReturn(code)
      /\ UNCHANGED <<xOpts, xAt, xCohort, xSnap, xLeft, xMissed, xResults, xBook>>
  BY DEF XFinish
<1>1. XTypeOK'
  BY <1>0, XFinishAt, XReturnTypes, XCounts DEF XTypeOK, xBook
<1>2. xExit' = "ok" => XClean
  <2>1. xFailures \in Seq(1..XInputs)
    BY <1>0, XFinishAt DEF XTypeOK
  <2>2. xExit' = "ok" => ~xFirst /\ ~(Len(xFailures) > 0)
    BY <1>0 DEF XReturn
  <2> QED
    BY <2>1, <2>2 DEF XClean
<1>3. xExit' = "ok" => \A i \in XCohort : xProfile[i] = 1
  <2>1. XCohort \subseteq 1..XInputs /\ \A i \in XCohort : i <= xCohort
    BY <1>0, XFinishAt, XAssumption DEF XTypeOK, XCohort
  <2> QED
    BY <1>0, <1>2, <2>1, XFinishAt DEF XProfiled
<1>4. xExit' = "ok" /\ XManifest => {xLedger[k][1] : k \in DOMAIN xLedger} = XCohort
  BY <1>0, <1>2, XFinishAt DEF XLedgered, XCohort
<1>5. XWritesHonest'
  BY <1>0, <1>3, <1>4, XFinishAt DEF XWritesHonest, XCohort, XManifest, xBook
<1> QED
  BY <1>0, <1>1, <1>5, XFinishAt, XReturns

(* The record-index drivers write their one input.                         *)
LEMMA XIndexedAt ==
  ASSUME XInv, xPc = "indexed"
  PROVE  /\ XTypeOK /\ ~XRefused(xOpts) /\ xOpts.index /\ ~xOpts.app /\ xExit = "running" /\ xSnap = {}
         /\ xAt = 1 /\ xCohort = 1 /\ XInputs \in Nat /\ 1 \in 1..XInputs /\ xSidecars = {}
         /\ xWrites = {} /\ xLedger = <<>> /\ xListed = <<>> /\ xFailures = <<>> /\ xApplied = 0
         /\ (\A i \in 1..XInputs : xProfile[i] = 0) /\ ~xFirst /\ XListedExactly
<1>1. /\ XTypeOK /\ ~XRefused(xOpts) /\ xOpts.index /\ xExit = "running" /\ xSnap = {}
      /\ xAt = 1 /\ xCohort = 1 /\ XInputs \in Nat /\ 1 \in 1..XInputs
  BY XAssumption DEF XInv, XPlace, XSnapped
<1>2. ~xOpts.app
  BY <1>1 DEF XRefused
<1>3. /\ xWrites = {} /\ xLedger = <<>> /\ xListed = <<>> /\ xFailures = <<>> /\ xApplied = 0
      /\ (\A i \in 1..XInputs : xProfile[i] = 0) /\ ~xFirst /\ xSidecars = {} /\ XListedExactly
  BY DEF XInv, XBooks, XEarly
<1> QED
  BY <1>1, <1>2, <1>3

(* The first line of the ledger.                                           *)
LEMMA XFirstLine ==
  ASSUME XInv, xPc = "indexed", XLedgerLine("plain")
  PROVE  /\ xLedger' \in Seq((1..XInputs) \X XAnyAnswer)
         /\ XManifest => {xLedger'[k][1] : k \in DOMAIN xLedger'} = 1..1
<1> DEFINE rows == (1..XInputs) \X XAnyAnswer
           e == <<xAt, "plain">>
<1>1. e \in rows /\ e[1] = 1 /\ xLedger \in Seq(rows) /\ xLedger = <<>>
  BY XIndexedAt DEF XTypeOK, XAnyAnswer
<1>2. xLedger' = (IF XManifest THEN Append(xLedger, e) ELSE xLedger)
  BY DEF XLedgerLine
<1> HIDE DEF rows, e
<1>3. xLedger' \in Seq(rows)
  BY <1>1, <1>2
<1>4. ASSUME XManifest PROVE {xLedger'[k][1] : k \in DOMAIN xLedger'} = 1..1
  <2>1. {xLedger'[k][1] : k \in DOMAIN xLedger'} = {xLedger[k][1] : k \in DOMAIN xLedger} \cup {e[1]}
    BY <1>1, <1>2, <1>4, XOneMoreRow
  <2>2. {xLedger[k][1] : k \in DOMAIN xLedger} = {}
    BY <1>1
  <2> QED
    BY <1>1, <2>1, <2>2
<1> QED
  BY <1>3, <1>4 DEF rows

LEMMA XIndexBufferedKeeps == ASSUME XInv, XIndexBuffered PROVE XInv'
<1>0. /\ xPc = "indexed" /\ (XFine \/ XFaulty)
      /\ UNCHANGED <<xOpts, xAt, xCohort, xSnap, xLeft, xMissed, xResults, xWrites, xListed, xFailures,
                     xApplied, xDisp, xProfile, xSidecars, xFirst>>
  BY DEF XIndexBuffered
<1>1. CASE UNCHANGED xLedger /\ XReturn("error")
  <2>1. XTypeOK'
    BY <1>0, <1>1, XIndexedAt, XReturnTypes, XCounts DEF XTypeOK
  <2> QED
    BY <1>0, <1>1, <2>1, XIndexedAt, XFails
<1>2. CASE XLedgerLine("plain") /\ xPc' = "write" /\ UNCHANGED <<xIn, xOut, xExit>>
  <2>1. XTypeOK'
    BY <1>0, <1>2, XIndexedAt, XFirstLine, XCounts DEF XTypeOK, XStagesOf
  <2>2. XPlace' /\ XSnapped'
    BY <1>0, <1>2, XIndexedAt DEF XPlace, XSnapped, XCohort
  <2>3. XManifest' = XManifest
    BY <1>0 DEF XManifest
  <2>4. XLedgered(1)'
    BY <1>0, <1>2, <2>3, XFirstLine DEF XLedgered
  <2>5. XProfiled(0)' /\ XCounted(0)' /\ XDisposed(1)'
    BY <1>0, XIndexedAt DEF XProfiled, XCounted, XDisposed
  <2>6. XSettled(0, 1)'
    BY <2>4, <2>5 DEF XSettled
  <2>7. xAt' - 1 = 0 /\ xAt' = 1
    BY <1>0, XIndexedAt
  <2>8. XListedExactly' /\ xSidecars' = {}
    BY <1>0, <2>3, XIndexedAt DEF XListedExactly
  <2>9. XBooks'
    BY <1>2, <2>6, <2>7, <2>8 DEF XBooks, XEarly
  <2> QED
    BY <1>2, <2>1, <2>2, <2>9, XUnderWay
<1> QED
  BY <1>1, <1>2 DEF XIndexBuffered

LEMMA XIndexStreamedKeeps == ASSUME XInv, XIndexStreamed PROVE XInv'
<1>0. /\ xPc = "indexed" /\ xOpts.formats = {"json"} /\ (XFine \/ XFaulty)
      /\ xWrites' = (IF xOpts.out THEN xWrites \cup {<<1, "json">>} ELSE xWrites) /\ xProfile' = XObserve
      /\ UNCHANGED <<xOpts, xAt, xCohort, xSnap, xLeft, xMissed, xResults, xFailures, xApplied, xDisp,
                     xSidecars, xFirst>>
  BY DEF XIndexStreamed, XStored
<1> DEFINE listing == (1..XInputs) \X XFormats
           e == <<1, "json">>
<1>1. xProfile \in [1..XInputs -> Nat] /\ e \in listing /\ xListed \in Seq(listing)
  BY <1>0, XIndexedAt DEF XTypeOK, XFormats
<1>2. /\ xProfile' \in [1..XInputs -> Nat] /\ xProfile'[1] = 1
      /\ \A i \in (1..XInputs) \ {1} : xProfile'[i] = 0
  BY <1>0, <1>1, XIndexedAt DEF XObserve
<1>3. xWrites' = (IF xOpts.out THEN {e} ELSE {}) /\ xWrites' \subseteq listing
  BY <1>0, <1>1, XIndexedAt
<1>4. \A i \in 1..XInputs :
        /\ xProfile'[i] <= 1
        /\ xProfile'[i] = 1 => i <= 1 /\ (xOpts'.out => \A f \in xOpts'.formats : <<i, f>> \in xWrites')
        /\ i <= 1 => xProfile'[i] = 1
  BY <1>0, <1>2, <1>3, XIndexedAt
<1>5. CASE UNCHANGED <<xLedger, xListed>> /\ XReturn("error")
  <2>1. XTypeOK'
    BY <1>0, <1>2, <1>3, <1>5, XIndexedAt, XReturnTypes, XCounts DEF XTypeOK
  <2>2. XWritesHonest'
    <3>1. xSidecars' = {} /\ xExit' = "error"
      BY <1>0, <1>5, XIndexedAt DEF XReturn
    <3> QED
      BY <1>4, <3>1 DEF XWritesHonest
  <2> QED
    BY <1>0, <1>5, <2>1, <2>2, XIndexedAt, XReturns
<1>6. CASE /\ XLedgerLine("plain") /\ xPc' = "finish" /\ UNCHANGED <<xIn, xOut, xExit>>
           /\ xListed' = (IF XManifest THEN Append(xListed, <<1, "json">>) ELSE xListed)
  <2> HIDE DEF listing, e
  <2>1. xListed' \in Seq(listing)
    BY <1>1, <1>6 DEF e
  <2>2. XTypeOK'
    BY <1>0, <1>2, <1>3, <1>6, <2>1, XIndexedAt, XFirstLine, XCounts DEF XTypeOK, XStagesOf, listing
  <2>3. XPlace' /\ XSnapped'
    BY <1>0, <1>6, XIndexedAt DEF XPlace, XSnapped, XCohort
  <2>4. XManifest' = XManifest /\ (XManifest => xOpts.out)
    BY <1>0 DEF XManifest
  <2>5. XLedgered(1)'
    BY <1>0, <1>6, <2>4, XFirstLine DEF XLedgered
  <2>6. XProfiled(1)'
    BY <1>4 DEF XProfiled
  <2>7. XCounted(1)' /\ XDisposed(1)'
    BY <1>0, XIndexedAt DEF XCounted, XDisposed
  <2>8. XListedExactly'
    <3> SUFFICES ASSUME XManifest
                 PROVE  {xListed'[k] : k \in DOMAIN xListed'} = xWrites' /\ Len(xListed') = Cardinality(xWrites')
      BY <2>4 DEF XListedExactly
    <3>1. xListed' = Append(xListed, e) /\ xListed = <<>> /\ xWrites' = {e}
      BY <1>0, <1>3, <1>6, <2>4, XIndexedAt DEF e
    <3>2. /\ {xListed'[k] : k \in DOMAIN xListed'} = {xListed[k] : k \in DOMAIN xListed} \cup {e}
          /\ Len(xListed') = Len(xListed) + 1
      BY <1>1, <3>1, XOneMore
    <3>3. {xListed[k] : k \in DOMAIN xListed} = {} /\ Len(xListed) = 0
      BY <3>1
    <3>4. Cardinality(xWrites') = 1
      BY <3>1, FS_Singleton
    <3> QED
      BY <3>1, <3>2, <3>3, <3>4
  <2>9. xCohort' = 1 /\ xSidecars' = {} /\ xExit' = "running"
    BY <1>0, <1>6, XIndexedAt
  <2>10. XBooks'
    BY <1>6, <2>5, <2>6, <2>7, <2>8, <2>9 DEF XBooks, XEarly, XSettled
  <2>11. XSessionsClosed' /\ XWritesHonest'
    BY <1>4, <1>6, <2>9 DEF XSessionsClosed, XWritesHonest
  <2> QED
    BY <2>2, <2>3, <2>10, <2>11 DEF XInv
<1> QED
  BY <1>5, <1>6 DEF XIndexStreamed

LEMMA XKeeps == XInv /\ [XNext]_xvars => XInv'
<1> SUFFICES ASSUME XInv, [XNext]_xvars PROVE XInv'
  OBVIOUS
<1>1. CASE UNCHANGED xvars
  <2>1. UNCHANGED <<xOpts, xPc, xAt, xCohort, xIn, xOut, xSnap, xLeft, xMissed, xResults, xWrites, xLedger, xListed,
                    xFailures, xApplied, xDisp, xProfile, xSidecars, xFirst, xFaults, xExit>>
    BY <1>1 DEF xvars, xSession, xBook
  <2>2. XTypeOK' /\ XPlace' /\ XSnapped' /\ XSessionsClosed' /\ XWritesHonest'
    BY <2>1 DEF XInv, XTypeOK, XPlace, XSnapped, XSessionsClosed, XWritesHonest, XCohort, XManifest
  <2>3. XBooks'
    BY <2>1 DEF XInv, XBooks, XSettled, XProfiled, XLedgered, XCounted, XDisposed, XClean, XManifest, XListedExactly
  <2> QED
    BY <2>2, <2>3 DEF XInv
<1>2. CASE XNext
  BY <1>2, XPreflightKeeps, XResolveKeeps, XDiscoverKeeps, XPreviewKeeps, XAcquireKeeps, XRouteKeeps,
     XChooseKeeps, XReadRefusedKeeps, XSnapshotKeeps, XReadKeeps, XReadDoneKeeps, XCollectFailedKeeps,
     XCollectErrorKeeps, XFloorMissKeeps, XAcceptKeeps, XWriteFormatKeeps, XWrittenKeeps,
     XCollectDoneKeeps, XFinishStepKeeps, XFinishKeeps, XOpenIndexKeeps, XIndexSourceKeeps,
     XIndexExtractKeeps, XIndexBufferedKeeps, XIndexStreamedKeeps DEF XNext
<1> QED
  BY <1>1, <1>2

(* A copy that stays behind belongs to a refused input, whose result is a  *)
(* failure: the books of a run that has settled it are not clean.          *)
XLeftInv ==
    /\ \A i \in xLeft : i \in 1..Len(xResults) /\ xResults[i] = "failed"
    /\ xOpts.index => xLeft = {}
    /\ xPc \in {"collect", "write"} => \A i \in xLeft : i < xAt => ~XClean
    /\ xPc = "write" => xAt \notin xLeft
    /\ xPc = "finish" /\ xLeft # {} => ~XClean
    /\ xPc = "done" /\ xExit = "ok" => xLeft = {}

(* The files: an output is lost only to another one of its name.           *)
XDiskInv ==
    /\ xWrites \subseteq XCohort \X xOpts.formats /\ xFiles \subseteq xWrites
    /\ XDistinct => xFiles = xWrites
    /\ xPc # "done" \/ "manifest" \in xSidecars =>
         \A o \in xWrites : \E p \in xFiles : XName(p) = XName(o)

(* A step that leaves the copies and the results alone, and the settled    *)
(* inputs too, or returns without success.                                 *)
LEMMA XLeftAlone ==
  ASSUME XInv, XLeftInv, UNCHANGED <<xOpts, xLeft, xResults>>,
         \/ xPc' \notin {"collect", "write", "finish", "done"}
         \/ xPc' = "done" /\ xExit' # "ok"
         \/ xLeft = {}
  PROVE  XLeftInv'
<1>1. /\ \A i \in xLeft' : i \in 1..Len(xResults') /\ xResults'[i] = "failed"
      /\ xOpts'.index => xLeft' = {}
  BY DEF XLeftInv
<1> QED
  BY <1>1 DEF XLeftInv

(* Before the first result, and on the record-index route, no copy is      *)
(* left.                                                                   *)
LEMMA XNoneLeft ==
  ASSUME XInv, XLeftInv,
         xPc \in {"options", "resolve", "discover", "preview", "acquire", "route"} \/ xOpts.index
  PROVE  xLeft = {}
<1>1. CASE xOpts.index
  BY <1>1 DEF XLeftInv
<1>2. CASE xPc \in {"options", "resolve", "discover", "preview", "acquire", "route"}
  <2>1. xResults = <<>>
    BY <1>2 DEF XInv, XPlace
  <2> QED
    BY <2>1 DEF XLeftInv
<1> QED
  BY <1>1, <1>2

LEMMA XLeftStarts == XInit => XLeftInv /\ XDiskInv
BY DEF XInit, XLeftInv, XDiskInv

LEMMA XLeftKeeps == XInv /\ XInv' /\ XLeftInv /\ [XNext]_xvars => XLeftInv'
<1> SUFFICES ASSUME XInv, XInv', XLeftInv, [XNext]_xvars PROVE XLeftInv'
  OBVIOUS
<1>0. /\ xOpts \in XLines /\ xAt \in Nat /\ xCohort \in Nat /\ xResults \in Seq(XAnyAnswer)
      /\ (\A i \in xLeft : i \in Nat) /\ Len(xResults) \in Nat
  <2>1. xOpts \in XLines /\ xAt \in Nat /\ xCohort \in Nat /\ xResults \in Seq(XAnyAnswer)
    BY XAssumption DEF XInv, XTypeOK
  <2>2. \A i \in xLeft : i \in 1..Len(xResults)
    BY DEF XLeftInv
  <2> QED
    BY <2>1, <2>2
<1>1. CASE UNCHANGED xvars
  BY <1>1 DEF xvars, xSession, xBook, XLeftInv, XClean
<1>2. CASE XPreflight \/ XResolve \/ XDiscover \/ XPreview \/ XAcquire \/ XRoute \/ XChoose
  <2>1. /\ xPc \in {"options", "resolve", "discover", "preview", "acquire", "route"}
        /\ UNCHANGED <<xOpts, xLeft, xResults>>
    BY <1>2 DEF XPreflight, XResolve, XDiscover, XPreview, XAcquire, XRoute, XChoose
  <2> QED
    BY <2>1, XNoneLeft, XLeftAlone
<1>3. CASE XOpenIndex \/ XIndexSource \/ XIndexExtract \/ XIndexBuffered \/ XIndexStreamed
  <2>1. xPc \in {"index", "source", "floors", "indexed"} /\ UNCHANGED <<xOpts, xLeft, xResults>>
    BY <1>3 DEF XOpenIndex, XIndexSource, XIndexExtract, XIndexBuffered, XIndexStreamed
  <2>2. xOpts.index
    BY <2>1 DEF XInv, XPlace
  <2> QED
    BY <2>1, <2>2, XNoneLeft, XLeftAlone
<1>4. CASE XReadRefused
  <2>1. /\ xPc = "read" /\ xPc' = "read" /\ xResults' = Append(xResults, "failed") /\ xOpts' = xOpts
        /\ xLeft' \in {xLeft, xLeft \cup {xAt}}
    BY <1>4 DEF XReadRefused, XPut
  <2>2. Len(xResults) = xAt - 1 /\ ~xOpts.index
    BY <2>1, XReadAt
  <2>3. /\ Len(xResults') = xAt /\ xResults'[xAt] = "failed"
        /\ \A i \in 1..Len(xResults) : i \in 1..Len(xResults') /\ xResults'[i] = xResults[i]
    BY <1>0, <2>1, <2>2 DEF XAnyAnswer
  <2>4. xAt \in 1..Len(xResults')
    BY <1>0, <2>1, <2>3, XReadAt
  <2> QED
    BY <2>1, <2>2, <2>3, <2>4 DEF XLeftInv
<1>5. CASE XRead
  <2>1. CASE UNCHANGED <<xOpts, xLeft, xResults>> /\ xPc' = "done" /\ xExit' # "ok"
    BY <2>1, XLeftAlone
  <2>2. CASE \E d \in XAnyAnswer : xResults' = Append(xResults, d) /\ UNCHANGED <<xOpts, xPc, xLeft>>
    <3>1. PICK d \in XAnyAnswer : xResults' = Append(xResults, d) /\ UNCHANGED <<xOpts, xPc, xLeft>>
      BY <2>2
    <3>2. \A i \in 1..Len(xResults) : i \in 1..Len(xResults') /\ xResults'[i] = xResults[i]
      BY <1>0, <3>1
    <3>3. xPc' = "read"
      BY <1>5, <3>1 DEF XRead
    <3> QED
      BY <3>1, <3>2, <3>3 DEF XLeftInv
  <2>3. XAnswers \subseteq XAnyAnswer /\ "failed" \in XAnyAnswer
    BY DEF XAnswers, XAnyAnswer
  <2> QED
    BY <1>5, <2>1, <2>2, <2>3 DEF XRead, XPut, XReturn
<1>6. CASE XSnapshot
  BY <1>6, XLeftAlone DEF XSnapshot
<1>7. CASE XReadDone
  BY <1>0, <1>7 DEF XReadDone, XLeftInv, xSession
<1>8. CASE XCollectFailed \/ XCollectError \/ XFloorMiss
  <2>1. xPc = "collect" /\ xAt \in XCohort /\ UNCHANGED <<xOpts, xLeft, xResults>>
    BY <1>8 DEF XCollectFailed, XCollectError, XFloorMiss
  <2>2. CASE xPc' = "done" /\ xExit' # "ok"
    BY <2>1, <2>2, XLeftAlone
  <2>3. CASE XFailure /\ XNextInput
    <3>1. ~XClean' /\ xPc' = "collect"
      BY <2>1, <2>3, XFailureMarks DEF XClean, XNextInput
    <3> QED
      BY <2>1, <3>1 DEF XLeftInv
  <2> QED
    BY <1>8, <2>2, <2>3 DEF XCollectFailed, XCollectError, XFloorMiss, XSettleFailed, XReturn
<1>9. CASE XAccept
  <2>1. /\ xPc = "collect" /\ XResult # "failed" /\ UNCHANGED <<xOpts, xAt, xLeft, xResults, xFailures, xFirst>>
        /\ (xPc' = "write" \/ (xPc' = "done" /\ xExit' # "ok"))
    BY <1>9 DEF XAccept, XReturn
  <2>2. CASE xPc' = "done" /\ xExit' # "ok"
    BY <2>1, <2>2, XLeftAlone
  <2>3. CASE xPc' = "write"
    BY <2>1, <2>3 DEF XLeftInv, XResult, XClean
  <2> QED
    BY <2>1, <2>2, <2>3
<1>10. CASE \E f \in XFormats : XWriteFormat(f)
  <2>1. PICK f \in XFormats : XWriteFormat(f)
    BY <1>10
  <2>2. /\ xPc = "write" /\ UNCHANGED <<xOpts, xAt, xLeft, xResults, xFailures, xFirst>>
        /\ (xPc' = "write" \/ (xPc' = "done" /\ xExit' # "ok"))
    BY <2>1 DEF XWriteFormat, XReturn
  <2>3. CASE xPc' = "done" /\ xExit' # "ok"
    BY <2>2, <2>3, XLeftAlone
  <2>4. CASE xPc' = "write"
    BY <2>2, <2>4 DEF XLeftInv, XClean
  <2> QED
    BY <2>2, <2>3, <2>4
<1>11. CASE XWritten
  <2>1. /\ xPc = "write" /\ UNCHANGED <<xOpts, xLeft, xResults, xFailures, xFirst>>
        /\ xPc' = (IF xOpts.index THEN "finish" ELSE "collect")
        /\ xAt' = (IF xOpts.index THEN 1 ELSE xAt + 1)
    BY <1>11 DEF XWritten, xSession
  <2>2. CASE xOpts.index
    BY <2>1, <2>2, XNoneLeft, XLeftAlone
  <2>3. CASE ~xOpts.index
    <3>1. xPc' = "collect" /\ xAt' = xAt + 1 /\ XClean' = XClean /\ xAt \notin xLeft
      BY <2>1, <2>3 DEF XClean, XLeftInv
    <3>2. \A i \in xLeft : i < xAt' => i < xAt
      BY <1>0, <3>1
    <3> QED
      BY <2>1, <3>1, <3>2 DEF XLeftInv
  <2> QED
    BY <2>2, <2>3
<1>12. CASE XCollectDone
  <2>1. /\ xPc = "collect" /\ xAt = xCohort + 1 /\ xPc' = "finish"
        /\ UNCHANGED <<xOpts, xLeft, xResults, xFailures, xFirst>>
    BY <1>12 DEF XCollectDone, xSession, xBook
  <2>2. Len(xResults) = xCohort
    BY <2>1, XCollectAt
  <2>3. \A i \in xLeft : i < xAt
    BY <1>0, <2>1, <2>2 DEF XLeftInv
  <2> QED
    BY <2>1, <2>3 DEF XLeftInv, XClean
<1>13. CASE XFinishStep
  <2>1. /\ xPc = "finish" /\ UNCHANGED <<xOpts, xLeft, xResults, xFailures, xFirst>>
        /\ (xPc' = "finish" \/ (xPc' = "done" /\ xExit' # "ok"))
    BY <1>13 DEF XFinishStep, XReturn
  <2>2. CASE xPc' = "done" /\ xExit' # "ok"
    BY <2>1, <2>2, XLeftAlone
  <2>3. CASE xPc' = "finish"
    BY <2>1, <2>3 DEF XLeftInv, XClean
  <2> QED
    BY <2>1, <2>2, <2>3
<1>14. CASE XFinish
  <2>1. /\ xPc = "finish" /\ UNCHANGED <<xOpts, xLeft, xResults>> /\ xPc' = "done"
        /\ xExit' = (IF xFirst THEN "error" ELSE IF Len(xFailures) > 0 THEN "partial" ELSE "ok")
    BY <1>14 DEF XFinish, XReturn
  <2>2. xExit' = "ok" => XClean
    <3>1. xFailures \in Seq(1..XInputs)
      BY DEF XInv, XTypeOK
    <3> QED
      BY <2>1, <3>1 DEF XClean
  <2>3. xExit' = "ok" => xLeft = {}
    BY <2>1, <2>2 DEF XLeftInv
  <2> QED
    BY <2>1, <2>3, XLeftAlone
<1> QED
  BY <1>1, <1>2, <1>3, <1>4, <1>5, <1>6, <1>7, <1>8, <1>9, <1>10, <1>11, <1>12, <1>13, <1>14 DEF XNext

(* One more output, in place of any other of its name.                     *)
LEMMA XStoredKeeps ==
  ASSUME XDiskInv, xPc # "done", xPc' # "done", UNCHANGED <<xOpts, xCohort>>,
         NEW o \in XCohort \X xOpts.formats, XStored(o)
  PROVE  XDiskInv'
<1>1. xWrites' = xWrites \cup {o} /\ xFiles' = {p \in xFiles : XName(p) # XName(o)} \cup {o}
  BY DEF XStored, XOthers
<1>2. /\ xWrites \subseteq XCohort \X xOpts.formats /\ xFiles \subseteq xWrites
      /\ (XDistinct => xFiles = xWrites) /\ \A w \in xWrites : \E p \in xFiles : XName(p) = XName(w)
  BY DEF XDiskInv
<1>3. xWrites' \subseteq XCohort' \X xOpts'.formats /\ xFiles' \subseteq xWrites'
  BY <1>1, <1>2 DEF XCohort
<1>4. ASSUME XDistinct' PROVE xFiles' = xWrites'
  <2>1. XDistinct
    BY <1>4 DEF XDistinct, XCohort, XName
  <2>2. \A p \in xFiles : XName(p) = XName(o) => p = o
    BY <1>2, <2>1 DEF XDistinct
  <2> QED
    BY <1>1, <1>2, <2>1, <2>2
<1>5. ASSUME NEW w \in xWrites' PROVE \E p \in xFiles' : XName(p)' = XName(w)'
  <2>1. CASE XName(w) = XName(o)
    BY <1>1, <2>1 DEF XName
  <2>2. CASE XName(w) # XName(o)
    <3>1. PICK p \in xFiles : XName(p) = XName(w)
      BY <1>1, <1>2, <2>2
    <3> QED
      BY <1>1, <2>2, <3>1 DEF XName
  <2> QED
    BY <2>1, <2>2
<1> QED
  BY <1>3, <1>4, <1>5 DEF XDiskInv

LEMMA XDiskSame ==
  ASSUME XDiskInv, UNCHANGED <<xOpts, xCohort, xWrites, xFiles>>,
         \/ xPc # "done"
         \/ UNCHANGED <<xPc, xSidecars>>
  PROVE  XDiskInv'
BY DEF XDiskInv, XDistinct, XCohort, XName

LEMMA XDiskKeeps == XInv /\ XInv' /\ XDiskInv /\ [XNext]_xvars => XDiskInv'
<1> SUFFICES ASSUME XInv, XInv', XDiskInv, [XNext]_xvars PROVE XDiskInv'
  OBVIOUS
<1>1. CASE UNCHANGED xvars
  BY <1>1, XDiskSame DEF xvars, xSession, xBook
<1>2. CASE XDiscover \/ XOpenIndex
  <2>1. xPc \in XEarly /\ UNCHANGED <<xOpts, xBook>>
    BY <1>2 DEF XDiscover, XOpenIndex, XEarly
  <2>2. xWrites = {} /\ xFiles = {}
    BY <2>1 DEF XInv, XBooks, XDiskInv
  <2>3. xWrites' = {} /\ xFiles' = {}
    BY <2>1, <2>2 DEF xBook
  <2> QED
    BY <2>3 DEF XDiskInv
<1>3. CASE XPreflight \/ XResolve \/ XPreview \/ XAcquire \/ XRoute \/ XChoose \/ XReadRefused \/ XSnapshot
           \/ XRead \/ XReadDone \/ XCollectDone \/ XFinish \/ XIndexSource \/ XIndexExtract
  <2>1. UNCHANGED <<xOpts, xCohort, xBook>> /\ xPc # "done"
    BY <1>3 DEF XPreflight, XResolve, XPreview, XAcquire, XRoute, XChoose, XReadRefused, XSnapshot, XRead,
                XReadDone, XCollectDone, XFinish, XIndexSource, XIndexExtract
  <2> QED
    BY <2>1, XDiskSame DEF xBook
<1>4. CASE XCollectFailed \/ XCollectError \/ XFloorMiss \/ XAccept \/ XWritten \/ XFinishStep \/ XIndexBuffered
  <2>1. UNCHANGED <<xOpts, xCohort, xWrites, xFiles>> /\ xPc # "done"
    BY <1>4 DEF XCollectFailed, XCollectError, XFloorMiss, XAccept, XWritten, XFinishStep, XIndexBuffered,
                XSettleFailed, xBook
  <2> QED
    BY <2>1, XDiskSame
<1>5. CASE \E f \in XFormats : XWriteFormat(f)
  <2>1. PICK f \in XFormats : XWriteFormat(f)
    BY <1>5
  <2> DEFINE o == <<xAt, f>>
  <2>2. /\ xPc = "write" /\ f \in xOpts.formats /\ o \notin xWrites
        /\ UNCHANGED <<xOpts, xCohort, xSidecars>>
    BY <2>1 DEF XWriteFormat, XUnwritten
  <2>3. o \in XCohort \X xOpts.formats
    BY <2>2, XWriteAt
  <2> HIDE DEF o
  <2>4. CASE XStored(o) /\ xPc' = "write"
    BY <2>2, <2>3, <2>4, XStoredKeeps
  <2>5. CASE xPc' = "done" /\ xWrites' = xWrites /\ xFiles' \in {xFiles, XOthers(o)}
    <3>1. "manifest" \notin xSidecars'
      BY <2>2, XWriteAt
    <3>2. xFiles' \subseteq xWrites' /\ xWrites' \subseteq XCohort' \X xOpts'.formats
      BY <2>2, <2>5 DEF XDiskInv, XOthers, XCohort
    <3>3. ASSUME XDistinct' PROVE xFiles' = xWrites'
      <4>1. XDistinct
        BY <2>2, <3>3 DEF XDistinct, XCohort, XName
      <4>2. \A p \in xFiles : XName(p) # XName(o)
        BY <2>2, <2>3, <4>1 DEF XDiskInv, XDistinct
      <4> QED
        BY <2>5, <4>1, <4>2 DEF XDiskInv, XOthers
    <3> QED
      BY <2>5, <3>1, <3>2, <3>3 DEF XDiskInv
  <2> QED
    BY <2>1, <2>2, <2>4, <2>5 DEF XWriteFormat, XWriteOut, XReturn, o
<1>6. CASE XIndexStreamed
  <2> DEFINE o == <<1, "json">>
  <2>1. /\ xPc = "indexed" /\ xOpts.formats = {"json"} /\ UNCHANGED <<xOpts, xCohort, xSidecars>>
        /\ (IF xOpts.out THEN XStored(o) ELSE UNCHANGED <<xWrites, xFiles>>)
        /\ (xPc' = "finish" \/ xPc' = "done")
    BY <1>6 DEF XIndexStreamed, XReturn
  <2>2. o \in XCohort \X xOpts.formats /\ xWrites = {} /\ xFiles = {} /\ xSidecars = {}
    BY <2>1, XIndexedAt DEF XCohort, XDiskInv
  <2> HIDE DEF o
  <2>3. CASE xOpts.out
    <3>1. xWrites' = {o} /\ xFiles' = {o}
      BY <2>1, <2>2, <2>3 DEF XStored, XOthers
    <3> QED
      BY <2>1, <2>2, <3>1 DEF XDiskInv, XCohort
  <2>4. CASE ~xOpts.out
    BY <2>1, <2>4, XDiskSame
  <2> QED
    BY <2>3, <2>4
<1> QED
  BY <1>1, <1>2, <1>3, <1>4, <1>5, <1>6 DEF XNext

(* However runExtract returns, it has released both sessions; a private    *)
(* copy is left only when removing it failed, and then the run ended with  *)
(* that failure or does not report success: for any number of inputs,      *)
(* every command line and any number of failing steps.                     *)
THEOREM RunReleases == XSpec => []ExtractReleases
<1>1. XInv /\ XLeftInv => ExtractReleases
  BY DEF XInv, XSessionsClosed, XLeftInv, ExtractReleases
<1> QED
  BY <1>1, XStarts, XKeeps, XLeftStarts, XLeftKeeps, PTL DEF XSpec

(* The manifest, failures.json, dispositions.json, the value profile and   *)
(* the exit code of a buffered or record-index run agree with the files    *)
(* that are there, whatever names the outputs get.                         *)
THEOREM RunHonest == XSpec => []BufferedRunHonest
<1>1. XInv /\ XDiskInv => BufferedRunHonest
  <2> SUFFICES ASSUME XInv, XDiskInv PROVE BufferedRunHonest
    OBVIOUS
  <2>1. XWritesHonest
    BY DEF XInv
  <2>2. \A i \in 1..XInputs :
          /\ xProfile[i] <= 1
          /\ xProfile[i] = 1 /\ xOpts.out /\ XDistinct => \A f \in xOpts.formats : <<i, f>> \in xFiles
    BY <2>1 DEF XWritesHonest, XDiskInv
  <2>3. "manifest" \in xSidecars =>
          /\ xFiles \subseteq XListing
          /\ \A o \in XListing : \E p \in xFiles : XName(p) = XName(o)
          /\ XDistinct => xFiles = XListing /\ Len(xListed) = Cardinality(xFiles)
    <3> SUFFICES ASSUME "manifest" \in xSidecars
                 PROVE  /\ xFiles \subseteq XListing
                        /\ \A o \in XListing : \E p \in xFiles : XName(p) = XName(o)
                        /\ XDistinct => xFiles = XListing /\ Len(xListed) = Cardinality(xFiles)
      OBVIOUS
    <3>1. XListing = xWrites /\ Len(xListed) = Cardinality(xWrites)
      BY <2>1 DEF XWritesHonest, XListing
    <3> QED
      BY <3>1 DEF XDiskInv
  <2> QED
    BY <2>1, <2>2, <2>3 DEF BufferedRunHonest, XWritesHonest
<1> QED
  BY <1>1, XStarts, XKeeps, XLeftStarts, XDiskKeeps, PTL DEF XSpec

-------------------------------------------------------------------------------
(* The inductive invariant of InputIdentity.                               *)

JLine(i) == JNamed(jLines)[i]
JPlaces == DOMAIN JNamed(jLines)
JWorking == {"preflight", "stat", "open", "copy", "verify", "parse", "hash", "remove"}

(* The parsed list and the outcomes have a place for every named line.     *)
JShape ==
    /\ jLines \in JLists /\ jMode \in JModes /\ jEdits \in Nat
    /\ jPc \in JWorking \cup {"list", "done"}
    /\ jPc = "list" => jOut = <<>> /\ jExit = "running" /\ jSnap.held = FALSE /\ jAt = 1
    /\ jPc \in JWorking => jAt \in JPlaces /\ jExit = "running"
    /\ \/ jPc \in {"list", "done"} /\ jOut = <<>> /\ jExit # "ok"
       \/ /\ jPc # "list" /\ ~JListRefused(jLines)
          /\ jEntries = [i \in JPlaces |-> JEntry(JLine(i))]
          /\ jOut = [i \in JPlaces |-> jOut[i]] /\ \A i \in JPlaces : "state" \in DOMAIN jOut[i]

(* An input that is parsed from its copy was verified against its line.    *)
JVerified ==
    /\ jPc = "parse" /\ JDeclaration.bound => jSnap.bytes = JDeclaration.sha
    /\ jPc = "remove" => /\ JBound /\ jBuilt = jSnap.bytes
                         /\ JDeclaration.bound => jBuilt = JDeclaration.sha
    /\ jPc = "hash" => ~JBound
    /\ jPc \in {"open", "copy", "verify"} => JBound

(* A copy that is held belongs to the input in hand, or could not be       *)
(* removed when an earlier input failed.                                   *)
JHeld ==
    /\ jPc = "preflight" => ~jSnap.held
    /\ (jPc \in {"stat", "open", "hash"} \/ (jPc = "parse" /\ ~JBound)) /\ jSnap.held =>
         \E i \in JPlaces : i < jAt /\ jOut[i].state = "failed"

(* What is applied has the bytes its line declares.                        *)
JApplied ==
    \A i \in JPlaces : jOut # <<>> /\ jOut[i].state = "applied" =>
        /\ JEntry(JLine(i)).decl.bound \/ jMode.identity => jOut[i].bytes = jOut[i].sha
        /\ JEntry(JLine(i)).decl.bound => jOut[i].bytes = JEntry(JLine(i)).decl.sha

(* A run that was to stop at a missing file has stopped, or none is        *)
(* missing.                                                                *)
JLacks == \E i \in JPlaces : JLine(i).kind = "uri" /\ ~jFile[JLine(i).ref].there
JStopped ==
    /\ jPc \in {"list", "preflight"} => \A i \in DOMAIN jOut : jOut[i].state = "pending"
    /\ jMode.driver # "multi" /\ ~jMode.cont /\ jEdits = 0 /\ JLacks =>
         /\ jPc \in {"list", "preflight", "done"}
         /\ \A i \in DOMAIN jOut : jOut[i].state # "applied"

JSaysOk ==
    jExit = "ok" => /\ jPc = "done" /\ ~jSnap.held /\ jOut # <<>>
                    /\ \A i \in JPlaces : jOut[i].state = "applied"

IdentityInv == JShape /\ JVerified /\ JHeld /\ JApplied /\ JStopped /\ JSaysOk

-------------------------------------------------------------------------------
(* The named lines of a list, in order, are a sequence.                    *)
LEMMA NamedLines ==
  ASSUME NEW ls, ls \in Seq(ToSet(ls))
  PROVE  \E n \in Nat : DOMAIN JNamed(ls) = 1..n
<1> DEFINE kept == {n \in DOMAIN ls : ls[n].kind # "comment"}
<1>1. DOMAIN ls = 1..Len(ls) /\ Len(ls) \in Nat
  OBVIOUS
<1>2. IsFiniteSet(1..Len(ls))
  BY <1>1, FS_Interval
<1>3. Cardinality(kept) \in Nat
  BY <1>1, <1>2, FS_Subset, FS_CardinalityType
<1>4. DOMAIN JNamed(ls) = 1..Cardinality(kept)
  BY DEF JNamed
<1> QED
  BY <1>3, <1>4

(* The input in hand, its line and the place of its outcome.               *)
LEMMA InHand ==
  ASSUME JShape, jPc \in JWorking
  PROVE  /\ ~JListRefused(jLines) /\ jEntries = [i \in JPlaces |-> JEntry(JLine(i))]
         /\ jOut = [i \in JPlaces |-> jOut[i]] /\ (\A i \in JPlaces : "state" \in DOMAIN jOut[i])
         /\ jAt \in JPlaces /\ jOut # <<>> /\ jExit = "running"
         /\ jEntries[jAt] = JEntry(JLine(jAt)) /\ JDeclaration = JEntry(JLine(jAt)).decl
         /\ Len(jEntries) \in Nat /\ JPlaces = 1..Len(jEntries)
<1>1. jAt \in JPlaces /\ jExit = "running" /\ jPc \notin {"list", "done"} /\ jLines \in JLists
  BY DEF JShape, JWorking
<1>2. /\ ~JListRefused(jLines) /\ jEntries = [i \in JPlaces |-> JEntry(JLine(i))]
      /\ jOut = [i \in JPlaces |-> jOut[i]] /\ (\A i \in JPlaces : "state" \in DOMAIN jOut[i])
  BY <1>1 DEF JShape
<1>3. jOut # <<>>
  BY <1>1, <1>2
<1>4. jEntries[jAt] = JEntry(JLine(jAt)) /\ JDeclaration = JEntry(JLine(jAt)).decl
  BY <1>1, <1>2 DEF JDeclaration
<1>5. PICK n \in Nat : JPlaces = 1..n
  BY <1>1, NamedLines, JListsAssumption DEF JPlaces
<1>6. jEntries \in Seq({JEntry(JLine(i)) : i \in 1..n}) /\ Len(jEntries) = n
  BY <1>2, <1>5
<1> QED
  BY <1>1, <1>2, <1>3, <1>4, <1>5, <1>6

(* Recording an outcome changes the place of the input in hand only.       *)
LEMMA Recorded ==
  ASSUME JShape, jPc \in JWorking, NEW st, jOut' = [jOut EXCEPT ![jAt].state = st]
  PROVE  /\ jOut' = [i \in JPlaces |-> jOut'[i]] /\ (\A i \in JPlaces : "state" \in DOMAIN jOut'[i])
         /\ jOut'[jAt].state = st /\ (\A i \in JPlaces \ {jAt} : jOut'[i] = jOut[i])
<1>1. /\ jOut = [i \in JPlaces |-> jOut[i]] /\ (\A i \in JPlaces : "state" \in DOMAIN jOut[i])
      /\ jAt \in JPlaces
  BY InHand
<1>2. jOut'[jAt] = [jOut[jAt] EXCEPT !.state = st]
  BY <1>1
<1>3. jOut'[jAt].state = st /\ "state" \in DOMAIN jOut'[jAt]
  BY <1>1, <1>2
<1> QED
  BY <1>1, <1>3

LEMMA RecordedApplied ==
  ASSUME JShape, jPc \in JWorking, NEW sha,
         jOut' = [jOut EXCEPT ![jAt] = [state |-> "applied", bytes |-> jBuilt, sha |-> sha]]
  PROVE  /\ jOut' = [i \in JPlaces |-> jOut'[i]] /\ (\A i \in JPlaces : "state" \in DOMAIN jOut'[i])
         /\ jOut'[jAt] = [state |-> "applied", bytes |-> jBuilt, sha |-> sha]
         /\ (\A i \in JPlaces \ {jAt} : jOut'[i] = jOut[i])
<1>1. /\ jOut = [i \in JPlaces |-> jOut[i]] /\ (\A i \in JPlaces : "state" \in DOMAIN jOut[i])
      /\ jAt \in JPlaces
  BY InHand
<1> QED
  BY <1>1

(* Going on to the next input, or to the end.                              *)
LEMMA AdvanceKeeps ==
  ASSUME IdentityInv, jPc \in JWorking \ {"preflight"}, JAdvance,
         UNCHANGED <<jLines, jMode, jFile, jEdits, jEntries>>,
         jOut' = [i \in JPlaces |-> jOut'[i]], \A i \in JPlaces : "state" \in DOMAIN jOut'[i],
         \A i \in JPlaces \ {jAt} : jOut'[i] = jOut[i],
         jSnap'.held => \E i \in JPlaces : i <= jAt /\ jOut'[i].state = "failed",
         jOut'[jAt].state = "applied" =>
           /\ JBound => jOut'[jAt].bytes = jOut'[jAt].sha
           /\ JDeclaration.bound => jOut'[jAt].bytes = JDeclaration.sha
  PROVE  IdentityInv'
<1>0. JShape
  BY DEF IdentityInv
<1>1. /\ ~JListRefused(jLines) /\ jEntries = [i \in JPlaces |-> JEntry(JLine(i))]
      /\ jAt \in JPlaces /\ jOut # <<>> /\ jExit = "running"
      /\ JDeclaration = JEntry(JLine(jAt)).decl /\ Len(jEntries) \in Nat /\ JPlaces = 1..Len(jEntries)
  BY <1>0, InHand
<1>2. /\ JPlaces' = JPlaces /\ (\A i : JLine(i)' = JLine(i)) /\ JListRefused(jLines)' = JListRefused(jLines)
      /\ JLacks' = JLacks /\ jOut' # <<>>
  BY <1>1 DEF JPlaces, JLine, JLacks
<1>3. \/ /\ jAt < Len(jEntries) /\ jAt' = jAt + 1 /\ jPc' = "stat" /\ jExit' = "running"
      \/ /\ jPc' = "done" /\ jAt' = jAt /\ jExit' \in {"partial", "error", "ok"}
         /\ jExit' = "ok" => \A i \in JPlaces : jOut'[i].state = "applied"
  BY <1>1 DEF JAdvance, JEnd
<1>4. JShape'
  <2>1. jAt' \in JPlaces \/ jPc' = "done"
    BY <1>1, <1>3
  <2> QED
    BY <1>0, <1>1, <1>2, <1>3, <2>1 DEF JShape, JWorking
<1>5. JVerified' /\ JHeld'
  <2>1. CASE jPc' = "stat"
    <3>1. \A i \in JPlaces : i <= jAt => i < jAt'
      BY <1>1, <1>3, <2>1
    <3> QED
      BY <1>2, <2>1, <3>1 DEF JVerified, JHeld
  <2>2. CASE jPc' = "done"
    BY <2>2 DEF JVerified, JHeld
  <2> QED
    BY <1>3, <2>1, <2>2
<1>6. JApplied'
  <2> SUFFICES ASSUME NEW i \in JPlaces, jOut'[i].state = "applied"
               PROVE  /\ JEntry(JLine(i)).decl.bound \/ jMode.identity => jOut'[i].bytes = jOut'[i].sha
                      /\ JEntry(JLine(i)).decl.bound => jOut'[i].bytes = JEntry(JLine(i)).decl.sha
    BY <1>2 DEF JApplied
  <2>1. CASE i = jAt
    BY <1>1, <2>1 DEF JBound
  <2>2. CASE i # jAt
    BY <1>1, <2>2 DEF IdentityInv, JApplied
  <2> QED
    BY <2>1, <2>2
<1>7. JStopped'
  BY <1>2, <1>3 DEF IdentityInv, JStopped, JWorking
<1>8. JSaysOk'
  <2>1. ASSUME jExit' = "ok" PROVE ~jSnap'.held
    BY <1>3, <2>1
  <2> QED
    BY <1>2, <1>3, <2>1 DEF JSaysOk
<1> QED
  BY <1>4, <1>5, <1>6, <1>7, <1>8 DEF IdentityInv

(* A run that ends with an error.                                          *)
LEMMA ErrorKeeps ==
  ASSUME IdentityInv, jPc \in JWorking, JEnd("error"), UNCHANGED <<jLines, jMode, jFile, jEdits, jEntries>>,
         jOut' = [i \in JPlaces |-> jOut'[i]], \A i \in JPlaces : "state" \in DOMAIN jOut'[i],
         \A i \in JPlaces : jOut'[i] = jOut[i] \/ jOut'[i].state # "applied"
  PROVE  IdentityInv'
<1>0. JShape
  BY DEF IdentityInv
<1>1. /\ ~JListRefused(jLines) /\ jEntries = [i \in JPlaces |-> JEntry(JLine(i))]
      /\ jOut = [i \in JPlaces |-> jOut[i]] /\ jAt \in JPlaces /\ jOut # <<>>
  BY <1>0, InHand
<1>2. /\ JPlaces' = JPlaces /\ (\A i : JLine(i)' = JLine(i)) /\ JListRefused(jLines)' = JListRefused(jLines)
      /\ JLacks' = JLacks /\ jOut' # <<>> /\ jPc' = "done" /\ jExit' = "error"
  BY <1>1 DEF JPlaces, JLine, JLacks, JEnd
<1>3. JShape'
  BY <1>0, <1>1, <1>2 DEF JShape, JWorking
<1>4. JVerified' /\ JHeld' /\ JSaysOk'
  BY <1>2 DEF JVerified, JHeld, JSaysOk
<1>5. JApplied'
  BY <1>1, <1>2 DEF IdentityInv, JApplied
<1>6. JStopped'
  BY <1>1, <1>2 DEF IdentityInv, JStopped, JWorking
<1> QED
  BY <1>3, <1>4, <1>5, <1>6 DEF IdentityInv

(* An input that fails.                                                    *)
LEMMA FailureKeeps ==
  ASSUME IdentityInv, jPc \in JWorking \ {"preflight"}, NEW st \in {"failed", "unavailable"}, JFailed(st),
         UNCHANGED <<jLines, jMode, jFile, jEdits, jEntries>>,
         jSnap'.held => st = "failed" \/ \E i \in JPlaces : i < jAt /\ jOut[i].state = "failed"
  PROVE  IdentityInv'
<1>0. JShape
  BY DEF IdentityInv
<1>1. jAt \in JPlaces /\ JPlaces = 1..Len(jEntries) /\ Len(jEntries) \in Nat
  BY <1>0, InHand
<1>2. /\ jOut' = [i \in JPlaces |-> jOut'[i]] /\ (\A i \in JPlaces : "state" \in DOMAIN jOut'[i])
      /\ jOut'[jAt].state = st /\ (\A i \in JPlaces \ {jAt} : jOut'[i] = jOut[i])
  BY <1>0, Recorded DEF JFailed
<1>3. CASE JAdvance
  <2>1. jSnap'.held => \E i \in JPlaces : i <= jAt /\ jOut'[i].state = "failed"
    BY <1>1, <1>2
  <2>2. jOut'[jAt].state # "applied"
    BY <1>2
  <2> QED
    BY <1>2, <1>3, <2>1, <2>2, AdvanceKeeps DEF JFailed
<1>4. CASE JEnd("error") /\ UNCHANGED jAt
  <2>1. \A i \in JPlaces : jOut'[i] = jOut[i] \/ jOut'[i].state # "applied"
    BY <1>2
  <2> QED
    BY <1>2, <1>4, <2>1, ErrorKeeps DEF JFailed
<1> QED
  BY <1>3, <1>4 DEF JFailed

(* A step that stays with the input in hand.                               *)
LEMMA StayKeeps ==
  ASSUME IdentityInv, jPc \in JWorking, jPc' \in JWorking \ {"preflight"},
         UNCHANGED <<jLines, jMode, jFile, jEdits, jEntries, jAt, jOut, jExit>>,
         jPc = "preflight" => ~(jMode.driver # "multi" /\ ~jMode.cont /\ JLacks), JVerified', JHeld'
  PROVE  IdentityInv'
<1>1. /\ JPlaces' = JPlaces /\ (\A i : JLine(i)' = JLine(i)) /\ JListRefused(jLines)' = JListRefused(jLines)
      /\ JLacks' = JLacks
  BY DEF JPlaces, JLine, JLacks
<1>2. JShape'
  BY <1>1 DEF IdentityInv, JShape, JWorking
<1>3. JApplied'
  BY <1>1 DEF IdentityInv, JApplied
<1>4. JStopped'
  BY <1>1 DEF IdentityInv, JStopped, JWorking
<1>5. JSaysOk'
  BY <1>1, InHand DEF IdentityInv, JSaysOk
<1> QED
  BY <1>2, <1>3, <1>4, <1>5 DEF IdentityInv

-------------------------------------------------------------------------------
(* The actions.                                                            *)

LEMMA ReadListKeeps ==
  ASSUME IdentityInv, JReadList
  PROVE  IdentityInv'
<1>1. /\ jPc = "list" /\ jOut = <<>> /\ jExit = "running" /\ jSnap' = jSnap /\ jSnap.held = FALSE /\ jAt = 1 /\ jAt' = 1
      /\ UNCHANGED <<jLines, jMode, jFile, jEdits>>
  BY DEF IdentityInv, JShape, JReadList
<1>2. /\ JPlaces' = JPlaces /\ (\A i : JLine(i)' = JLine(i)) /\ JListRefused(jLines)' = JListRefused(jLines)
      /\ JLacks' = JLacks
  BY <1>1 DEF JPlaces, JLine, JLacks
<1>3. CASE JListRefused(jLines)
  <2>1. jPc' = "done" /\ jExit' = "error" /\ jOut' = <<>>
    BY <1>1, <1>3 DEF JReadList, JEnd
  <2>2. JShape'
    BY <1>1, <1>2, <2>1 DEF IdentityInv, JShape, JWorking
  <2>3. JVerified' /\ JHeld' /\ JApplied' /\ JStopped' /\ JSaysOk'
    BY <2>1 DEF JVerified, JHeld, JApplied, JStopped, JSaysOk
  <2> QED
    BY <2>2, <2>3 DEF IdentityInv
<1>4. CASE ~JListRefused(jLines)
  <2>1. /\ jPc' = "preflight" /\ jExit' = "running" /\ jEntries' = [i \in JPlaces |-> JEntry(JLine(i))]
        /\ jOut' = [i \in JPlaces |-> [state |-> "pending", bytes |-> <<>>, sha |-> <<>>]]
    BY <1>1, <1>4 DEF JReadList, JPlaces, JLine
  <2>2. 1 \in JPlaces
    <3>1. PICK n \in Nat : JPlaces = 1..n
      BY NamedLines, JListsAssumption DEF IdentityInv, JShape, JPlaces
    <3>2. JNamed(jLines) = [k \in JPlaces |-> JNamed(jLines)[k]] /\ JNamed(jLines) # <<>>
      BY <1>4 DEF JListRefused, JNamed, JPlaces
    <3>3. n # 0
      BY <3>1, <3>2
    <3> QED
      BY <3>1, <3>3
  <2>3. \A i \in JPlaces : jOut'[i].state = "pending" /\ "state" \in DOMAIN jOut'[i]
    BY <2>1
  <2>4. JShape'
    BY <1>1, <1>2, <1>4, <2>1, <2>2, <2>3 DEF IdentityInv, JShape, JWorking
  <2>5. JVerified' /\ JHeld' /\ JSaysOk'
    BY <1>1, <2>1 DEF JVerified, JHeld, JSaysOk
  <2>6. JApplied' /\ JStopped'
    BY <1>1, <1>2, <2>1, <2>3 DEF JApplied, JStopped
  <2> QED
    BY <2>4, <2>5, <2>6 DEF IdentityInv
<1> QED
  BY <1>3, <1>4

LEMMA PreflightKeeps ==
  ASSUME IdentityInv, JPreflight
  PROVE  IdentityInv'
<1>0. JShape /\ jPc = "preflight" /\ jPc \in JWorking /\ UNCHANGED <<jLines, jMode, jFile, jEdits, jEntries, jAt, jSnap, jBuilt, jOut>>
  BY DEF IdentityInv, JPreflight, JWorking
<1>1. /\ jEntries = [i \in JPlaces |-> JEntry(JLine(i))] /\ jOut = [i \in JPlaces |-> jOut[i]]
      /\ \A i \in JPlaces : "state" \in DOMAIN jOut[i]
  BY <1>0, InHand
<1>2. CASE jMode.driver # "multi" /\ ~jMode.cont /\ JMissing
  BY <1>0, <1>1, <1>2, ErrorKeeps DEF JPreflight
<1>3. CASE ~(jMode.driver # "multi" /\ ~jMode.cont /\ JMissing)
  <2>1. JLacks => JMissing
    <3> SUFFICES ASSUME NEW i \in JPlaces, JLine(i).kind = "uri", ~jFile[JLine(i).ref].there PROVE JMissing
      BY DEF JLacks
    <3>1. jEntries[i].ref = JLine(i).ref /\ i \in DOMAIN jEntries
      BY <1>1 DEF JEntry
    <3> QED
      BY <3>1 DEF JMissing, ToSet
  <2>2. jPc' = "stat" /\ jExit' = jExit
    BY <1>3 DEF JPreflight
  <2>3. JVerified' /\ JHeld'
    BY <1>0, <2>2 DEF IdentityInv, JVerified, JHeld
  <2> QED
    BY <1>0, <1>3, <2>1, <2>2, <2>3, StayKeeps DEF JWorking
<1> QED
  BY <1>2, <1>3

LEMMA StatKeeps ==
  ASSUME IdentityInv, JStat
  PROVE  IdentityInv'
<1>0. /\ JShape /\ jPc = "stat" /\ jPc \in JWorking \ {"preflight"}
      /\ UNCHANGED <<jLines, jMode, jFile, jEdits, jEntries>>
      /\ jSnap.held => \E i \in JPlaces : i < jAt /\ jOut[i].state = "failed"
  BY DEF IdentityInv, JStat, JWorking, JHeld
<1>1. CASE ~JBound
  <2>1. jPc' = "parse" /\ UNCHANGED <<jAt, jSnap, jOut, jExit>>
    BY <1>1 DEF JStat
  <2>2. JBound' = JBound /\ JDeclaration' = JDeclaration /\ JPlaces' = JPlaces
    BY <1>0, <2>1 DEF JBound, JDeclaration, JPlaces
  <2>3. JVerified' /\ JHeld'
    BY <1>0, <1>1, <2>1, <2>2 DEF JVerified, JHeld, JBound
  <2> QED
    BY <1>0, <2>1, <2>3, StayKeeps DEF JWorking
<1>2. CASE JBound /\ (~JSource.there \/ (JDeclaration.bound /\ Len(JSource.bytes) # JDeclaration.size))
  <2>1. JFailed(JReason) /\ jSnap' = jSnap /\ JReason \in {"failed", "unavailable"}
    BY <1>2 DEF JStat, JReason
  <2> QED
    BY <1>0, <2>1, FailureKeeps
<1>3. CASE JBound /\ ~(~JSource.there \/ (JDeclaration.bound /\ Len(JSource.bytes) # JDeclaration.size))
  <2>1. jPc' = "open" /\ UNCHANGED <<jAt, jSnap, jOut, jExit>>
    BY <1>3 DEF JStat
  <2>2. JPlaces' = JPlaces /\ JBound'
    BY <1>0, <1>3, <2>1 DEF JPlaces, JBound, JDeclaration
  <2>3. JVerified' /\ JHeld'
    BY <1>0, <2>1, <2>2 DEF JVerified, JHeld
  <2> QED
    BY <1>0, <2>1, <2>3, StayKeeps DEF JWorking
<1> QED
  BY <1>1, <1>2, <1>3

LEMMA OpenKeeps ==
  ASSUME IdentityInv, JOpen
  PROVE  IdentityInv'
<1>0. /\ JShape /\ jPc = "open" /\ jPc \in JWorking \ {"preflight"}
      /\ UNCHANGED <<jLines, jMode, jFile, jEdits, jEntries>>
      /\ jSnap.held => \E i \in JPlaces : i < jAt /\ jOut[i].state = "failed"
  BY DEF IdentityInv, JOpen, JWorking, JHeld
<1>1. CASE JSource.there
  <2>1. jPc' = "copy" /\ UNCHANGED <<jAt, jOut, jExit>> /\ JBound'
    BY <1>0, <1>1 DEF JOpen, IdentityInv, JVerified, JBound, JDeclaration
  <2>2. JVerified' /\ JHeld'
    BY <2>1 DEF JVerified, JHeld
  <2> QED
    BY <1>0, <2>1, <2>2, StayKeeps DEF JWorking
<1>2. CASE ~JSource.there
  <2>1. JFailed(JReason) /\ jSnap' = jSnap /\ JReason \in {"failed", "unavailable"}
    BY <1>2 DEF JOpen, JReason
  <2> QED
    BY <1>0, <2>1, FailureKeeps
<1> QED
  BY <1>1, <1>2

LEMMA CopyKeeps ==
  ASSUME IdentityInv, JCopy
  PROVE  IdentityInv'
<1>0. /\ jPc = "copy" /\ jPc' \in {"copy", "verify"}
      /\ UNCHANGED <<jLines, jMode, jFile, jEdits, jEntries, jAt, jOut, jExit>>
  BY DEF JCopy
<1>1. JBound'
  BY <1>0 DEF IdentityInv, JVerified, JBound, JDeclaration
<1>2. JVerified' /\ JHeld'
  BY <1>0, <1>1 DEF JVerified, JHeld
<1> QED
  BY <1>0, <1>2, StayKeeps DEF JWorking

LEMMA VerifyKeeps ==
  ASSUME IdentityInv, JVerify
  PROVE  IdentityInv'
<1>0. /\ jPc = "verify" /\ jPc \in JWorking \ {"preflight"}
      /\ UNCHANGED <<jLines, jMode, jFile, jEdits, jEntries>>
  BY DEF JVerify, JWorking
<1>1. CASE JDeclaration.bound /\ (Len(jSnap.bytes) # JDeclaration.size \/ jSnap.bytes # JDeclaration.sha)
  <2>1. JFailed("failed")
    BY <1>1 DEF JVerify
  <2> QED
    BY <1>0, <2>1, FailureKeeps
<1>2. CASE ~(JDeclaration.bound /\ (Len(jSnap.bytes) # JDeclaration.size \/ jSnap.bytes # JDeclaration.sha))
  <2>1. jPc' = "parse" /\ UNCHANGED <<jSnap, jAt, jOut, jExit>>
    BY <1>2 DEF JVerify
  <2>2. JDeclaration' = JDeclaration /\ JBound' = JBound /\ JBound
    BY <1>0, <2>1 DEF IdentityInv, JVerified, JDeclaration, JBound
  <2>3. JVerified'
    BY <1>2, <2>1, <2>2 DEF JVerified
  <2>4. JHeld'
    BY <1>0, <2>1, <2>2 DEF JHeld
  <2> QED
    BY <1>0, <2>1, <2>3, <2>4, StayKeeps DEF JWorking
<1> QED
  BY <1>1, <1>2

LEMMA ParseKeeps ==
  ASSUME IdentityInv, JParse
  PROVE  IdentityInv'
<1>0. /\ jPc = "parse" /\ jPc \in JWorking \ {"preflight"} /\ jSnap' = jSnap
      /\ UNCHANGED <<jLines, jMode, jFile, jEdits, jEntries>>
      /\ JDeclaration.bound => jSnap.bytes = JDeclaration.sha
      /\ ~JBound /\ jSnap.held => \E i \in JPlaces : i < jAt /\ jOut[i].state = "failed"
  BY DEF IdentityInv, JParse, JWorking, JVerified, JHeld
<1>1. CASE JTarget.there
  <2>1. jPc' = (IF JBound THEN "remove" ELSE "hash") /\ jBuilt' = JTarget.bytes /\ UNCHANGED <<jAt, jOut, jExit>>
    BY <1>1 DEF JParse
  <2>2. JDeclaration' = JDeclaration /\ JBound' = JBound /\ JPlaces' = JPlaces
    BY <1>0, <2>1 DEF JDeclaration, JBound, JPlaces
  <2>3. JVerified' /\ JHeld'
    BY <1>0, <2>1, <2>2 DEF JVerified, JHeld, JTarget
  <2> QED
    BY <1>0, <2>1, <2>3, StayKeeps DEF JWorking
<1>2. CASE ~JTarget.there
  <2>1. JFailed("unavailable") /\ ~JBound
    BY <1>2 DEF JParse, JTarget
  <2> QED
    BY <1>0, <2>1, FailureKeeps
<1> QED
  BY <1>1, <1>2

(* Rows that are committed, with their digest.                             *)
LEMMA SettleKeeps ==
  ASSUME IdentityInv, jPc \in JWorking \ {"preflight"}, NEW sha, JSettle(sha),
         UNCHANGED <<jLines, jMode, jFile, jEdits, jEntries>>,
         jSnap'.held => \E i \in JPlaces : i < jAt /\ jOut[i].state = "failed",
         JBound => jBuilt = sha, JDeclaration.bound => jBuilt = JDeclaration.sha
  PROVE  IdentityInv'
<1>0. JShape
  BY DEF IdentityInv
<1>1. /\ jOut' = [i \in JPlaces |-> jOut'[i]] /\ (\A i \in JPlaces : "state" \in DOMAIN jOut'[i])
      /\ jOut'[jAt] = [state |-> "applied", bytes |-> jBuilt, sha |-> sha]
      /\ (\A i \in JPlaces \ {jAt} : jOut'[i] = jOut[i])
  BY <1>0, RecordedApplied DEF JSettle
<1>2. jAt \in JPlaces /\ JPlaces = 1..Len(jEntries) /\ Len(jEntries) \in Nat
  BY <1>0, InHand
<1>3. jSnap'.held => \E i \in JPlaces : i <= jAt /\ jOut'[i].state = "failed"
  BY <1>1, <1>2
<1>4. jOut'[jAt].bytes = jBuilt /\ jOut'[jAt].sha = sha
  BY <1>1
<1> QED
  BY <1>1, <1>3, <1>4, AdvanceKeeps DEF JSettle

LEMMA HashKeeps ==
  ASSUME IdentityInv, JHash
  PROVE  IdentityInv'
<1>0. /\ jPc = "hash" /\ jPc \in JWorking \ {"preflight"} /\ jSnap' = jSnap /\ ~JBound
      /\ UNCHANGED <<jLines, jMode, jFile, jEdits, jEntries>>
      /\ jSnap.held => \E i \in JPlaces : i < jAt /\ jOut[i].state = "failed"
  BY DEF IdentityInv, JHash, JWorking, JVerified, JHeld
<1>1. CASE JSource.there
  BY <1>0, <1>1, SettleKeeps DEF JHash, JBound
<1>2. CASE ~JSource.there /\ jMode.driver = "multi"
  BY <1>0, <1>2, FailureKeeps DEF JHash
<1>3. CASE ~JSource.there /\ jMode.driver # "multi"
  <2>1. JShape /\ JEnd("error") /\ UNCHANGED <<jAt, jOut>>
    BY <1>3 DEF JHash, IdentityInv
  <2>2. jOut = [i \in JPlaces |-> jOut[i]] /\ \A i \in JPlaces : "state" \in DOMAIN jOut[i]
    BY <1>0, <2>1, InHand
  <2> QED
    BY <1>0, <2>1, <2>2, ErrorKeeps
<1> QED
  BY <1>1, <1>2, <1>3

LEMMA RemoveKeeps ==
  ASSUME IdentityInv, JRemove
  PROVE  IdentityInv'
<1>0. /\ JShape /\ jPc = "remove" /\ jPc \in JWorking \ {"preflight"} /\ jBuilt = jSnap.bytes
      /\ UNCHANGED <<jLines, jMode, jFile, jEdits, jEntries>>
      /\ JDeclaration.bound => jBuilt = JDeclaration.sha
  BY DEF IdentityInv, JRemove, JWorking, JVerified
<1>1. CASE jSnap' = JNoSnap /\ JSettle(jSnap.bytes)
  BY <1>0, <1>1, SettleKeeps DEF JNoSnap
<1>2. CASE jOut' = [jOut EXCEPT ![jAt].state = "failed"] /\ JEnd("error")
  <2>1. /\ jOut' = [i \in JPlaces |-> jOut'[i]] /\ (\A i \in JPlaces : "state" \in DOMAIN jOut'[i])
        /\ jOut'[jAt].state = "failed" /\ (\A i \in JPlaces \ {jAt} : jOut'[i] = jOut[i])
    BY <1>0, <1>2, Recorded
  <2>2. \A i \in JPlaces : jOut'[i] = jOut[i] \/ jOut'[i].state # "applied"
    BY <2>1
  <2> QED
    BY <1>0, <1>2, <2>1, <2>2, ErrorKeeps
<1> QED
  BY <1>1, <1>2 DEF JRemove

LEMMA FileEditKeeps ==
  ASSUME IdentityInv, JEdit
  PROVE  IdentityInv'
<1>1. /\ UNCHANGED <<jLines, jMode, jEntries, jAt, jPc, jSnap, jBuilt, jOut, jExit>>
      /\ jEdits \in Nat /\ jEdits' = jEdits + 1
  BY DEF IdentityInv, JShape, JEdit
<1>2. /\ JPlaces' = JPlaces /\ (\A i : JLine(i)' = JLine(i)) /\ JListRefused(jLines)' = JListRefused(jLines)
      /\ JDeclaration' = JDeclaration /\ JBound' = JBound
  BY <1>1 DEF JPlaces, JLine, JDeclaration, JBound
<1>3. JShape' /\ JVerified'
  BY <1>1, <1>2 DEF IdentityInv, JShape, JVerified
<1>4. JHeld' /\ JApplied' /\ JSaysOk'
  BY <1>1, <1>2 DEF IdentityInv, JHeld, JApplied, JSaysOk
<1>5. JStopped'
  BY <1>1, <1>2 DEF IdentityInv, JStopped
<1> QED
  BY <1>3, <1>4, <1>5 DEF IdentityInv

LEMMA IdentityInvInit == JInit => IdentityInv
<1> SUFFICES ASSUME JInit PROVE IdentityInv
  OBVIOUS
<1>1. JShape
  BY DEF JInit, JShape, JNoSnap, JWorking
<1> QED
  BY <1>1 DEF JInit, IdentityInv, JVerified, JHeld, JApplied, JStopped, JSaysOk

LEMMA IdentityInvStep == IdentityInv /\ [JNext]_jvars => IdentityInv'
<1> SUFFICES ASSUME IdentityInv, [JNext]_jvars PROVE IdentityInv'
  OBVIOUS
<1>1. CASE JReadList \/ JPreflight \/ JStat \/ JOpen
  BY <1>1, ReadListKeeps, PreflightKeeps, StatKeeps, OpenKeeps
<1>2. CASE JCopy \/ JVerify \/ JParse
  BY <1>2, CopyKeeps, VerifyKeeps, ParseKeeps
<1>3. CASE JHash \/ JRemove \/ JEdit
  BY <1>3, HashKeeps, RemoveKeeps, FileEditKeeps
<1>4. CASE UNCHANGED jvars
  BY <1>4 DEF jvars, IdentityInv, JShape, JVerified, JHeld, JApplied, JStopped, JSaysOk,
    JPlaces, JLine, JDeclaration, JBound, JLacks
<1> QED
  BY <1>1, <1>2, <1>3, <1>4 DEF JNext

(* A declared line that the parser accepted names the digest its input is  *)
(* held to.                                                                *)
LEMMA DeclaredSha ==
  ASSUME NEW line, line.kind = "object", ~JLineRefused(line)
  PROVE  \E p \in ToSet(line.fields) : p[1] = "sha256" /\ p[2].sha = JEntry(line).decl.sha
<1>1. \E p \in ToSet(line.fields) : p[1] = "sha256"
  BY DEF JLineRefused
<1>2. PICK p \in ToSet(line.fields) : p = (CHOOSE q \in ToSet(line.fields) : q[1] = "sha256") /\ p[1] = "sha256"
  BY <1>1
<1>3. JEntry(line).decl.sha = p[2].sha
  BY <1>2 DEF JEntry, JField
<1> QED
  BY <1>2, <1>3

(* Whatever other programs do to the files and whichever lines name them,  *)
(* rows that are committed for a declared input come from the bytes its    *)
(* own line declares, and the manifest's digest is of those bytes; a run   *)
(* that says ok leaves no private copy (snapshotAndIdentifyInput,          *)
(* declarationAt).                                                         *)
THEOREM IdentityKept == JSpec => []InputIdentityKept
<1>1. JSpec => []IdentityInv
  BY IdentityInvInit, IdentityInvStep, PTL DEF JSpec
<1>2. IdentityInv => InputIdentityKept
  <2> SUFFICES ASSUME IdentityInv PROVE InputIdentityKept
    OBVIOUS
  <2>1. ASSUME NEW i \in DOMAIN jOut, jOut[i].state = "applied"
        PROVE  /\ (JLine(i).kind = "object" \/ jMode.identity) => jOut[i].bytes = jOut[i].sha
               /\ JLine(i).kind = "object" =>
                    \E p \in ToSet(JLine(i).fields) : p[1] = "sha256" /\ p[2].sha = jOut[i].bytes
    <3>1. jOut # <<>>
      BY <2>1
    <3>2. i \in JPlaces /\ ~JListRefused(jLines)
      BY <2>1, <3>1 DEF IdentityInv, JShape
    <3>3. JEntry(JLine(i)).decl.bound <=> JLine(i).kind = "object"
      BY DEF JEntry, JNone
    <3>4. JLine(i) \in ToSet(JNamed(jLines)) /\ ~JLineRefused(JLine(i))
      BY <3>2 DEF JListRefused, JPlaces, JLine, ToSet
    <3> QED
      BY <2>1, <3>1, <3>2, <3>3, <3>4, DeclaredSha DEF IdentityInv, JApplied
  <2>2. jExit = "ok" => ~jSnap.held
    BY DEF IdentityInv, JSaysOk
  <2> QED
    BY <2>1, <2>2 DEF InputIdentityKept, JLine
<1> QED
  BY <1>1, <1>2, PTL

(* A fail-fast run that names a missing file commits no row as long as the *)
(* files stay as they are (preflightLocalInputs), and a run that says ok   *)
(* applied every line of its list.                                         *)
THEOREM MissingStops == JSpec => []MissingStopsFirst
<1>1. JSpec => []IdentityInv
  BY IdentityInvInit, IdentityInvStep, PTL DEF JSpec
<1>2. IdentityInv => MissingStopsFirst
  <2> SUFFICES ASSUME IdentityInv PROVE MissingStopsFirst
    OBVIOUS
  <2>1. (\E l \in ToSet(JNamed(jLines)) : l.kind = "uri" /\ ~jFile[l.ref].there) => JLacks
    BY DEF JLacks, JPlaces, JLine, ToSet
  <2>2. ASSUME jExit = "ok"
        PROVE  Len(jOut) = Len(JNamed(jLines)) /\ \A i \in DOMAIN jOut : jOut[i].state = "applied"
    <3>1. /\ jOut # <<>> /\ (\A i \in JPlaces : jOut[i].state = "applied")
          /\ jOut = [i \in JPlaces |-> jOut[i]] /\ jLines \in JLists
      BY <2>2 DEF IdentityInv, JSaysOk, JShape
    <3>2. PICK n \in Nat : JPlaces = 1..n
      BY <3>1, NamedLines, JListsAssumption DEF JPlaces
    <3>3. JNamed(jLines) = [i \in 1..n |-> JNamed(jLines)[i]]
      BY <3>2 DEF JPlaces, JNamed
    <3>4. Len(jOut) = n
      <4>1. jOut \in Seq({jOut[i] : i \in 1..n})
        BY <3>1, <3>2
      <4> QED
        BY <3>1, <3>2, <4>1
    <3>5. Len(JNamed(jLines)) = n
      <4>1. JNamed(jLines) \in Seq({JNamed(jLines)[i] : i \in 1..n})
        BY <3>3
      <4> QED
        BY <3>2, <4>1 DEF JPlaces
    <3> QED
      BY <3>1, <3>4, <3>5
  <2> QED
    BY <2>1, <2>2 DEF IdentityInv, JStopped, MissingStopsFirst
<1> QED
  BY <1>1, <1>2, PTL

-------------------------------------------------------------------------------
(* The run slot: the inductive invariant.                                    *)

Owners == CardProcs \cup {Nobody}
LockedPcs == {"recover", "orphans", "unname", "decide", "observe", "elect", "quarantine", "unlink",
              "restore", "clear", "clearRest"}
BeforePcs == {"mkdir", "lock", "recover", "orphans", "unname", "decide", "observe", "elect",
              "quarantine", "unlink", "create"}
OwnPcs == {"clear", "clearRest", "open", "publish", "running", "abandon", "unclaim",
           "sweep", "tombstone"}
Pcs == {"off", "ended", "write"} \cup LockedPcs \cup BeforePcs \cup OwnPcs

(* A claim file without an owner is one that is not there.                   *)
ClaimForm(c) ==
    /\ c \in [owner : Owners, written : BOOLEAN, state : {"none", "live", "exited"}]
    /\ c.owner = Nobody <=> c = NoClaim
CardType ==
    /\ slotDir \in BOOLEAN /\ reclaim \in Owners /\ card \in Owners /\ events \in Owners
    /\ ClaimForm(claim)
    /\ stale \in SUBSET CardProcs
    /\ life \in [CardProcs -> {"new", "alive", "dead"}] /\ cpc \in [CardProcs -> Pcs]
    /\ how \in [CardProcs -> {"fresh", "adopt", "takeover"}] /\ old \in [CardProcs -> Owners]
    /\ tries \in [CardProcs -> Nat] /\ met \in [CardProcs -> BOOLEAN]
    /\ verdict \in [CardProcs -> {"none", "owned", "exists", "setup"}]

(* The kernel lock is held exactly by the process that is between its        *)
(* acquisition and release; one that made the directory creates without it.  *)
Locked(p) ==
    /\ life[p] = "alive"
    /\ cpc[p] \in LockedPcs \/ (cpc[p] \in {"create", "write"} /\ how[p] # "fresh")
LockHeld == \A p \in CardProcs : reclaim = p <=> Locked(p)

(* What a takeover relies on: the claim it saw is that of a dead process and *)
(* stays in place until it is unlinked, by then under a second name.         *)
TakingOver(p) ==
    /\ cpc[p] \in {"observe", "elect", "quarantine", "unlink", "restore", "clear", "clearRest"}
         => how[p] = "takeover"
    /\ cpc[p] \in {"unname", "elect", "quarantine", "unlink"} =>
         claim.owner = old[p] /\ old[p] \in CardProcs /\ life[old[p]] = "dead"
    /\ cpc[p] \in {"create", "write", "restore"} /\ how[p] = "takeover" =>
         old[p] \in CardProcs /\ life[old[p]] = "dead"
    /\ cpc[p] = "unlink" => old[p] \in stale

(* The files of a process that has created the claim.                        *)
Owning(p) ==
    /\ cpc[p] = "write" => claim.owner = p /\ ~claim.written
    /\ cpc[p] \in OwnPcs => claim.owner = p /\ claim.written
    /\ cpc[p] \in {"publish", "running"} => events = p
    /\ cpc[p] = "running" => card = p
    /\ cpc[p] = "clearRest" /\ ~dropped => card = Nobody
    /\ cpc[p] \in BeforePcs => claim.owner # p /\ card # p

(* A card outlives its claim only while the claim has a quarantine name, from*)
(* which the claim can be linked back, unless the card's removal failed.     *)
Backed == card = Nobody \/ stale # {} \/ dropped
CardBacked ==
    /\ claim.owner = Nobody => Backed
    /\ \A p \in CardProcs :
         life[p] = "alive" /\ cpc[p] \in {"write", "open", "publish", "abandon", "unclaim"} => Backed

(* Files name processes that were launched, quarantine names dead ones.      *)
Launched ==
    /\ \A p \in CardProcs : cpc[p] = "off" <=> life[p] = "new"
    /\ claim.owner # Nobody => life[claim.owner] # "new"
    /\ card # Nobody => life[card] # "new"
    /\ \A q \in stale : life[q] = "dead"
    /\ ~slotDir => /\ claim.owner = Nobody /\ card = Nobody
                   /\ \A p \in CardProcs : cpc[p] \in {"off", "mkdir", "ended"}

(* An attempt during which no other process lived finds the slot as it was   *)
(* left and keeps it so, as long as no failure was dropped.                  *)
Alone(p) ==
    /\ \A q \in CardProcs \ {p} : life[q] # "alive"
    /\ cpc[p] = "decide" => claim.owner # Nobody \/ (card = Nobody /\ stale = {})
    /\ cpc[p] = "observe" => claim.owner # Nobody
    /\ cpc[p] = "create" => claim.owner = Nobody
    /\ cpc[p] \in {"create", "write"} /\ how[p] # "takeover" => card = Nobody
    /\ cpc[p] \in {"open", "publish"} => card = Nobody

CardInv ==
    /\ CardType /\ LockHeld /\ Launched /\ CardBacked
    /\ \A p \in CardProcs : life[p] = "alive" =>
         /\ TakingOver(p) /\ Owning(p)
         /\ cpc[p] # "mkdir" /\ ~met[p] /\ ~dropped => Alone(p)

-------------------------------------------------------------------------------
(* The claims the actions write are claims.                                  *)
LEMMA ClaimForms ==
  /\ ClaimForm(NoClaim)
  /\ \A q \in CardProcs : ClaimForm(LiveClaim(q)) /\ LiveClaim(q).owner = q /\ LiveClaim(q).written
  /\ \A q \in CardProcs : ClaimForm([owner |-> q, written |-> FALSE, state |-> "live"])
  BY CardAssumption DEF ClaimForm, NoClaim, LiveClaim, Owners

LEMMA LaunchKeeps == ASSUME CardInv, NEW p \in CardProcs, Launch(p) PROVE CardInv'
<1> USE CardAssumption DEF Owners, LockedPcs, BeforePcs, OwnPcs, Pcs
<1>1. CardType'
  BY DEF CardInv, CardType, TakingOver, Launch, Go, Fail, Drop, Faulted, faults
<1>2. LockHeld'
  BY DEF CardInv, CardType, LockHeld, Locked, TakingOver, Launch, Go, Fail, Drop, Faulted, faults
<1>3. Launched'
  BY DEF CardInv, CardType, ClaimForm, Launched, TakingOver, Owning, Launch, Go, Fail, Drop, Faulted, faults
<1>4. CardBacked'
  BY DEF CardInv, CardType, ClaimForm, CardBacked, Backed, LockHeld, Locked, TakingOver, Owning, Launched, Launch, Go, Fail, Drop, Faulted, faults
<1>5. \A q \in CardProcs : life'[q] = "alive" => TakingOver(q)'
  BY DEF CardInv, CardType, ClaimForm, LockHeld, Locked, TakingOver, Owning, Launched, Launch, Go, Fail, Drop, Faulted, faults
<1>6. \A q \in CardProcs : life'[q] = "alive" => Owning(q)'
  BY DEF CardInv, CardType, ClaimForm, LockHeld, Locked, TakingOver, Owning, Launched, Launch, Go, Fail, Drop, Faulted, faults
<1>7. \A q \in CardProcs : life'[q] = "alive" /\ cpc'[q] # "mkdir" /\ ~met'[q] /\ ~dropped' => Alone(q)'
  <2>1. cpc'[p] = "mkdir"
    BY DEF CardInv, CardType, Launch, Go
  <2>2. \A q \in CardProcs : q # p => met'[q]
    BY DEF Launch
  <2> QED
    BY <2>1, <2>2
<1> QED
  BY <1>1, <1>2, <1>3, <1>4, <1>5, <1>6, <1>7 DEF CardInv

LEMMA MkdirKeeps == ASSUME CardInv, NEW p \in CardProcs, Mkdir(p) PROVE CardInv'
<1> USE CardAssumption DEF Owners, LockedPcs, BeforePcs, OwnPcs, Pcs
<1>0. slotDir' \in BOOLEAN /\ (~slotDir' => ~slotDir /\ cpc' = [cpc EXCEPT ![p] = "ended"])
  <2>1. CASE slotDir /\ UNCHANGED slotDir
    BY <2>1
  <2>2. CASE slotDir' = TRUE
    BY <2>2
  <2>3. CASE Return(p, "setup") /\ UNCHANGED slotDir
    BY <2>3 DEF CardInv, CardType, Return, Go
  <2> QED
    BY <2>1, <2>2, <2>3 DEF Mkdir
<1>1. CardType'
  BY <1>0 DEF CardInv, CardType, TakingOver, Mkdir, At, Go, identityLive, Return, Unlock, Fail, Drop, Faulted, faults
<1>2. LockHeld'
  BY DEF CardInv, CardType, LockHeld, Locked, TakingOver, Mkdir, At, Go, identityLive, Return, Unlock, Fail, Drop, Faulted, faults
<1>3. Launched'
  BY <1>0 DEF CardInv, CardType, ClaimForm, Launched, TakingOver, Owning, Mkdir, At, Go, identityLive, Return, Unlock, Fail, Drop, Faulted, faults
<1>4. CardBacked'
  BY DEF CardInv, CardType, ClaimForm, CardBacked, Backed, LockHeld, Locked, TakingOver, Owning, Launched, Mkdir, At, Go, identityLive, Return, Unlock, Fail, Drop, Faulted, faults
<1>5. \A q \in CardProcs : life'[q] = "alive" => TakingOver(q)'
  BY DEF CardInv, CardType, ClaimForm, LockHeld, Locked, TakingOver, Owning, Launched, Mkdir, At, Go, identityLive, Return, Unlock, Fail, Drop, Faulted, faults
<1>6. \A q \in CardProcs : life'[q] = "alive" => Owning(q)'
  BY DEF CardInv, CardType, ClaimForm, LockHeld, Locked, TakingOver, Owning, Launched, Mkdir, At, Go, identityLive, Return, Unlock, Fail, Drop, Faulted, faults
<1>7. \A q \in CardProcs : life'[q] = "alive" /\ cpc'[q] # "mkdir" /\ ~met'[q] /\ ~dropped' => Alone(q)'
  BY DEF CardInv, CardType, ClaimForm, Alone, CardBacked, Backed, Launched, TakingOver, Owning, Mkdir, At, Go, identityLive, Return, Unlock, Fail, Drop, Faulted, faults
<1> QED
  BY <1>1, <1>2, <1>3, <1>4, <1>5, <1>6, <1>7 DEF CardInv

LEMMA tryAcquireReclaimLockKeeps == ASSUME CardInv, NEW p \in CardProcs, tryAcquireReclaimLock(p) PROVE CardInv'
<1> USE CardAssumption DEF Owners, LockedPcs, BeforePcs, OwnPcs, Pcs
<1>1. CardType'
  BY DEF CardInv, CardType, TakingOver, tryAcquireReclaimLock, At, Go, Contend, Unlock, fixed, Return, Fail, Drop, Faulted, faults
<1>2. LockHeld'
  BY DEF CardInv, CardType, LockHeld, Locked, TakingOver, tryAcquireReclaimLock, At, Go, Contend, Unlock, fixed, Return, Fail, Drop, Faulted, faults
<1>3. Launched'
  BY DEF CardInv, CardType, ClaimForm, Launched, TakingOver, Owning, tryAcquireReclaimLock, At, Go, Contend, Unlock, fixed, Return, Fail, Drop, Faulted, faults
<1>4. CardBacked'
  BY DEF CardInv, CardType, ClaimForm, CardBacked, Backed, LockHeld, Locked, TakingOver, Owning, Launched, tryAcquireReclaimLock, At, Go, Contend, Unlock, fixed, Return, Fail, Drop, Faulted, faults
<1>5. \A q \in CardProcs : life'[q] = "alive" => TakingOver(q)'
  BY DEF CardInv, CardType, ClaimForm, LockHeld, Locked, TakingOver, Owning, Launched, tryAcquireReclaimLock, At, Go, Contend, Unlock, fixed, Return, Fail, Drop, Faulted, faults
<1>6. \A q \in CardProcs : life'[q] = "alive" => Owning(q)'
  BY DEF CardInv, CardType, ClaimForm, LockHeld, Locked, TakingOver, Owning, Launched, tryAcquireReclaimLock, At, Go, Contend, Unlock, fixed, Return, Fail, Drop, Faulted, faults
<1>7. \A q \in CardProcs : life'[q] = "alive" /\ cpc'[q] # "mkdir" /\ ~met'[q] /\ ~dropped' => Alone(q)'
  BY DEF CardInv, CardType, ClaimForm, Alone, CardBacked, Backed, Launched, TakingOver, Owning, tryAcquireReclaimLock, At, Go, Contend, Unlock, fixed, Return, Fail, Drop, Faulted, faults
<1> QED
  BY <1>1, <1>2, <1>3, <1>4, <1>5, <1>6, <1>7 DEF CardInv

LEMMA cleanDeadReclaimLeasesKeeps == ASSUME CardInv, NEW p \in CardProcs, cleanDeadReclaimLeases(p) PROVE CardInv'
<1> USE CardAssumption DEF Owners, LockedPcs, BeforePcs, OwnPcs, Pcs
<1>1. CardType'
  BY DEF CardInv, CardType, TakingOver, cleanDeadReclaimLeases, At, Go, identityLive, fixed, Fail, Drop, Faulted, faults
<1>2. LockHeld'
  BY DEF CardInv, CardType, LockHeld, Locked, TakingOver, cleanDeadReclaimLeases, At, Go, identityLive, fixed, Fail, Drop, Faulted, faults
<1>3. Launched'
  BY DEF CardInv, CardType, ClaimForm, Launched, TakingOver, Owning, cleanDeadReclaimLeases, At, Go, identityLive, fixed, Fail, Drop, Faulted, faults
<1>4. CardBacked'
  BY DEF CardInv, CardType, ClaimForm, CardBacked, Backed, LockHeld, Locked, TakingOver, Owning, Launched, cleanDeadReclaimLeases, At, Go, identityLive, fixed, Fail, Drop, Faulted, faults
<1>5. \A q \in CardProcs : life'[q] = "alive" => TakingOver(q)'
  BY DEF CardInv, CardType, ClaimForm, LockHeld, Locked, TakingOver, Owning, Launched, cleanDeadReclaimLeases, At, Go, identityLive, fixed, Fail, Drop, Faulted, faults
<1>6. \A q \in CardProcs : life'[q] = "alive" => Owning(q)'
  BY DEF CardInv, CardType, ClaimForm, LockHeld, Locked, TakingOver, Owning, Launched, cleanDeadReclaimLeases, At, Go, identityLive, fixed, Fail, Drop, Faulted, faults
<1>7. \A q \in CardProcs : life'[q] = "alive" /\ cpc'[q] # "mkdir" /\ ~met'[q] /\ ~dropped' => Alone(q)'
  BY DEF CardInv, CardType, ClaimForm, Alone, CardBacked, Backed, Launched, TakingOver, Owning, cleanDeadReclaimLeases, At, Go, identityLive, fixed, Fail, Drop, Faulted, faults
<1> QED
  BY <1>1, <1>2, <1>3, <1>4, <1>5, <1>6, <1>7 DEF CardInv

LEMMA RecoverKeeps == ASSUME CardInv, NEW p \in CardProcs, Recover(p) PROVE CardInv'
<1> USE CardAssumption DEF Owners, LockedPcs, BeforePcs, OwnPcs, Pcs
<1>0. ClaimForm(claim')
  BY ClaimForms DEF CardInv, CardType, TakingOver, Launched, Recover, At, Go, Orphans, identityLive, Readable, fixed, Fail, Drop, Faulted, faults
<1>1. CardType'
  BY <1>0 DEF CardInv, CardType, Recover, At, Go, Orphans, identityLive, Readable, LiveClaim, NoClaim, fixed, Fail, Drop, Faulted, faults
<1>2. LockHeld'
  BY DEF CardInv, CardType, LockHeld, Locked, TakingOver, Recover, At, Go, Orphans, identityLive, Readable, LiveClaim, NoClaim, fixed, Fail, Drop, Faulted, faults
<1>3. Launched'
  BY DEF CardInv, CardType, ClaimForm, Launched, TakingOver, Owning, Recover, At, Go, Orphans, identityLive, Readable, LiveClaim, NoClaim, fixed, Fail, Drop, Faulted, faults
<1>4. CardBacked'
  BY DEF CardInv, CardType, ClaimForm, CardBacked, Backed, LockHeld, Locked, TakingOver, Owning, Launched, Recover, At, Go, Orphans, identityLive, Readable, LiveClaim, NoClaim, fixed, Fail, Drop, Faulted, faults
<1>5. \A q \in CardProcs : life'[q] = "alive" => TakingOver(q)'
  BY DEF CardInv, CardType, ClaimForm, LockHeld, Locked, TakingOver, Owning, Launched, Recover, At, Go, Orphans, identityLive, Readable, LiveClaim, NoClaim, fixed, Fail, Drop, Faulted, faults
<1>6. \A q \in CardProcs : life'[q] = "alive" => Owning(q)'
  BY DEF CardInv, CardType, ClaimForm, LockHeld, Locked, TakingOver, Owning, Launched, Recover, At, Go, Orphans, identityLive, Readable, LiveClaim, NoClaim, fixed, Fail, Drop, Faulted, faults
<1>7. \A q \in CardProcs : life'[q] = "alive" /\ cpc'[q] # "mkdir" /\ ~met'[q] /\ ~dropped' => Alone(q)'
  BY DEF CardInv, CardType, ClaimForm, Alone, CardBacked, Backed, Launched, TakingOver, Owning, Recover, At, Go, Orphans, identityLive, Readable, LiveClaim, NoClaim, fixed, Fail, Drop, Faulted, faults
<1> QED
  BY <1>1, <1>2, <1>3, <1>4, <1>5, <1>6, <1>7 DEF CardInv

LEMMA UnnameKeeps == ASSUME CardInv, NEW p \in CardProcs, Unname(p) PROVE CardInv'
<1> USE CardAssumption DEF Owners, LockedPcs, BeforePcs, OwnPcs, Pcs
<1>1. CardType'
  BY DEF CardInv, CardType, TakingOver, Unname, At, Go, fixed, Fail, Drop, Faulted, faults
<1>2. LockHeld'
  BY DEF CardInv, CardType, LockHeld, Locked, TakingOver, Unname, At, Go, fixed, Fail, Drop, Faulted, faults
<1>3. Launched'
  BY DEF CardInv, CardType, ClaimForm, Launched, TakingOver, Owning, Unname, At, Go, fixed, Fail, Drop, Faulted, faults
<1>4. CardBacked'
  BY DEF CardInv, CardType, ClaimForm, CardBacked, Backed, LockHeld, Locked, TakingOver, Owning, Launched, Unname, At, Go, fixed, Fail, Drop, Faulted, faults
<1>5. \A q \in CardProcs : life'[q] = "alive" => TakingOver(q)'
  BY DEF CardInv, CardType, ClaimForm, LockHeld, Locked, TakingOver, Owning, Launched, Unname, At, Go, fixed, Fail, Drop, Faulted, faults
<1>6. \A q \in CardProcs : life'[q] = "alive" => Owning(q)'
  BY DEF CardInv, CardType, ClaimForm, LockHeld, Locked, TakingOver, Owning, Launched, Unname, At, Go, fixed, Fail, Drop, Faulted, faults
<1>7. \A q \in CardProcs : life'[q] = "alive" /\ cpc'[q] # "mkdir" /\ ~met'[q] /\ ~dropped' => Alone(q)'
  BY DEF CardInv, CardType, ClaimForm, Alone, CardBacked, Backed, Launched, TakingOver, Owning, Unname, At, Go, fixed, Fail, Drop, Faulted, faults
<1> QED
  BY <1>1, <1>2, <1>3, <1>4, <1>5, <1>6, <1>7 DEF CardInv

LEMMA DecideKeeps == ASSUME CardInv, NEW p \in CardProcs, Decide(p) PROVE CardInv'
<1> USE CardAssumption DEF Owners, LockedPcs, BeforePcs, OwnPcs, Pcs
<1>0. ClaimForm(claim')
  BY ClaimForms DEF CardInv, CardType, Decide, Relinked, Orphans, Launched, fixed
<1>1. CardType'
  BY <1>0 DEF CardInv, CardType, TakingOver, Decide, At, Go, Return, Contend, Unlock, readSlotOwner, Readable, identityLive, fixed, Relinked, Orphans, Fail, Drop, Faulted, faults
<1>2. LockHeld'
  BY DEF CardInv, CardType, LockHeld, Locked, TakingOver, Decide, At, Go, Return, Contend, Unlock, readSlotOwner, Readable, identityLive, NoClaim, fixed, Relinked, Orphans, LiveClaim, Fail, Drop, Faulted, faults
<1>3. Launched'
  BY DEF CardInv, CardType, ClaimForm, Launched, TakingOver, Owning, Decide, At, Go, Return, Contend, Unlock, readSlotOwner, Readable, identityLive, NoClaim, fixed, Relinked, Orphans, LiveClaim, Fail, Drop, Faulted, faults
<1>4. CardBacked'
  BY DEF CardInv, CardType, ClaimForm, CardBacked, Backed, LockHeld, Locked, TakingOver, Owning, Launched, Decide, At, Go, Return, Contend, Unlock, readSlotOwner, Readable, identityLive, NoClaim, fixed, Relinked, Orphans, LiveClaim, Fail, Drop, Faulted, faults
<1>5. \A q \in CardProcs : life'[q] = "alive" => TakingOver(q)'
  BY DEF CardInv, CardType, ClaimForm, LockHeld, Locked, TakingOver, Owning, Launched, Decide, At, Go, Return, Contend, Unlock, readSlotOwner, Readable, identityLive, NoClaim, fixed, Relinked, Orphans, LiveClaim, Fail, Drop, Faulted, faults
<1>6. \A q \in CardProcs : life'[q] = "alive" => Owning(q)'
  BY DEF CardInv, CardType, ClaimForm, LockHeld, Locked, TakingOver, Owning, Launched, Decide, At, Go, Return, Contend, Unlock, readSlotOwner, Readable, identityLive, NoClaim, fixed, Relinked, Orphans, LiveClaim, Fail, Drop, Faulted, faults
<1>7. \A q \in CardProcs : life'[q] = "alive" /\ cpc'[q] # "mkdir" /\ ~met'[q] /\ ~dropped' => Alone(q)'
  BY DEF CardInv, CardType, ClaimForm, Alone, CardBacked, Backed, Launched, TakingOver, Owning, Decide, At, Go, Return, Contend, Unlock, readSlotOwner, Readable, identityLive, NoClaim, fixed, Relinked, Orphans, LiveClaim, Fail, Drop, Faulted, faults
<1> QED
  BY <1>1, <1>2, <1>3, <1>4, <1>5, <1>6, <1>7 DEF CardInv

LEMMA ObserveKeeps == ASSUME CardInv, NEW p \in CardProcs, Observe(p) PROVE CardInv'
<1> USE CardAssumption DEF Owners, LockedPcs, BeforePcs, OwnPcs, Pcs
<1>0. ClaimForm(claim')
  BY ClaimForms DEF CardInv, CardType, Observe, Relinked, Orphans, Launched, fixed
<1>1. CardType'
  BY <1>0 DEF CardInv, CardType, ClaimForm, TakingOver, Observe, At, Go, Return, Contend, Unlock, Readable, identityLive, fixed, Relinked, Orphans, Fail, Drop, Faulted, faults
<1>2. LockHeld'
  BY DEF CardInv, CardType, LockHeld, Locked, TakingOver, Observe, At, Go, Return, Contend, Unlock, Readable, identityLive, fixed, Relinked, Orphans, LiveClaim, NoClaim, Fail, Drop, Faulted, faults
<1>3. Launched'
  BY DEF CardInv, CardType, ClaimForm, Launched, TakingOver, Owning, Observe, At, Go, Return, Contend, Unlock, Readable, identityLive, fixed, Relinked, Orphans, LiveClaim, NoClaim, Fail, Drop, Faulted, faults
<1>4. CardBacked'
  BY DEF CardInv, CardType, ClaimForm, CardBacked, Backed, LockHeld, Locked, TakingOver, Owning, Launched, Observe, At, Go, Return, Contend, Unlock, Readable, identityLive, fixed, Relinked, Orphans, LiveClaim, NoClaim, Fail, Drop, Faulted, faults
<1>5. \A q \in CardProcs : life'[q] = "alive" => TakingOver(q)'
  BY DEF CardInv, CardType, ClaimForm, LockHeld, Locked, TakingOver, Owning, Launched, Observe, At, Go, Return, Contend, Unlock, Readable, identityLive, fixed, Relinked, Orphans, LiveClaim, NoClaim, Fail, Drop, Faulted, faults
<1>6. \A q \in CardProcs : life'[q] = "alive" => Owning(q)'
  BY DEF CardInv, CardType, ClaimForm, LockHeld, Locked, TakingOver, Owning, Launched, Observe, At, Go, Return, Contend, Unlock, Readable, identityLive, fixed, Relinked, Orphans, LiveClaim, NoClaim, Fail, Drop, Faulted, faults
<1>7. \A q \in CardProcs : life'[q] = "alive" /\ cpc'[q] # "mkdir" /\ ~met'[q] /\ ~dropped' => Alone(q)'
  BY DEF CardInv, CardType, ClaimForm, Alone, CardBacked, Backed, Launched, TakingOver, Owning, Observe, At, Go, Return, Contend, Unlock, Readable, identityLive, fixed, Relinked, Orphans, LiveClaim, NoClaim, Fail, Drop, Faulted, faults
<1> QED
  BY <1>1, <1>2, <1>3, <1>4, <1>5, <1>6, <1>7 DEF CardInv

LEMMA electReclaimLeaseKeeps == ASSUME CardInv, NEW p \in CardProcs, electReclaimLease(p) PROVE CardInv'
<1> USE CardAssumption DEF Owners, LockedPcs, BeforePcs, OwnPcs, Pcs
<1>1. CardType'
  BY DEF CardInv, CardType, TakingOver, electReclaimLease, At, Go, Return, Unlock, Fail, fixed, Contend, Drop, Faulted, faults
<1>2. LockHeld'
  BY DEF CardInv, CardType, LockHeld, Locked, TakingOver, electReclaimLease, At, Go, Return, Unlock, Fail, fixed, Contend, Drop, Faulted, faults
<1>3. Launched'
  BY DEF CardInv, CardType, ClaimForm, Launched, TakingOver, Owning, electReclaimLease, At, Go, Return, Unlock, Fail, fixed, Contend, Drop, Faulted, faults
<1>4. CardBacked'
  BY DEF CardInv, CardType, ClaimForm, CardBacked, Backed, LockHeld, Locked, TakingOver, Owning, Launched, electReclaimLease, At, Go, Return, Unlock, Fail, fixed, Contend, Drop, Faulted, faults
<1>5. \A q \in CardProcs : life'[q] = "alive" => TakingOver(q)'
  BY DEF CardInv, CardType, ClaimForm, LockHeld, Locked, TakingOver, Owning, Launched, electReclaimLease, At, Go, Return, Unlock, Fail, fixed, Contend, Drop, Faulted, faults
<1>6. \A q \in CardProcs : life'[q] = "alive" => Owning(q)'
  BY DEF CardInv, CardType, ClaimForm, LockHeld, Locked, TakingOver, Owning, Launched, electReclaimLease, At, Go, Return, Unlock, Fail, fixed, Contend, Drop, Faulted, faults
<1>7. \A q \in CardProcs : life'[q] = "alive" /\ cpc'[q] # "mkdir" /\ ~met'[q] /\ ~dropped' => Alone(q)'
  BY DEF CardInv, CardType, ClaimForm, Alone, CardBacked, Backed, Launched, TakingOver, Owning, electReclaimLease, At, Go, Return, Unlock, Fail, fixed, Contend, Drop, Faulted, faults
<1> QED
  BY <1>1, <1>2, <1>3, <1>4, <1>5, <1>6, <1>7 DEF CardInv

LEMMA QuarantineKeeps == ASSUME CardInv, NEW p \in CardProcs, Quarantine(p) PROVE CardInv'
<1> USE CardAssumption DEF Owners, LockedPcs, BeforePcs, OwnPcs, Pcs
<1>1. CardType'
  BY DEF CardInv, CardType, TakingOver, Quarantine, At, Go, Return, Contend, Unlock, Fail, fixed, releaseReclaimLease, Drop, Faulted, faults
<1>2. LockHeld'
  BY DEF CardInv, CardType, LockHeld, Locked, TakingOver, Quarantine, At, Go, Return, Contend, Unlock, Fail, fixed, releaseReclaimLease, Drop, Faulted, faults
<1>3. Launched'
  BY DEF CardInv, CardType, ClaimForm, Launched, TakingOver, Owning, Quarantine, At, Go, Return, Contend, Unlock, Fail, fixed, releaseReclaimLease, Drop, Faulted, faults
<1>4. CardBacked'
  BY DEF CardInv, CardType, ClaimForm, CardBacked, Backed, LockHeld, Locked, TakingOver, Owning, Launched, Quarantine, At, Go, Return, Contend, Unlock, Fail, fixed, releaseReclaimLease, Drop, Faulted, faults
<1>5. \A q \in CardProcs : life'[q] = "alive" => TakingOver(q)'
  BY DEF CardInv, CardType, ClaimForm, LockHeld, Locked, TakingOver, Owning, Launched, Quarantine, At, Go, Return, Contend, Unlock, Fail, fixed, releaseReclaimLease, Drop, Faulted, faults
<1>6. \A q \in CardProcs : life'[q] = "alive" => Owning(q)'
  BY DEF CardInv, CardType, ClaimForm, LockHeld, Locked, TakingOver, Owning, Launched, Quarantine, At, Go, Return, Contend, Unlock, Fail, fixed, releaseReclaimLease, Drop, Faulted, faults
<1>7. \A q \in CardProcs : life'[q] = "alive" /\ cpc'[q] # "mkdir" /\ ~met'[q] /\ ~dropped' => Alone(q)'
  BY DEF CardInv, CardType, ClaimForm, Alone, CardBacked, Backed, Launched, TakingOver, Owning, Quarantine, At, Go, Return, Contend, Unlock, Fail, fixed, releaseReclaimLease, Drop, Faulted, faults
<1> QED
  BY <1>1, <1>2, <1>3, <1>4, <1>5, <1>6, <1>7 DEF CardInv

LEMMA UnlinkKeeps == ASSUME CardInv, NEW p \in CardProcs, Unlink(p) PROVE CardInv'
<1> USE CardAssumption DEF Owners, LockedPcs, BeforePcs, OwnPcs, Pcs
<1>0. ClaimForm(claim')
  BY ClaimForms DEF CardInv, CardType, TakingOver, Launched, Unlink, At, Go, fixed, Fail, Drop, Faulted, faults
<1>1. CardType'
  BY <1>0 DEF CardInv, CardType, Unlink, At, Go, NoClaim, fixed, Fail, Drop, Faulted, faults
<1>2. LockHeld'
  BY DEF CardInv, CardType, LockHeld, Locked, TakingOver, Unlink, At, Go, NoClaim, fixed, Fail, Drop, Faulted, faults
<1>3. Launched'
  BY DEF CardInv, CardType, ClaimForm, Launched, TakingOver, Owning, Unlink, At, Go, NoClaim, fixed, Fail, Drop, Faulted, faults
<1>4. CardBacked'
  BY DEF CardInv, CardType, ClaimForm, CardBacked, Backed, LockHeld, Locked, TakingOver, Owning, Launched, Unlink, At, Go, NoClaim, fixed, Fail, Drop, Faulted, faults
<1>5. \A q \in CardProcs : life'[q] = "alive" => TakingOver(q)'
  BY DEF CardInv, CardType, ClaimForm, LockHeld, Locked, TakingOver, Owning, Launched, Unlink, At, Go, NoClaim, fixed, Fail, Drop, Faulted, faults
<1>6. \A q \in CardProcs : life'[q] = "alive" => Owning(q)'
  BY DEF CardInv, CardType, ClaimForm, LockHeld, Locked, TakingOver, Owning, Launched, Unlink, At, Go, NoClaim, fixed, Fail, Drop, Faulted, faults
<1>7. \A q \in CardProcs : life'[q] = "alive" /\ cpc'[q] # "mkdir" /\ ~met'[q] /\ ~dropped' => Alone(q)'
  BY DEF CardInv, CardType, ClaimForm, Alone, CardBacked, Backed, Launched, TakingOver, Owning, Unlink, At, Go, NoClaim, fixed, Fail, Drop, Faulted, faults
<1> QED
  BY <1>1, <1>2, <1>3, <1>4, <1>5, <1>6, <1>7 DEF CardInv

LEMMA CreateKeeps == ASSUME CardInv, NEW p \in CardProcs, Create(p) PROVE CardInv'
<1> USE CardAssumption DEF Owners, LockedPcs, BeforePcs, OwnPcs, Pcs
<1>0. ClaimForm(claim')
  BY ClaimForms DEF CardInv, CardType, TakingOver, Launched, Create, At, Go, Contend, Unlock, fixed, Fail, Drop, Faulted, faults
<1>1. CardType'
  BY <1>0 DEF CardInv, CardType, Create, At, Go, Contend, Unlock, NoClaim, fixed, Fail, Drop, Faulted, faults
<1>2. LockHeld'
  BY DEF CardInv, CardType, LockHeld, Locked, TakingOver, Create, At, Go, Contend, Unlock, NoClaim, fixed, Fail, Drop, Faulted, faults
<1>3. Launched'
  BY DEF CardInv, CardType, ClaimForm, Launched, TakingOver, Owning, Create, At, Go, Contend, Unlock, NoClaim, fixed, Fail, Drop, Faulted, faults
<1>4. CardBacked'
  BY DEF CardInv, CardType, ClaimForm, CardBacked, Backed, LockHeld, Locked, TakingOver, Owning, Launched, Create, At, Go, Contend, Unlock, NoClaim, fixed, Fail, Drop, Faulted, faults
<1>5. \A q \in CardProcs : life'[q] = "alive" => TakingOver(q)'
  BY DEF CardInv, CardType, ClaimForm, LockHeld, Locked, TakingOver, Owning, Launched, Create, At, Go, Contend, Unlock, NoClaim, fixed, Fail, Drop, Faulted, faults
<1>6. \A q \in CardProcs : life'[q] = "alive" => Owning(q)'
  BY DEF CardInv, CardType, ClaimForm, LockHeld, Locked, TakingOver, Owning, Launched, Create, At, Go, Contend, Unlock, NoClaim, fixed, Fail, Drop, Faulted, faults
<1>7. \A q \in CardProcs : life'[q] = "alive" /\ cpc'[q] # "mkdir" /\ ~met'[q] /\ ~dropped' => Alone(q)'
  BY DEF CardInv, CardType, ClaimForm, Alone, CardBacked, Backed, Launched, TakingOver, Owning, Create, At, Go, Contend, Unlock, NoClaim, fixed, Fail, Drop, Faulted, faults
<1> QED
  BY <1>1, <1>2, <1>3, <1>4, <1>5, <1>6, <1>7 DEF CardInv

LEMMA WriteKeeps == ASSUME CardInv, NEW p \in CardProcs, Write(p) PROVE CardInv'
<1> USE CardAssumption DEF Owners, LockedPcs, BeforePcs, OwnPcs, Pcs
<1>0. ClaimForm(claim')
  BY ClaimForms DEF CardInv, CardType, TakingOver, Launched, Write, At, Go, Return, Unlock, Fail, fixed, Drop, Faulted, faults
<1>1. CardType'
  BY <1>0 DEF CardInv, CardType, Write, At, Go, Return, Unlock, Fail, NoClaim, LiveClaim, fixed, Drop, Faulted, faults
<1>2. LockHeld'
  BY DEF CardInv, CardType, LockHeld, Locked, TakingOver, Write, At, Go, Return, Unlock, Fail, NoClaim, LiveClaim, fixed, Drop, Faulted, faults
<1>3. Launched'
  BY DEF CardInv, CardType, ClaimForm, Launched, TakingOver, Owning, Write, At, Go, Return, Unlock, Fail, NoClaim, LiveClaim, fixed, Drop, Faulted, faults
<1>4. CardBacked'
  BY DEF CardInv, CardType, ClaimForm, CardBacked, Backed, LockHeld, Locked, TakingOver, Owning, Launched, Write, At, Go, Return, Unlock, Fail, NoClaim, LiveClaim, fixed, Drop, Faulted, faults
<1>5. \A q \in CardProcs : life'[q] = "alive" => TakingOver(q)'
  BY DEF CardInv, CardType, ClaimForm, LockHeld, Locked, TakingOver, Owning, Launched, Write, At, Go, Return, Unlock, Fail, NoClaim, LiveClaim, fixed, Drop, Faulted, faults
<1>6. \A q \in CardProcs : life'[q] = "alive" => Owning(q)'
  BY DEF CardInv, CardType, ClaimForm, LockHeld, Locked, TakingOver, Owning, Launched, Write, At, Go, Return, Unlock, Fail, NoClaim, LiveClaim, fixed, Drop, Faulted, faults
<1>7. \A q \in CardProcs : life'[q] = "alive" /\ cpc'[q] # "mkdir" /\ ~met'[q] /\ ~dropped' => Alone(q)'
  BY DEF CardInv, CardType, ClaimForm, Alone, CardBacked, Backed, Launched, TakingOver, Owning, Write, At, Go, Return, Unlock, Fail, NoClaim, LiveClaim, fixed, Drop, Faulted, faults
<1> QED
  BY <1>1, <1>2, <1>3, <1>4, <1>5, <1>6, <1>7 DEF CardInv

LEMMA RestoreKeeps == ASSUME CardInv, NEW p \in CardProcs, Restore(p) PROVE CardInv'
<1> USE CardAssumption DEF Owners, LockedPcs, BeforePcs, OwnPcs, Pcs
<1>0. ClaimForm(claim')
  BY ClaimForms DEF CardInv, CardType, TakingOver, Launched, Restore, At, Go, Return, Unlock, fixed, releaseReclaimLease, Fail, Drop, Faulted, faults
<1>1. CardType'
  BY <1>0 DEF CardInv, CardType, Restore, At, Go, Return, Unlock, NoClaim, LiveClaim, fixed, releaseReclaimLease, Fail, Drop, Faulted, faults
<1>2. LockHeld'
  BY DEF CardInv, CardType, LockHeld, Locked, TakingOver, Restore, At, Go, Return, Unlock, NoClaim, LiveClaim, fixed, releaseReclaimLease, Fail, Drop, Faulted, faults
<1>3. Launched'
  BY DEF CardInv, CardType, ClaimForm, Launched, TakingOver, Owning, Restore, At, Go, Return, Unlock, NoClaim, LiveClaim, fixed, releaseReclaimLease, Fail, Drop, Faulted, faults
<1>4. CardBacked'
  BY DEF CardInv, CardType, ClaimForm, CardBacked, Backed, LockHeld, Locked, TakingOver, Owning, Launched, Restore, At, Go, Return, Unlock, NoClaim, LiveClaim, fixed, releaseReclaimLease, Fail, Drop, Faulted, faults
<1>5. \A q \in CardProcs : life'[q] = "alive" => TakingOver(q)'
  BY DEF CardInv, CardType, ClaimForm, LockHeld, Locked, TakingOver, Owning, Launched, Restore, At, Go, Return, Unlock, NoClaim, LiveClaim, fixed, releaseReclaimLease, Fail, Drop, Faulted, faults
<1>6. \A q \in CardProcs : life'[q] = "alive" => Owning(q)'
  BY DEF CardInv, CardType, ClaimForm, LockHeld, Locked, TakingOver, Owning, Launched, Restore, At, Go, Return, Unlock, NoClaim, LiveClaim, fixed, releaseReclaimLease, Fail, Drop, Faulted, faults
<1>7. \A q \in CardProcs : life'[q] = "alive" /\ cpc'[q] # "mkdir" /\ ~met'[q] /\ ~dropped' => Alone(q)'
  BY DEF CardInv, CardType, ClaimForm, Alone, CardBacked, Backed, Launched, TakingOver, Owning, Restore, At, Go, Return, Unlock, NoClaim, LiveClaim, fixed, releaseReclaimLease, Fail, Drop, Faulted, faults
<1> QED
  BY <1>1, <1>2, <1>3, <1>4, <1>5, <1>6, <1>7 DEF CardInv

LEMMA ClearCardKeeps == ASSUME CardInv, NEW p \in CardProcs, ClearCard(p) PROVE CardInv'
<1> USE CardAssumption DEF Owners, LockedPcs, BeforePcs, OwnPcs, Pcs
<1>1. CardType'
  BY DEF CardInv, CardType, TakingOver, ClearCard, At, Go, fixed, Fail, Drop, Faulted, faults
<1>2. LockHeld'
  BY DEF CardInv, CardType, LockHeld, Locked, TakingOver, ClearCard, At, Go, fixed, Fail, Drop, Faulted, faults
<1>3. Launched'
  BY DEF CardInv, CardType, ClaimForm, Launched, TakingOver, Owning, ClearCard, At, Go, fixed, Fail, Drop, Faulted, faults
<1>4. CardBacked'
  BY DEF CardInv, CardType, ClaimForm, CardBacked, Backed, LockHeld, Locked, TakingOver, Owning, Launched, ClearCard, At, Go, fixed, Fail, Drop, Faulted, faults
<1>5. \A q \in CardProcs : life'[q] = "alive" => TakingOver(q)'
  BY DEF CardInv, CardType, ClaimForm, LockHeld, Locked, TakingOver, Owning, Launched, ClearCard, At, Go, fixed, Fail, Drop, Faulted, faults
<1>6. \A q \in CardProcs : life'[q] = "alive" => Owning(q)'
  BY DEF CardInv, CardType, ClaimForm, LockHeld, Locked, TakingOver, Owning, Launched, ClearCard, At, Go, fixed, Fail, Drop, Faulted, faults
<1>7. \A q \in CardProcs : life'[q] = "alive" /\ cpc'[q] # "mkdir" /\ ~met'[q] /\ ~dropped' => Alone(q)'
  BY DEF CardInv, CardType, ClaimForm, Alone, CardBacked, Backed, Launched, TakingOver, Owning, ClearCard, At, Go, fixed, Fail, Drop, Faulted, faults
<1> QED
  BY <1>1, <1>2, <1>3, <1>4, <1>5, <1>6, <1>7 DEF CardInv

LEMMA ClearRestKeeps == ASSUME CardInv, NEW p \in CardProcs, ClearRest(p) PROVE CardInv'
<1> USE CardAssumption DEF Owners, LockedPcs, BeforePcs, OwnPcs, Pcs
<1>1. CardType'
  BY DEF CardInv, CardType, TakingOver, ClearRest, At, Go, Unlock, fixed, Fail, Drop, Faulted, faults
<1>2. LockHeld'
  BY DEF CardInv, CardType, LockHeld, Locked, TakingOver, ClearRest, At, Go, Unlock, fixed, Fail, Drop, Faulted, faults
<1>3. Launched'
  BY DEF CardInv, CardType, ClaimForm, Launched, TakingOver, Owning, ClearRest, At, Go, Unlock, fixed, Fail, Drop, Faulted, faults
<1>4. CardBacked'
  BY DEF CardInv, CardType, ClaimForm, CardBacked, Backed, LockHeld, Locked, TakingOver, Owning, Launched, ClearRest, At, Go, Unlock, fixed, Fail, Drop, Faulted, faults
<1>5. \A q \in CardProcs : life'[q] = "alive" => TakingOver(q)'
  BY DEF CardInv, CardType, ClaimForm, LockHeld, Locked, TakingOver, Owning, Launched, ClearRest, At, Go, Unlock, fixed, Fail, Drop, Faulted, faults
<1>6. \A q \in CardProcs : life'[q] = "alive" => Owning(q)'
  BY DEF CardInv, CardType, ClaimForm, LockHeld, Locked, TakingOver, Owning, Launched, ClearRest, At, Go, Unlock, fixed, Fail, Drop, Faulted, faults
<1>7. \A q \in CardProcs : life'[q] = "alive" /\ cpc'[q] # "mkdir" /\ ~met'[q] /\ ~dropped' => Alone(q)'
  BY DEF CardInv, CardType, ClaimForm, Alone, CardBacked, Backed, Launched, TakingOver, Owning, ClearRest, At, Go, Unlock, fixed, Fail, Drop, Faulted, faults
<1> QED
  BY <1>1, <1>2, <1>3, <1>4, <1>5, <1>6, <1>7 DEF CardInv

LEMMA OpenStreamKeeps == ASSUME CardInv, NEW p \in CardProcs, OpenStream(p) PROVE CardInv'
<1> USE CardAssumption DEF Owners, LockedPcs, BeforePcs, OwnPcs, Pcs
<1>1. CardType'
  BY DEF CardInv, CardType, TakingOver, OpenStream, At, Go, Fail, fixed, Drop, Faulted, faults
<1>2. LockHeld'
  BY DEF CardInv, CardType, LockHeld, Locked, TakingOver, OpenStream, At, Go, Fail, fixed, Drop, Faulted, faults
<1>3. Launched'
  BY DEF CardInv, CardType, ClaimForm, Launched, TakingOver, Owning, OpenStream, At, Go, Fail, fixed, Drop, Faulted, faults
<1>4. CardBacked'
  BY DEF CardInv, CardType, ClaimForm, CardBacked, Backed, LockHeld, Locked, TakingOver, Owning, Launched, OpenStream, At, Go, Fail, fixed, Drop, Faulted, faults
<1>5. \A q \in CardProcs : life'[q] = "alive" => TakingOver(q)'
  BY DEF CardInv, CardType, ClaimForm, LockHeld, Locked, TakingOver, Owning, Launched, OpenStream, At, Go, Fail, fixed, Drop, Faulted, faults
<1>6. \A q \in CardProcs : life'[q] = "alive" => Owning(q)'
  BY DEF CardInv, CardType, ClaimForm, LockHeld, Locked, TakingOver, Owning, Launched, OpenStream, At, Go, Fail, fixed, Drop, Faulted, faults
<1>7. \A q \in CardProcs : life'[q] = "alive" /\ cpc'[q] # "mkdir" /\ ~met'[q] /\ ~dropped' => Alone(q)'
  BY DEF CardInv, CardType, ClaimForm, Alone, CardBacked, Backed, Launched, TakingOver, Owning, OpenStream, At, Go, Fail, fixed, Drop, Faulted, faults
<1> QED
  BY <1>1, <1>2, <1>3, <1>4, <1>5, <1>6, <1>7 DEF CardInv

LEMMA PublishKeeps == ASSUME CardInv, NEW p \in CardProcs, Publish(p) PROVE CardInv'
<1> USE CardAssumption DEF Owners, LockedPcs, BeforePcs, OwnPcs, Pcs
<1>1. CardType'
  BY DEF CardInv, CardType, TakingOver, Publish, At, Go, Fail, stillOwnClaim, Readable, fixed, Drop, Faulted, faults
<1>2. LockHeld'
  BY DEF CardInv, CardType, LockHeld, Locked, TakingOver, Publish, At, Go, Fail, stillOwnClaim, Readable, fixed, Drop, Faulted, faults
<1>3. Launched'
  BY DEF CardInv, CardType, ClaimForm, Launched, TakingOver, Owning, Publish, At, Go, Fail, stillOwnClaim, Readable, fixed, Drop, Faulted, faults
<1>4. CardBacked'
  BY DEF CardInv, CardType, ClaimForm, CardBacked, Backed, LockHeld, Locked, TakingOver, Owning, Launched, Publish, At, Go, Fail, stillOwnClaim, Readable, fixed, Drop, Faulted, faults
<1>5. \A q \in CardProcs : life'[q] = "alive" => TakingOver(q)'
  BY DEF CardInv, CardType, ClaimForm, LockHeld, Locked, TakingOver, Owning, Launched, Publish, At, Go, Fail, stillOwnClaim, Readable, fixed, Drop, Faulted, faults
<1>6. \A q \in CardProcs : life'[q] = "alive" => Owning(q)'
  BY DEF CardInv, CardType, ClaimForm, LockHeld, Locked, TakingOver, Owning, Launched, Publish, At, Go, Fail, stillOwnClaim, Readable, fixed, Drop, Faulted, faults
<1>7. \A q \in CardProcs : life'[q] = "alive" /\ cpc'[q] # "mkdir" /\ ~met'[q] /\ ~dropped' => Alone(q)'
  BY DEF CardInv, CardType, ClaimForm, Alone, CardBacked, Backed, Launched, TakingOver, Owning, Publish, At, Go, Fail, stillOwnClaim, Readable, fixed, Drop, Faulted, faults
<1> QED
  BY <1>1, <1>2, <1>3, <1>4, <1>5, <1>6, <1>7 DEF CardInv

LEMMA AbandonKeeps == ASSUME CardInv, NEW p \in CardProcs, Abandon(p) PROVE CardInv'
<1> USE CardAssumption DEF Owners, LockedPcs, BeforePcs, OwnPcs, Pcs
<1>1. CardType'
  BY DEF CardInv, CardType, TakingOver, Abandon, At, Go, fixed, Fail, Drop, Faulted, faults
<1>2. LockHeld'
  BY DEF CardInv, CardType, LockHeld, Locked, TakingOver, Abandon, At, Go, fixed, Fail, Drop, Faulted, faults
<1>3. Launched'
  BY DEF CardInv, CardType, ClaimForm, Launched, TakingOver, Owning, Abandon, At, Go, fixed, Fail, Drop, Faulted, faults
<1>4. CardBacked'
  BY DEF CardInv, CardType, ClaimForm, CardBacked, Backed, LockHeld, Locked, TakingOver, Owning, Launched, Abandon, At, Go, fixed, Fail, Drop, Faulted, faults
<1>5. \A q \in CardProcs : life'[q] = "alive" => TakingOver(q)'
  BY DEF CardInv, CardType, ClaimForm, LockHeld, Locked, TakingOver, Owning, Launched, Abandon, At, Go, fixed, Fail, Drop, Faulted, faults
<1>6. \A q \in CardProcs : life'[q] = "alive" => Owning(q)'
  BY DEF CardInv, CardType, ClaimForm, LockHeld, Locked, TakingOver, Owning, Launched, Abandon, At, Go, fixed, Fail, Drop, Faulted, faults
<1>7. \A q \in CardProcs : life'[q] = "alive" /\ cpc'[q] # "mkdir" /\ ~met'[q] /\ ~dropped' => Alone(q)'
  BY DEF CardInv, CardType, ClaimForm, Alone, CardBacked, Backed, Launched, TakingOver, Owning, Abandon, At, Go, fixed, Fail, Drop, Faulted, faults
<1> QED
  BY <1>1, <1>2, <1>3, <1>4, <1>5, <1>6, <1>7 DEF CardInv

LEMMA UnclaimKeeps == ASSUME CardInv, NEW p \in CardProcs, Unclaim(p) PROVE CardInv'
<1> USE CardAssumption DEF Owners, LockedPcs, BeforePcs, OwnPcs, Pcs
<1>0. ClaimForm(claim')
  BY ClaimForms DEF CardInv, CardType, TakingOver, Launched, Unclaim, At, Go, stillOwnClaim, Readable, fixed, Fail, Drop, Faulted, faults
<1>1. CardType'
  BY <1>0 DEF CardInv, CardType, Unclaim, At, Go, stillOwnClaim, Readable, NoClaim, fixed, Fail, Drop, Faulted, faults
<1>2. LockHeld'
  BY DEF CardInv, CardType, LockHeld, Locked, TakingOver, Unclaim, At, Go, stillOwnClaim, Readable, NoClaim, fixed, Fail, Drop, Faulted, faults
<1>3. Launched'
  BY DEF CardInv, CardType, ClaimForm, Launched, TakingOver, Owning, Unclaim, At, Go, stillOwnClaim, Readable, NoClaim, fixed, Fail, Drop, Faulted, faults
<1>4. CardBacked'
  BY DEF CardInv, CardType, ClaimForm, CardBacked, Backed, LockHeld, Locked, TakingOver, Owning, Launched, Unclaim, At, Go, stillOwnClaim, Readable, NoClaim, fixed, Fail, Drop, Faulted, faults
<1>5. \A q \in CardProcs : life'[q] = "alive" => TakingOver(q)'
  BY DEF CardInv, CardType, ClaimForm, LockHeld, Locked, TakingOver, Owning, Launched, Unclaim, At, Go, stillOwnClaim, Readable, NoClaim, fixed, Fail, Drop, Faulted, faults
<1>6. \A q \in CardProcs : life'[q] = "alive" => Owning(q)'
  BY DEF CardInv, CardType, ClaimForm, LockHeld, Locked, TakingOver, Owning, Launched, Unclaim, At, Go, stillOwnClaim, Readable, NoClaim, fixed, Fail, Drop, Faulted, faults
<1>7. \A q \in CardProcs : life'[q] = "alive" /\ cpc'[q] # "mkdir" /\ ~met'[q] /\ ~dropped' => Alone(q)'
  BY DEF CardInv, CardType, ClaimForm, Alone, CardBacked, Backed, Launched, TakingOver, Owning, Unclaim, At, Go, stillOwnClaim, Readable, NoClaim, fixed, Fail, Drop, Faulted, faults
<1> QED
  BY <1>1, <1>2, <1>3, <1>4, <1>5, <1>6, <1>7 DEF CardInv

LEMMA WithholdKeeps == ASSUME CardInv, NEW p \in CardProcs, Withhold(p) PROVE CardInv'
<1> USE CardAssumption DEF Owners, LockedPcs, BeforePcs, OwnPcs, Pcs
<1>1. CardType'
  BY DEF CardInv, CardType, TakingOver, Withhold, At, Go, Fail, fixed, Drop, Faulted, faults
<1>2. LockHeld'
  BY DEF CardInv, CardType, LockHeld, Locked, TakingOver, Withhold, At, Go, Fail, fixed, Drop, Faulted, faults
<1>3. Launched'
  BY DEF CardInv, CardType, ClaimForm, Launched, TakingOver, Owning, Withhold, At, Go, Fail, fixed, Drop, Faulted, faults
<1>4. CardBacked'
  BY DEF CardInv, CardType, ClaimForm, CardBacked, Backed, LockHeld, Locked, TakingOver, Owning, Launched, Withhold, At, Go, Fail, fixed, Drop, Faulted, faults
<1>5. \A q \in CardProcs : life'[q] = "alive" => TakingOver(q)'
  BY DEF CardInv, CardType, ClaimForm, LockHeld, Locked, TakingOver, Owning, Launched, Withhold, At, Go, Fail, fixed, Drop, Faulted, faults
<1>6. \A q \in CardProcs : life'[q] = "alive" => Owning(q)'
  BY DEF CardInv, CardType, ClaimForm, LockHeld, Locked, TakingOver, Owning, Launched, Withhold, At, Go, Fail, fixed, Drop, Faulted, faults
<1>7. \A q \in CardProcs : life'[q] = "alive" /\ cpc'[q] # "mkdir" /\ ~met'[q] /\ ~dropped' => Alone(q)'
  BY DEF CardInv, CardType, ClaimForm, Alone, CardBacked, Backed, Launched, TakingOver, Owning, Withhold, At, Go, Fail, fixed, Drop, Faulted, faults
<1> QED
  BY <1>1, <1>2, <1>3, <1>4, <1>5, <1>6, <1>7 DEF CardInv

LEMMA SweepKeeps == ASSUME CardInv, NEW p \in CardProcs, Sweep(p) PROVE CardInv'
<1> USE CardAssumption DEF Owners, LockedPcs, BeforePcs, OwnPcs, Pcs
<1>1. CardType'
  BY DEF CardInv, CardType, TakingOver, Sweep, At, Go, stillOwnClaim, Readable, fixed, Fail, Drop, Faulted, faults
<1>2. LockHeld'
  BY DEF CardInv, CardType, LockHeld, Locked, TakingOver, Sweep, At, Go, stillOwnClaim, Readable, fixed, Fail, Drop, Faulted, faults
<1>3. Launched'
  BY DEF CardInv, CardType, ClaimForm, Launched, TakingOver, Owning, Sweep, At, Go, stillOwnClaim, Readable, fixed, Fail, Drop, Faulted, faults
<1>4. CardBacked'
  BY DEF CardInv, CardType, ClaimForm, CardBacked, Backed, LockHeld, Locked, TakingOver, Owning, Launched, Sweep, At, Go, stillOwnClaim, Readable, fixed, Fail, Drop, Faulted, faults
<1>5. \A q \in CardProcs : life'[q] = "alive" => TakingOver(q)'
  BY DEF CardInv, CardType, ClaimForm, LockHeld, Locked, TakingOver, Owning, Launched, Sweep, At, Go, stillOwnClaim, Readable, fixed, Fail, Drop, Faulted, faults
<1>6. \A q \in CardProcs : life'[q] = "alive" => Owning(q)'
  BY DEF CardInv, CardType, ClaimForm, LockHeld, Locked, TakingOver, Owning, Launched, Sweep, At, Go, stillOwnClaim, Readable, fixed, Fail, Drop, Faulted, faults
<1>7. \A q \in CardProcs : life'[q] = "alive" /\ cpc'[q] # "mkdir" /\ ~met'[q] /\ ~dropped' => Alone(q)'
  BY DEF CardInv, CardType, ClaimForm, Alone, CardBacked, Backed, Launched, TakingOver, Owning, Sweep, At, Go, stillOwnClaim, Readable, fixed, Fail, Drop, Faulted, faults
<1> QED
  BY <1>1, <1>2, <1>3, <1>4, <1>5, <1>6, <1>7 DEF CardInv

LEMMA writeClaimReplaceAtomicallyKeeps == ASSUME CardInv, NEW p \in CardProcs, writeClaimReplaceAtomically(p) PROVE CardInv'
<1> USE CardAssumption DEF Owners, LockedPcs, BeforePcs, OwnPcs, Pcs
<1>0. ClaimForm(claim')
  <2>1. CASE stillOwnClaim(p) /\ claim' # claim
    <3>1. claim' = [claim EXCEPT !.state = "exited"] /\ claim.owner # Nobody
      BY <2>1 DEF writeClaimReplaceAtomically, stillOwnClaim, Readable, Fail, Drop, Faulted, faults
    <3>2. /\ claim' \in [owner : Owners, written : BOOLEAN, state : {"none", "live", "exited"}]
          /\ claim'.owner = claim.owner
      BY <3>1 DEF CardInv, CardType, ClaimForm
    <3>3. NoClaim.owner = Nobody
      BY DEF NoClaim
    <3> QED
      BY <3>1, <3>2, <3>3 DEF ClaimForm
  <2>2. CASE ~stillOwnClaim(p) \/ claim' = claim
    BY <2>2 DEF CardInv, CardType, writeClaimReplaceAtomically, Fail, Drop, Faulted, faults
  <2> QED
    BY <2>1, <2>2
<1>1. CardType'
  BY <1>0 DEF CardInv, CardType, writeClaimReplaceAtomically, At, Go, fixed, Fail, Drop, Faulted, faults
<1>2. LockHeld'
  BY DEF CardInv, CardType, LockHeld, Locked, TakingOver, writeClaimReplaceAtomically, At, Go, stillOwnClaim, Readable, fixed, Fail, Drop, Faulted, faults
<1>3. Launched'
  BY DEF CardInv, CardType, ClaimForm, Launched, TakingOver, Owning, writeClaimReplaceAtomically, At, Go, stillOwnClaim, Readable, fixed, Fail, Drop, Faulted, faults
<1>4. CardBacked'
  BY DEF CardInv, CardType, ClaimForm, CardBacked, Backed, LockHeld, Locked, TakingOver, Owning, Launched, writeClaimReplaceAtomically, At, Go, stillOwnClaim, Readable, fixed, Fail, Drop, Faulted, faults
<1>5. \A q \in CardProcs : life'[q] = "alive" => TakingOver(q)'
  BY DEF CardInv, CardType, ClaimForm, LockHeld, Locked, TakingOver, Owning, Launched, writeClaimReplaceAtomically, At, Go, stillOwnClaim, Readable, fixed, Fail, Drop, Faulted, faults
<1>6. \A q \in CardProcs : life'[q] = "alive" => Owning(q)'
  BY DEF CardInv, CardType, ClaimForm, LockHeld, Locked, TakingOver, Owning, Launched, writeClaimReplaceAtomically, At, Go, stillOwnClaim, Readable, fixed, Fail, Drop, Faulted, faults
<1>7. \A q \in CardProcs : life'[q] = "alive" /\ cpc'[q] # "mkdir" /\ ~met'[q] /\ ~dropped' => Alone(q)'
  BY DEF CardInv, CardType, ClaimForm, Alone, CardBacked, Backed, Launched, TakingOver, Owning, writeClaimReplaceAtomically, At, Go, stillOwnClaim, Readable, fixed, Fail, Drop, Faulted, faults
<1> QED
  BY <1>1, <1>2, <1>3, <1>4, <1>5, <1>6, <1>7 DEF CardInv

LEMMA CardExitKeeps == ASSUME CardInv, NEW p \in CardProcs, CardExit(p) PROVE CardInv'
<1> USE CardAssumption DEF Owners, LockedPcs, BeforePcs, OwnPcs, Pcs
<1>1. CardType'
  BY DEF CardInv, CardType, TakingOver, CardExit, At, Die, Unlock, Fail, Drop, Faulted, faults
<1>2. LockHeld'
  BY DEF CardInv, CardType, LockHeld, Locked, TakingOver, CardExit, At, Die, Unlock, Fail, Drop, Faulted, faults
<1>3. Launched'
  BY DEF CardInv, CardType, ClaimForm, Launched, TakingOver, Owning, CardExit, At, Die, Unlock, Fail, Drop, Faulted, faults
<1>4. CardBacked'
  BY DEF CardInv, CardType, ClaimForm, CardBacked, Backed, LockHeld, Locked, TakingOver, Owning, Launched, CardExit, At, Die, Unlock, Fail, Drop, Faulted, faults
<1>5. \A q \in CardProcs : life'[q] = "alive" => TakingOver(q)'
  BY DEF CardInv, CardType, ClaimForm, LockHeld, Locked, TakingOver, Owning, Launched, CardExit, At, Die, Unlock, Fail, Drop, Faulted, faults
<1>6. \A q \in CardProcs : life'[q] = "alive" => Owning(q)'
  BY DEF CardInv, CardType, ClaimForm, LockHeld, Locked, TakingOver, Owning, Launched, CardExit, At, Die, Unlock, Fail, Drop, Faulted, faults
<1>7. \A q \in CardProcs : life'[q] = "alive" /\ cpc'[q] # "mkdir" /\ ~met'[q] /\ ~dropped' => Alone(q)'
  BY DEF CardInv, CardType, ClaimForm, Alone, CardBacked, Backed, Launched, TakingOver, Owning, CardExit, At, Die, Unlock, Fail, Drop, Faulted, faults
<1> QED
  BY <1>1, <1>2, <1>3, <1>4, <1>5, <1>6, <1>7 DEF CardInv

LEMMA CardCrashKeeps == ASSUME CardInv, NEW p \in CardProcs, CardCrash(p) PROVE CardInv'
<1> USE CardAssumption DEF Owners, LockedPcs, BeforePcs, OwnPcs, Pcs
<1>1. CardType'
  BY DEF CardInv, CardType, TakingOver, CardCrash, Die, Unlock, Fail, Drop, Faulted, faults
<1>2. LockHeld'
  BY DEF CardInv, CardType, LockHeld, Locked, TakingOver, CardCrash, Die, Unlock, Fail, Drop, Faulted, faults
<1>3. Launched'
  BY DEF CardInv, CardType, ClaimForm, Launched, TakingOver, Owning, CardCrash, Die, Unlock, Fail, Drop, Faulted, faults
<1>4. CardBacked'
  BY DEF CardInv, CardType, ClaimForm, CardBacked, Backed, LockHeld, Locked, TakingOver, Owning, Launched, CardCrash, Die, Unlock, Fail, Drop, Faulted, faults
<1>5. \A q \in CardProcs : life'[q] = "alive" => TakingOver(q)'
  BY DEF CardInv, CardType, ClaimForm, LockHeld, Locked, TakingOver, Owning, Launched, CardCrash, Die, Unlock, Fail, Drop, Faulted, faults
<1>6. \A q \in CardProcs : life'[q] = "alive" => Owning(q)'
  BY DEF CardInv, CardType, ClaimForm, LockHeld, Locked, TakingOver, Owning, Launched, CardCrash, Die, Unlock, Fail, Drop, Faulted, faults
<1>7. \A q \in CardProcs : life'[q] = "alive" /\ cpc'[q] # "mkdir" /\ ~met'[q] /\ ~dropped' => Alone(q)'
  BY DEF CardInv, CardType, ClaimForm, Alone, CardBacked, Backed, Launched, TakingOver, Owning, CardCrash, Die, Unlock, Fail, Drop, Faulted, faults
<1> QED
  BY <1>1, <1>2, <1>3, <1>4, <1>5, <1>6, <1>7 DEF CardInv

LEMMA CardInvInit == CardInit => CardInv
<1> SUFFICES ASSUME CardInit PROVE CardInv
  OBVIOUS
<1>1. CardType /\ \A p \in CardProcs : life[p] = "new"
  BY ClaimForms DEF CardInit, CardType, Owners, Pcs
<1>2. LockHeld /\ Launched /\ CardBacked
  BY CardAssumption DEF CardInit, NoClaim, LockHeld, Locked, Launched, CardBacked, Backed
<1> QED
  BY <1>1, <1>2 DEF CardInv

LEMMA CardInvStep == CardInv /\ [CardNext]_cvars => CardInv'
<1> SUFFICES ASSUME CardInv, [CardNext]_cvars PROVE CardInv'
  OBVIOUS
<1>1. ASSUME NEW p \in CardProcs,
             \/ Launch(p) \/ OpenCard(p) \/ Withhold(p) \/ Sweep(p) \/ writeClaimReplaceAtomically(p)
             \/ CardExit(p) \/ CardCrash(p)
      PROVE  CardInv'
  BY <1>1, LaunchKeeps, MkdirKeeps, tryAcquireReclaimLockKeeps, cleanDeadReclaimLeasesKeeps, RecoverKeeps,
     UnnameKeeps, DecideKeeps, ObserveKeeps, electReclaimLeaseKeeps,
     QuarantineKeeps, UnlinkKeeps, CreateKeeps, WriteKeeps, RestoreKeeps,
     ClearCardKeeps, ClearRestKeeps, OpenStreamKeeps, PublishKeeps,
     AbandonKeeps, UnclaimKeeps, WithholdKeeps, SweepKeeps,
     writeClaimReplaceAtomicallyKeeps, CardExitKeeps, CardCrashKeeps DEF OpenCard
<1>2. CASE UNCHANGED cvars
  BY <1>2 DEF cvars, faults, CardInv, CardType, ClaimForm, LockHeld, Locked, Launched, CardBacked, Backed,
     TakingOver, Owning, Alone
<1> QED
  BY <1>1, <1>2 DEF CardNext

LEMMA CardInvariant == CardSpec => []CardInv
  BY CardInvInit, CardInvStep, PTL DEF CardSpec

-------------------------------------------------------------------------------
(* One live process at most has the run slot, and the files in it are its    *)
(* own, however many processes race for it and die in it                     *)
(* (internal/processrun/card.go, claimRunSlot and what it calls).            *)
THEOREM OneLiveOwner == CardSpec => []SlotExclusive
<1>1. CardInv => SlotExclusive
  <2> SUFFICES ASSUME CardInv, NEW p \in CardProcs, Holds(p)
               PROVE  /\ stillOwnClaim(p)
                      /\ \A q \in CardProcs \ {p} : ~Holds(q)
                      /\ cpc[p] = "running" => card = p /\ events = p
    BY DEF SlotExclusive
  <2>1. \A q \in CardProcs : Holds(q) => claim.owner = q /\ claim.written
    BY DEF CardInv, Owning, OwnPcs, Holds, identityLive
  <2>2. cpc[p] = "running" => card = p /\ events = p
    BY DEF CardInv, Owning, Holds, identityLive
  <2> QED
    BY <2>1, <2>2, CardAssumption DEF stillOwnClaim, Readable
<1> QED
  BY <1>1, CardInvariant, PTL

(* No recovery, takeover or abandoned setup of another process touches the   *)
(* files of a live holder (card.go, recoverOrphanTakeoverState,              *)
(* staleTakeoverLocked, clearSlotOwnedResidue, abandonSetup).                *)
THEOREM HolderUndisturbed == CardSpec => LiveFilesKept
<1>1. CardInv /\ [CardNext]_cvars =>
        [\A p \in CardProcs :
           (Holds(p) /\ cpc'[p] = cpc[p]) =>
              /\ claim' = claim
              /\ card = p => card' = p
              /\ events = p => events' = p]_cvars
  <2> SUFFICES ASSUME CardInv, CardNext, NEW h \in CardProcs, Holds(h), cpc'[h] = cpc[h]
               PROVE  /\ claim' = claim
                      /\ card = h => card' = h
                      /\ events = h => events' = h
    OBVIOUS
  <2>1. /\ claim.owner = h /\ claim.written /\ claim # NoClaim /\ h # Nobody
        /\ life[h] = "alive" /\ cpc[h] \notin {"mkdir", "write"}
    BY CardAssumption DEF CardInv, CardType, ClaimForm, Owning, OwnPcs, Holds, identityLive
  <2>2. PICK p \in CardProcs : \/ Launch(p) \/ OpenCard(p) \/ Withhold(p) \/ Sweep(p)
                               \/ writeClaimReplaceAtomically(p) \/ CardExit(p) \/ CardCrash(p)
    BY DEF CardNext
  <2>3. cpc \in [CardProcs -> Pcs] /\ Nobody \notin CardProcs
    BY CardAssumption DEF CardInv, CardType
  <2>4. life[p] = "alive" => TakingOver(p) /\ Owning(p)
    BY DEF CardInv
  <2> USE DEF Go, At, Holds, identityLive, fixed
  <2>5. CASE Launch(p) \/ Mkdir(p) \/ tryAcquireReclaimLock(p) \/ cleanDeadReclaimLeases(p) \/ Unname(p)
             \/ electReclaimLease(p) \/ Quarantine(p) \/ CardExit(p) \/ CardCrash(p)
    BY <2>5 DEF Launch, Mkdir, tryAcquireReclaimLock, cleanDeadReclaimLeases, Unname, electReclaimLease,
       Quarantine, CardExit, CardCrash
  <2>51. CASE Decide(p) \/ Observe(p)
    BY <2>1, <2>51 DEF Decide, Observe, Relinked
  <2>6. CASE Recover(p) \/ Create(p) \/ Restore(p)
    BY <2>1, <2>6 DEF Recover, Create, Restore
  <2>7. CASE Unlink(p)
    BY <2>1, <2>4, <2>7 DEF Unlink, TakingOver
  <2>8. CASE Write(p)
    BY <2>1, <2>4, <2>8 DEF Write, Owning
  <2>9. CASE ClearCard(p) \/ ClearRest(p)
    BY <2>1, <2>3, <2>4, <2>9 DEF ClearCard, ClearRest, Owning, OwnPcs
  <2>10. CASE OpenStream(p) \/ Publish(p)
    BY <2>1, <2>10 DEF OpenStream, Publish
  <2>11. CASE Abandon(p) \/ Unclaim(p)
    BY <2>1, <2>3, <2>11 DEF Abandon, Unclaim, stillOwnClaim
  <2>12. CASE Withhold(p)
    BY <2>1, <2>3, <2>4, <2>12 DEF Withhold, Owning, OwnPcs
  <2>13. CASE Sweep(p) \/ writeClaimReplaceAtomically(p)
    BY <2>1, <2>3, <2>13 DEF Sweep, writeClaimReplaceAtomically, stillOwnClaim
  <2> QED
    BY <2>2, <2>5, <2>51, <2>6, <2>7, <2>8, <2>9, <2>10, <2>11, <2>12, <2>13 DEF OpenCard
<1> QED
  BY <1>1, CardInvariant, PTL DEF CardSpec, LiveFilesKept

(* A process is refused the slot only because of another that lived during   *)
(* its attempt, of a claim that was created and never written, or of a       *)
(* dropped failure named by Drop: whatever the dead left at any other step,  *)
(* and whatever other removal failed, can be taken over (card.go,            *)
(* recoverOrphanTakeoverState, claimExistingUnderLock).                      *)
THEOREM RefusedForCause == CardSpec => ExistsMeansLive
<1>1. CardInv /\ [CardNext]_cvars =>
        [\A p \in CardProcs :
           tries'[p] > tries[p] \/ (verdict[p] # "exists" /\ verdict'[p] = "exists") =>
              met[p] \/ dropped' \/ (claim.owner # Nobody /\ ~claim.written)]_cvars
  <2> SUFFICES ASSUME CardInv, CardNext, NEW h \in CardProcs, ~met[h], ~dropped',
                      tries'[h] > tries[h] \/ (verdict[h] # "exists" /\ verdict'[h] = "exists")
               PROVE  claim.owner # Nobody /\ ~claim.written
    OBVIOUS
  <2>1. /\ tries \in [CardProcs -> Nat] /\ verdict \in [CardProcs -> {"none", "owned", "exists", "setup"}]
        /\ claim.owner \in Owners /\ (claim.owner = Nobody <=> claim = NoClaim)
        /\ card \in Owners /\ Nobody \notin CardProcs /\ claim.written \in BOOLEAN
        /\ reclaim \in Owners
    BY CardAssumption DEF CardInv, CardType, ClaimForm
  <2>2. PICK p \in CardProcs : \/ Launch(p) \/ OpenCard(p) \/ Withhold(p) \/ Sweep(p)
                               \/ writeClaimReplaceAtomically(p) \/ CardExit(p) \/ CardCrash(p)
    BY DEF CardNext
  <2>21. ~dropped
    BY <2>2 DEF OpenCard, Launch, Mkdir, tryAcquireReclaimLock, cleanDeadReclaimLeases, Recover, Unname,
       Decide, Observe, electReclaimLease, Quarantine, Unlink, Create, Write, Restore, ClearCard,
       ClearRest, OpenStream, Publish, Abandon, Unclaim, Withhold, Sweep,
       writeClaimReplaceAtomically, CardExit, CardCrash, Fail, Drop, faults
  <2>3. life[p] = "alive" =>
          /\ TakingOver(p) /\ Owning(p)
          /\ cpc[p] # "mkdir" /\ ~met[p] => Alone(p)
    BY <2>21 DEF CardInv
  <2> USE DEF Go, At, fixed, Contend, Return, Fail, Drop, Faulted, faults
  <2>4. CASE Launch(p) \/ Mkdir(p) \/ cleanDeadReclaimLeases(p) \/ Unname(p) \/ Recover(p)
             \/ electReclaimLease(p) \/ Unlink(p)
    BY <2>1, <2>4 DEF Launch, Mkdir, cleanDeadReclaimLeases, Unname, Recover, electReclaimLease, Unlink
  <2>5. CASE Write(p) \/ Restore(p) \/ ClearCard(p) \/ ClearRest(p) \/ OpenStream(p) \/ Abandon(p)
             \/ Unclaim(p)
    BY <2>1, <2>5 DEF Write, Restore, ClearCard, ClearRest, OpenStream, Abandon, Unclaim
  <2>6. CASE Withhold(p) \/ Sweep(p) \/ writeClaimReplaceAtomically(p) \/ CardExit(p) \/ CardCrash(p)
    BY <2>1, <2>6 DEF Withhold, Sweep, writeClaimReplaceAtomically, CardExit, CardCrash
  <2>7. CASE tryAcquireReclaimLock(p)
    <3>1. p = h /\ reclaim # Nobody /\ cpc[p] = "lock" /\ Alone(p)
      BY <2>1, <2>3, <2>7 DEF tryAcquireReclaimLock
    <3>2. reclaim \in CardProcs /\ reclaim # p /\ life[reclaim] = "alive"
      BY <2>1, <3>1 DEF CardInv, LockHeld, Locked, LockedPcs, Owners
    <3> QED
      BY <3>1, <3>2 DEF Alone
  <2>8. CASE Decide(p)
    <3>1. p = h /\ cpc[p] = "decide" /\ Alone(p) /\ Owning(p)
      BY <2>1, <2>3, <2>8 DEF Decide
    <3>2. ~identityLive(readSlotOwner)
      BY <3>1 DEF identityLive, readSlotOwner, Alone, Owning, BeforePcs
    <3> QED
      BY <2>1, <2>8, <3>1, <3>2 DEF Decide, readSlotOwner, Readable, Relinked, Orphans, Alone
  <2>9. CASE Observe(p)
    <3>1. p = h /\ cpc[p] = "observe" /\ Alone(p) /\ Owning(p)
      BY <2>1, <2>3, <2>9 DEF Observe
    <3> QED
      BY <2>1, <2>9, <3>1 DEF Observe, Readable, Alone, Owning, BeforePcs, identityLive
  <2>10. CASE Quarantine(p)
    BY <2>1, <2>3, <2>10 DEF Quarantine, TakingOver
  <2>11. CASE Create(p)
    <3>1. p = h /\ claim # NoClaim /\ cpc[p] = "create" /\ Alone(p)
      BY <2>1, <2>3, <2>11 DEF Create
    <3> QED
      BY <2>1, <3>1 DEF Alone
  <2>12. CASE Publish(p)
    <3>1. ~(verdict'[h] = "exists") \/ (p = h /\ cpc[p] = "publish" /\ (~stillOwnClaim(p) \/ card # Nobody))
      BY <2>1, <2>12 DEF Publish
    <3>2. verdict[h] # "exists" /\ verdict'[h] = "exists"
      BY <2>1, <2>12 DEF Publish
    <3> QED
      BY <2>1, <2>3, <2>12, <3>1, <3>2 DEF Publish, Owning, OwnPcs, Alone, stillOwnClaim, Readable
  <2> QED
    BY <2>2, <2>4, <2>5, <2>6, <2>7, <2>8, <2>9, <2>10, <2>11, <2>12 DEF OpenCard
<1> QED
  BY <1>1, CardInvariant, PTL DEF CardSpec, ExistsMeansLive

-------------------------------------------------------------------------------
(* The event stream: the inductive invariant.                                *)

Names == {"started", "progress", "heartbeat"} \cup Terminals
Line == [event : Names, seq : Nat, artifacts : SUBSET Artifacts]

StreamType ==
    /\ lines \in Seq(Line) /\ torn \in BOOLEAN /\ file \in {"open", "kept", "gone", "left"} /\ sweep \in {"none", "done", "failed"}
    /\ seq \in Nat /\ disabled \in BOOLEAN /\ terminal \in BOOLEAN /\ started \in BOOLEAN
    /\ stopped \in BOOLEAN /\ refs \in SUBSET Artifacts /\ withheld \in BOOLEAN
    /\ published \in BOOLEAN /\ clean \in BOOLEAN /\ beats \in Nat /\ done \in Nat
    /\ mpc \in {"started", "run", "callback", "endCallback", "close", "closeCallback",
                "closing", "sweep", "ended"}
    /\ hpc \in {"off", "idle", "tick", "callback", "done"}

(* What is in the stream, whether it can still be found or not.              *)
Numbered == seq = Len(lines) /\ \A i \in 1..Len(lines) : lines[i].seq = i - 1
StartedFirst == \A i \in 1..Len(lines) : (lines[i].event = "started") = (i = 1)
TerminalLast ==
    \A i \in 1..Len(lines) : lines[i].event \in Terminals => i = Len(lines) /\ lines[i].artifacts = refs

EndsTerminal == lines # <<>> /\ lines[Len(lines)].event \in Terminals

(* What main has done and what may still be written: the first line is there *)
(* once the emitter is in use, the terminal line is there when the flag says *)
(* so, and neither main nor the heartbeat writes after it.                   *)
Beginning ==
    /\ mpc = "started" =>
         lines = <<>> /\ hpc = "off" /\ file = "open" /\ ~disabled /\ ~terminal /\ ~started /\ ~torn
    /\ mpc # "started" => started \/ disabled
    /\ started => lines # <<>>
    /\ hpc # "off" => started
Ending ==
    /\ terminal => EndsTerminal /\ mpc \in {"close", "closeCallback", "closing", "sweep", "ended"}
    /\ EndsTerminal => terminal \/ disabled
    /\ EndsTerminal => mpc \in {"close", "closeCallback", "closing", "sweep", "ended"}
    /\ mpc = "close" /\ ~disabled => terminal
    /\ mpc \in {"endCallback", "sweep", "ended"} => disabled

(* What became of the file.                                                  *)
FileState ==
    /\ file = "kept" => EndsTerminal /\ mpc \in {"sweep", "ended"}
    /\ file \in Removal => withheld /\ (disabled \/ mpc \in {"closeCallback", "closing"})
    /\ mpc \in {"closeCallback", "closing"} => file \in Removal
    /\ disabled => file # "open"
    /\ file \notin Removal => ~torn

(* The card is withdrawn for a withheld stream only, or at the clean end.    *)
Sweeping ==
    /\ InCallback => file \in Removal
    /\ sweep = "done" => ~published

StreamInv ==
    /\ StreamType /\ Numbered /\ StartedFirst /\ TerminalLast
    /\ Beginning /\ Ending /\ FileState /\ Sweeping

-------------------------------------------------------------------------------
(* Appending a line to a sequence of lines.                                  *)
LEMMA AppendLine ==
  ASSUME NEW c \in Seq(Line), NEW e \in Line
  PROVE  /\ Append(c, e) \in Seq(Line) /\ Append(c, e) # <<>>
         /\ Len(c) \in Nat /\ Len(Append(c, e)) = Len(c) + 1
         /\ Append(c, e)[Len(c) + 1] = e
         /\ \A i \in 1..Len(c) : Append(c, e)[i] = c[i] /\ c[i] \in Line
         /\ c # <<>> <=> Len(c) >= 1
  OBVIOUS

(* A line that is neither the first nor a terminal one, written while the    *)
(* stream is open and has no terminal line, keeps the stream well formed;    *)
(* so does the first line and so does a terminal one.                        *)
LEMMA AppendKeepsForm ==
  ASSUME StreamInv, NEW name \in Names, NEW arts \in SUBSET Artifacts,
         Append1(name, arts),
         name = "started" <=> lines = <<>>,
         name \notin Terminals, ~EndsTerminal, refs' = refs
  PROVE  /\ lines' \in Seq(Line) /\ lines' # <<>> /\ seq' \in Nat
         /\ Numbered' /\ StartedFirst' /\ TerminalLast' /\ ~EndsTerminal'
<1> DEFINE e == Event(name, arts)
<1>1. e \in Line /\ e.event = name /\ e.seq = seq
  BY DEF Event, Line, StreamInv, StreamType
<1>2. lines' = Append(lines, e) /\ seq' = seq + 1
  BY DEF Append1
<1>3. lines \in Seq(Line)
  BY DEF StreamInv, StreamType
<1> HIDE DEF e
<1>4. /\ lines' \in Seq(Line) /\ lines' # <<>>
      /\ Len(lines) \in Nat /\ Len(lines') = Len(lines) + 1
      /\ lines'[Len(lines) + 1] = e
      /\ \A i \in 1..Len(lines) : lines'[i] = lines[i] /\ lines[i] \in Line
      /\ lines # <<>> <=> Len(lines) >= 1
  BY <1>1, <1>2, <1>3, AppendLine
<1>5. Numbered' /\ seq' \in Nat
  BY <1>1, <1>2, <1>4 DEF Numbered, StreamInv
<1>6. StartedFirst'
  BY <1>1, <1>4 DEF StartedFirst, StreamInv
<1>7. \A i \in 1..Len(lines) : lines[i].event \notin Terminals
  BY <1>4 DEF TerminalLast, StreamInv, EndsTerminal
<1>8. TerminalLast'
  BY <1>1, <1>4, <1>7 DEF TerminalLast
<1>9. ~EndsTerminal'
  BY <1>1, <1>4 DEF EndsTerminal
<1> QED
  BY <1>4, <1>5, <1>6, <1>8, <1>9

LEMMA StreamInvInit == StreamInit => StreamInv
<1> SUFFICES ASSUME StreamInit PROVE StreamInv
  OBVIOUS
<1>1. lines = <<>> /\ lines \in Seq(Line) /\ Len(lines) = 0 /\ ~EndsTerminal
  BY DEF StreamInit, EndsTerminal
<1>2. StreamType
  BY <1>1 DEF StreamInit, StreamType
<1>3. Numbered /\ StartedFirst /\ TerminalLast
  BY <1>1 DEF StreamInit, Numbered, StartedFirst, TerminalLast
<1>4. Beginning /\ Ending /\ FileState /\ Sweeping
  BY <1>1 DEF StreamInit, Beginning, Ending, FileState, Removal, Sweeping, InCallback
<1> QED
  BY <1>2, <1>3, <1>4 DEF StreamInv

(* What disabling an emitter without a terminal event, and sweeping, leave.  *)
LEMMA Disabled ==
  ASSUME StreamInv, disableLocked, ~terminal
  PROVE  /\ file' \in Removal /\ withheld' = TRUE /\ disabled' = TRUE /\ stopped' = TRUE
         /\ torn' \in BOOLEAN /\ UNCHANGED <<lines, seq>>
<1>1. file' \in Removal /\ disabled' = TRUE /\ stopped' = TRUE /\ torn' \in BOOLEAN /\ UNCHANGED <<lines, seq>>
  BY DEF disableLocked
<1>2. withheld' = TRUE
  BY Zenon DEF disableLocked
<1> QED
  BY <1>1, <1>2
LEMMA Swept ==
  ASSUME StreamInv, SweepCard
  PROVE  /\ published' \in BOOLEAN /\ sweep' \in {"none", "done", "failed"}
         /\ sweep' = "done" => ~published'
         /\ published' => published /\ sweep' = "failed"
<1>1. CASE sweep = "none" /\ sweep' = "done" /\ published' = FALSE
  BY <1>1
<1>2. CASE sweep = "none" /\ sweep' = "failed" /\ UNCHANGED published
  BY <1>2 DEF StreamInv, StreamType
<1>3. CASE sweep # "none" /\ UNCHANGED <<sweep, published>>
  BY <1>3 DEF StreamInv, StreamType, Sweeping
<1> QED
  BY <1>1, <1>2, <1>3 DEF SweepCard

(* The stream's lines and everything said of them stay.                      *)
LEMMA LinesKept ==
  ASSUME StreamInv, UNCHANGED <<lines, seq, refs>>
  PROVE  /\ lines' \in Seq(Line) /\ seq' \in Nat /\ refs' \in SUBSET Artifacts
         /\ Numbered' /\ StartedFirst' /\ TerminalLast' /\ EndsTerminal' = EndsTerminal
         /\ (lines' # <<>>) = (lines # <<>>)
  BY DEF StreamInv, StreamType, Numbered, StartedFirst, TerminalLast, EndsTerminal

LEMMA StreamInvStep == StreamInv /\ [StreamNext]_svars => StreamInv'
<1> SUFFICES ASSUME StreamInv, [StreamNext]_svars PROVE StreamInv'
  OBVIOUS
<1> USE DEF StreamInv, MainTo, Beat, Skip, Main
<1>1. CASE Started
  <2>1. CASE Append1("started", {}) /\ started' = TRUE /\ hpc' = "idle" /\ mpc' = "run"
    <3>1. lines = <<>> /\ ~EndsTerminal /\ refs' = refs
      BY <1>1 DEF Started, Beginning, EndsTerminal
    <3>2. "started" \in Names /\ {} \in SUBSET Artifacts /\ "started" \notin Terminals
      BY DEF Names, Terminals
    <3>3. /\ lines' \in Seq(Line) /\ lines' # <<>> /\ seq' \in Nat
          /\ Numbered' /\ StartedFirst' /\ TerminalLast' /\ ~EndsTerminal'
      BY <2>1, <3>1, <3>2, AppendKeepsForm
    <3> QED
      BY <1>1, <2>1, <3>1, <3>3 DEF Started, Append1, StreamType, Beginning, Ending, FileState, Sweeping, InCallback, Removal
  <2>2. CASE disableLocked /\ UNCHANGED started /\ MainTo("callback")
    <3>1. UNCHANGED <<lines, seq, refs>> /\ ~terminal
      BY <1>1, <2>2 DEF Started, disableLocked, Beginning, Ending
    <3>2. /\ file' \in Removal /\ withheld' = TRUE /\ disabled' = TRUE /\ stopped' = TRUE
          /\ torn' \in BOOLEAN
      BY <2>2, <3>1, Disabled
    <3> QED
      BY <1>1, <2>2, <3>1, <3>2, LinesKept DEF Started, StreamType, Beginning, Ending, FileState, Sweeping, InCallback, Removal
  <2> QED
    BY <1>1, <2>1, <2>2 DEF Started, writeLocked
<1>2. CASE Progress
  <2>1. CASE Append1("progress", {}) /\ MainTo("run") /\ ~disabled
    <3>1. lines # <<>> /\ ~EndsTerminal /\ refs' = refs
      BY <1>2, <2>1 DEF Progress, Beginning, Ending
    <3>2. "progress" \in Names /\ {} \in SUBSET Artifacts /\ "progress" \notin Terminals
      BY DEF Names, Terminals
    <3>3. /\ lines' \in Seq(Line) /\ lines' # <<>> /\ seq' \in Nat
          /\ Numbered' /\ StartedFirst' /\ TerminalLast' /\ ~EndsTerminal'
      BY <2>1, <3>1, <3>2, AppendKeepsForm
    <3> QED
      BY <1>2, <2>1, <3>1, <3>3 DEF Progress, Append1, StreamType, Beginning, Ending, FileState, Sweeping, InCallback, Removal
  <2>2. CASE disableLocked /\ MainTo("callback")
    <3>1. UNCHANGED <<lines, seq, refs>> /\ ~terminal
      BY <1>2, <2>2 DEF Progress, disableLocked, Beginning, Ending
    <3>2. /\ file' \in Removal /\ withheld' = TRUE /\ disabled' = TRUE /\ stopped' = TRUE
          /\ torn' \in BOOLEAN
      BY <2>2, <3>1, Disabled
    <3> QED
      BY <1>2, <2>2, <3>1, <3>2, LinesKept DEF Progress, StreamType, Beginning, Ending, FileState, Sweeping, InCallback, Removal
  <2>3. CASE disabled /\ Skip /\ MainTo("run")
    BY <1>2, <2>3, LinesKept DEF Progress, StreamType, Beginning, Ending, FileState, Sweeping, InCallback, Removal
  <2> QED
    BY <1>2, <2>1, <2>2, <2>3 DEF Progress, writeLocked
<1>3. CASE ArtifactPublished
  <2>1. refs' \in SUBSET Artifacts /\ UNCHANGED <<lines, seq>>
    BY <1>3 DEF ArtifactPublished, StreamType
  <2>2. ~EndsTerminal /\ ~EndsTerminal' /\ Numbered' /\ StartedFirst' /\ TerminalLast'
    <3>1. ~EndsTerminal
      BY <1>3 DEF ArtifactPublished, Ending
    <3>2. \A i \in 1..Len(lines) : lines[i].event \notin Terminals
      BY <3>1 DEF TerminalLast, EndsTerminal, StreamType
    <3> QED
      BY <2>1, <3>1, <3>2 DEF EndsTerminal, Numbered, StartedFirst, TerminalLast
  <2> QED
    BY <1>3, <2>1, <2>2 DEF ArtifactPublished, StreamType, Beginning, Ending, FileState, Sweeping, InCallback, Removal
<1>4. CASE Tick
  BY <1>4, LinesKept DEF Tick, StreamType, Beginning, Ending, FileState, Sweeping, InCallback, Removal
<1>5. CASE Heartbeat
  <2>1. CASE Append1("heartbeat", {}) /\ Beat("idle") /\ ~disabled /\ ~terminal /\ file = "open"
    <3>1. lines # <<>> /\ ~EndsTerminal /\ refs' = refs
      BY <1>5, <2>1 DEF Heartbeat, Beginning, Ending
    <3>2. "heartbeat" \in Names /\ {} \in SUBSET Artifacts /\ "heartbeat" \notin Terminals
      BY DEF Names, Terminals
    <3>3. /\ lines' \in Seq(Line) /\ lines' # <<>> /\ seq' \in Nat
          /\ Numbered' /\ StartedFirst' /\ TerminalLast' /\ ~EndsTerminal'
      BY <2>1, <3>1, <3>2, AppendKeepsForm
    <3> QED
      BY <1>5, <2>1, <3>1, <3>3 DEF Heartbeat, Append1, StreamType, Beginning, Ending, FileState, Sweeping, InCallback, Removal
  <2>2. CASE disableLocked /\ Beat("callback") /\ ~disabled /\ ~terminal /\ file = "open"
    <3>1. UNCHANGED <<lines, seq, refs>> /\ ~terminal
      BY <1>5, <2>2 DEF Heartbeat, disableLocked, Beginning, Ending
    <3>2. /\ file' \in Removal /\ withheld' = TRUE /\ disabled' = TRUE /\ stopped' = TRUE
          /\ torn' \in BOOLEAN
      BY <2>2, <3>1, Disabled
    <3> QED
      BY <1>5, <2>2, <3>1, <3>2, LinesKept DEF Heartbeat, StreamType, Beginning, Ending, FileState, Sweeping, InCallback, Removal
  <2>3. CASE Skip /\ Beat("idle")
    BY <1>5, <2>3, LinesKept DEF Heartbeat, StreamType, Beginning, Ending, FileState, Sweeping, InCallback, Removal
  <2> QED
    BY <1>5, <2>1, <2>2, <2>3 DEF Heartbeat, writeLocked
<1>6. CASE HeartbeatStops
  BY <1>6, LinesKept DEF HeartbeatStops, StreamType, Beginning, Ending, FileState, Sweeping, InCallback, Removal
<1>7. CASE OnWithhold
  <2>1. UNCHANGED <<lines, torn, file, seq, disabled, stopped, withheld, terminal, started, refs, beats, clean, done>>
    BY <1>7 DEF OnWithhold
  <2>2. StreamType'
    <3>1. /\ published' \in BOOLEAN /\ sweep' \in {"none", "done", "failed"}
          /\ mpc' \in {"run", "closing", mpc} /\ hpc' \in {"idle", hpc}
      BY <1>7 DEF OnWithhold, SweepCard, StreamType
    <3>2. /\ mpc' \in {"started", "run", "callback", "endCallback", "close", "closeCallback",
                       "closing", "sweep", "ended"}
          /\ hpc' \in {"off", "idle", "tick", "callback", "done"}
      BY <3>1 DEF StreamType
    <3> QED
      BY <2>1, <3>1, <3>2 DEF StreamType
  <2>25. sweep' = "done" => ~published'
    BY <1>7, Swept DEF OnWithhold
  <2>3. CASE mpc = "callback" /\ MainTo("run")
    BY <2>1, <2>2, <2>3, <2>25, LinesKept DEF Beginning, Ending, FileState, Sweeping, InCallback, Removal
  <2>4. CASE mpc = "closeCallback" /\ MainTo("closing")
    BY <2>1, <2>2, <2>4, <2>25, LinesKept DEF Beginning, Ending, FileState, Sweeping, InCallback, Removal
  <2>5. CASE hpc = "callback" /\ Beat("idle")
    BY <2>1, <2>2, <2>5, <2>25, LinesKept DEF Beginning, Ending, FileState, Sweeping, InCallback, Removal
  <2> QED
    BY <1>7, <2>3, <2>4, <2>5 DEF OnWithhold
<1>8. CASE Terminal
  <2>1. ASSUME NEW class \in Terminals,
               lines' = Append(lines, Event(class, refs)), seq' = seq + 1, terminal' = TRUE,
               stopped' = TRUE, UNCHANGED <<torn, file, disabled, withheld>>, MainTo("close"),
               ~disabled, started
        PROVE  StreamInv'
    <3> DEFINE e == Event(class, refs)
    <3>1. e \in Line /\ e.event = class /\ e.seq = seq /\ e.artifacts = refs /\ class # "started"
      BY DEF Event, Line, StreamType, Names, Terminals
    <3>2. lines' = Append(lines, e) /\ lines \in Seq(Line) /\ lines # <<>> /\ ~EndsTerminal
      BY <2>1, <1>8 DEF StreamType, Terminal, Beginning, Ending
    <3> HIDE DEF e
    <3>3. /\ lines' \in Seq(Line) /\ lines' # <<>>
          /\ Len(lines) \in Nat /\ Len(lines) >= 1 /\ Len(lines') = Len(lines) + 1
          /\ lines'[Len(lines) + 1] = e
          /\ \A i \in 1..Len(lines) : lines'[i] = lines[i] /\ lines[i] \in Line
      BY <3>1, <3>2, AppendLine
    <3>4. refs' = refs
      BY <1>8 DEF Terminal
    <3>5. Numbered' /\ seq' \in Nat
      BY <2>1, <3>1, <3>3 DEF Numbered, StreamType
    <3>6. StartedFirst'
      BY <3>1, <3>3 DEF StartedFirst
    <3>7. \A i \in 1..Len(lines) : lines[i].event \notin Terminals
      BY <3>2, <3>3 DEF TerminalLast, EndsTerminal
    <3>8. TerminalLast' /\ EndsTerminal'
      BY <3>1, <3>3, <3>4, <3>7 DEF TerminalLast, EndsTerminal
    <3> QED
      BY <1>8, <2>1, <3>3, <3>4, <3>5, <3>6, <3>8
      DEF Terminal, StreamType, Beginning, Ending, FileState, Sweeping, InCallback, Removal
  <2>2. CASE disableLocked /\ MainTo("endCallback") /\ UNCHANGED terminal /\ ~disabled
    <3>1. UNCHANGED <<lines, seq, refs>> /\ ~terminal
      BY <1>8, <2>2 DEF Terminal, disableLocked, Beginning, Ending
    <3>2. /\ file' \in Removal /\ withheld' = TRUE /\ disabled' = TRUE /\ stopped' = TRUE
          /\ torn' \in BOOLEAN
      BY <2>2, <3>1, Disabled
    <3> QED
      BY <1>8, <2>2, <3>1, <3>2, LinesKept DEF Terminal, StreamType, Beginning, Ending, FileState, Sweeping, InCallback, Removal
  <2>3. CASE (disabled \/ ~started) /\ Skip /\ UNCHANGED terminal /\ MainTo("close")
    BY <1>8, <2>3, LinesKept DEF Terminal, StreamType, Beginning, Ending, FileState, Sweeping, InCallback, Removal
  <2> QED
    BY <1>8, <2>1, <2>2, <2>3 DEF Terminal, Terminals
<1>9. CASE EndCallback
  BY <1>9, LinesKept, Swept DEF EndCallback, StreamType, Beginning, Ending, FileState, Sweeping, InCallback, Removal
<1>10. CASE Close
  <2>1. /\ UNCHANGED <<lines, seq, terminal, started, refs, published, sweep, beats, clean, done>>
        /\ mpc = "close" /\ stopped' = TRUE
    BY <1>10 DEF Close
  <2>2. StreamType'
    BY <1>10, <2>1, LinesKept, ZenonT(40) DEF Close, StreamType, Removal
  <2>3. CASE disabled /\ MainTo("sweep") /\ UNCHANGED <<file, disabled, withheld, torn>>
    BY <2>1, <2>2, <2>3, LinesKept DEF Beginning, Ending, FileState, Sweeping, InCallback, Removal
  <2>4. CASE ~disabled /\ file' = "kept" /\ disabled' = TRUE /\ MainTo("sweep") /\ UNCHANGED <<withheld, torn>>
    BY <2>1, <2>2, <2>4, LinesKept DEF StreamType, Beginning, Ending, FileState, Sweeping, InCallback, Removal
  <2>5. CASE ~disabled /\ file' \in Removal /\ withheld' = TRUE /\ MainTo("closeCallback") /\ UNCHANGED disabled
    BY <2>1, <2>2, <2>5, LinesKept DEF StreamType, Beginning, Ending, FileState, Sweeping, InCallback, Removal
  <2> QED
    BY <1>10, <2>3, <2>4, <2>5 DEF Close
<1>11. CASE Closing
  BY <1>11, LinesKept, ZenonT(40) DEF Closing, StreamType, Beginning, Ending, FileState, Sweeping, InCallback, Removal
<1>12. CASE CardClose
  BY <1>12, LinesKept, Swept DEF CardClose, StreamType, Beginning, Ending, FileState, Sweeping, InCallback, Removal
<1>13. CASE UNCHANGED svars
  BY <1>13, LinesKept DEF svars, StreamType, Beginning, Ending, FileState, Sweeping, InCallback, Removal
<1> QED
  BY <1>1, <1>2, <1>3, <1>4, <1>5, <1>6, <1>7, <1>8, <1>9, <1>10, <1>11, <1>12, <1>13 DEF StreamNext

LEMMA StreamInvariant == StreamSpec => []StreamInv
  BY StreamInvInit, StreamInvStep, PTL DEF StreamSpec

(* The event stream a reader can find is well formed, whatever heartbeats,   *)
(* failing writes, failing removals and callbacks outside the mutex come     *)
(* together; a torn end is only found in a withheld stream that could not be *)
(* removed (internal/processrun/emitter.go, writeLocked, disableLocked and   *)
(* Close).                                                                   *)
THEOREM StreamTrusted == StreamSpec => []StreamWellFormed
<1>1. StreamInv => StreamWellFormed
  BY DEF StreamInv, StreamWellFormed, StreamType, Numbered, StartedFirst, TerminalLast,
         FileState, Removal, EndsTerminal
<1> QED
  BY <1>1, StreamInvariant, PTL

(* The card never outlives its stream outside the callback that withdraws it *)
(* and a clean end leaves no card, unless Card.Sweep's single attempt        *)
(* failed; and a panic leaves the card in place unless its stream was        *)
(* withheld (emitter.go, fireWithholdLocked; Card.Sweep and Card.Close).     *)
THEOREM CardFollowsStream == StreamSpec => []CardHasStream
<1>1. StreamInit => CardHasStream
  BY DEF StreamInit, CardHasStream, Removal
<1>2. StreamInv /\ CardHasStream /\ [StreamNext]_svars => CardHasStream'
  <2> SUFFICES ASSUME StreamInv, CardHasStream, [StreamNext]_svars PROVE CardHasStream'
    OBVIOUS
  <2> USE DEF StreamInv, StreamType, CardHasStream, InCallback, MainTo, Beat, Skip, Main, Removal, FileState
  <2>0. CASE Started
    <3>1. CASE Append1("started", {}) /\ mpc' = "run"
      BY <2>0, <3>1 DEF Started, Append1, Beginning
    <3>2. CASE disableLocked /\ MainTo("callback")
      BY <2>0, <3>2 DEF Started, disableLocked
    <3> QED
      BY <2>0, <3>1, <3>2 DEF Started, writeLocked
  <2>1. CASE Progress
    <3>1. CASE ~disabled /\ Append1("progress", {}) /\ MainTo("run")
      BY <2>1, <3>1 DEF Progress, Append1
    <3>2. CASE disableLocked /\ MainTo("callback")
      BY <2>1, <3>2 DEF Progress, disableLocked
    <3>3. CASE disabled /\ Skip /\ MainTo("run")
      BY <2>1, <3>3 DEF Progress
    <3> QED
      BY <2>1, <3>1, <3>2, <3>3 DEF Progress, writeLocked
  <2>2. CASE ArtifactPublished \/ Tick \/ HeartbeatStops
    BY <2>2 DEF ArtifactPublished, Tick, HeartbeatStops
  <2>3. CASE Heartbeat
    BY <2>3 DEF Heartbeat, writeLocked, Append1, disableLocked
  <2>4. CASE OnWithhold \/ EndCallback
    <3>1. SweepCard /\ UNCHANGED <<file, withheld, clean>> /\ InCallback
      BY <2>4 DEF OnWithhold, EndCallback
    <3>2. withheld'
      BY <3>1 DEF Sweeping
    <3> QED
      BY <3>1, <3>2, Swept
  <2>5. CASE Terminal
    BY <2>5 DEF Terminal, disableLocked
  <2>6. CASE Close
    BY <2>6 DEF Close
  <2>61. CASE Closing
    BY <2>61 DEF Closing
  <2>62. CASE CardClose
    <3>1. CASE clean /\ SweepCard
      BY <2>62, <3>1, Swept DEF CardClose
    <3>2. CASE ~clean /\ UNCHANGED <<published, sweep>>
      BY <2>62, <3>2 DEF CardClose
    <3> QED
      BY <2>62, <3>1, <3>2 DEF CardClose
  <2>7. CASE UNCHANGED svars
    BY <2>7 DEF svars
  <2> QED
    BY <2>0, <2>1, <2>2, <2>3, <2>4, <2>5, <2>6, <2>61, <2>62, <2>7 DEF StreamNext
<1> QED
  BY <1>1, <1>2, StreamInvariant, PTL DEF StreamSpec

-------------------------------------------------------------------------------
(* External fields: what the layers say of one key, with any number of     *)
(* source patterns.                                                        *)

FPattern == [has : BOOLEAN, internal : BOOLEAN, yields : {"none", "blank", "full"}]
FieldCase ==
    [patterns : Seq(FPattern), shim : BOOLEAN, manifest : {"none", "blank", "full", "list"},
     cli : {"none", "blank", "full", "list", "bad"}, internal : BOOLEAN, mapped : BOOLEAN,
     required : BOOLEAN, requiredCapture : BOOLEAN]

(* A set of numbers up to n has a largest.                                 *)
LEMMA LargestHit ==
  ASSUME NEW n \in Nat, NEW H, H \subseteq 1..n, H # {}
  PROVE  \E i \in H : \A j \in H : j <= i
<1>1. PICK h \in H : TRUE
  OBVIOUS
<1> DEFINE above == {k \in Nat : \A j \in H : j <= k}
<1>2. n \in above
  OBVIOUS
<1> DEFINE least == CHOOSE k \in above : \A m \in above : k <= m
<1>3. \E k \in above : \A m \in above : k <= m
  <2>1. above \subseteq Nat /\ above # {}
    BY <1>2
  <2>2. IsWellFoundedOn(OpToRel(<, Nat), Nat)
    BY NatLessThanWellFounded
  <2>3. \E k \in above : \A m \in above : ~(<<m, k>> \in OpToRel(<, Nat))
    <3> DEFINE R == OpToRel(<, Nat)
    <3> HIDE DEF above, R
    <3> QED
      BY <2>1, <2>2, WFMin DEF R
  <2>4. PICK k \in above : \A m \in above : ~(<<m, k>> \in OpToRel(<, Nat))
    BY <2>3
  <2>5. \A m \in above : k <= m
    <3> HIDE DEF above
    <3>1. \A m \in Nat : <<m, k>> \in Nat \X Nat
      BY <2>1
    <3>2. \A m \in above : ~(m < k)
      BY <2>1, <2>4, <3>1, Zenon DEF OpToRel
    <3> QED
      BY <2>1, <3>2
  <2> QED
    BY <2>5
<1>4. PICK k \in above : \A m \in above : k <= m
  BY <1>3
<1>5. CASE k \in H
  BY <1>4, <1>5
<1>6. CASE k \notin H
  <2>1. h \in 1..n /\ h <= k /\ k \in Nat
    BY <1>1, <1>4
  <2>2. k - 1 \in above
    <3>1. k - 1 \in Nat
      BY <2>1
    <3>2. \A j \in H : j \in Nat /\ j <= k /\ j # k
      BY <1>4, <1>6
    <3>3. \A j \in H : j <= k - 1
      BY <2>1, <3>2
    <3> QED
      BY <3>1, <3>3
  <2> QED
    BY <1>4, <2>1, <2>2
<1> QED
  BY <1>5, <1>6

(* A value a pattern gave is of a pattern that names the key.              *)
LEMMA CaptureHit ==
  ASSUME NEW c \in FieldCase, FCapture(c).value # "none"
  PROVE  FCapture(c).by \in DOMAIN c.patterns /\ c.patterns[FCapture(c).by].has
<1> DEFINE hits == {i \in DOMAIN c.patterns : c.patterns[i].has /\ c.patterns[i].yields # "none"}
           last == CHOOSE i \in hits : \A j \in hits : j <= i
<1>1. c.patterns \in Seq(FPattern)
  BY DEF FieldCase
<1>2. hits \subseteq 1..Len(c.patterns) /\ Len(c.patterns) \in Nat
  BY <1>1
<1>3. hits # {}
  BY DEF FCapture
<1>4. FCapture(c).by = last
  BY <1>3 DEF FCapture
<1>5. \E i \in hits : \A j \in hits : j <= i
  <2> HIDE DEF hits
  <2> QED
    BY <1>2, <1>3, LargestHit
<1>6. last \in hits
  BY <1>5
<1> QED
  BY <1>4, <1>6

(* FieldsScoped: of any number of flags, patterns and parameters that name *)
(* a key, the one of highest precedence gives its value, a derive-only     *)
(* value never reaches the records, and a required one is given, blank     *)
(* only where the capture of the file's own name is blank and overrides a  *)
(* flag (buildExternalFieldPlan, extractSourceFieldsForFile).              *)
THEOREM FieldsScoped == \A c \in FieldCase : FScopeHolds(c)
<1> SUFFICES ASSUME NEW c \in FieldCase PROVE FScopeHolds(c)
  OBVIOUS
<1> DEFINE cap == FCapture(c)
           none == [by |-> 0, value |-> "none"]
<1> SUFFICES ASSUME FResolve(c).layer \notin {"refused", "fileRefused"}
             PROVE  LET f == FResolve(c) IN
                    /\ f.layer = "capture" => f.hidden = c.patterns[FCapture(c).by].internal
                    /\ f.layer # "none" => ~c.mapped
                    /\ c.required => f.layer # "none" /\ (FBlank(f.value) => f.layer = "capture" /\ c.shim)
                    /\ c.cli # "none" => f.layer = "cli"
                    /\ (f.layer \in {"cli", "manifest"} /\ c.internal) => f.hidden
  BY DEF FScopeHolds
<1>1. ~FPlanRefused(c) /\ ~FCaptureRefused(c) /\ FResolve(c) = FBuild(c, cap)
  BY DEF FResolve
<1>2. /\ cap.value # "none" => FNamed(c) /\ cap.by \in DOMAIN c.patterns /\ c.patterns[cap.by].has
  BY CaptureHit DEF FNamed
<1>3. FBuild(c, cap).layer = "capture" => cap.value # "none" /\ FBuild(c, cap).hidden = FInternalCapture(c)
  BY DEF FBuild
<1>4. FBuild(c, cap).layer # "none" => FBuild(c, none).layer # "none" \/ cap.value # "none"
  BY DEF FBuild
<1>5. FBuild(c, none).layer # "none" => FBuild(c, cap).layer # "none"
  BY DEF FBuild
<1>6. FBuild(c, none).layer = "none" => FBuild(c, none).value = "none"
  BY DEF FBuild
<1>7. /\ c.cli # "none" => FBuild(c, cap).layer = "cli"
      /\ FBuild(c, cap).layer \in {"cli", "manifest"} => FBuild(c, cap).hidden = c.internal
  BY DEF FBuild
<1>11. /\ FBuild(c, cap).layer # "capture" => FBuild(c, cap) = FBuild(c, none)
       /\ FBuild(c, cap).layer = "capture" => FBuild(c, none).layer \in {"shim", "none"}
       /\ FBuild(c, none).layer = "shim" => c.shim
  BY DEF FBuild
<1> HIDE DEF cap
<1>8. FBuild(c, cap).layer # "none" => ~c.mapped
  BY <1>1, <1>2, <1>4 DEF FPlanRefused, FCaptureRefused
<1>9. c.required => /\ FBuild(c, cap).layer # "none"
                    /\ FBlank(FBuild(c, cap).value) => FBuild(c, cap).layer = "capture" /\ c.shim
  BY <1>1, <1>5, <1>6, <1>11 DEF FPlanRefused, FBlank
<1>10. FBuild(c, cap).layer = "capture" => FBuild(c, cap).hidden = c.patterns[cap.by].internal
  <2>1. SUFFICES ASSUME cap.value # "none" PROVE FInternalCapture(c) = c.patterns[cap.by].internal
    BY <1>3
  <2>2. \A i \in DOMAIN c.patterns : c.patterns[i].internal \in BOOLEAN
    <3>1. c.patterns \in Seq(FPattern)
      BY DEF FieldCase
    <3>2. \A i \in DOMAIN c.patterns : c.patterns[i] \in FPattern
      BY <3>1
    <3> QED
      BY <3>2 DEF FPattern
  <2>3. \A i, j \in DOMAIN c.patterns : c.patterns[i].has /\ c.patterns[j].has /\ c.patterns[i].internal => c.patterns[j].internal
    BY <1>1 DEF FCaptureRefused, FMixed
  <2>4. FInternalCapture(c) <=> c.patterns[cap.by].internal
    BY <1>2, <2>1, <2>3 DEF FInternalCapture
  <2>5. FInternalCapture(c) \in BOOLEAN /\ c.patterns[cap.by].internal \in BOOLEAN
    BY <1>2, <2>1, <2>2 DEF FInternalCapture
  <2> QED
    BY <2>4, <2>5
<1> QED
  BY <1>1, <1>7, <1>8, <1>9, <1>10 DEF cap

(* CapturedInside: whatever the names of a cloud root and of an object     *)
(* are, a capture reads only a path inside the root's directory            *)
(* (cloudRelativeSourcePath).                                              *)
THEOREM CapturedInside ==
  ASSUME NEW Chars, NEW p \in [root : Seq(Chars), key : Seq(Chars)]
  PROVE  FPathHolds(p)
<1> DEFINE root == p.root
           key == p.key
           dir == IF root # <<>> /\ Last(root) = "/" THEN Front(root) ELSE root
<1>1. root \in Seq(Chars) /\ key \in Seq(Chars)
  OBVIOUS
<1> HIDE DEF root, key
<1> SUFFICES ASSUME FUnder(root, key) # <<"escapes">>, root # <<>> PROVE dir \in FAncestors(key)
  BY DEF FPathHolds, root, key
<1>2. Len(root) \in Nat \ {0} /\ Len(key) \in Nat
  BY <1>1
<1>3. \A i \in 1..Len(key) : key[i] = "/" => SubSeq(key, 1, i - 1) \in FAncestors(key)
  BY DEF FAncestors
<1>4. CASE Last(root) = "/"
  <2>1. Len(root) <= Len(key) /\ SubSeq(root, 1, Len(root)) = SubSeq(key, 1, Len(root))
    BY <1>4 DEF FUnder, IsPrefix
  <2>2. \A i \in 1..Len(root) : root[i] = key[i]
    <3>1. \A i \in 1..Len(root) : SubSeq(root, 1, Len(root))[i] = root[i] /\ SubSeq(key, 1, Len(root))[i] = key[i]
      BY <1>1, <1>2, <2>1
    <3> QED
      BY <2>1, <3>1
  <2>3. key[Len(root)] = "/"
    BY <1>2, <1>4, <2>2 DEF Last
  <2>4. Front(root) = SubSeq(root, 1, Len(root) - 1)
    BY DEF Front
  <2>5. SubSeq(root, 1, Len(root) - 1) = SubSeq(key, 1, Len(root) - 1)
    BY <1>1, <1>2, <2>1, <2>2
  <2>6. SubSeq(key, 1, Len(root) - 1) \in FAncestors(key)
    BY <1>2, <1>3, <2>1, <2>3
  <2> QED
    BY <1>4, <2>4, <2>5, <2>6
<1>5. CASE Last(root) # "/"
  <2> DEFINE pre == Append(root, "/")
  <2>0. pre \in Seq(Chars \cup {"/"}) /\ Len(pre) = Len(root) + 1 /\ pre[Len(root) + 1] = "/" /\ \A i \in 1..Len(root) : pre[i] = root[i]
    BY <1>1
  <2>1. Len(pre) <= Len(key) /\ SubSeq(pre, 1, Len(pre)) = SubSeq(key, 1, Len(pre))
    BY <1>5 DEF FUnder, IsPrefix
  <2> HIDE DEF pre
  <2>2. \A i \in 1..Len(pre) : pre[i] = key[i]
    <3>1. \A i \in 1..Len(pre) : SubSeq(pre, 1, Len(pre))[i] = pre[i] /\ SubSeq(key, 1, Len(pre))[i] = key[i]
      BY <1>1, <1>2, <2>0, <2>1
    <3> QED
      BY <2>1, <3>1
  <2>3. key[Len(root) + 1] = "/" /\ Len(root) + 1 \in 1..Len(key)
    BY <1>2, <2>0, <2>1, <2>2
  <2>5. root = SubSeq(key, 1, Len(root))
    BY <1>1, <1>2, <2>0, <2>1, <2>2
  <2>6. SubSeq(key, 1, (Len(root) + 1) - 1) \in FAncestors(key)
    BY <1>3, <2>3
  <2>7. (Len(root) + 1) - 1 = Len(root)
    BY <1>2
  <2> QED
    BY <1>5, <2>5, <2>6, <2>7
<1> QED
  BY <1>4, <1>5

-------------------------------------------------------------------------------
(* The record index's format.                                              *)

NContext == [id : Int, decls : {"null", "empty", "some"}]
NHead == [version : NCurrent \cup NLegacyJson \cup NLegacyPair \cup {"other"}, format : {"", "xml", "json", "else"},
          contexts : Seq(NContext), pair : BOOLEAN, layout : {"none", "canonical", "odd"},
          flat : {"none", "canonical", "wide"}, count : Int, size : Nat]

(* A sequence without a repeated value has as many values as places.       *)
LEMMA DistinctCount ==
  ASSUME NEW n \in Nat, NEW f, NEW U, f \in [1..n -> U], U = {f[i] : i \in 1..n},
         \A i, j \in 1..n : i # j => f[i] # f[j]
  PROVE  Cardinality(U) = n
<1>1. f \in Bijection(1..n, U)
  BY DEF Bijection, Injection, Surjection, IsInjective
<1>2. IsFiniteSet(1..n) /\ Cardinality(1..n) = n
  <2>1. 1 \in Int /\ n \in Int
    OBVIOUS
  <2>2. IsFiniteSet(1..n) /\ Cardinality(1..n) = IF 1 > n THEN 0 ELSE n - 1 + 1
    BY <2>1, FS_Interval, Zenon
  <2> QED
    BY <2>2
<1>3. ExistsBijection(1..n, U)
  BY <1>1 DEF ExistsBijection
<1> QED
  <2> DEFINE D == 1..n
  <2>1. IsFiniteSet(D) /\ Cardinality(D) = n /\ ExistsBijection(D, U)
    BY <1>2, <1>3
  <2> HIDE DEF D
  <2> QED
    BY <2>1, FS_Bijection

(* HeadersAgree: whatever namespace table an index is written with, its    *)
(* readers accept the header as the format it was built from; no header of *)
(* an earlier version is read as json, and an accepted table of a current  *)
(* one serves a namespace-bound recipe and names every context once        *)
(* (ResolveFormat, ValidateNamespaceContexts, the writers' headers).       *)
THEOREM HeadersAgree == \A h \in NHead : NHeaderHolds(h)
<1> SUFFICES ASSUME NEW h \in NHead PROVE NHeaderHolds(h)
  OBVIOUS
<1>1. /\ h.contexts \in Seq(NContext) /\ h.format \in {"", "xml", "json", "else"}
      /\ h.version \in NCurrent \cup NLegacyJson \cup NLegacyPair \cup {"other"}
  BY DEF NHead
<1>2. DOMAIN h.contexts = 1..Len(h.contexts) /\ Len(h.contexts) \in Nat /\ \A i \in DOMAIN h.contexts : h.contexts[i] \in NContext
  <2> DEFINE s == h.contexts
  <2>1. s \in Seq(NContext)
    BY <1>1
  <2> HIDE DEF s
  <2>2. DOMAIN s = 1..Len(s) /\ Len(s) \in Nat /\ \A i \in DOMAIN s : s[i] \in NContext
    BY <2>1
  <2> QED
    BY <2>2 DEF s
<1>3. ASSUME h.format \in {"xml", "json"}, NShapeHolds([h EXCEPT !.version = "j13"]), NEW pair \in BOOLEAN
      PROVE  NOpen(NWrites(h.format, h.contexts, pair)) = h.format
  <2> DEFINE k == [h EXCEPT !.version = "j13"]
             w == NWrites(h.format, h.contexts, pair)
  <2>1. k.version = "j13" /\ k.contexts = h.contexts /\ k.format = h.format
    BY DEF NHead
  <2>2. /\ h.contexts # <<>>
        /\ \A i \in DOMAIN h.contexts : h.contexts[i].id >= 0 /\ h.contexts[i].decls # "null"
        /\ \A i, j \in DOMAIN h.contexts : i # j => h.contexts[i].id # h.contexts[j].id
        /\ h.format = "json" => h.contexts = <<[id |-> 0, decls |-> "empty"]>>
    <3> HIDE DEF k
    <3> QED
      BY <1>3, <2>1 DEF NShapeHolds, NCurrent, k
  <2>3. NWritable(h.contexts) = h.contexts
    <3> DEFINE same == [i \in DOMAIN h.contexts |-> [h.contexts[i] EXCEPT !.decls = IF @ = "null" THEN "empty" ELSE @]]
    <3>1. \A x \in NContext : x.decls # "null" => [x EXCEPT !.decls = IF @ = "null" THEN "empty" ELSE @] = x
      BY DEF NContext
    <3>2. \A i \in DOMAIN h.contexts : same[i] = h.contexts[i]
      BY <1>2, <2>2, <3>1
    <3>3. same = h.contexts
      <4> DEFINE s == h.contexts
      <4>1. DOMAIN same = DOMAIN s /\ s = [i \in DOMAIN s |-> s[i]] /\ same = [i \in DOMAIN s |-> same[i]]
        <5>1. s \in Seq(NContext)
          BY <1>1
        <5>2. s = [i \in DOMAIN s |-> s[i]]
          <6> HIDE DEF s
          <6> QED
            BY <5>1
        <5> QED
          BY <5>2
      <4> HIDE DEF same, s
      <4>2. \A i \in DOMAIN s : same[i] = s[i]
        BY <3>2 DEF s
      <4> QED
        BY <4>1, <4>2 DEF s
    <3> QED
      BY <2>2, <3>3 DEF NWritable
  <2>4. /\ w.version \in NCurrent /\ w.version # "j12" /\ w.format = h.format /\ w.contexts = h.contexts /\ w.pair = pair
        /\ pair => w.version = "z12" /\ w.layout = "canonical"
        /\ w.flat = "none" /\ w.count = 1 /\ w.size = 1
    BY <2>3 DEF NWrites, NCurrent
  <2> HIDE DEF w
  <2>5. NNormalize(w) = w
    BY <2>4 DEF NNormalize
  <2>6. NShapeHolds(w)
    BY <2>2, <2>4 DEF NShapeHolds
  <2>7. pair => NPairOpens(w)
    <3>1. pair => NLayout(w) = "canonical"
      BY <2>4 DEF NLayout, NLegacyPair
    <3> QED
      BY <2>4, <3>1 DEF NPairOpens
  <2>8. NFormat(w.version, w.format) = h.format
    BY <1>3, <2>4 DEF NFormat
  <2>9. h.format # "refused"
    BY <1>3
  <2> QED
    BY <2>4, <2>5, <2>6, <2>7, <2>8, <2>9 DEF NOpen, w
<1>4. ASSUME NOpen(h) = "json" PROVE h.version \in NCurrent
  <2>1. NNormalize(h).version = h.version
    BY DEF NNormalize, NHead
  <2>2. NFormat(NNormalize(h).version, NNormalize(h).format) = "json"
    BY <1>4 DEF NOpen
  <2>3. NFormat(h.version, NNormalize(h).format) = "json"
    BY <2>1, <2>2
  <2> QED
    BY <1>1, <2>3 DEF NFormat, NCurrent, NLegacyJson, NLegacyPair
<1>5. ASSUME NOpen(h) # "refused", h.version \in NCurrent
      PROVE  NSupports(h, TRUE) /\ Cardinality({h.contexts[i].id : i \in DOMAIN h.contexts}) = Len(h.contexts)
  <2>1. NNormalize(h) = h
    BY <1>5 DEF NNormalize, NCurrent
  <2>2. NShapeHolds(h)
    BY <1>5, <2>1 DEF NOpen
  <2>3. h.contexts # <<>> /\ \A i, j \in DOMAIN h.contexts : i # j => h.contexts[i].id # h.contexts[j].id
    BY <1>5, <2>2 DEF NShapeHolds
  <2>4. NSupports(h, TRUE)
    BY <1>5, <2>1, <2>3 DEF NSupports, NCurrent
  <2>5. Cardinality({h.contexts[i].id : i \in DOMAIN h.contexts}) = Len(h.contexts)
    <3> DEFINE n == Len(h.contexts)
               U == {h.contexts[i].id : i \in DOMAIN h.contexts}
               f == [i \in 1..n |-> h.contexts[i].id]
    <3>1. n \in Nat /\ f \in [1..n -> U] /\ U = {f[i] : i \in 1..n} /\ \A i, j \in 1..n : i # j => f[i] # f[j]
      BY <1>2, <2>3
    <3> HIDE DEF n, U, f
    <3>2. Cardinality(U) = n
      BY <3>1, DistinctCount
    <3> QED
      BY <3>2 DEF n, U
  <2> QED
    BY <2>4, <2>5
<1> QED
  BY <1>3, <1>4, <1>5 DEF NHeaderHolds

(* SnapshotPrecedes: in whichever order and how often an index file has    *)
(* its members, the header a reader sees holds only members before the     *)
(* records, and a file that is accepted has one records array              *)
(* (StreamingJSONReader's Header and its end).                             *)
THEOREM SnapshotPrecedes ==
  ASSUME NEW Fields, NEW fields \in Seq(Fields)
  PROVE  NStreamHolds(fields)
<1> DEFINE at == {i \in DOMAIN fields : fields[i] = "records"}
<1>1. DOMAIN fields = 1..Len(fields) /\ Len(fields) \in Nat
  OBVIOUS
<1> SUFFICES ASSUME NFinal(fields) # "error"
             PROVE  /\ Cardinality(at) = 1
                    /\ \A f \in NHeader(fields) : \E i, j \in DOMAIN fields :
                         fields[i] = f /\ fields[j] = "records" /\ i < j
  BY DEF NStreamHolds
<1>2. NHeader(fields) # {"error"} /\ ~NDuplicate(fields)
  BY DEF NFinal
<1>3. at # {}
  BY <1>2 DEF NHeader
<1>4. PICK k \in at : TRUE
  BY <1>3
<1>5. \A i \in at : i = k
  BY <1>2, <1>4 DEF NDuplicate
<1>6. at = {k}
  BY <1>4, <1>5
<1>7. Cardinality(at) = 1
  BY <1>6, FS_Singleton
<1>8. k \in 1..Len(fields)
  BY <1>1, <1>4
<1>9. Min(at) = k
  <2>1. Min({k}) = k
    BY <1>8 DEF Min
  <2> QED
    BY <1>6, <2>1
<1>10. NHeader(fields) = ToSet(SubSeq(fields, 1, k - 1)) \cap NKnown
  BY <1>2, <1>3, <1>9 DEF NHeader
<1>11. ASSUME NEW f \in NHeader(fields)
       PROVE  \E i, j \in DOMAIN fields : fields[i] = f /\ fields[j] = "records" /\ i < j
  <2>1. f \in ToSet(SubSeq(fields, 1, k - 1))
    BY <1>10
  <2>2. /\ DOMAIN SubSeq(fields, 1, k - 1) = 1..(k - 1)
        /\ \A i \in 1..(k - 1) : SubSeq(fields, 1, k - 1)[i] = fields[i]
    BY <1>1, <1>8
  <2>3. PICK i \in 1..(k - 1) : f = fields[i]
    BY <2>1, <2>2 DEF ToSet
  <2>4. i \in DOMAIN fields /\ k \in DOMAIN fields /\ fields[k] = "records" /\ i < k
    BY <1>1, <1>4, <1>8, <2>3
  <2> QED
    BY <2>3, <2>4
<1> QED
  BY <1>7, <1>11

(* RecordsReadBack: of any offset an int holds and any numbers, encoding   *)
(* refuses exactly the records that do not fit the short fields, and both  *)
(* the iterator and the decoder return the record that was encoded         *)
(* (EncodeBinaryRecord, DecodeBinaryRecord).  That the wider type is the   *)
(* larger is a hypothesis: the provers know no powers.                     *)
THEOREM RecordsReadBack ==
  ASSUME NEW r \in [offset : Int, num : Int, ref : Int],
         r.offset < 2^(NLong - 1), 2^(NLong - 1) <= 2^NLong
  PROVE  NCodecHolds(r)
<1> DEFINE S == 2^NShort
           L == 2^NLong
           H == 2^(NLong - 1)
<1>1. S \in Int /\ L \in Int /\ H \in Int /\ H <= L /\ r.offset \in Int /\ r.num \in Int /\ r.ref \in Int /\ r.offset < H
  <2>1. NShort \in Nat /\ NLong \in Nat /\ NLong - 1 \in Nat
    BY NWidths
  <2> QED
    BY <2>1
<1> DEFINE refuses == r.offset < 0 \/ r.num < 0 \/ r.ref < 0 \/ r.num >= S \/ r.ref >= S
           bytes == <<r.offset % L, r.num % S, r.ref % S>>
<1>2. NEncode(r) = IF refuses THEN <<>> ELSE bytes
  BY DEF NEncode
<1> HIDE DEF S, L, H
<1>3. refuses <=> (r.offset < 0 \/ r.num \notin 0..(S - 1) \/ r.ref \notin 0..(S - 1))
  BY <1>1
<1>4. bytes # <<>>
  OBVIOUS
<1>5. (NEncode(r) = <<>>) = (r.offset < 0 \/ r.num \notin 0..(S - 1) \/ r.ref \notin 0..(S - 1))
  BY <1>2, <1>3, <1>4
<1>6. ASSUME ~refuses PROVE bytes[1] = r.offset /\ bytes[2] = r.num /\ bytes[3] = r.ref
  <2>1. \A x, m \in Int : 0 <= x /\ x < m => x % m = x
    OBVIOUS
  <2>2. r.offset % L = r.offset
    BY <1>1, <1>6, <2>1
  <2>3. r.num % S = r.num /\ r.ref % S = r.ref
    BY <1>1, <1>6, <2>1
  <2> QED
    BY <2>2, <2>3
<1>7. ASSUME ~refuses PROVE NNext(bytes) = r /\ NDecode(bytes) = <<r>>
  <2>1. ~(bytes[1] >= H)
    BY <1>1, <1>6, <1>7
  <2>2. r = [offset |-> r.offset, num |-> r.num, ref |-> r.ref]
    OBVIOUS
  <2> HIDE DEF bytes
  <2>3. NNext(bytes) = r
    BY <1>6, <1>7, <2>1, <2>2 DEF NNext, NSigned, H
  <2>4. NDecode(bytes) = <<r>>
    BY <1>6, <1>7, <2>1, <2>2 DEF NDecode, H
  <2> QED
    BY <2>3, <2>4
<1> QED
  BY <1>2, <1>4, <1>5, <1>7 DEF NCodecHolds, S

(* VerifierExact: for any source, the walk of a json index in step with a  *)
(* scan of it accepts the index that a build of it writes and no other; an *)
(* xml index of it is accepted, and where every record is verified one     *)
(* that is accepted lists only ranges of the build; no index of other      *)
(* bytes, of another format or with offsets into a packed source is        *)
(* accepted (verifyJSON, VerifyWithProvider and the verify command).       *)
THEOREM VerifierExact ==
  ASSUME NEW Hashes, NEW source \in Seq(Hashes),
         NEW x \in [hash : Seq(Hashes), total : Int, records : Seq([num : Int, at : Int, hash : Hashes])]
  PROVE  NVerifyExact(x, source)
<1>1. DOMAIN source = 1..Len(source) /\ Len(source) \in Nat
  OBVIOUS
<1>2. x = [hash |-> x.hash, total |-> x.total, records |-> x.records] /\ x.records \in Seq([num : Int, at : Int, hash : Hashes])
  OBVIOUS
<1> DEFINE listed == [i \in DOMAIN source |-> NEntry(source, i)]
           entries == x.records
<1>3. NBuild(source) = [hash |-> source, total |-> Len(source), records |-> listed]
  BY DEF NBuild
<1>4. /\ DOMAIN listed = DOMAIN source /\ Len(listed) = Len(source)
      /\ \A i \in DOMAIN source : listed[i] = NEntry(source, i)
  BY <1>1
<1>5. entries \in Seq([num : Int, at : Int, hash : Hashes])
  BY <1>2
<1> HIDE DEF listed, entries
<1>6. entries = listed <=> /\ Len(entries) = Len(source)
                           /\ \A i \in DOMAIN source : entries[i] = NEntry(source, i)
  <2>1. ASSUME Len(entries) = Len(source), \A i \in DOMAIN source : entries[i] = NEntry(source, i)
        PROVE  entries = listed
    <3>1. DOMAIN entries = DOMAIN listed /\ \A i \in DOMAIN listed : entries[i] = listed[i]
      BY <1>1, <1>4, <1>5, <2>1
    <3>2. entries = [i \in DOMAIN entries |-> entries[i]]
      BY <1>5
    <3>3. listed = [i \in DOMAIN listed |-> listed[i]]
      BY DEF listed
    <3> QED
      BY <3>1, <3>2, <3>3
  <2> QED
    BY <1>4, <2>1
<1>7. NVerifyJson(x, source) <=> x.hash = source /\ x.total = Len(source) /\ entries = listed
  <2> USE DEF entries
  <2>1. ASSUME NVerifyJson(x, source)
        PROVE  x.hash = source /\ x.total = Len(source) /\ entries = listed
    <3>1. PICK n \in 0..Len(source) : /\ NScan(x, source, n) = "valid"
                                      /\ \A k \in 0..(n - 1) : NScan(x, source, k) = "next"
      BY <2>1 DEF NVerifyJson
    <3>2. n = Len(source) /\ n = Len(entries) /\ x.total = n
      BY <3>1 DEF NScan
    <3>3. ASSUME NEW i \in DOMAIN source PROVE entries[i] = NEntry(source, i)
      <4>1. i - 1 \in 0..(n - 1) /\ i - 1 + 1 = i
        BY <1>1, <3>2, <3>3
      <4>2. NScan(x, source, i - 1) = "next"
        BY <3>1, <4>1
      <4> QED
        BY <4>1, <4>2 DEF NScan
    <3> QED
      BY <1>6, <2>1, <3>2, <3>3 DEF NVerifyJson
  <2>2. ASSUME x.hash = source, x.total = Len(source), entries = listed
        PROVE  NVerifyJson(x, source)
    <3>1. Len(entries) = Len(source) /\ \A i \in DOMAIN source : entries[i] = NEntry(source, i)
      BY <1>6, <2>2
    <3>2. NScan(x, source, Len(source)) = "valid"
      BY <2>2, <3>1 DEF NScan
    <3>3. ASSUME NEW k \in 0..(Len(source) - 1) PROVE NScan(x, source, k) = "next"
      <4>0. k + 1 \in 1..Len(source) /\ k < Len(source) /\ k # Len(source)
        <5> DEFINE m == Len(source)
        <5>1. m \in Nat /\ k \in 0..(m - 1)
          BY <1>1
        <5> HIDE DEF m
        <5>2. k + 1 \in 1..m /\ k < m /\ k # m
          BY <5>1
        <5> QED
          BY <5>2 DEF m
      <4>1. k + 1 \in DOMAIN source /\ k < Len(source) /\ k < Len(entries) /\ k # Len(source)
        BY <1>1, <3>1, <4>0
      <4>2. entries[k + 1] = NEntry(source, k + 1)
        BY <3>1, <4>1
      <4> QED
        BY <4>1, <4>2 DEF NScan
    <3>4. Len(source) \in 0..Len(source) /\ x.total >= 0
      BY <1>1, <2>2
    <3> QED
      BY <2>2, <3>2, <3>3, <3>4 DEF NVerifyJson
  <2> QED
    BY <2>1, <2>2
<1>8. x = NBuild(source) <=> x.hash = source /\ x.total = Len(source) /\ entries = listed
  <2>1. x = NBuild(source) => x.hash = source /\ x.total = Len(source) /\ entries = listed
    BY <1>3 DEF entries
  <2> QED
    BY <1>2, <1>3, <2>1 DEF entries
<1>9. NVerifyJson(x, source) = (x = NBuild(source))
  <2>1. NVerifyJson(x, source) \in BOOLEAN
    BY DEF NVerifyJson
  <2> QED
    BY <1>7, <1>8, <2>1
<1>10. NVerifyXml(NBuild(source), source, TRUE)
  <2>1. NBuild(source).hash = source /\ NBuild(source).records = listed
    BY <1>3
  <2>2. \A i \in DOMAIN listed : listed[i].at \in DOMAIN source /\ listed[i].hash = source[listed[i].at]
    BY <1>4 DEF NEntry
  <2> QED
    BY <2>1, <2>2 DEF NVerifyXml
<1>11. ASSUME NVerifyXml(x, source, TRUE), NEW i \in DOMAIN x.records
       PROVE  \E j \in DOMAIN source : /\ x.records[i].at = NBuild(source).records[j].at
                                       /\ x.records[i].hash = NBuild(source).records[j].hash
  <2>1. x.records[i].at \in DOMAIN source /\ x.records[i].hash = source[x.records[i].at]
    BY <1>11 DEF NVerifyXml
  <2>2. \A j \in DOMAIN source : NBuild(source).records[j].at = j /\ NBuild(source).records[j].hash = source[j]
    BY <1>3, <1>4 DEF NEntry
  <2> QED
    BY <2>1, <2>2
<1>12. ASSUME NEW built, NEW declared, NEW records, NEW o, NVerifyCommand(x, built, declared, o, source, records)
       PROVE  x.hash = source /\ declared = built /\ ~o.packed
  <2>1. CASE built = "json"
    BY <1>12, <2>1 DEF NVerifyCommand, NOffsetsUsable, NVerifyJson
  <2>2. CASE built # "json"
    BY <1>12, <2>2 DEF NVerifyCommand, NOffsetsUsable, NVerifyXml
  <2> QED
    BY <2>1, <2>2
<1> QED
  BY <1>9, <1>10, <1>11, <1>12 DEF NVerifyExact

-------------------------------------------------------------------------------
(* The plan of an extract-multi run.                                       *)

PPair == [key : PKeys \cup {""}, formed : BOOLEAN, text : STRING]
PLine ==
    [inputs : SUBSET {"files", "list", "path"}, root : STRING, place : STRING, rooted : STRING,
     visible : SUBSET PPair, hidden : SUBSET PPair,
     mode : STRING, records : Int, bytes : Int, identity : BOOLEAN, noDurable : BOOLEAN, noManifest : BOOLEAN,
     descriptor : BOOLEAN, contract : BOOLEAN, workers : Int, patterns : STRING, depth : Int, follow : BOOLEAN,
     goOn : BOOLEAN, validate : STRING, cloudMode : STRING, prefetch : Int, stagedBytes : Int, stagedFiles : Int,
     objectBytes : Int, handle : STRING, run : STRING, last : STRING]

(* What a flag is when the recorded line is run again.                     *)
LEMMA ReplayedFlag ==
  ASSUME NEW s \in PLine, NEW r, NEW f \in DOMAIN PDefault
  PROVE  PReplay(PArgv(s, r), s)[f] = IF PRecorded(f, s[f]) THEN PSanitized(s, r)[f] ELSE PDefault[f]
<1>1. f \in DOMAIN s
  BY DEF PLine, PDefault
<1> DEFINE kept == {g \in DOMAIN PDefault : PRecorded(g, s[g])}
<1>2. PArgv(s, r) = [g \in kept |-> PSanitized(s, r)[g]] /\ DOMAIN PArgv(s, r) = kept
  BY DEF PArgv
<1>3. f \in kept <=> PRecorded(f, s[f])
  OBVIOUS
<1> HIDE DEF kept
<1>4. f \in kept => PArgv(s, r)[f] = PSanitized(s, r)[f]
  BY <1>2
<1> QED
  BY <1>1, <1>2, <1>3, <1>4 DEF PReplay

(* The flags that are recorded as they are.                                *)
PPlain == {"inputs", "root", "identity", "noDurable", "noManifest", "descriptor", "contract", "patterns", "follow", "goOn"}

LEMMA SanitizedFlag ==
  ASSUME NEW s \in PLine, NEW r, s.last = "plain"
  PROVE  /\ \A f \in DOMAIN PDefault \ {"place", "rooted", "visible", "hidden"} : PSanitized(s, r)[f] = s[f]
         /\ PSanitized(s, r).place = PPlaceRecorded(s)
         /\ PSanitized(s, r).visible = {PVisible(p, s, r) : p \in s.visible}
         /\ PSanitized(s, r).hidden = {PHidden(h) : h \in s.hidden}
<1>1. PInputsRecorded(s) = s.inputs
  BY DEF PInputsRecorded
<1> QED
  BY <1>1 DEF PLine, PDefault, PSanitized

(* The line t as it is read back from what recipe r recorded of s.         *)
PReplayedAs(t, s, r) ==
  /\ \A f \in PPlain : t[f] = s[f]
  /\ t.place = s.place /\ t.rooted = "none" /\ t.handle = s.handle /\ t.run = s.run
  /\ t.visible = {PVisible(p, s, r) : p \in s.visible} /\ t.hidden = {PHidden(h) : h \in s.hidden}
  /\ t.mode = (IF s.mode \in {"", "per-input"} THEN "per-input" ELSE s.mode)
  /\ t.validate = (IF s.validate \in {"", "off"} THEN "off" ELSE s.validate)
  /\ t.cloudMode = (IF s.cloudMode \in {"", "eager"} THEN "eager" ELSE s.cloudMode)
  /\ t.workers = (IF s.workers > 1 THEN s.workers ELSE 1)
  /\ \A f \in PCounts : t[f] = IF s[f] > 0 THEN s[f] ELSE 0

LEMMA ReplayedLine ==
  ASSUME NEW s \in PLine, PPortable(s), NEW r, NEW t, t = PReplay(PArgv(s, r), s)
  PROVE  PReplayedAs(t, s, r)
<1> DEFINE c == PSanitized(s, r)
<1>1. \A f \in DOMAIN PDefault : t[f] = IF PRecorded(f, s[f]) THEN c[f] ELSE PDefault[f]
  BY ReplayedFlag
<1>2. DOMAIN PDefault = {"inputs", "root", "place", "rooted", "visible", "hidden", "mode", "records", "bytes", "identity",
                         "noDurable", "noManifest", "descriptor", "contract", "workers", "patterns", "depth", "follow", "goOn",
                         "validate", "cloudMode", "prefetch", "stagedBytes", "stagedFiles", "objectBytes"}
  BY DEF PDefault
<1>3. /\ \A f \in DOMAIN PDefault \ {"place", "rooted", "visible", "hidden"} : c[f] = s[f]
      /\ c.place = PPlaceRecorded(s)
      /\ c.visible = {PVisible(p, s, r) : p \in s.visible} /\ c.hidden = {PHidden(h) : h \in s.hidden}
  BY SanitizedFlag DEF PPortable
<1> HIDE DEF c
<1>4. \A f \in PPlain : t[f] = s[f]
  <2>1. \A f \in PPlain : PRecorded(f, s[f]) <=> s[f] # PDefault[f]
    BY DEF PRecorded, PPlain, PCounts
  <2>2. \A f \in PPlain : f \in DOMAIN PDefault \ {"place", "rooted", "visible", "hidden"}
    BY <1>2 DEF PPlain
  <2> QED
    BY <1>1, <1>3, <2>1, <2>2
<1>5. t.place = s.place
  <2>1. PPlaceRecorded(s) = s.place
    BY DEF PPlaceRecorded, PPortable
  <2>2. t.place = IF PRecorded("place", s.place) THEN c.place ELSE PDefault.place
    BY <1>1, <1>2
  <2>3. PRecorded("place", s.place) <=> s.place # PDefault.place
    BY DEF PRecorded, PCounts
  <2> QED
    BY <1>3, <2>1, <2>2, <2>3
<1>6. t.rooted = "none"
  <2>1. ~PRecorded("rooted", s.rooted) /\ PDefault.rooted = "none"
    BY DEF PRecorded, PPortable, PDefault, PCounts
  <2> QED
    BY <1>1, <1>2, <2>1
<1>7. t.visible = {PVisible(p, s, r) : p \in s.visible}
  <2>1. t.visible = IF PRecorded("visible", s.visible) THEN c.visible ELSE PDefault.visible
    BY <1>1, <1>2
  <2>2. (PRecorded("visible", s.visible) <=> s.visible # {}) /\ PDefault.visible = {}
    BY DEF PRecorded, PDefault, PCounts
  <2>3. s.visible = {} => {PVisible(p, s, r) : p \in s.visible} = {}
    OBVIOUS
  <2> QED
    BY <1>3, <2>1, <2>2, <2>3
<1>8. t.hidden = {PHidden(h) : h \in s.hidden}
  <2>1. t.hidden = IF PRecorded("hidden", s.hidden) THEN c.hidden ELSE PDefault.hidden
    BY <1>1, <1>2
  <2>2. (PRecorded("hidden", s.hidden) <=> s.hidden # {}) /\ PDefault.hidden = {}
    BY DEF PRecorded, PDefault, PCounts
  <2>3. s.hidden = {} => {PHidden(h) : h \in s.hidden} = {}
    OBVIOUS
  <2> QED
    BY <1>3, <2>1, <2>2, <2>3
<1>9. /\ t.mode = (IF s.mode \in {"", "per-input"} THEN "per-input" ELSE s.mode)
      /\ t.validate = (IF s.validate \in {"", "off"} THEN "off" ELSE s.validate)
      /\ t.cloudMode = (IF s.cloudMode \in {"", "eager"} THEN "eager" ELSE s.cloudMode)
      /\ t.workers = (IF s.workers > 1 THEN s.workers ELSE 1)
  <2>1. /\ PRecorded("mode", s.mode) <=> s.mode \notin {"", "per-input"}
        /\ PRecorded("validate", s.validate) <=> s.validate \notin {"", "off"}
        /\ PRecorded("cloudMode", s.cloudMode) <=> s.cloudMode \notin {"", "eager"}
        /\ PRecorded("workers", s.workers) <=> s.workers > 1
    BY DEF PRecorded, PCounts
  <2>2. PDefault.mode = "per-input" /\ PDefault.validate = "off" /\ PDefault.cloudMode = "eager" /\ PDefault.workers = 1
    BY DEF PDefault
  <2>3. \A f \in {"mode", "validate", "cloudMode", "workers"} : t[f] = IF PRecorded(f, s[f]) THEN s[f] ELSE PDefault[f]
    BY <1>1, <1>2, <1>3
  <2> QED
    BY <2>1, <2>2, <2>3
<1>10. \A f \in PCounts : t[f] = IF s[f] > 0 THEN s[f] ELSE 0
  <2>1. \A f \in PCounts : PRecorded(f, s[f]) <=> s[f] > 0
    BY DEF PRecorded, PCounts
  <2>2. \A f \in PCounts : PDefault[f] = 0
    <3>1. /\ PDefault.records = 0 /\ PDefault.bytes = 0 /\ PDefault.depth = 0 /\ PDefault.prefetch = 0
          /\ PDefault.stagedBytes = 0 /\ PDefault.stagedFiles = 0 /\ PDefault.objectBytes = 0
      BY DEF PDefault
    <3> QED
      BY <3>1 DEF PCounts
  <2>3. \A f \in PCounts : f \in DOMAIN PDefault \ {"place", "rooted", "visible", "hidden"}
    BY <1>2 DEF PCounts
  <2> QED
    BY <1>1, <1>3, <2>1, <2>2, <2>3
<1>11. t.handle = s.handle /\ t.run = s.run
  <2>1. DOMAIN PArgv(s, r) \subseteq DOMAIN PDefault
    BY DEF PArgv
  <2>2. {"handle", "run"} \subseteq DOMAIN s
    BY DEF PLine
  <2>3. "handle" \notin DOMAIN PDefault /\ "run" \notin DOMAIN PDefault
    BY <1>2
  <2> QED
    BY <2>1, <2>2, <2>3 DEF PReplay
<1> QED
  BY <1>4, <1>5, <1>6, <1>7, <1>8, <1>9, <1>10, <1>11, Zenon DEF PReplayedAs

(* Sanitizing keeps the keys of the parameters and whether they are formed.*)
LEMMA SameKeys ==
  ASSUME NEW s \in PLine, ~PInternalRefused(s), NEW r, NEW t,
         t.visible = {PVisible(p, s, r) : p \in s.visible}, t.hidden = {PHidden(h) : h \in s.hidden}
  PROVE  /\ \A x : PFields(t, x) = PFields(s, x)
         /\ ~PInternalRefused(t)
         /\ \A v \in PKept(s, r) : v \in PParameters(t)
<1>1. \A p \in s.visible : PVisible(p, s, r).key = p.key /\ PVisible(p, s, r).formed = p.formed
  <2>1. \A p \in PPair : \A x : [p EXCEPT !.text = x].key = p.key /\ [p EXCEPT !.text = x].formed = p.formed
    BY DEF PPair
  <2>2. s.visible \subseteq PPair
    BY DEF PLine
  <2> QED
    BY <2>1, <2>2 DEF PVisible
<1>2. \A h \in s.hidden : h.formed = TRUE /\ h.key # "" /\ PHidden(h).key = h.key /\ PHidden(h).formed = TRUE
  <2>2. s.hidden \subseteq PPair
    BY DEF PLine
  <2>1. \A h \in s.hidden : h.formed = TRUE /\ h.key # ""
    <3>1. \A h \in s.hidden : h.formed /\ h.key # ""
      BY DEF PInternalRefused
    <3>2. \A h \in s.hidden : h.formed \in BOOLEAN
      BY <2>2 DEF PPair
    <3> QED
      BY <3>1, <3>2, Zenon
  <2>3. \A h \in PPair : (h.formed = TRUE /\ h.key # "") => PHidden(h).key = h.key /\ PHidden(h).formed = TRUE
    BY DEF PPair, PHidden
  <2> QED
    BY <2>1, <2>2, <2>3
<1>10. /\ \A v \in t.visible : \E p \in s.visible : v.key = p.key /\ v.formed = p.formed
       /\ \A p \in s.visible : \E v \in t.visible : v.key = p.key /\ v.formed = p.formed
  BY <1>1
<1>11. /\ \A v \in t.hidden : \E h \in s.hidden : v.key = h.key /\ v.formed = h.formed
       /\ \A h \in s.hidden : \E v \in t.hidden : v.key = h.key /\ v.formed = h.formed
  <2>1. ASSUME NEW v \in t.hidden PROVE \E h \in s.hidden : v.key = h.key /\ v.formed = h.formed
    <3>1. PICK h \in s.hidden : v = PHidden(h)
      BY Zenon
    <3> QED
      BY <1>2, <3>1, Zenon
  <2>2. ASSUME NEW h \in s.hidden PROVE \E v \in t.hidden : v.key = h.key /\ v.formed = h.formed
    <3>1. PHidden(h) \in t.hidden
      BY Zenon
    <3> QED
      BY <1>2, <3>1, Zenon
  <2> QED
    BY <2>1, <2>2
<1>3. \A x : PInternalKeys(t, x) = PInternalKeys(s, x)
  <2>1. {h.key : h \in t.hidden} = {h.key : h \in s.hidden}
    <3> HIDE DEF PHidden
    <3> QED
      BY <1>11
  <2> QED
    BY <2>1 DEF PInternalKeys
<1>12. /\ \A v \in PParameters(t) : \E p \in PParameters(s) : v.key = p.key /\ v.formed = p.formed
       /\ \A p \in PParameters(s) : \E v \in PParameters(t) : v.key = p.key /\ v.formed = p.formed
  <2>1. ASSUME NEW v \in PParameters(t) PROVE \E p \in PParameters(s) : v.key = p.key /\ v.formed = p.formed
    <3>1. CASE v \in t.visible
      <4>1. PICK p \in s.visible : v.key = p.key /\ v.formed = p.formed
        BY <1>10, <3>1, Zenon
      <4>2. p \in PParameters(s)
        BY DEF PParameters
      <4> QED
        BY <4>1, <4>2, Zenon
    <3>2. CASE v \in t.hidden
      <4>1. PICK p \in s.hidden : v.key = p.key /\ v.formed = p.formed
        BY <1>11, <3>2, Zenon
      <4>2. p \in PParameters(s)
        BY DEF PParameters
      <4> QED
        BY <4>1, <4>2, Zenon
    <3> QED
      BY <3>1, <3>2, Zenon DEF PParameters
  <2>2. ASSUME NEW p \in PParameters(s) PROVE \E v \in PParameters(t) : v.key = p.key /\ v.formed = p.formed
    <3>1. CASE p \in s.visible
      <4>1. PICK v \in t.visible : v.key = p.key /\ v.formed = p.formed
        BY <1>10, <3>1, Zenon
      <4>2. v \in PParameters(t)
        BY DEF PParameters
      <4> QED
        BY <4>1, <4>2, Zenon
    <3>2. CASE p \in s.hidden
      <4>1. PICK v \in t.hidden : v.key = p.key /\ v.formed = p.formed
        BY <1>11, <3>2, Zenon
      <4>2. v \in PParameters(t)
        BY DEF PParameters
      <4> QED
        BY <4>1, <4>2, Zenon
    <3> QED
      BY <3>1, <3>2, Zenon DEF PParameters
  <2> QED
    BY <2>1, <2>2
<1>4. \A key : (\E p \in PParameters(t) : p.key = key) <=> \E p \in PParameters(s) : p.key = key
  <2> HIDE DEF PParameters
  <2>1. ASSUME NEW key, NEW p \in PParameters(t), p.key = key PROVE \E q \in PParameters(s) : q.key = key
    BY <1>12, <2>1, Zenon
  <2>2. ASSUME NEW key, NEW p \in PParameters(s), p.key = key PROVE \E q \in PParameters(t) : q.key = key
    BY <1>12, <2>2, Zenon
  <2> QED
    BY <2>1, <2>2, Zenon
<1>5. (\E p \in PParameters(t) : ~p.formed \/ p.key = "") <=> \E p \in PParameters(s) : ~p.formed \/ p.key = ""
  <2>1. ASSUME NEW p \in PParameters(t), ~p.formed \/ p.key = "" PROVE \E q \in PParameters(s) : ~q.formed \/ q.key = ""
    <3>1. PICK q \in PParameters(s) : p.key = q.key /\ p.formed = q.formed
      BY <1>12, Zenon
    <3>2. ~q.formed \/ q.key = ""
      BY <2>1, <3>1
    <3> QED
      BY <3>2, Zenon
  <2>2. ASSUME NEW p \in PParameters(s), ~p.formed \/ p.key = "" PROVE \E q \in PParameters(t) : ~q.formed \/ q.key = ""
    <3>1. PICK q \in PParameters(t) : q.key = p.key /\ q.formed = p.formed
      BY <1>12, Zenon
    <3>2. ~q.formed \/ q.key = ""
      BY <2>2, <3>1
    <3> QED
      BY <3>2, Zenon
  <2> QED
    BY <2>1, <2>2, Zenon
<1>6. \A x, key : PCase(t, x, key) = PCase(s, x, key)
  BY <1>3, <1>4, <1>5, Zenon DEF PCase
<1>7. \A x : PFields(t, x) = PFields(s, x)
  BY <1>6 DEF PFields
<1>8. ~PInternalRefused(t)
  <2>1. ASSUME NEW h \in t.hidden PROVE h.formed = TRUE /\ h.key # "" /\ \E g \in s.hidden : g.key = h.key
    <3>1. PICK g \in s.hidden : h.key = g.key /\ h.formed = g.formed
      BY <1>11
    <3> QED
      BY <1>2, <3>1, Zenon
  <2>2. ASSUME NEW v \in t.visible, v.formed PROVE \E w \in s.visible : w.formed /\ w.key = v.key
    BY <1>1, <2>2
  <2>3. \A g \in s.hidden, w \in s.visible : ~(w.formed /\ w.key = g.key)
    BY DEF PInternalRefused
  <2> QED
    <3>1. SUFFICES ASSUME NEW h \in t.hidden, ~h.formed \/ h.key = "" \/ \E v \in t.visible : v.formed /\ v.key = h.key
                   PROVE  FALSE
      BY Zenon DEF PInternalRefused
    <3>2. PICK v \in t.visible : v.formed /\ v.key = h.key
      BY <2>1, <3>1, Zenon
    <3>3. PICK w \in s.visible : w.formed /\ w.key = v.key
      BY <2>2, <3>2, Zenon
    <3>4. PICK g \in s.hidden : g.key = h.key
      BY <2>1, Zenon
    <3> QED
      BY <2>3, <3>2, <3>3, <3>4, Zenon
<1>9. \A v \in PKept(s, r) : v \in PParameters(t)
  BY DEF PKept, PParameters
<1> QED
  BY <1>7, <1>8, <1>9

(* A portable line that is accepted is accepted as it was recorded.        *)
LEMMA ReplayAccepted ==
  ASSUME NEW s \in PLine, PPortable(s), ~PLineRefused(s), NEW r, NEW t, t = PReplay(PArgv(s, r), s)
  PROVE  /\ ~PLineRefused(t) /\ PHow(t) = PHow(s) /\ PLocal(t) = PLocal(s)
         /\ (t.mode = "aggregate") = (s.mode = "aggregate") /\ t.records = s.records /\ t.bytes = s.bytes
         /\ PDescriptorRefused(t) = PDescriptorRefused(s) /\ PValidateRefused(t) = PValidateRefused(s)
<1>1. /\ \A f \in PPlain : t[f] = s[f]
      /\ t.place = s.place /\ t.rooted = "none"
      /\ t.visible = {PVisible(p, s, r) : p \in s.visible} /\ t.hidden = {PHidden(h) : h \in s.hidden}
      /\ t.mode = (IF s.mode \in {"", "per-input"} THEN "per-input" ELSE s.mode)
      /\ t.validate = (IF s.validate \in {"", "off"} THEN "off" ELSE s.validate)
      /\ t.cloudMode = (IF s.cloudMode \in {"", "eager"} THEN "eager" ELSE s.cloudMode)
      /\ t.workers = (IF s.workers > 1 THEN s.workers ELSE 1)
      /\ \A f \in PCounts : t[f] = IF s[f] > 0 THEN s[f] ELSE 0
  <2>1. PReplayedAs(t, s, r)
    BY ReplayedLine
  <2> QED
    BY <2>1, Zenon DEF PReplayedAs
<1>2. /\ t.inputs = s.inputs /\ t.root = s.root /\ t.identity = s.identity /\ t.noDurable = s.noDurable
      /\ t.noManifest = s.noManifest /\ t.descriptor = s.descriptor /\ t.contract = s.contract
      /\ t.patterns = s.patterns /\ t.follow = s.follow /\ t.goOn = s.goOn
  BY <1>1 DEF PPlain
<1>3. /\ t.records = (IF s.records > 0 THEN s.records ELSE 0) /\ t.bytes = (IF s.bytes > 0 THEN s.bytes ELSE 0)
      /\ t.depth = (IF s.depth > 0 THEN s.depth ELSE 0) /\ t.prefetch = (IF s.prefetch > 0 THEN s.prefetch ELSE 0)
      /\ t.stagedBytes = (IF s.stagedBytes > 0 THEN s.stagedBytes ELSE 0)
      /\ t.stagedFiles = (IF s.stagedFiles > 0 THEN s.stagedFiles ELSE 0)
      /\ t.objectBytes = (IF s.objectBytes > 0 THEN s.objectBytes ELSE 0)
  BY <1>1 DEF PCounts
<1>4. /\ s.records \in Int /\ s.bytes \in Int /\ s.workers \in Int /\ s.depth \in Int /\ s.prefetch \in Int
      /\ s.stagedBytes \in Int /\ s.stagedFiles \in Int /\ s.objectBytes \in Int
  BY DEF PLine
<1>5. /\ ~PInputModeRefused(s) /\ ~PRootRefused(s) /\ ~PWorkersRefused(s) /\ ~PInternalRefused(s)
      /\ ~PAggregateRefused(s) /\ ~PCloudInputRefused(s)
  BY Zenon DEF PLineRefused
<1>6. s.mode \in {"", "per-input", "aggregate"}
  BY <1>5 DEF PAggregateRefused
<1>7. (s.mode = "aggregate" => t.mode = "aggregate") /\ (s.mode \in {"", "per-input"} => t.mode = "per-input")
  BY <1>1
<1>8. s.records >= 0 /\ s.bytes >= 0
  <2>1. CASE s.mode \in {"", "per-input"}
    <3>1. PAggregateRefused(s) = (s.identity \/ s.noDurable \/ s.records # 0 \/ s.bytes # 0)
      BY <2>1 DEF PAggregateRefused
    <3>2. s.records = 0 /\ s.bytes = 0
      BY <1>5, <3>1, Zenon
    <3> QED
      BY <3>2
  <2>2. CASE s.mode = "aggregate"
    <3>1. PAggregateRefused(s) = (\/ s.noManifest \/ s.records < 0 \/ s.bytes < 0
                                  \/ PCloud(s) /\ (s.noDurable \/ s.bytes = 0 \/ s.bytes > PMaxPut))
      BY <2>2 DEF PAggregateRefused
    <3>2. ~(s.records < 0) /\ ~(s.bytes < 0)
      BY <1>5, <3>1, Zenon
    <3> QED
      BY <1>4, <3>2
  <2> QED
    BY <1>6, <2>1, <2>2
<1>9. t.records = s.records /\ t.bytes = s.bytes /\ t.depth = s.depth
  BY <1>3, <1>4, <1>8 DEF PPortable
<1>10. PLocal(t) = PLocal(s) /\ PCloud(t) = PCloud(s)
  BY <1>2 DEF PLocal, PCloud
<1>11. ~PAggregateRefused(t)
  <2>1. CASE s.mode = "aggregate"
    <3>1. t.mode = "aggregate"
      BY <1>7, <2>1
    <3> QED
      BY <1>2, <1>5, <1>9, <1>10, <2>1, <3>1 DEF PAggregateRefused
  <2>2. CASE s.mode \in {"", "per-input"}
    <3>1. t.mode = "per-input"
      BY <1>7, <2>2
    <3>2. PAggregateRefused(t) = (t.identity \/ t.noDurable \/ t.records # 0 \/ t.bytes # 0)
      BY <3>1 DEF PAggregateRefused
    <3>3. PAggregateRefused(s) = (s.identity \/ s.noDurable \/ s.records # 0 \/ s.bytes # 0)
      BY <2>2 DEF PAggregateRefused
    <3> QED
      BY <1>2, <1>5, <1>9, <3>2, <3>3, Zenon
  <2> QED
    BY <1>6, <2>1, <2>2
<1>12. t.workers = s.workers /\ ~PWorkersRefused(t)
  <2>1. ~(s.workers < 1)
    BY <1>5, Zenon DEF PWorkersRefused
  <2>3. t.workers = (IF s.workers > 1 THEN s.workers ELSE 1) /\ s.workers \in Int
    BY <1>1, <1>4, Zenon
  <2>2. t.workers = s.workers
    BY <2>1, <2>3
  <2> QED
    BY <2>1, <2>2 DEF PWorkersRefused
<1>13. ~PCloudInputRefused(t) /\ PHow(t).staging = PHow(s).staging
  <2>1. CASE s.cloudMode \in {"", "eager"}
    <3>1. t.cloudMode = "eager"
      BY <1>1, <2>1
    <3> QED
      BY <2>1, <3>1 DEF PCloudInputRefused, PHow, PBounded
  <2>2. CASE s.cloudMode = "bounded"
    <3>1. t.cloudMode = "bounded" /\ PBounded(t) /\ PBounded(s)
      BY <1>1, <2>2 DEF PBounded
    <3>2. "list" \in s.inputs /\ s.stagedBytes > 0 /\ s.stagedFiles > 0 /\ s.objectBytes > 0 /\ s.prefetch >= 0
      <4>1. PCloudInputRefused(s) = ("list" \notin s.inputs \/ s.stagedBytes <= 0 \/ s.stagedFiles <= 0 \/ s.objectBytes <= 0 \/ s.prefetch < 0)
        BY <2>2, <3>1 DEF PCloudInputRefused
      <4>2. "list" \in s.inputs /\ ~(s.stagedBytes <= 0) /\ ~(s.stagedFiles <= 0) /\ ~(s.objectBytes <= 0) /\ ~(s.prefetch < 0)
        BY <1>5, <4>1, Zenon
      <4> QED
        BY <1>4, <4>2
    <3>3. t.stagedBytes = s.stagedBytes /\ t.stagedFiles = s.stagedFiles /\ t.objectBytes = s.objectBytes /\ t.prefetch = s.prefetch
      BY <1>3, <1>4, <3>2
    <3>4. ~PCloudInputRefused(t)
      BY <1>2, <1>4, <3>1, <3>2, <3>3 DEF PCloudInputRefused
    <3> QED
      BY <3>1, <3>3, <3>4 DEF PHow
  <2>3. s.cloudMode \in {"", "eager", "bounded"}
    BY <1>5 DEF PCloudInputRefused, PBounded
  <2> QED
    BY <2>1, <2>2, <2>3
<1>14. PValidates(t) = PValidates(s) /\ (PValidates(s) => t.validate = s.validate)
  BY <1>1 DEF PValidates
<1>15. PHow(t) = PHow(s)
  <2>1. (IF PValidates(t) THEN t.validate ELSE "off") = (IF PValidates(s) THEN s.validate ELSE "off")
    BY <1>14
  <2>2. (IF PBounded(t) THEN <<t.prefetch, t.stagedBytes, t.stagedFiles, t.objectBytes>> ELSE <<>>)
          = (IF PBounded(s) THEN <<s.prefetch, s.stagedBytes, s.stagedFiles, s.objectBytes>> ELSE <<>>)
    BY <1>13 DEF PHow
  <2>3. t.place = s.place /\ t.patterns = s.patterns /\ t.depth = s.depth /\ t.follow = s.follow /\ t.goOn = s.goOn /\ t.workers = s.workers
    BY <1>1, <1>2, <1>9, <1>12, Zenon
  <2> QED
    BY <2>1, <2>2, <2>3, Zenon DEF PHow
<1>16. ~PInternalRefused(t)
  BY <1>1, <1>5, SameKeys
<1>17. ~PInputModeRefused(t) /\ ~PRootRefused(t) /\ ~PProvenanceRefused(t)
  BY <1>1, <1>2, <1>5, <1>10 DEF PInputModeRefused, PRootRefused, PProvenanceRefused
<1>18. ~PLineRefused(t)
  BY <1>11, <1>12, <1>13, <1>16, <1>17, Zenon DEF PLineRefused
<1>19. PDescriptorRefused(t) = PDescriptorRefused(s) /\ PValidateRefused(t) = PValidateRefused(s)
  BY <1>2, <1>14 DEF PDescriptorRefused, PValidateRefused
<1>20. (t.mode = "aggregate") = (s.mode = "aggregate")
  BY <1>6, <1>7
<1> QED
  BY <1>9, <1>10, <1>15, <1>18, <1>19, <1>20

(* LineReplays: the command line that any recipe's manifest records of a    *)
(* portable run, with its secrets and internal values masked, is accepted   *)
(* again and gives every recipe the same plan but for those values, for any *)
(* parameters, limits and number of recipes (buildExtractMultiArgv and      *)
(* sanitizeArgv).                                                           *)
THEOREM LineReplays ==
  ASSUME NEW s \in PLine, NEW rs, NEW disk, NEW found
  PROVE  PReplays(s, rs, disk, found)
<1> SUFFICES ASSUME NEW i \in DOMAIN rs, ~PPreflight(s, rs, disk, found).refused, PPortable(s)
             PROVE  LET p == PPreflight(s, rs, disk, found)
                        q == PPreflight(PReplay(PArgv(s, rs[i]), s), rs, disk, found)
                    IN /\ ~q.refused /\ q.inputs = p.inputs /\ q.created = p.created /\ q.how = p.how
                       /\ \A j \in DOMAIN rs : PLike(q.plans[j], p.plans[j]) /\ \A v \in PKept(s, rs[i]) : <<v.key, v.text>> \in q.plans[j].texts
  BY DEF PReplays
<1> DEFINE t == PReplay(PArgv(s, rs[i]), s)
           p == PPreflight(s, rs, disk, found)
           q == PPreflight(t, rs, disk, found)
           ids == [k \in DOMAIN rs |-> rs[k].id]
           refuses(x) == \/ PLineRefused(x) \/ PDirsRefused(x, ids, disk)
                         \/ \E k \in DOMAIN rs : PRecipeRefused(x, rs[k])
                         \/ found = <<>>
           plans(x) == [k \in DOMAIN rs |-> PPlan(x, rs[k], ids[k])]
           made(x) == IF x.mode # "aggregate" /\ PLocal(x) THEN {PDir(x, ids[k]) : k \in DOMAIN rs} ELSE {}
           accepts(x) == [refused |-> FALSE, plans |-> plans(x), inputs |-> PInputs(x, found), how |-> PHow(x), created |-> made(x)]
<1>1. \A x : PPreflight(x, rs, disk, found) = IF refuses(x) THEN PRefusal ELSE accepts(x)
  BY DEF PPreflight
<1>2. ~refuses(s)
  <2>1. PRefusal.refused
    BY DEF PRefusal
  <2>2. refuses(s) => p = PRefusal
    BY <1>1, Zenon
  <2> HIDE DEF p, refuses
  <2> QED
    BY <2>1, <2>2 DEF p
<1>3. ~PLineRefused(s) /\ ~PInternalRefused(s)
  BY <1>2, Zenon DEF PLineRefused
<1> HIDE DEF t
<1>4. /\ \A f \in PPlain : t[f] = s[f]
      /\ t.handle = s.handle /\ t.run = s.run
      /\ t.visible = {PVisible(v, s, rs[i]) : v \in s.visible} /\ t.hidden = {PHidden(h) : h \in s.hidden}
  <2>1. PReplayedAs(t, s, rs[i])
    BY ReplayedLine DEF t
  <2> QED
    BY <2>1, Zenon DEF PReplayedAs
<1>5. /\ ~PLineRefused(t) /\ PHow(t) = PHow(s) /\ PLocal(t) = PLocal(s)
      /\ (t.mode = "aggregate") = (s.mode = "aggregate") /\ t.records = s.records /\ t.bytes = s.bytes
      /\ PDescriptorRefused(t) = PDescriptorRefused(s) /\ PValidateRefused(t) = PValidateRefused(s)
  BY <1>3, ReplayAccepted DEF t
<1>6. (\A x : PFields(t, x) = PFields(s, x)) /\ \A v \in PKept(s, rs[i]) : v \in PParameters(t)
  BY <1>3, <1>4, SameKeys
<1>7. t.inputs = s.inputs /\ t.root = s.root /\ t.identity = s.identity
  BY <1>4 DEF PPlain
<1>8. \A id : PDir(t, id) = PDir(s, id)
  BY <1>7 DEF PDir
<1>9. PDirsRefused(t, ids, disk) = PDirsRefused(s, ids, disk)
  <2> HIDE DEF ids
  <2> QED
    BY <1>5 DEF PDirsRefused
<1>10. \A x : PRecipeRefused(t, x) = PRecipeRefused(s, x)
  BY <1>5, <1>6 DEF PRecipeRefused
<1>11. ~refuses(t)
  BY <1>2, <1>5, <1>9, <1>10, Zenon
<1>12. q = accepts(t) /\ p = accepts(s)
  BY <1>1, <1>2, <1>11, Zenon
<1>13. PInputs(t, found) = PInputs(s, found) /\ made(t) = made(s)
  BY <1>5, <1>7, <1>8 DEF PInputs
<1>14. ASSUME NEW j \in DOMAIN rs
       PROVE  PLike(plans(t)[j], plans(s)[j]) /\ \A v \in PKept(s, rs[i]) : <<v.key, v.text>> \in plans(t)[j].texts
  <2>1. plans(t)[j] = PPlan(t, rs[j], ids[j]) /\ plans(s)[j] = PPlan(s, rs[j], ids[j])
    OBVIOUS
  <2>2. PFields(t, rs[j]) = PFields(s, rs[j]) /\ PDir(t, ids[j]) = PDir(s, ids[j])
    BY <1>6, <1>8, Zenon
  <2> HIDE DEF ids
  <2> DEFINE D == {"id", "dir", "run", "formats", "fields", "source", "target", "mode", "records", "bytes", "identity", "texts"}
             x == PPlan(t, rs[j], ids[j])
             y == PPlan(s, rs[j], ids[j])
  <2>3. DOMAIN x = D
    BY DEF PPlan
  <2>4. /\ x.id = y.id /\ x.dir = y.dir /\ x.run = y.run /\ x.formats = y.formats /\ x.fields = y.fields
        /\ x.source = y.source /\ x.target = y.target /\ x.records = y.records /\ x.bytes = y.bytes
        /\ x.identity = y.identity /\ x.mode = t.mode /\ y.mode = s.mode
        /\ x.texts = {<<v.key, v.text>> : v \in PParameters(t)}
    BY <1>4, <1>5, <1>7, <2>2 DEF PPlan
  <2> HIDE DEF x, y
  <2>5. \A f \in D \ {"mode", "texts"} : x[f] = y[f]
    BY <2>4
  <2>6. PLike(x, y)
    BY <1>5, <2>3, <2>4, <2>5 DEF PLike
  <2>7. \A v \in PKept(s, rs[i]) : <<v.key, v.text>> \in x.texts
    BY <1>6, <2>4
  <2> QED
    BY <2>1, <2>6, <2>7 DEF x, y
<1> HIDE DEF plans, made, p, q
<1>15. ~q.refused /\ q.inputs = p.inputs /\ q.created = p.created /\ q.how = p.how /\ q.plans = plans(t) /\ p.plans = plans(s)
  BY <1>5, <1>12, <1>13
<1> QED
  BY <1>14, <1>15 DEF p, q, t

(* What the preflight asks of the line, of each recipe, and of two.        *)
PLineOk(s, found) ==
    /\ ~PLineRefused(s) /\ found # <<>>
PRecipeOk(s, r, disk) ==
    /\ ~PSlugRefused(r.id) /\ ~PRecipeRefused(s, r)
    /\ ~(PLocal(s) /\ disk[r.id] \in {"file", "link", "unknown"})
PApart(rs) == \A i, j \in DOMAIN rs : i # j => PFold(rs[i].id) # PFold(rs[j].id)
PPlans(s, rs) == [i \in DOMAIN rs |-> PPlan(s, rs[i], rs[i].id)]

LEMMA PreflightAccepts ==
  ASSUME NEW s, NEW R, NEW rs \in Seq(R), NEW disk, NEW found
  PROVE  /\ ~PPreflight(s, rs, disk, found).refused <=>
              /\ PLineOk(s, found) /\ rs # <<>> /\ PApart(rs) /\ \A i \in DOMAIN rs : PRecipeOk(s, rs[i], disk)
         /\ ~PPreflight(s, rs, disk, found).refused => PPreflight(s, rs, disk, found).plans = PPlans(s, rs)
<1> DEFINE ids == [i \in DOMAIN rs |-> rs[i].id]
           refuses == \/ PLineRefused(s) \/ PDirsRefused(s, ids, disk)
                      \/ \E i \in DOMAIN rs : PRecipeRefused(s, rs[i])
                      \/ found = <<>>
           plans == [i \in DOMAIN rs |-> PPlan(s, rs[i], ids[i])]
           made == IF s.mode # "aggregate" /\ PLocal(s) THEN {PDir(s, ids[i]) : i \in DOMAIN rs} ELSE {}
           accepts == [refused |-> FALSE, plans |-> plans, inputs |-> PInputs(s, found), how |-> PHow(s), created |-> made]
<1>1. PPreflight(s, rs, disk, found) = IF refuses THEN PRefusal ELSE accepts
  BY DEF PPreflight
<1>2. PRefusal.refused /\ accepts.refused = FALSE /\ accepts.plans = plans
  BY DEF PRefusal
<1>3. plans = PPlans(s, rs)
  BY DEF PPlans
<1>4. DOMAIN rs = 1..Len(rs) /\ Len(rs) \in Nat
  OBVIOUS
<1>5. ids = <<>> <=> rs = <<>>
  <2>1. DOMAIN ids = 1..Len(rs)
    BY <1>4
  <2>2. ids = <<>> => Len(rs) = 0
    <3>1. DOMAIN <<>> = {}
      OBVIOUS
    <3>2. SUFFICES ASSUME ids = <<>> PROVE Len(rs) = 0
      OBVIOUS
    <3>3. 1..Len(rs) = {}
      BY <2>1, <3>1, <3>2
    <3>4. 1 \notin 1..Len(rs)
      BY <3>3, Zenon
    <3>5. Len(rs) >= 1 => 1 \in 1..Len(rs)
      BY <1>4
    <3> QED
      BY <1>4, <3>4, <3>5
  <2>3. rs = <<>> => ids = <<>>
    OBVIOUS
  <2>4. Len(rs) = 0 => rs = <<>>
    OBVIOUS
  <2> QED
    BY <2>2, <2>3, <2>4
<1>6. (\E i \in DOMAIN ids : \E j \in 1..(i - 1) : PFold(ids[i]) = PFold(ids[j])) <=> ~PApart(rs)
  <2>0. DOMAIN ids = DOMAIN rs /\ \A i \in DOMAIN rs : ids[i] = rs[i].id
    OBVIOUS
  <2>1. ASSUME NEW i \in DOMAIN ids, NEW j \in 1..(i - 1), PFold(ids[i]) = PFold(ids[j]) PROVE ~PApart(rs)
    <3>1. i \in DOMAIN rs /\ j \in DOMAIN rs /\ i # j
      BY <1>4, <2>0
    <3> QED
      BY <2>0, <2>1, <3>1 DEF PApart
  <2>2. ASSUME ~PApart(rs) PROVE \E i \in DOMAIN ids : \E j \in 1..(i - 1) : PFold(ids[i]) = PFold(ids[j])
    <3>1. PICK i \in DOMAIN rs, j \in DOMAIN rs : i # j /\ PFold(rs[i].id) = PFold(rs[j].id)
      BY <2>2 DEF PApart
    <3>2. j \in 1..(i - 1) \/ i \in 1..(j - 1)
      BY <1>4, <3>1
    <3> HIDE DEF ids
    <3> QED
      BY <2>0, <3>1, <3>2
  <2> QED
    BY <2>1, <2>2
<1>7. PDirsRefused(s, ids, disk) <=>
        rs = <<>> \/ ~PApart(rs) \/ \E i \in DOMAIN rs : PSlugRefused(rs[i].id) \/ (PLocal(s) /\ disk[rs[i].id] \in {"file", "link", "unknown"})
  <2>1. DOMAIN ids = DOMAIN rs /\ \A i \in DOMAIN rs : ids[i] = rs[i].id
    OBVIOUS
  <2> HIDE DEF ids
  <2>2. PDirsRefused(s, ids, disk) <=>
          \/ ids = <<>> \/ \E i \in DOMAIN ids : \E j \in 1..(i - 1) : PFold(ids[i]) = PFold(ids[j])
          \/ \E i \in DOMAIN ids : PSlugRefused(ids[i]) \/ (PLocal(s) /\ disk[ids[i]] \in {"file", "link", "unknown"})
    BY Zenon DEF PDirsRefused
  <2>3. (\E i \in DOMAIN ids : PSlugRefused(ids[i]) \/ (PLocal(s) /\ disk[ids[i]] \in {"file", "link", "unknown"})) <=>
          \E i \in DOMAIN rs : PSlugRefused(rs[i].id) \/ (PLocal(s) /\ disk[rs[i].id] \in {"file", "link", "unknown"})
    BY <2>1
  <2> QED
    BY <1>5, <1>6, <2>2, <2>3, Zenon
<1>8. ~refuses <=> PLineOk(s, found) /\ rs # <<>> /\ PApart(rs) /\ \A i \in DOMAIN rs : PRecipeOk(s, rs[i], disk)
  BY <1>7, Zenon DEF PLineOk, PRecipeOk
<1> HIDE DEF refuses, accepts, plans, made, ids
<1> QED
  BY <1>1, <1>2, <1>3, <1>8

(* A run-level internal parameter is hidden in every recipe.               *)
LEMMA InternalHidden ==
  ASSUME NEW s \in PLine, NEW r, ~PInternalRefused(s), ~PRecipeRefused(s, r), NEW h \in s.hidden
  PROVE  PFields(s, r)[h.key].hidden /\ PFields(s, r)[h.key].layer = "cli"
<1>1. h.formed /\ h.key # ""
  BY DEF PInternalRefused
<1>2. h.key \in PKeys
  <2>1. h \in PPair
    BY DEF PLine
  <2> QED
    BY <1>1, <2>1 DEF PPair
<1> DEFINE c == PCase(s, r, h.key)
<1>3. PFields(s, r)[h.key] = FResolve(c) /\ FResolve(c).layer # "refused"
  <2>1. PFields(s, r)[h.key] = FResolve(c)
    BY <1>2 DEF PFields
  <2>2. PFields(s, r)[h.key].layer # "refused"
    BY <1>2 DEF PRecipeRefused
  <2> QED
    BY <2>1, <2>2
<1>4. c.requiredCapture = FALSE /\ c.internal
  BY DEF PCase, PInternalKeys
<1>5. c.cli # "none"
  BY DEF PCase, PParameters
<1> HIDE DEF c
<1>6. ~FFileRefused(c)
  BY <1>4 DEF FFileRefused
<1>7. FResolve(c) = FBuild(c, FCapture(c))
  <2>1. [layer |-> "refused"].layer = "refused"
    OBVIOUS
  <2> QED
    BY <1>3, <1>6, <2>1 DEF FResolve
<1>8. FBuild(c, FCapture(c)) = [layer |-> "cli", value |-> c.cli, hidden |-> c.internal]
  BY <1>5 DEF FBuild
<1> QED
  BY <1>3, <1>4, <1>7, <1>8

(* PlansIsolated: an accepted bundle of any size keeps its recipes apart,   *)
(* each with the plan it gets alone and in any order, in directories of the *)
(* root whose names differ also without case, with the run's internal       *)
(* parameters hidden (extract-multi's preflight).                           *)
THEOREM PlansIsolated ==
  ASSUME NEW s \in PLine, NEW R, \A r \in R : r.id \in Seq(STRING), NEW rs \in Seq(R),
         NEW disk \in [Seq(STRING) -> {"none", "dir", "file", "link", "unknown"}], NEW found
  PROVE  PIsolated(s, rs, disk, found)
<1> DEFINE p == PPreflight(s, rs, disk, found)
<1>1. DOMAIN rs = 1..Len(rs) /\ Len(rs) \in Nat
  OBVIOUS
<1>2. ASSUME ~p.refused
      PROVE  /\ p.plans = PPlans(s, rs) /\ PLineOk(s, found) /\ rs # <<>> /\ PApart(rs)
             /\ \A i \in DOMAIN rs : PRecipeOk(s, rs[i], disk)
  BY <1>2, PreflightAccepts
<1>3. \A i \in DOMAIN rs : PPlans(s, rs)[i] = PPlan(s, rs[i], rs[i].id)
  BY DEF PPlans
<1>4. \A r : PPlan(s, r, r.id).dir = <<s.root, r.id>> /\ PPlan(s, r, r.id).fields = PFields(s, r) /\ PPlan(s, r, r.id).formats = r.formats
  BY DEF PPlan, PDir
<1>5. ASSUME ~p.refused, NEW i \in DOMAIN rs, NEW j \in DOMAIN rs, i # j
      PROVE  ~PSameButCase(p.plans[i].dir[2], p.plans[j].dir[2])
  <2>1. PFold(rs[i].id) # PFold(rs[j].id)
    BY <1>2, <1>5 DEF PApart
  <2>2. ASSUME NEW x, NEW y, PSameButCase(x, y) PROVE PFold(x) = PFold(y)
    <3>1. DOMAIN x = DOMAIN y
      BY <2>2 DEF PSameButCase
    <3>2. ASSUME NEW k \in DOMAIN x PROVE PLower(x[k]) = PLower(y[k])
      <4>1. CASE x[k] = y[k]
        BY <4>1
      <4>2. CASE {x[k], y[k]} = {"a", "A"}
        <5>1. x[k] \in {"a", "A"} /\ y[k] \in {"a", "A"}
          BY <4>2, Zenon
        <5> QED
          BY <5>1 DEF PLower
      <4>3. CASE {x[k], y[k]} = {"b", "B"}
        <5>1. x[k] \in {"b", "B"} /\ y[k] \in {"b", "B"}
          BY <4>3, Zenon
        <5> QED
          BY <5>1 DEF PLower
      <4> QED
        BY <2>2, <4>1, <4>2, <4>3, Zenon DEF PSameButCase
    <3> QED
      BY <3>1, <3>2 DEF PFold
  <2>3. p.plans[i].dir = <<s.root, rs[i].id>> /\ p.plans[j].dir = <<s.root, rs[j].id>>
    BY <1>2, <1>3, <1>4, <1>5
  <2>4. p.plans[i].dir[2] = rs[i].id /\ p.plans[j].dir[2] = rs[j].id
    BY <2>3
  <2> QED
    BY <2>1, <2>2, <2>4
<1>6. ASSUME ~p.refused, NEW i \in DOMAIN rs
      PROVE  /\ p.plans[i].dir[1] = s.root /\ (PLocal(s) => disk[p.plans[i].dir[2]] \in {"none", "dir"})
             /\ PPreflight(s, <<rs[i]>>, disk, found).plans = <<p.plans[i]>>
             /\ \A h \in s.hidden : p.plans[i].fields[h.key].hidden /\ p.plans[i].fields[h.key].layer = "cli"
             /\ p.plans[i].formats \subseteq {"json", "ndjson"}
  <2>1. PRecipeOk(s, rs[i], disk) /\ p.plans[i] = PPlan(s, rs[i], rs[i].id) /\ PLineOk(s, found)
    BY <1>2, <1>3, <1>6
  <2>2. p.plans[i].dir = <<s.root, rs[i].id>> /\ p.plans[i].fields = PFields(s, rs[i]) /\ p.plans[i].formats = rs[i].formats
    BY <1>4, <2>1
  <2>3. rs[i].id \in Seq(STRING)
    <3>1. rs[i] \in R
      BY <1>1
    <3> QED
      BY <3>1
  <2>4. disk[rs[i].id] \in {"none", "dir", "file", "link", "unknown"}
    BY <2>3
  <2>5. p.plans[i].dir[1] = s.root /\ (PLocal(s) => disk[p.plans[i].dir[2]] \in {"none", "dir"})
    BY <2>1, <2>2, <2>4 DEF PRecipeOk
  <2>6. PPreflight(s, <<rs[i]>>, disk, found).plans = <<p.plans[i]>>
    <3> DEFINE one == <<rs[i]>>
    <3>1. one \in Seq(R) /\ one # <<>> /\ DOMAIN one = {1} /\ one[1] = rs[i]
      BY <1>1
    <3> HIDE DEF one
    <3>2. PApart(one) /\ \A k \in DOMAIN one : PRecipeOk(s, one[k], disk)
      BY <2>1, <3>1 DEF PApart
    <3>3. PPreflight(s, one, disk, found).plans = PPlans(s, one)
      BY <2>1, <3>1, <3>2, PreflightAccepts
    <3>4. PPlans(s, one) = [k \in {1} |-> PPlan(s, rs[i], rs[i].id)]
      BY <3>1 DEF PPlans
    <3>5. \A x : [k \in {1} |-> x] = <<x>>
      OBVIOUS
    <3> QED
      BY <2>1, <3>3, <3>4, <3>5 DEF one
  <2>7. ASSUME NEW h \in s.hidden PROVE PFields(s, rs[i])[h.key].hidden /\ PFields(s, rs[i])[h.key].layer = "cli"
    <3>1. ~PInternalRefused(s) /\ ~PRecipeRefused(s, rs[i])
      BY <2>1, Zenon DEF PRecipeOk, PLineOk, PLineRefused
    <3> QED
      BY <3>1, InternalHidden
  <2>8. rs[i].formats \subseteq {"json", "ndjson"}
    BY <2>1 DEF PRecipeOk, PRecipeRefused, PFormatsRefused
  <2> QED
    BY <2>2, <2>5, <2>6, <2>7, <2>8
<1>7. ASSUME ~p.refused PROVE PPreflight(s, Reverse(rs), disk, found).plans = Reverse(p.plans)
  <2> DEFINE back == Reverse(rs)
             n == Len(rs)
  <2>1. back \in Seq(R) /\ Len(back) = n /\ DOMAIN back = 1..n /\ \A k \in 1..n : back[k] = rs[(n - k) + 1] /\ (n - k) + 1 \in 1..n
    BY <1>1 DEF Reverse
  <2>2. rs # <<>> /\ PApart(rs) /\ (\A k \in DOMAIN rs : PRecipeOk(s, rs[k], disk)) /\ PLineOk(s, found) /\ p.plans = PPlans(s, rs)
    BY <1>2, <1>7
  <2>3. n > 0
    BY <1>1, <2>2
  <2> HIDE DEF back
  <2>4. back # <<>>
    BY <2>1, <2>3
  <2>5. \A k, m \in 1..n : k # m => (n - k) + 1 # (n - m) + 1
    BY <1>1
  <2>6. PApart(back) /\ \A k \in DOMAIN back : PRecipeOk(s, back[k], disk)
    <3>1. ASSUME NEW k \in DOMAIN back, NEW m \in DOMAIN back, k # m PROVE PFold(back[k].id) # PFold(back[m].id)
      <4>1. (n - k) + 1 \in DOMAIN rs /\ (n - m) + 1 \in DOMAIN rs /\ (n - k) + 1 # (n - m) + 1
        BY <1>1, <2>1, <2>5, <3>1
      <4>2. back[k] = rs[(n - k) + 1] /\ back[m] = rs[(n - m) + 1]
        BY <2>1
      <4> HIDE DEF n
      <4> QED
        BY <2>2, <4>1, <4>2, Zenon DEF PApart
    <3>2. ASSUME NEW k \in DOMAIN back PROVE PRecipeOk(s, back[k], disk)
      <4>1. (n - k) + 1 \in DOMAIN rs /\ back[k] = rs[(n - k) + 1]
        BY <1>1, <2>1
      <4> QED
        BY <2>2, <4>1, Zenon
    <3> QED
      BY <3>1, <3>2, Zenon DEF PApart
  <2>7. PPreflight(s, back, disk, found).plans = PPlans(s, back)
    <3>1. back \in Seq(R)
      BY <2>1
    <3>2. ~PPreflight(s, back, disk, found).refused
      BY <2>2, <2>4, <2>6, <3>1, PreflightAccepts, Zenon
    <3> QED
      BY <3>1, <3>2, PreflightAccepts, Zenon
  <2>8. PPlans(s, back) = [k \in 1..n |-> PPlans(s, rs)[(n - k) + 1]]
    <3>1. PPlans(s, back) = [k \in 1..n |-> PPlan(s, back[k], back[k].id)]
      BY <2>1 DEF PPlans
    <3>2. \A k \in 1..n : PPlan(s, back[k], back[k].id) = PPlans(s, rs)[(n - k) + 1]
      BY <1>1, <1>3, <2>1
    <3> QED
      BY <3>1, <3>2
  <2>9. Reverse(PPlans(s, rs)) = [k \in 1..n |-> PPlans(s, rs)[(n - k) + 1]]
    <3>1. Len(PPlans(s, rs)) = n
      BY <1>1 DEF PPlans
    <3> QED
      BY <3>1 DEF Reverse
  <2> QED
    BY <2>2, <2>7, <2>8, <2>9 DEF back
<1> QED
  BY <1>5, <1>6, <1>7 DEF PIsolated

-------------------------------------------------------------------------------
(* The record index: the steps of its build.                                *)

Early == {"hash", "contexts", "start", "scan", "prepare"}
JsonCommit == {"stageJson", "publishJson", "restoreJson"}
PairCommit == {"stageRecords", "stageHeader", "unstageRecords", "publishRecords", "publishHeader",
               "dropRecords", "restoreRecords", "restoreHeader"}
Completing == {"completeJson", "completeRecords", "completeHeader"}
PairUndo == {"removeRecords", "removeHeader", "backRecords", "backHeader"}
PairErase == {"eraseHeaderTmp", "eraseRecordsTmp"}
ClosingPair == {"close"} \cup PairUndo \cup PairErase
JsonUndo == {"removeJson", "backJson", "eraseJsonTmp"}
ClosingJson == {"closeJson"} \cup JsonUndo
ClosingSteps == ClosingPair \cup ClosingJson
CloseFiles == PairUndo \cup PairErase \cup JsonUndo
(* The steps that undo a commit; an operation has failed before each.      *)
Undoing == {"restoreJson", "unstageRecords", "dropRecords", "restoreRecords", "restoreHeader"}
Steps == Early \cup JsonCommit \cup PairCommit \cup Completing \cup ClosingSteps \cup {"done"}

Contents == {"none", "old", "new"}
Stages == {"idle", "started", "prepared", "committed", "completed"}
FaultIn(S) == \E i \in DOMAIN iFaulted : iFaulted[i] \in S
AtMostOne == Len(iFaulted) <= 1

(* What the earlier build left, the file now, and its backup.              *)
OldJson == IF "json" \in iPrior THEN "old" ELSE "none"
OldPair == IF "szst" \in iPrior THEN "old" ELSE "none"
Json(final, bak) == iDisk["json"] = final /\ iDisk["jsonBak"] = bak
Records(final, bak) == iDisk["records"] = final /\ iDisk["recordsBak"] = bak
Header(final, bak) == iDisk["header"] = final /\ iDisk["headerBak"] = bak
Safe(p, b, before) == before = "old" => iDisk[p] # "none" \/ iDisk[b] # "none"
PairAsBefore == Records(OldPair, "none") /\ Header(OldPair, "none")

-------------------------------------------------------------------------------
(* The inductive invariant.                                                *)

ITypeOK ==
    /\ iOpts \in IChoices /\ iPrior \subseteq IWriters
    /\ iPc \in Steps /\ iStage \in [IWriters -> Stages]
    /\ iDisk \in [IPaths -> Contents]
    /\ iFailed \in BOOLEAN /\ iFaulted \in Seq(Steps)

(* Nothing has failed before the build turns back.                         *)
Faults ==
    /\ iPc \notin ClosingSteps \cup {"done"} => ~iFailed
    /\ iPc \in ClosingSteps => iFailed
    /\ iPc \notin ClosingSteps \cup {"done"} \cup Undoing => iFaulted = <<>>
    /\ iPc \in Undoing => Len(iFaulted) >= 1 /\ ~FaultIn(Completing) /\ ~FaultIn(CloseFiles)
    /\ iPc \in {"restoreJson", "unstageRecords", "dropRecords"} => Len(iFaulted) = 1
    /\ iPc = "done" /\ ~iFailed => iFaulted = <<>>

(* How far each writer is.                                                 *)
WritersAt ==
    /\ \A w \in IWriters : ~IUses(w) => iStage[w] = "idle"
    /\ iPc \in {"hash", "contexts"} => \A w \in IWriters : iStage[w] = "idle"
    /\ iPc = "start" => \A w \in IWriters : iStage[w] \in {"idle", "started"}
    /\ iPc = "scan" => \A w \in IWriters : IUses(w) => iStage[w] = "started"
    /\ iPc = "prepare" => \A w \in IWriters : IUses(w) => iStage[w] \in {"started", "prepared"}
    /\ iPc \in JsonCommit => /\ IUses("json")
                             /\ \A w \in IWriters : IUses(w) => iStage[w] = "prepared"
    /\ iPc \in PairCommit => /\ IUses("szst") /\ iStage["szst"] = "prepared"
                             /\ IUses("json") => iStage["json"] = "committed"
    /\ iPc = "completeJson" => IUses("json") /\ \A w \in IWriters : IUses(w) => iStage[w] = "committed"
    /\ iPc \in {"completeRecords", "completeHeader"} =>
         /\ IUses("szst") /\ (IUses("json") => iStage["json"] = "completed")
         /\ iStage["szst"] = IF iPc = "completeRecords" THEN "committed" ELSE "completed"
    /\ iPc \in ClosingSteps \cup {"done"} /\ iFailed =>
         /\ (iStage["szst"] \in {"committed", "completed"} \/ iStage["json"] = "completed") =>
              FaultIn(Completing)
         /\ iStage["json"] = "committed" => Len(iFaulted) >= 1
    /\ iPc \in PairUndo => iStage["szst"] = "committed"
    /\ iPc \in PairErase => iStage["szst"] \in {"started", "prepared"}
    /\ iPc = "removeJson" => iStage["json"] = "committed"
    /\ iPc \in {"backJson", "eraseJsonTmp"} => iStage["json"] \in {"started", "prepared", "committed"}

(* The temporary files.                                                    *)
Temporaries ==
    /\ iPc # "done" =>
         iDisk["jsonTmp"] = IF iStage["json"] \in {"started", "prepared"} THEN "new" ELSE "none"
    /\ iStage["szst"] \in {"idle", "committed", "completed"} =>
         iDisk["recordsTmp"] = "none" /\ iDisk["headerTmp"] = "none"
    /\ iStage["szst"] = "started" => iDisk["headerTmp"] = "none"
    /\ iPc \in Early \cup JsonCommit \cup {"stageRecords", "stageHeader", "publishRecords"}
         /\ iStage["szst"] \in {"started", "prepared"} => iDisk["recordsTmp"] = "new"
    /\ iPc \in Early \cup JsonCommit \cup PairCommit /\ iStage["szst"] = "prepared" =>
         iDisk["headerTmp"] = "new"
    /\ iPc = "publishHeader" => iDisk["recordsTmp"] = "none"
    /\ iPc = "eraseRecordsTmp" /\ ~FaultIn(CloseFiles) => iDisk["headerTmp"] = "none"
    /\ iPc \in ClosingJson \cup {"done"} /\ ~FaultIn(CloseFiles) =>
         iDisk["recordsTmp"] = "none" /\ iDisk["headerTmp"] = "none"
    /\ iPc = "done" /\ ~FaultIn(CloseFiles) => iDisk["jsonTmp"] = "none"

(* The JSON index.                                                         *)
JsonAt ==
    /\ Safe("json", "jsonBak", OldJson)
    /\ iStage["json"] = "idle" => Json(OldJson, "none")
    /\ iPc \in Early \cup {"stageJson"} => Json(OldJson, "none")
    /\ iPc \in {"publishJson", "restoreJson"} => Json("none", OldJson)
    /\ iStage["json"] = "committed" /\ iPc \notin {"backJson", "eraseJsonTmp", "done"} =>
         Json("new", OldJson)
    /\ iStage["json"] = "completed" => iDisk["json"] = "new" /\ (~iFailed => iDisk["jsonBak"] = "none")
    /\ iPc \in ClosingPair \cup {"closeJson", "backJson"} /\ iStage["json"] \in {"started", "prepared"} /\ AtMostOne =>
         Json(OldJson, "none")
    /\ iPc = "backJson" /\ iStage["json"] = "committed" =>
         iDisk["jsonBak"] = OldJson /\ (AtMostOne => iDisk["json"] = "none")
    /\ iPc \in {"eraseJsonTmp", "done"} /\ iStage["json"] # "completed" /\ AtMostOne => Json(OldJson, "none")

(* The seekable pair.                                                      *)
PairAt ==
    /\ Safe("records", "recordsBak", OldPair) /\ Safe("header", "headerBak", OldPair)
    /\ iStage["szst"] = "idle" => PairAsBefore
    /\ iPc \in Early \cup JsonCommit \cup {"stageRecords"} => PairAsBefore
    /\ iPc \in {"stageHeader", "unstageRecords"} => Records("none", OldPair) /\ Header(OldPair, "none")
    /\ iPc = "publishRecords" => Records("none", OldPair) /\ Header("none", OldPair)
    /\ iPc \in {"publishHeader", "dropRecords"} => Records("new", OldPair) /\ Header("none", OldPair)
    /\ iPc = "restoreRecords" => /\ iDisk["recordsBak"] = OldPair /\ Header("none", OldPair)
                                 /\ AtMostOne => iDisk["records"] = "none"
    /\ iPc = "restoreHeader" => Header("none", OldPair) /\ (AtMostOne => Records(OldPair, "none"))
    /\ iPc \in {"completeJson", "completeRecords", "close", "removeRecords"} /\ iStage["szst"] = "committed" =>
         Records("new", OldPair) /\ Header("new", OldPair)
    /\ iPc = "completeHeader" => Records("new", "none") /\ Header("new", OldPair)
    /\ iPc = "removeHeader" => /\ iDisk["recordsBak"] = OldPair /\ Header("new", OldPair)
                               /\ AtMostOne => iDisk["records"] = "none"
    /\ iPc = "backRecords" => /\ iDisk["recordsBak"] = OldPair /\ iDisk["headerBak"] = OldPair
                              /\ AtMostOne => iDisk["records"] = "none" /\ iDisk["header"] = "none"
    /\ iPc = "backHeader" => /\ iDisk["headerBak"] = OldPair
                             /\ AtMostOne => Records(OldPair, "none") /\ iDisk["header"] = "none"
    /\ iStage["szst"] = "completed" =>
         /\ iDisk["records"] = "new" /\ iDisk["header"] = "new"
         /\ iPc = "done" /\ ~iFailed => iDisk["recordsBak"] = "none" /\ iDisk["headerBak"] = "none"
    /\ iPc \in ClosingPair /\ iStage["szst"] \in {"started", "prepared"} /\ AtMostOne => PairAsBefore
    /\ iPc \in ClosingJson \cup {"done"} /\ iStage["szst"] # "completed" /\ AtMostOne => PairAsBefore

(* A build that succeeded completed every writer.                          *)
Succeeded == iPc = "done" /\ ~iFailed => \A w \in IWriters : IUses(w) => iStage[w] = "completed"

(* The versions of the source, and what an index of a json source holds.   *)
Versions ==
    /\ iSrc \in Nat /\ iHash \in Nat /\ iSince \in Nat /\ iRead \in Seq(Nat)
    /\ iPc \in {"hash", "contexts", "start"} => iRead = <<>>
    /\ ~iFailed /\ iPc # "hash" => (iSince = 0 => iSrc = iHash) /\ (iSince = 1 => iSrc # iHash)
    /\ ~iFailed /\ iPc # "hash" /\ iSince = 0 => \A i \in DOMAIN iRead : iRead[i] = iHash
    /\ iOpts.format = "json" /\ ~iFailed /\ iPc \notin {"hash", "contexts", "start", "scan"} => iSrc = iHash

IndexInv ==
    ITypeOK /\ Faults /\ WritersAt /\ Temporaries /\ JsonAt /\ PairAt /\ Succeeded /\ Versions

-------------------------------------------------------------------------------
(* What a file operation, a failure and the options do.                    *)

LEMMA MoveEffect ==
  ASSUME ITypeOK, NEW a \in IPaths, NEW b \in IPaths, a # b, iDisk' = IMove(a, b)
  PROVE  /\ iDisk' \in [IPaths -> Contents] /\ iDisk'[a] = "none"
         /\ iDisk'[b] = (IF iDisk[a] = "none" THEN iDisk[b] ELSE iDisk[a])
         /\ \A p \in IPaths \ {a, b} : iDisk'[p] = iDisk[p]
  BY DEF ITypeOK, IMove, Contents

LEMMA EraseEffect ==
  ASSUME ITypeOK, NEW a \in IPaths, iDisk' = IErase(a)
  PROVE  /\ iDisk' \in [IPaths -> Contents] /\ iDisk'[a] = "none"
         /\ \A p \in IPaths \ {a} : iDisk'[p] = iDisk[p]
  BY DEF ITypeOK, IErase, Contents

LEMMA FaultEffect ==
  ASSUME ITypeOK, IFault
  PROVE  /\ iFaulted' \in Seq(Steps) /\ iFaulted' # <<>> /\ Len(iFaulted') = Len(iFaulted) + 1
         /\ Len(iFaulted) \in Nat /\ (iFaulted = <<>> <=> Len(iFaulted) = 0)
         /\ \A S : iFaulted = <<>> => ~FaultIn(S)
         /\ \A S : FaultIn(S)' <=> FaultIn(S) \/ iPc \in S
<1>1. iFaulted \in Seq(Steps) /\ iPc \in Steps /\ iFaulted' = Append(iFaulted, iPc)
  BY DEF ITypeOK, IFault
<1>2. iFaulted' \in Seq(Steps) /\ iFaulted' # <<>> /\ Len(iFaulted') = Len(iFaulted) + 1
      /\ Len(iFaulted) \in Nat /\ (iFaulted = <<>> <=> Len(iFaulted) = 0)
  BY <1>1
<1>3. /\ DOMAIN iFaulted' = 1..Len(iFaulted) + 1 /\ DOMAIN iFaulted = 1..Len(iFaulted)
      /\ iFaulted'[Len(iFaulted) + 1] = iPc
      /\ \A i \in 1..Len(iFaulted) : iFaulted'[i] = iFaulted[i]
  BY <1>1
<1>4. ASSUME NEW S PROVE FaultIn(S)' <=> FaultIn(S) \/ iPc \in S
  <2>1. FaultIn(S)' <=> \E i \in 1..Len(iFaulted) + 1 : iFaulted'[i] \in S
    BY <1>3 DEF FaultIn
  <2>2. FaultIn(S) <=> \E i \in 1..Len(iFaulted) : iFaulted[i] \in S
    BY <1>3 DEF FaultIn
  <2>3. \A i \in 1..Len(iFaulted) + 1 : i = Len(iFaulted) + 1 \/ i \in 1..Len(iFaulted)
    BY <1>2
  <2>4. Len(iFaulted) + 1 \in 1..Len(iFaulted) + 1 /\ \A i \in 1..Len(iFaulted) : i \in 1..Len(iFaulted) + 1
    BY <1>2
  <2> QED
    BY <1>3, <2>1, <2>2, <2>3, <2>4
<1>5. ASSUME iFaulted = <<>>, NEW S PROVE ~FaultIn(S)
  BY <1>5 DEF FaultIn
<1> QED
  BY <1>2, <1>4, <1>5

LEMMA NoFaultEffect ==
  ASSUME ITypeOK, IWell
  PROVE  iFaulted' = iFaulted /\ Len(iFaulted) \in Nat /\ \A S : FaultIn(S)' <=> FaultIn(S)
  BY DEF ITypeOK, IWell, FaultIn

LEMMA OptionsKept ==
  ASSUME ITypeOK, UNCHANGED <<iOpts, iPrior>>
  PROVE  /\ \A w \in IWriters : IUses(w)' <=> IUses(w)
         /\ OldJson' = OldJson /\ OldPair' = OldPair
         /\ OldJson \in {"old", "none"} /\ OldPair \in {"old", "none"}
         /\ IUses("json") \/ IUses("szst")
<1>1. iOpts.writers \in {<<"json">>, <<"szst">>, <<"json", "szst">>}
  BY DEF ITypeOK, IChoices
<1>2. IUses("json") \/ IUses("szst")
  <2>1. 1 \in DOMAIN iOpts.writers /\ iOpts.writers[1] \in {"json", "szst"}
    BY <1>1
  <2> QED
    BY <2>1 DEF IUses
<1> QED
  BY <1>2 DEF IUses, OldJson, OldPair

(* The steps of the file programs leave the sources alone.                 *)
LEMMA VersionsKept ==
  ASSUME Versions, UNCHANGED <<iOpts, iSrc, iSince, iHash, iRead>>, iPc \notin {"hash", "contexts", "start", "scan"},
         iPc' \notin {"hash", "contexts", "start", "scan"}, iFailed => iFailed'
  PROVE  Versions'
  BY DEF Versions

-------------------------------------------------------------------------------
(* A step of a file program that does its work, and one whose operation    *)
(* fails: where the build goes on, and the writers' flags.                 *)
Succeeds(disk, pc, stage) ==
    /\ UNCHANGED <<iOpts, iPrior, iSrc, iSince, iHash, iTable, iRead>>
    /\ IWell /\ iDisk' = disk /\ iStage' = stage /\ iPc' = pc /\ iFailed' = (iFailed \/ pc = "close")
Fails(pc, stage) ==
    /\ UNCHANGED <<iOpts, iPrior, iSrc, iSince, iHash, iTable, iRead>>
    /\ IFault /\ iDisk' = iDisk /\ iStage' = stage /\ iPc' = pc /\ iFailed' = (iFailed \/ pc = "close")

(* What such a step leaves alone, and what it makes of the failures.       *)
Kept ==
    /\ \A w \in IWriters : IUses(w)' <=> IUses(w)
    /\ OldJson' = OldJson /\ OldPair' = OldPair
    /\ OldJson \in {"old", "none"} /\ OldPair \in {"old", "none"}
    /\ IUses("json") \/ IUses("szst")
NoFault ==
    /\ iFaulted' = iFaulted /\ Len(iFaulted) \in Nat
    /\ FaultIn(Completing)' <=> FaultIn(Completing)
    /\ FaultIn(CloseFiles)' <=> FaultIn(CloseFiles)
OneFault ==
    /\ iFaulted' \in Seq(Steps) /\ iFaulted' # <<>> /\ Len(iFaulted') = Len(iFaulted) + 1
    /\ Len(iFaulted) \in Nat /\ (iFaulted = <<>> <=> Len(iFaulted) = 0)
    /\ FaultIn(Completing)' <=> FaultIn(Completing) \/ iPc \in Completing
    /\ FaultIn(CloseFiles)' <=> FaultIn(CloseFiles) \/ iPc \in CloseFiles
    /\ iFaulted = <<>> => ~FaultIn(Completing) /\ ~FaultIn(CloseFiles)

LEMMA DoneFacts ==
  ASSUME IndexInv, NEW disk, NEW pc, NEW stage, Succeeds(disk, pc, stage)
  PROVE  Kept /\ NoFault /\ iFailed \in BOOLEAN
<1>1. ITypeOK
  BY DEF IndexInv
<1> QED
  BY <1>1, OptionsKept, NoFaultEffect DEF Succeeds, Kept, NoFault, ITypeOK

LEMMA FailedFacts ==
  ASSUME IndexInv, NEW pc, NEW stage, Fails(pc, stage)
  PROVE  Kept /\ OneFault /\ iFailed \in BOOLEAN
<1>1. ITypeOK
  BY DEF IndexInv
<1>2. Kept
  BY <1>1, OptionsKept DEF Fails, Kept
<1>3. OneFault
  BY <1>1, FaultEffect DEF Fails, OneFault
<1> QED
  BY <1>1, <1>2, <1>3 DEF ITypeOK

-------------------------------------------------------------------------------
(* One lemma for every outcome of every step of the file programs.         *)
USE DEF Early, JsonCommit, PairCommit, Completing, PairUndo, PairErase, ClosingPair, JsonUndo, ClosingJson,
        ClosingSteps, CloseFiles, Undoing, IPaths, IFinals, IWriters

LEMMA StageJsonDone ==
  ASSUME IndexInv, iPc = "stageJson", Succeeds(IMove("json", "jsonBak"), "publishJson", iStage)
  PROVE  IndexInv'
<1>0. Kept /\ NoFault /\ iFailed' = iFailed
  BY DoneFacts DEF Succeeds
<1>1. /\ iDisk' \in [IPaths -> Contents] /\ iDisk'["json"] = "none"
      /\ iDisk'["jsonBak"] = (IF iDisk["json"] = "none" THEN iDisk["jsonBak"] ELSE iDisk["json"])
      /\ \A p \in IPaths \ {"json", "jsonBak"} : iDisk'[p] = iDisk[p]
  BY MoveEffect DEF IndexInv, Succeeds
<1>2. iPc' = "publishJson" /\ iStage' = iStage /\ iStage \in [IWriters -> Stages]
  BY DEF Succeeds, IndexInv, ITypeOK
<1>3. ITypeOK' /\ Versions'
  BY <1>0, <1>1, <1>2, VersionsKept DEF IndexInv, ITypeOK, Succeeds, NoFault, Steps
<1>4. Faults' /\ WritersAt' /\ Succeeded'
  BY <1>0, <1>1, <1>2 DEF IndexInv, Kept, NoFault, Faults, WritersAt, Succeeded
<1>5. Temporaries'
  BY <1>0, <1>1, <1>2 DEF IndexInv, Kept, NoFault, Temporaries, Faults, WritersAt
<1>6. JsonAt'
  BY <1>0, <1>1, <1>2 DEF IndexInv, Kept, NoFault, JsonAt, Json, Safe, AtMostOne, Faults, WritersAt
<1>7. PairAt'
  BY <1>0, <1>1, <1>2 DEF IndexInv, Kept, NoFault, PairAt, PairAsBefore,
    Records, Header, Safe, AtMostOne, Faults, WritersAt
<1> QED
  BY <1>3, <1>4, <1>5, <1>6, <1>7 DEF IndexInv

LEMMA StageJsonFailed ==
  ASSUME IndexInv, iPc = "stageJson", Fails("close", iStage)
  PROVE  IndexInv'
<1>0. Kept /\ OneFault /\ iFailed' = TRUE
  BY FailedFacts DEF Fails
<1>1. iDisk' = iDisk /\ iDisk' \in [IPaths -> Contents]
  BY DEF IndexInv, ITypeOK, Fails
<1>2. iPc' = "close" /\ iStage' = iStage /\ iStage \in [IWriters -> Stages]
  BY DEF Fails, IndexInv, ITypeOK
<1>3. ITypeOK' /\ Versions'
  BY <1>0, <1>1, <1>2, VersionsKept DEF IndexInv, ITypeOK, Fails, OneFault, Steps
<1>4. Faults' /\ WritersAt' /\ Succeeded'
  BY <1>0, <1>1, <1>2 DEF IndexInv, Kept, OneFault, Faults, WritersAt, Succeeded
<1>5. Temporaries'
  BY <1>0, <1>1, <1>2 DEF IndexInv, Kept, OneFault, Temporaries, Faults, WritersAt
<1>6. JsonAt'
  BY <1>0, <1>1, <1>2 DEF IndexInv, Kept, OneFault, JsonAt, Json, Safe, AtMostOne, Faults, WritersAt
<1>7. PairAt'
  BY <1>0, <1>1, <1>2 DEF IndexInv, Kept, OneFault, PairAt, PairAsBefore,
    Records, Header, Safe, AtMostOne, Faults, WritersAt
<1> QED
  BY <1>3, <1>4, <1>5, <1>6, <1>7 DEF IndexInv

LEMMA PublishJsonDoneThen ==
  ASSUME IndexInv, iPc = "publishJson", Succeeds(IMove("jsonTmp", "json"), "stageRecords", [iStage EXCEPT !["json"] = "committed"]), IUses("szst")
  PROVE  IndexInv'
<1>0. Kept /\ NoFault /\ iFailed' = iFailed
  BY DoneFacts DEF Succeeds
<1>1. /\ iDisk' \in [IPaths -> Contents] /\ iDisk'["jsonTmp"] = "none"
      /\ iDisk'["json"] = (IF iDisk["jsonTmp"] = "none" THEN iDisk["json"] ELSE iDisk["jsonTmp"])
      /\ \A p \in IPaths \ {"jsonTmp", "json"} : iDisk'[p] = iDisk[p]
  BY MoveEffect DEF IndexInv, Succeeds
<1>2. /\ iPc' = "stageRecords" /\ iStage' \in [IWriters -> Stages]
      /\ iStage'["json"] = "committed" /\ iStage'["szst"] = iStage["szst"]
  BY DEF Succeeds, IndexInv, ITypeOK, Stages
<1>3. ITypeOK' /\ Versions'
  BY <1>0, <1>1, <1>2, VersionsKept DEF IndexInv, ITypeOK, Succeeds, NoFault, Steps
<1>4. Faults' /\ WritersAt' /\ Succeeded'
  BY <1>0, <1>1, <1>2 DEF IndexInv, Kept, NoFault, Faults, WritersAt, Succeeded
<1>5. Temporaries'
  BY <1>0, <1>1, <1>2 DEF IndexInv, Kept, NoFault, Temporaries, Faults, WritersAt
<1>6. JsonAt'
  BY <1>0, <1>1, <1>2 DEF IndexInv, Kept, NoFault, JsonAt, Json, Safe, AtMostOne, Faults, WritersAt, Temporaries
<1>7. PairAt'
  BY <1>0, <1>1, <1>2 DEF IndexInv, Kept, NoFault, PairAt, PairAsBefore,
    Records, Header, Safe, AtMostOne, Faults, WritersAt, Temporaries
<1> QED
  BY <1>3, <1>4, <1>5, <1>6, <1>7 DEF IndexInv

LEMMA PublishJsonDone ==
  ASSUME IndexInv, iPc = "publishJson", Succeeds(IMove("jsonTmp", "json"), "completeJson", [iStage EXCEPT !["json"] = "committed"]), ~IUses("szst")
  PROVE  IndexInv'
<1>0. Kept /\ NoFault /\ iFailed' = iFailed
  BY DoneFacts DEF Succeeds
<1>1. /\ iDisk' \in [IPaths -> Contents] /\ iDisk'["jsonTmp"] = "none"
      /\ iDisk'["json"] = (IF iDisk["jsonTmp"] = "none" THEN iDisk["json"] ELSE iDisk["jsonTmp"])
      /\ \A p \in IPaths \ {"jsonTmp", "json"} : iDisk'[p] = iDisk[p]
  BY MoveEffect DEF IndexInv, Succeeds
<1>2. /\ iPc' = "completeJson" /\ iStage' \in [IWriters -> Stages]
      /\ iStage'["json"] = "committed" /\ iStage'["szst"] = iStage["szst"]
  BY DEF Succeeds, IndexInv, ITypeOK, Stages
<1>3. ITypeOK' /\ Versions'
  BY <1>0, <1>1, <1>2, VersionsKept DEF IndexInv, ITypeOK, Succeeds, NoFault, Steps
<1>4. Faults' /\ WritersAt' /\ Succeeded'
  BY <1>0, <1>1, <1>2 DEF IndexInv, Kept, NoFault, Faults, WritersAt, Succeeded
<1>5. Temporaries'
  BY <1>0, <1>1, <1>2 DEF IndexInv, Kept, NoFault, Temporaries, Faults, WritersAt
<1>6. JsonAt'
  BY <1>0, <1>1, <1>2 DEF IndexInv, Kept, NoFault, JsonAt, Json, Safe, AtMostOne, Faults, WritersAt, Temporaries
<1>7. PairAt'
  BY <1>0, <1>1, <1>2 DEF IndexInv, Kept, NoFault, PairAt, PairAsBefore,
    Records, Header, Safe, AtMostOne, Faults, WritersAt, Temporaries
<1> QED
  BY <1>3, <1>4, <1>5, <1>6, <1>7 DEF IndexInv

LEMMA PublishJsonFailed ==
  ASSUME IndexInv, iPc = "publishJson", Fails("restoreJson", iStage)
  PROVE  IndexInv'
<1>0. Kept /\ OneFault /\ iFailed' = iFailed
  BY FailedFacts DEF Fails
<1>1. iDisk' = iDisk /\ iDisk' \in [IPaths -> Contents]
  BY DEF IndexInv, ITypeOK, Fails
<1>2. iPc' = "restoreJson" /\ iStage' = iStage /\ iStage \in [IWriters -> Stages]
  BY DEF Fails, IndexInv, ITypeOK
<1>3. ITypeOK' /\ Versions'
  BY <1>0, <1>1, <1>2, VersionsKept DEF IndexInv, ITypeOK, Fails, OneFault, Steps
<1>4. Faults' /\ WritersAt' /\ Succeeded'
  BY <1>0, <1>1, <1>2 DEF IndexInv, Kept, OneFault, Faults, WritersAt, Succeeded
<1>5. Temporaries'
  BY <1>0, <1>1, <1>2 DEF IndexInv, Kept, OneFault, Temporaries, Faults, WritersAt
<1>6. JsonAt'
  BY <1>0, <1>1, <1>2 DEF IndexInv, Kept, OneFault, JsonAt, Json, Safe, AtMostOne, Faults, WritersAt
<1>7. PairAt'
  BY <1>0, <1>1, <1>2 DEF IndexInv, Kept, OneFault, PairAt, PairAsBefore,
    Records, Header, Safe, AtMostOne, Faults, WritersAt
<1> QED
  BY <1>3, <1>4, <1>5, <1>6, <1>7 DEF IndexInv

LEMMA RestoreJsonDone ==
  ASSUME IndexInv, iPc = "restoreJson", Succeeds(IMove("jsonBak", "json"), "close", iStage)
  PROVE  IndexInv'
<1>0. Kept /\ NoFault /\ iFailed' = TRUE
  BY DoneFacts DEF Succeeds
<1>1. /\ iDisk' \in [IPaths -> Contents] /\ iDisk'["jsonBak"] = "none"
      /\ iDisk'["json"] = (IF iDisk["jsonBak"] = "none" THEN iDisk["json"] ELSE iDisk["jsonBak"])
      /\ \A p \in IPaths \ {"jsonBak", "json"} : iDisk'[p] = iDisk[p]
  BY MoveEffect DEF IndexInv, Succeeds
<1>2. iPc' = "close" /\ iStage' = iStage /\ iStage \in [IWriters -> Stages]
  BY DEF Succeeds, IndexInv, ITypeOK
<1>3. ITypeOK' /\ Versions'
  BY <1>0, <1>1, <1>2, VersionsKept DEF IndexInv, ITypeOK, Succeeds, NoFault, Steps
<1>4. Faults' /\ WritersAt' /\ Succeeded'
  BY <1>0, <1>1, <1>2 DEF IndexInv, Kept, NoFault, Faults, WritersAt, Succeeded
<1>5. Temporaries'
  BY <1>0, <1>1, <1>2 DEF IndexInv, Kept, NoFault, Temporaries, Faults, WritersAt
<1>6. JsonAt'
  BY <1>0, <1>1, <1>2 DEF IndexInv, Kept, NoFault, JsonAt, Json, Safe, AtMostOne, Faults, WritersAt
<1>7. PairAt'
  BY <1>0, <1>1, <1>2 DEF IndexInv, Kept, NoFault, PairAt, PairAsBefore,
    Records, Header, Safe, AtMostOne, Faults, WritersAt
<1> QED
  BY <1>3, <1>4, <1>5, <1>6, <1>7 DEF IndexInv

LEMMA RestoreJsonFailed ==
  ASSUME IndexInv, iPc = "restoreJson", Fails("close", iStage)
  PROVE  IndexInv'
<1>0. Kept /\ OneFault /\ iFailed' = TRUE
  BY FailedFacts DEF Fails
<1>1. iDisk' = iDisk /\ iDisk' \in [IPaths -> Contents]
  BY DEF IndexInv, ITypeOK, Fails
<1>2. iPc' = "close" /\ iStage' = iStage /\ iStage \in [IWriters -> Stages]
  BY DEF Fails, IndexInv, ITypeOK
<1>3. ITypeOK' /\ Versions'
  BY <1>0, <1>1, <1>2, VersionsKept DEF IndexInv, ITypeOK, Fails, OneFault, Steps
<1>4. Faults' /\ WritersAt' /\ Succeeded'
  BY <1>0, <1>1, <1>2 DEF IndexInv, Kept, OneFault, Faults, WritersAt, Succeeded
<1>5. Temporaries'
  BY <1>0, <1>1, <1>2 DEF IndexInv, Kept, OneFault, Temporaries, Faults, WritersAt
<1>6. JsonAt'
  BY <1>0, <1>1, <1>2 DEF IndexInv, Kept, OneFault, JsonAt, Json, Safe, AtMostOne, Faults, WritersAt
<1>7. PairAt'
  BY <1>0, <1>1, <1>2 DEF IndexInv, Kept, OneFault, PairAt, PairAsBefore,
    Records, Header, Safe, AtMostOne, Faults, WritersAt
<1> QED
  BY <1>3, <1>4, <1>5, <1>6, <1>7 DEF IndexInv

LEMMA StageRecordsDone ==
  ASSUME IndexInv, iPc = "stageRecords", Succeeds(IMove("records", "recordsBak"), "stageHeader", iStage)
  PROVE  IndexInv'
<1>0. Kept /\ NoFault /\ iFailed' = iFailed
  BY DoneFacts DEF Succeeds
<1>1. /\ iDisk' \in [IPaths -> Contents] /\ iDisk'["records"] = "none"
      /\ iDisk'["recordsBak"] = (IF iDisk["records"] = "none" THEN iDisk["recordsBak"] ELSE iDisk["records"])
      /\ \A p \in IPaths \ {"records", "recordsBak"} : iDisk'[p] = iDisk[p]
  BY MoveEffect DEF IndexInv, Succeeds
<1>2. iPc' = "stageHeader" /\ iStage' = iStage /\ iStage \in [IWriters -> Stages]
  BY DEF Succeeds, IndexInv, ITypeOK
<1>3. ITypeOK' /\ Versions'
  BY <1>0, <1>1, <1>2, VersionsKept DEF IndexInv, ITypeOK, Succeeds, NoFault, Steps
<1>4. Faults' /\ WritersAt' /\ Succeeded'
  BY <1>0, <1>1, <1>2 DEF IndexInv, Kept, NoFault, Faults, WritersAt, Succeeded
<1>5. Temporaries'
  BY <1>0, <1>1, <1>2 DEF IndexInv, Kept, NoFault, Temporaries, Faults, WritersAt
<1>6. JsonAt'
  BY <1>0, <1>1, <1>2 DEF IndexInv, Kept, NoFault, JsonAt, Json, Safe, AtMostOne, Faults, WritersAt
<1>7. PairAt'
  BY <1>0, <1>1, <1>2 DEF IndexInv, Kept, NoFault, PairAt, PairAsBefore,
    Records, Header, Safe, AtMostOne, Faults, WritersAt
<1> QED
  BY <1>3, <1>4, <1>5, <1>6, <1>7 DEF IndexInv

LEMMA StageRecordsFailed ==
  ASSUME IndexInv, iPc = "stageRecords", Fails("close", iStage)
  PROVE  IndexInv'
<1>0. Kept /\ OneFault /\ iFailed' = TRUE
  BY FailedFacts DEF Fails
<1>1. iDisk' = iDisk /\ iDisk' \in [IPaths -> Contents]
  BY DEF IndexInv, ITypeOK, Fails
<1>2. iPc' = "close" /\ iStage' = iStage /\ iStage \in [IWriters -> Stages]
  BY DEF Fails, IndexInv, ITypeOK
<1>3. ITypeOK' /\ Versions'
  BY <1>0, <1>1, <1>2, VersionsKept DEF IndexInv, ITypeOK, Fails, OneFault, Steps
<1>4. Faults' /\ WritersAt' /\ Succeeded'
  BY <1>0, <1>1, <1>2 DEF IndexInv, Kept, OneFault, Faults, WritersAt, Succeeded
<1>5. Temporaries'
  BY <1>0, <1>1, <1>2 DEF IndexInv, Kept, OneFault, Temporaries, Faults, WritersAt
<1>6. JsonAt'
  BY <1>0, <1>1, <1>2 DEF IndexInv, Kept, OneFault, JsonAt, Json, Safe, AtMostOne, Faults, WritersAt
<1>7. PairAt'
  BY <1>0, <1>1, <1>2 DEF IndexInv, Kept, OneFault, PairAt, PairAsBefore,
    Records, Header, Safe, AtMostOne, Faults, WritersAt
<1> QED
  BY <1>3, <1>4, <1>5, <1>6, <1>7 DEF IndexInv

LEMMA StageHeaderDone ==
  ASSUME IndexInv, iPc = "stageHeader", Succeeds(IMove("header", "headerBak"), "publishRecords", iStage)
  PROVE  IndexInv'
<1>0. Kept /\ NoFault /\ iFailed' = iFailed
  BY DoneFacts DEF Succeeds
<1>1. /\ iDisk' \in [IPaths -> Contents] /\ iDisk'["header"] = "none"
      /\ iDisk'["headerBak"] = (IF iDisk["header"] = "none" THEN iDisk["headerBak"] ELSE iDisk["header"])
      /\ \A p \in IPaths \ {"header", "headerBak"} : iDisk'[p] = iDisk[p]
  BY MoveEffect DEF IndexInv, Succeeds
<1>2. iPc' = "publishRecords" /\ iStage' = iStage /\ iStage \in [IWriters -> Stages]
  BY DEF Succeeds, IndexInv, ITypeOK
<1>3. ITypeOK' /\ Versions'
  BY <1>0, <1>1, <1>2, VersionsKept DEF IndexInv, ITypeOK, Succeeds, NoFault, Steps
<1>4. Faults' /\ WritersAt' /\ Succeeded'
  BY <1>0, <1>1, <1>2 DEF IndexInv, Kept, NoFault, Faults, WritersAt, Succeeded
<1>5. Temporaries'
  BY <1>0, <1>1, <1>2 DEF IndexInv, Kept, NoFault, Temporaries, Faults, WritersAt
<1>6. JsonAt'
  BY <1>0, <1>1, <1>2 DEF IndexInv, Kept, NoFault, JsonAt, Json, Safe, AtMostOne, Faults, WritersAt
<1>7. PairAt'
  BY <1>0, <1>1, <1>2 DEF IndexInv, Kept, NoFault, PairAt, PairAsBefore,
    Records, Header, Safe, AtMostOne, Faults, WritersAt
<1> QED
  BY <1>3, <1>4, <1>5, <1>6, <1>7 DEF IndexInv

LEMMA StageHeaderFailed ==
  ASSUME IndexInv, iPc = "stageHeader", Fails("unstageRecords", iStage)
  PROVE  IndexInv'
<1>0. Kept /\ OneFault /\ iFailed' = iFailed
  BY FailedFacts DEF Fails
<1>1. iDisk' = iDisk /\ iDisk' \in [IPaths -> Contents]
  BY DEF IndexInv, ITypeOK, Fails
<1>2. iPc' = "unstageRecords" /\ iStage' = iStage /\ iStage \in [IWriters -> Stages]
  BY DEF Fails, IndexInv, ITypeOK
<1>3. ITypeOK' /\ Versions'
  BY <1>0, <1>1, <1>2, VersionsKept DEF IndexInv, ITypeOK, Fails, OneFault, Steps
<1>4. Faults' /\ WritersAt' /\ Succeeded'
  BY <1>0, <1>1, <1>2 DEF IndexInv, Kept, OneFault, Faults, WritersAt, Succeeded
<1>5. Temporaries'
  BY <1>0, <1>1, <1>2 DEF IndexInv, Kept, OneFault, Temporaries, Faults, WritersAt
<1>6. JsonAt'
  BY <1>0, <1>1, <1>2 DEF IndexInv, Kept, OneFault, JsonAt, Json, Safe, AtMostOne, Faults, WritersAt
<1>7. PairAt'
  BY <1>0, <1>1, <1>2 DEF IndexInv, Kept, OneFault, PairAt, PairAsBefore,
    Records, Header, Safe, AtMostOne, Faults, WritersAt
<1> QED
  BY <1>3, <1>4, <1>5, <1>6, <1>7 DEF IndexInv

LEMMA UnstageRecordsDone ==
  ASSUME IndexInv, iPc = "unstageRecords", Succeeds(IMove("recordsBak", "records"), "close", iStage)
  PROVE  IndexInv'
<1>0. Kept /\ NoFault /\ iFailed' = TRUE
  BY DoneFacts DEF Succeeds
<1>1. /\ iDisk' \in [IPaths -> Contents] /\ iDisk'["recordsBak"] = "none"
      /\ iDisk'["records"] = (IF iDisk["recordsBak"] = "none" THEN iDisk["records"] ELSE iDisk["recordsBak"])
      /\ \A p \in IPaths \ {"recordsBak", "records"} : iDisk'[p] = iDisk[p]
  BY MoveEffect DEF IndexInv, Succeeds
<1>2. iPc' = "close" /\ iStage' = iStage /\ iStage \in [IWriters -> Stages]
  BY DEF Succeeds, IndexInv, ITypeOK
<1>3. ITypeOK' /\ Versions'
  BY <1>0, <1>1, <1>2, VersionsKept DEF IndexInv, ITypeOK, Succeeds, NoFault, Steps
<1>4. Faults' /\ WritersAt' /\ Succeeded'
  BY <1>0, <1>1, <1>2 DEF IndexInv, Kept, NoFault, Faults, WritersAt, Succeeded
<1>5. Temporaries'
  BY <1>0, <1>1, <1>2 DEF IndexInv, Kept, NoFault, Temporaries, Faults, WritersAt
<1>6. JsonAt'
  BY <1>0, <1>1, <1>2 DEF IndexInv, Kept, NoFault, JsonAt, Json, Safe, AtMostOne, Faults, WritersAt
<1>7. PairAt'
  BY <1>0, <1>1, <1>2 DEF IndexInv, Kept, NoFault, PairAt, PairAsBefore,
    Records, Header, Safe, AtMostOne, Faults, WritersAt
<1> QED
  BY <1>3, <1>4, <1>5, <1>6, <1>7 DEF IndexInv

LEMMA UnstageRecordsFailed ==
  ASSUME IndexInv, iPc = "unstageRecords", Fails("close", iStage)
  PROVE  IndexInv'
<1>0. Kept /\ OneFault /\ iFailed' = TRUE
  BY FailedFacts DEF Fails
<1>1. iDisk' = iDisk /\ iDisk' \in [IPaths -> Contents]
  BY DEF IndexInv, ITypeOK, Fails
<1>2. iPc' = "close" /\ iStage' = iStage /\ iStage \in [IWriters -> Stages]
  BY DEF Fails, IndexInv, ITypeOK
<1>3. ITypeOK' /\ Versions'
  BY <1>0, <1>1, <1>2, VersionsKept DEF IndexInv, ITypeOK, Fails, OneFault, Steps
<1>4. Faults' /\ WritersAt' /\ Succeeded'
  BY <1>0, <1>1, <1>2 DEF IndexInv, Kept, OneFault, Faults, WritersAt, Succeeded
<1>5. Temporaries'
  BY <1>0, <1>1, <1>2 DEF IndexInv, Kept, OneFault, Temporaries, Faults, WritersAt
<1>6. JsonAt'
  BY <1>0, <1>1, <1>2 DEF IndexInv, Kept, OneFault, JsonAt, Json, Safe, AtMostOne, Faults, WritersAt
<1>7. PairAt'
  BY <1>0, <1>1, <1>2 DEF IndexInv, Kept, OneFault, PairAt, PairAsBefore,
    Records, Header, Safe, AtMostOne, Faults, WritersAt
<1> QED
  BY <1>3, <1>4, <1>5, <1>6, <1>7 DEF IndexInv

LEMMA PublishRecordsDone ==
  ASSUME IndexInv, iPc = "publishRecords", Succeeds(IMove("recordsTmp", "records"), "publishHeader", iStage)
  PROVE  IndexInv'
<1>0. Kept /\ NoFault /\ iFailed' = iFailed
  BY DoneFacts DEF Succeeds
<1>1. /\ iDisk' \in [IPaths -> Contents] /\ iDisk'["recordsTmp"] = "none"
      /\ iDisk'["records"] = (IF iDisk["recordsTmp"] = "none" THEN iDisk["records"] ELSE iDisk["recordsTmp"])
      /\ \A p \in IPaths \ {"recordsTmp", "records"} : iDisk'[p] = iDisk[p]
  BY MoveEffect DEF IndexInv, Succeeds
<1>2. iPc' = "publishHeader" /\ iStage' = iStage /\ iStage \in [IWriters -> Stages]
  BY DEF Succeeds, IndexInv, ITypeOK
<1>3. ITypeOK' /\ Versions'
  BY <1>0, <1>1, <1>2, VersionsKept DEF IndexInv, ITypeOK, Succeeds, NoFault, Steps
<1>4. Faults' /\ WritersAt' /\ Succeeded'
  BY <1>0, <1>1, <1>2 DEF IndexInv, Kept, NoFault, Faults, WritersAt, Succeeded
<1>5. Temporaries'
  BY <1>0, <1>1, <1>2 DEF IndexInv, Kept, NoFault, Temporaries, Faults, WritersAt
<1>6. JsonAt'
  BY <1>0, <1>1, <1>2 DEF IndexInv, Kept, NoFault, JsonAt, Json, Safe, AtMostOne, Faults, WritersAt, Temporaries
<1>7. PairAt'
  BY <1>0, <1>1, <1>2 DEF IndexInv, Kept, NoFault, PairAt, PairAsBefore,
    Records, Header, Safe, AtMostOne, Faults, WritersAt, Temporaries
<1> QED
  BY <1>3, <1>4, <1>5, <1>6, <1>7 DEF IndexInv

LEMMA PublishRecordsFailed ==
  ASSUME IndexInv, iPc = "publishRecords", Fails("restoreRecords", iStage)
  PROVE  IndexInv'
<1>0. Kept /\ OneFault /\ iFailed' = iFailed
  BY FailedFacts DEF Fails
<1>1. iDisk' = iDisk /\ iDisk' \in [IPaths -> Contents]
  BY DEF IndexInv, ITypeOK, Fails
<1>2. iPc' = "restoreRecords" /\ iStage' = iStage /\ iStage \in [IWriters -> Stages]
  BY DEF Fails, IndexInv, ITypeOK
<1>3. ITypeOK' /\ Versions'
  BY <1>0, <1>1, <1>2, VersionsKept DEF IndexInv, ITypeOK, Fails, OneFault, Steps
<1>4. Faults' /\ WritersAt' /\ Succeeded'
  BY <1>0, <1>1, <1>2 DEF IndexInv, Kept, OneFault, Faults, WritersAt, Succeeded
<1>5. Temporaries'
  BY <1>0, <1>1, <1>2 DEF IndexInv, Kept, OneFault, Temporaries, Faults, WritersAt
<1>6. JsonAt'
  BY <1>0, <1>1, <1>2 DEF IndexInv, Kept, OneFault, JsonAt, Json, Safe, AtMostOne, Faults, WritersAt
<1>7. PairAt'
  BY <1>0, <1>1, <1>2 DEF IndexInv, Kept, OneFault, PairAt, PairAsBefore,
    Records, Header, Safe, AtMostOne, Faults, WritersAt
<1> QED
  BY <1>3, <1>4, <1>5, <1>6, <1>7 DEF IndexInv

LEMMA PublishHeaderDoneThen ==
  ASSUME IndexInv, iPc = "publishHeader", Succeeds(IMove("headerTmp", "header"), "completeJson", [iStage EXCEPT !["szst"] = "committed"]), IUses("json")
  PROVE  IndexInv'
<1>0. Kept /\ NoFault /\ iFailed' = iFailed
  BY DoneFacts DEF Succeeds
<1>1. /\ iDisk' \in [IPaths -> Contents] /\ iDisk'["headerTmp"] = "none"
      /\ iDisk'["header"] = (IF iDisk["headerTmp"] = "none" THEN iDisk["header"] ELSE iDisk["headerTmp"])
      /\ \A p \in IPaths \ {"headerTmp", "header"} : iDisk'[p] = iDisk[p]
  BY MoveEffect DEF IndexInv, Succeeds
<1>2. /\ iPc' = "completeJson" /\ iStage' \in [IWriters -> Stages]
      /\ iStage'["szst"] = "committed" /\ iStage'["json"] = iStage["json"]
  BY DEF Succeeds, IndexInv, ITypeOK, Stages
<1>3. ITypeOK' /\ Versions'
  BY <1>0, <1>1, <1>2, VersionsKept DEF IndexInv, ITypeOK, Succeeds, NoFault, Steps
<1>4. Faults' /\ WritersAt' /\ Succeeded'
  BY <1>0, <1>1, <1>2 DEF IndexInv, Kept, NoFault, Faults, WritersAt, Succeeded
<1>5. Temporaries'
  BY <1>0, <1>1, <1>2 DEF IndexInv, Kept, NoFault, Temporaries, Faults, WritersAt
<1>6. JsonAt'
  BY <1>0, <1>1, <1>2 DEF IndexInv, Kept, NoFault, JsonAt, Json, Safe, AtMostOne, Faults, WritersAt, Temporaries
<1>7. PairAt'
  BY <1>0, <1>1, <1>2 DEF IndexInv, Kept, NoFault, PairAt, PairAsBefore,
    Records, Header, Safe, AtMostOne, Faults, WritersAt, Temporaries
<1> QED
  BY <1>3, <1>4, <1>5, <1>6, <1>7 DEF IndexInv

LEMMA PublishHeaderDone ==
  ASSUME IndexInv, iPc = "publishHeader", Succeeds(IMove("headerTmp", "header"), "completeRecords", [iStage EXCEPT !["szst"] = "committed"]), ~IUses("json")
  PROVE  IndexInv'
<1>0. Kept /\ NoFault /\ iFailed' = iFailed
  BY DoneFacts DEF Succeeds
<1>1. /\ iDisk' \in [IPaths -> Contents] /\ iDisk'["headerTmp"] = "none"
      /\ iDisk'["header"] = (IF iDisk["headerTmp"] = "none" THEN iDisk["header"] ELSE iDisk["headerTmp"])
      /\ \A p \in IPaths \ {"headerTmp", "header"} : iDisk'[p] = iDisk[p]
  BY MoveEffect DEF IndexInv, Succeeds
<1>2. /\ iPc' = "completeRecords" /\ iStage' \in [IWriters -> Stages]
      /\ iStage'["szst"] = "committed" /\ iStage'["json"] = iStage["json"]
  BY DEF Succeeds, IndexInv, ITypeOK, Stages
<1>3. ITypeOK' /\ Versions'
  BY <1>0, <1>1, <1>2, VersionsKept DEF IndexInv, ITypeOK, Succeeds, NoFault, Steps
<1>4. Faults' /\ WritersAt' /\ Succeeded'
  BY <1>0, <1>1, <1>2 DEF IndexInv, Kept, NoFault, Faults, WritersAt, Succeeded
<1>5. Temporaries'
  BY <1>0, <1>1, <1>2 DEF IndexInv, Kept, NoFault, Temporaries, Faults, WritersAt
<1>6. JsonAt'
  BY <1>0, <1>1, <1>2 DEF IndexInv, Kept, NoFault, JsonAt, Json, Safe, AtMostOne, Faults, WritersAt, Temporaries
<1>7. PairAt'
  BY <1>0, <1>1, <1>2 DEF IndexInv, Kept, NoFault, PairAt, PairAsBefore,
    Records, Header, Safe, AtMostOne, Faults, WritersAt, Temporaries
<1> QED
  BY <1>3, <1>4, <1>5, <1>6, <1>7 DEF IndexInv

LEMMA PublishHeaderFailed ==
  ASSUME IndexInv, iPc = "publishHeader", Fails("dropRecords", iStage)
  PROVE  IndexInv'
<1>0. Kept /\ OneFault /\ iFailed' = iFailed
  BY FailedFacts DEF Fails
<1>1. iDisk' = iDisk /\ iDisk' \in [IPaths -> Contents]
  BY DEF IndexInv, ITypeOK, Fails
<1>2. iPc' = "dropRecords" /\ iStage' = iStage /\ iStage \in [IWriters -> Stages]
  BY DEF Fails, IndexInv, ITypeOK
<1>3. ITypeOK' /\ Versions'
  BY <1>0, <1>1, <1>2, VersionsKept DEF IndexInv, ITypeOK, Fails, OneFault, Steps
<1>4. Faults' /\ WritersAt' /\ Succeeded'
  BY <1>0, <1>1, <1>2 DEF IndexInv, Kept, OneFault, Faults, WritersAt, Succeeded
<1>5. Temporaries'
  BY <1>0, <1>1, <1>2 DEF IndexInv, Kept, OneFault, Temporaries, Faults, WritersAt
<1>6. JsonAt'
  BY <1>0, <1>1, <1>2 DEF IndexInv, Kept, OneFault, JsonAt, Json, Safe, AtMostOne, Faults, WritersAt
<1>7. PairAt'
  BY <1>0, <1>1, <1>2 DEF IndexInv, Kept, OneFault, PairAt, PairAsBefore,
    Records, Header, Safe, AtMostOne, Faults, WritersAt
<1> QED
  BY <1>3, <1>4, <1>5, <1>6, <1>7 DEF IndexInv

LEMMA DropRecordsDone ==
  ASSUME IndexInv, iPc = "dropRecords", Succeeds(IErase("records"), "restoreRecords", iStage)
  PROVE  IndexInv'
<1>0. Kept /\ NoFault /\ iFailed' = iFailed
  BY DoneFacts DEF Succeeds
<1>1. /\ iDisk' \in [IPaths -> Contents] /\ iDisk'["records"] = "none"
      /\ \A p \in IPaths \ {"records"} : iDisk'[p] = iDisk[p]
  BY EraseEffect DEF IndexInv, Succeeds
<1>2. iPc' = "restoreRecords" /\ iStage' = iStage /\ iStage \in [IWriters -> Stages]
  BY DEF Succeeds, IndexInv, ITypeOK
<1>3. ITypeOK' /\ Versions'
  BY <1>0, <1>1, <1>2, VersionsKept DEF IndexInv, ITypeOK, Succeeds, NoFault, Steps
<1>4. Faults' /\ WritersAt' /\ Succeeded'
  BY <1>0, <1>1, <1>2 DEF IndexInv, Kept, NoFault, Faults, WritersAt, Succeeded
<1>5. Temporaries'
  BY <1>0, <1>1, <1>2 DEF IndexInv, Kept, NoFault, Temporaries, Faults, WritersAt
<1>6. JsonAt'
  BY <1>0, <1>1, <1>2 DEF IndexInv, Kept, NoFault, JsonAt, Json, Safe, AtMostOne, Faults, WritersAt
<1>7. PairAt'
  BY <1>0, <1>1, <1>2 DEF IndexInv, Kept, NoFault, PairAt, PairAsBefore,
    Records, Header, Safe, AtMostOne, Faults, WritersAt
<1> QED
  BY <1>3, <1>4, <1>5, <1>6, <1>7 DEF IndexInv

LEMMA DropRecordsFailed ==
  ASSUME IndexInv, iPc = "dropRecords", Fails("restoreRecords", iStage)
  PROVE  IndexInv'
<1>0. Kept /\ OneFault /\ iFailed' = iFailed
  BY FailedFacts DEF Fails
<1>1. iDisk' = iDisk /\ iDisk' \in [IPaths -> Contents]
  BY DEF IndexInv, ITypeOK, Fails
<1>2. iPc' = "restoreRecords" /\ iStage' = iStage /\ iStage \in [IWriters -> Stages]
  BY DEF Fails, IndexInv, ITypeOK
<1>3. ITypeOK' /\ Versions'
  BY <1>0, <1>1, <1>2, VersionsKept DEF IndexInv, ITypeOK, Fails, OneFault, Steps
<1>4. Faults' /\ WritersAt' /\ Succeeded'
  BY <1>0, <1>1, <1>2 DEF IndexInv, Kept, OneFault, Faults, WritersAt, Succeeded
<1>5. Temporaries'
  BY <1>0, <1>1, <1>2 DEF IndexInv, Kept, OneFault, Temporaries, Faults, WritersAt
<1>6. JsonAt'
  BY <1>0, <1>1, <1>2 DEF IndexInv, Kept, OneFault, JsonAt, Json, Safe, AtMostOne, Faults, WritersAt
<1>7. PairAt'
  BY <1>0, <1>1, <1>2 DEF IndexInv, Kept, OneFault, PairAt, PairAsBefore,
    Records, Header, Safe, AtMostOne, Faults, WritersAt
<1> QED
  BY <1>3, <1>4, <1>5, <1>6, <1>7 DEF IndexInv

LEMMA RestoreRecordsDone ==
  ASSUME IndexInv, iPc = "restoreRecords", Succeeds(IMove("recordsBak", "records"), "restoreHeader", iStage)
  PROVE  IndexInv'
<1>0. Kept /\ NoFault /\ iFailed' = iFailed
  BY DoneFacts DEF Succeeds
<1>1. /\ iDisk' \in [IPaths -> Contents] /\ iDisk'["recordsBak"] = "none"
      /\ iDisk'["records"] = (IF iDisk["recordsBak"] = "none" THEN iDisk["records"] ELSE iDisk["recordsBak"])
      /\ \A p \in IPaths \ {"recordsBak", "records"} : iDisk'[p] = iDisk[p]
  BY MoveEffect DEF IndexInv, Succeeds
<1>2. iPc' = "restoreHeader" /\ iStage' = iStage /\ iStage \in [IWriters -> Stages]
  BY DEF Succeeds, IndexInv, ITypeOK
<1>3. ITypeOK' /\ Versions'
  BY <1>0, <1>1, <1>2, VersionsKept DEF IndexInv, ITypeOK, Succeeds, NoFault, Steps
<1>4. Faults' /\ WritersAt' /\ Succeeded'
  BY <1>0, <1>1, <1>2 DEF IndexInv, Kept, NoFault, Faults, WritersAt, Succeeded
<1>5. Temporaries'
  BY <1>0, <1>1, <1>2 DEF IndexInv, Kept, NoFault, Temporaries, Faults, WritersAt
<1>6. JsonAt'
  BY <1>0, <1>1, <1>2 DEF IndexInv, Kept, NoFault, JsonAt, Json, Safe, AtMostOne, Faults, WritersAt
<1>7. PairAt'
  BY <1>0, <1>1, <1>2 DEF IndexInv, Kept, NoFault, PairAt, PairAsBefore,
    Records, Header, Safe, AtMostOne, Faults, WritersAt
<1> QED
  BY <1>3, <1>4, <1>5, <1>6, <1>7 DEF IndexInv

LEMMA RestoreRecordsFailed ==
  ASSUME IndexInv, iPc = "restoreRecords", Fails("restoreHeader", iStage)
  PROVE  IndexInv'
<1>0. Kept /\ OneFault /\ iFailed' = iFailed
  BY FailedFacts DEF Fails
<1>1. iDisk' = iDisk /\ iDisk' \in [IPaths -> Contents]
  BY DEF IndexInv, ITypeOK, Fails
<1>2. iPc' = "restoreHeader" /\ iStage' = iStage /\ iStage \in [IWriters -> Stages]
  BY DEF Fails, IndexInv, ITypeOK
<1>3. ITypeOK' /\ Versions'
  BY <1>0, <1>1, <1>2, VersionsKept DEF IndexInv, ITypeOK, Fails, OneFault, Steps
<1>4. Faults' /\ WritersAt' /\ Succeeded'
  BY <1>0, <1>1, <1>2 DEF IndexInv, Kept, OneFault, Faults, WritersAt, Succeeded
<1>5. Temporaries'
  BY <1>0, <1>1, <1>2 DEF IndexInv, Kept, OneFault, Temporaries, Faults, WritersAt
<1>6. JsonAt'
  BY <1>0, <1>1, <1>2 DEF IndexInv, Kept, OneFault, JsonAt, Json, Safe, AtMostOne, Faults, WritersAt
<1>7. PairAt'
  BY <1>0, <1>1, <1>2 DEF IndexInv, Kept, OneFault, PairAt, PairAsBefore,
    Records, Header, Safe, AtMostOne, Faults, WritersAt
<1> QED
  BY <1>3, <1>4, <1>5, <1>6, <1>7 DEF IndexInv

LEMMA RestoreHeaderDone ==
  ASSUME IndexInv, iPc = "restoreHeader", Succeeds(IMove("headerBak", "header"), "close", iStage)
  PROVE  IndexInv'
<1>0. Kept /\ NoFault /\ iFailed' = TRUE
  BY DoneFacts DEF Succeeds
<1>1. /\ iDisk' \in [IPaths -> Contents] /\ iDisk'["headerBak"] = "none"
      /\ iDisk'["header"] = (IF iDisk["headerBak"] = "none" THEN iDisk["header"] ELSE iDisk["headerBak"])
      /\ \A p \in IPaths \ {"headerBak", "header"} : iDisk'[p] = iDisk[p]
  BY MoveEffect DEF IndexInv, Succeeds
<1>2. iPc' = "close" /\ iStage' = iStage /\ iStage \in [IWriters -> Stages]
  BY DEF Succeeds, IndexInv, ITypeOK
<1>3. ITypeOK' /\ Versions'
  BY <1>0, <1>1, <1>2, VersionsKept DEF IndexInv, ITypeOK, Succeeds, NoFault, Steps
<1>4. Faults' /\ WritersAt' /\ Succeeded'
  BY <1>0, <1>1, <1>2 DEF IndexInv, Kept, NoFault, Faults, WritersAt, Succeeded
<1>5. Temporaries'
  BY <1>0, <1>1, <1>2 DEF IndexInv, Kept, NoFault, Temporaries, Faults, WritersAt
<1>6. JsonAt'
  BY <1>0, <1>1, <1>2 DEF IndexInv, Kept, NoFault, JsonAt, Json, Safe, AtMostOne, Faults, WritersAt
<1>7. PairAt'
  BY <1>0, <1>1, <1>2 DEF IndexInv, Kept, NoFault, PairAt, PairAsBefore,
    Records, Header, Safe, AtMostOne, Faults, WritersAt
<1> QED
  BY <1>3, <1>4, <1>5, <1>6, <1>7 DEF IndexInv

LEMMA RestoreHeaderFailed ==
  ASSUME IndexInv, iPc = "restoreHeader", Fails("close", iStage)
  PROVE  IndexInv'
<1>0. Kept /\ OneFault /\ iFailed' = TRUE
  BY FailedFacts DEF Fails
<1>1. iDisk' = iDisk /\ iDisk' \in [IPaths -> Contents]
  BY DEF IndexInv, ITypeOK, Fails
<1>2. iPc' = "close" /\ iStage' = iStage /\ iStage \in [IWriters -> Stages]
  BY DEF Fails, IndexInv, ITypeOK
<1>3. ITypeOK' /\ Versions'
  BY <1>0, <1>1, <1>2, VersionsKept DEF IndexInv, ITypeOK, Fails, OneFault, Steps
<1>4. Faults' /\ WritersAt' /\ Succeeded'
  BY <1>0, <1>1, <1>2 DEF IndexInv, Kept, OneFault, Faults, WritersAt, Succeeded
<1>5. Temporaries'
  BY <1>0, <1>1, <1>2 DEF IndexInv, Kept, OneFault, Temporaries, Faults, WritersAt
<1>6. JsonAt'
  BY <1>0, <1>1, <1>2 DEF IndexInv, Kept, OneFault, JsonAt, Json, Safe, AtMostOne, Faults, WritersAt
<1>7. PairAt'
  BY <1>0, <1>1, <1>2 DEF IndexInv, Kept, OneFault, PairAt, PairAsBefore,
    Records, Header, Safe, AtMostOne, Faults, WritersAt
<1> QED
  BY <1>3, <1>4, <1>5, <1>6, <1>7 DEF IndexInv

LEMMA CompleteJsonDoneThen ==
  ASSUME IndexInv, iPc = "completeJson", Succeeds(IErase("jsonBak"), "completeRecords", [iStage EXCEPT !["json"] = "completed"]), IUses("szst")
  PROVE  IndexInv'
<1>0. Kept /\ NoFault /\ iFailed' = iFailed
  BY DoneFacts DEF Succeeds
<1>1. /\ iDisk' \in [IPaths -> Contents] /\ iDisk'["jsonBak"] = "none"
      /\ \A p \in IPaths \ {"jsonBak"} : iDisk'[p] = iDisk[p]
  BY EraseEffect DEF IndexInv, Succeeds
<1>2. /\ iPc' = "completeRecords" /\ iStage' \in [IWriters -> Stages]
      /\ iStage'["json"] = "completed" /\ iStage'["szst"] = iStage["szst"]
  BY DEF Succeeds, IndexInv, ITypeOK, Stages
<1>3. ITypeOK' /\ Versions'
  BY <1>0, <1>1, <1>2, VersionsKept DEF IndexInv, ITypeOK, Succeeds, NoFault, Steps
<1>4. Faults' /\ WritersAt' /\ Succeeded'
  BY <1>0, <1>1, <1>2 DEF IndexInv, Kept, NoFault, Faults, WritersAt, Succeeded
<1>5. Temporaries'
  BY <1>0, <1>1, <1>2 DEF IndexInv, Kept, NoFault, Temporaries, Faults, WritersAt
<1>6. JsonAt'
  BY <1>0, <1>1, <1>2 DEF IndexInv, Kept, NoFault, JsonAt, Json, Safe, AtMostOne, Faults, WritersAt
<1>7. PairAt'
  BY <1>0, <1>1, <1>2 DEF IndexInv, Kept, NoFault, PairAt, PairAsBefore,
    Records, Header, Safe, AtMostOne, Faults, WritersAt
<1> QED
  BY <1>3, <1>4, <1>5, <1>6, <1>7 DEF IndexInv

LEMMA CompleteJsonDone ==
  ASSUME IndexInv, iPc = "completeJson", Succeeds(IErase("jsonBak"), "done", [iStage EXCEPT !["json"] = "completed"]), ~IUses("szst")
  PROVE  IndexInv'
<1>0. Kept /\ NoFault /\ iFailed' = iFailed
  BY DoneFacts DEF Succeeds
<1>1. /\ iDisk' \in [IPaths -> Contents] /\ iDisk'["jsonBak"] = "none"
      /\ \A p \in IPaths \ {"jsonBak"} : iDisk'[p] = iDisk[p]
  BY EraseEffect DEF IndexInv, Succeeds
<1>2. /\ iPc' = "done" /\ iStage' \in [IWriters -> Stages]
      /\ iStage'["json"] = "completed" /\ iStage'["szst"] = iStage["szst"]
  BY DEF Succeeds, IndexInv, ITypeOK, Stages
<1>3. ITypeOK' /\ Versions'
  BY <1>0, <1>1, <1>2, VersionsKept DEF IndexInv, ITypeOK, Succeeds, NoFault, Steps
<1>4. Faults' /\ WritersAt' /\ Succeeded'
  BY <1>0, <1>1, <1>2 DEF IndexInv, Kept, NoFault, Faults, WritersAt, Succeeded
<1>5. Temporaries'
  BY <1>0, <1>1, <1>2 DEF IndexInv, Kept, NoFault, Temporaries, Faults, WritersAt
<1>6. JsonAt'
  BY <1>0, <1>1, <1>2 DEF IndexInv, Kept, NoFault, JsonAt, Json, Safe, AtMostOne, Faults, WritersAt
<1>7. PairAt'
  BY <1>0, <1>1, <1>2 DEF IndexInv, Kept, NoFault, PairAt, PairAsBefore,
    Records, Header, Safe, AtMostOne, Faults, WritersAt
<1> QED
  BY <1>3, <1>4, <1>5, <1>6, <1>7 DEF IndexInv

LEMMA CompleteJsonFailed ==
  ASSUME IndexInv, iPc = "completeJson", Fails("close", [iStage EXCEPT !["json"] = "completed"])
  PROVE  IndexInv'
<1>0. Kept /\ OneFault /\ iFailed' = TRUE
  BY FailedFacts DEF Fails
<1>1. iDisk' = iDisk /\ iDisk' \in [IPaths -> Contents]
  BY DEF IndexInv, ITypeOK, Fails
<1>2. /\ iPc' = "close" /\ iStage' \in [IWriters -> Stages]
      /\ iStage'["json"] = "completed" /\ iStage'["szst"] = iStage["szst"]
  BY DEF Fails, IndexInv, ITypeOK, Stages
<1>3. ITypeOK' /\ Versions'
  BY <1>0, <1>1, <1>2, VersionsKept DEF IndexInv, ITypeOK, Fails, OneFault, Steps
<1>4. Faults' /\ WritersAt' /\ Succeeded'
  BY <1>0, <1>1, <1>2 DEF IndexInv, Kept, OneFault, Faults, WritersAt, Succeeded
<1>5. Temporaries'
  BY <1>0, <1>1, <1>2 DEF IndexInv, Kept, OneFault, Temporaries, Faults, WritersAt
<1>6. JsonAt'
  BY <1>0, <1>1, <1>2 DEF IndexInv, Kept, OneFault, JsonAt, Json, Safe, AtMostOne, Faults, WritersAt
<1>7. PairAt'
  BY <1>0, <1>1, <1>2 DEF IndexInv, Kept, OneFault, PairAt, PairAsBefore,
    Records, Header, Safe, AtMostOne, Faults, WritersAt
<1> QED
  BY <1>3, <1>4, <1>5, <1>6, <1>7 DEF IndexInv

LEMMA CompleteRecordsDone ==
  ASSUME IndexInv, iPc = "completeRecords", Succeeds(IErase("recordsBak"), "completeHeader", [iStage EXCEPT !["szst"] = "completed"])
  PROVE  IndexInv'
<1>0. Kept /\ NoFault /\ iFailed' = iFailed
  BY DoneFacts DEF Succeeds
<1>1. /\ iDisk' \in [IPaths -> Contents] /\ iDisk'["recordsBak"] = "none"
      /\ \A p \in IPaths \ {"recordsBak"} : iDisk'[p] = iDisk[p]
  BY EraseEffect DEF IndexInv, Succeeds
<1>2. /\ iPc' = "completeHeader" /\ iStage' \in [IWriters -> Stages]
      /\ iStage'["szst"] = "completed" /\ iStage'["json"] = iStage["json"]
  BY DEF Succeeds, IndexInv, ITypeOK, Stages
<1>3. ITypeOK' /\ Versions'
  BY <1>0, <1>1, <1>2, VersionsKept DEF IndexInv, ITypeOK, Succeeds, NoFault, Steps
<1>4. Faults' /\ WritersAt' /\ Succeeded'
  BY <1>0, <1>1, <1>2 DEF IndexInv, Kept, NoFault, Faults, WritersAt, Succeeded
<1>5. Temporaries'
  BY <1>0, <1>1, <1>2 DEF IndexInv, Kept, NoFault, Temporaries, Faults, WritersAt
<1>6. JsonAt'
  BY <1>0, <1>1, <1>2 DEF IndexInv, Kept, NoFault, JsonAt, Json, Safe, AtMostOne, Faults, WritersAt
<1>7. PairAt'
  BY <1>0, <1>1, <1>2 DEF IndexInv, Kept, NoFault, PairAt, PairAsBefore,
    Records, Header, Safe, AtMostOne, Faults, WritersAt
<1> QED
  BY <1>3, <1>4, <1>5, <1>6, <1>7 DEF IndexInv

LEMMA CompleteRecordsFailed ==
  ASSUME IndexInv, iPc = "completeRecords", Fails("close", [iStage EXCEPT !["szst"] = "completed"])
  PROVE  IndexInv'
<1>0. Kept /\ OneFault /\ iFailed' = TRUE
  BY FailedFacts DEF Fails
<1>1. iDisk' = iDisk /\ iDisk' \in [IPaths -> Contents]
  BY DEF IndexInv, ITypeOK, Fails
<1>2. /\ iPc' = "close" /\ iStage' \in [IWriters -> Stages]
      /\ iStage'["szst"] = "completed" /\ iStage'["json"] = iStage["json"]
  BY DEF Fails, IndexInv, ITypeOK, Stages
<1>3. ITypeOK' /\ Versions'
  BY <1>0, <1>1, <1>2, VersionsKept DEF IndexInv, ITypeOK, Fails, OneFault, Steps
<1>4. Faults' /\ WritersAt' /\ Succeeded'
  BY <1>0, <1>1, <1>2 DEF IndexInv, Kept, OneFault, Faults, WritersAt, Succeeded
<1>5. Temporaries'
  BY <1>0, <1>1, <1>2 DEF IndexInv, Kept, OneFault, Temporaries, Faults, WritersAt
<1>6. JsonAt'
  BY <1>0, <1>1, <1>2 DEF IndexInv, Kept, OneFault, JsonAt, Json, Safe, AtMostOne, Faults, WritersAt
<1>7. PairAt'
  BY <1>0, <1>1, <1>2 DEF IndexInv, Kept, OneFault, PairAt, PairAsBefore,
    Records, Header, Safe, AtMostOne, Faults, WritersAt
<1> QED
  BY <1>3, <1>4, <1>5, <1>6, <1>7 DEF IndexInv

LEMMA CompleteHeaderDone ==
  ASSUME IndexInv, iPc = "completeHeader", Succeeds(IErase("headerBak"), "done", iStage)
  PROVE  IndexInv'
<1>0. Kept /\ NoFault /\ iFailed' = iFailed
  BY DoneFacts DEF Succeeds
<1>1. /\ iDisk' \in [IPaths -> Contents] /\ iDisk'["headerBak"] = "none"
      /\ \A p \in IPaths \ {"headerBak"} : iDisk'[p] = iDisk[p]
  BY EraseEffect DEF IndexInv, Succeeds
<1>2. iPc' = "done" /\ iStage' = iStage /\ iStage \in [IWriters -> Stages]
  BY DEF Succeeds, IndexInv, ITypeOK
<1>3. ITypeOK' /\ Versions'
  BY <1>0, <1>1, <1>2, VersionsKept DEF IndexInv, ITypeOK, Succeeds, NoFault, Steps
<1>4. Faults' /\ WritersAt' /\ Succeeded'
  BY <1>0, <1>1, <1>2 DEF IndexInv, Kept, NoFault, Faults, WritersAt, Succeeded
<1>5. Temporaries'
  BY <1>0, <1>1, <1>2 DEF IndexInv, Kept, NoFault, Temporaries, Faults, WritersAt
<1>6. JsonAt'
  BY <1>0, <1>1, <1>2 DEF IndexInv, Kept, NoFault, JsonAt, Json, Safe, AtMostOne, Faults, WritersAt
<1>7. PairAt'
  BY <1>0, <1>1, <1>2 DEF IndexInv, Kept, NoFault, PairAt, PairAsBefore,
    Records, Header, Safe, AtMostOne, Faults, WritersAt
<1> QED
  BY <1>3, <1>4, <1>5, <1>6, <1>7 DEF IndexInv

LEMMA CompleteHeaderFailed ==
  ASSUME IndexInv, iPc = "completeHeader", Fails("close", iStage)
  PROVE  IndexInv'
<1>0. Kept /\ OneFault /\ iFailed' = TRUE
  BY FailedFacts DEF Fails
<1>1. iDisk' = iDisk /\ iDisk' \in [IPaths -> Contents]
  BY DEF IndexInv, ITypeOK, Fails
<1>2. iPc' = "close" /\ iStage' = iStage /\ iStage \in [IWriters -> Stages]
  BY DEF Fails, IndexInv, ITypeOK
<1>3. ITypeOK' /\ Versions'
  BY <1>0, <1>1, <1>2, VersionsKept DEF IndexInv, ITypeOK, Fails, OneFault, Steps
<1>4. Faults' /\ WritersAt' /\ Succeeded'
  BY <1>0, <1>1, <1>2 DEF IndexInv, Kept, OneFault, Faults, WritersAt, Succeeded
<1>5. Temporaries'
  BY <1>0, <1>1, <1>2 DEF IndexInv, Kept, OneFault, Temporaries, Faults, WritersAt
<1>6. JsonAt'
  BY <1>0, <1>1, <1>2 DEF IndexInv, Kept, OneFault, JsonAt, Json, Safe, AtMostOne, Faults, WritersAt
<1>7. PairAt'
  BY <1>0, <1>1, <1>2 DEF IndexInv, Kept, OneFault, PairAt, PairAsBefore,
    Records, Header, Safe, AtMostOne, Faults, WritersAt
<1> QED
  BY <1>3, <1>4, <1>5, <1>6, <1>7 DEF IndexInv

LEMMA RemoveRecordsDone ==
  ASSUME IndexInv, iPc = "removeRecords", Succeeds(IErase("records"), "removeHeader", iStage)
  PROVE  IndexInv'
<1>0. Kept /\ NoFault /\ iFailed' = iFailed
  BY DoneFacts DEF Succeeds
<1>1. /\ iDisk' \in [IPaths -> Contents] /\ iDisk'["records"] = "none"
      /\ \A p \in IPaths \ {"records"} : iDisk'[p] = iDisk[p]
  BY EraseEffect DEF IndexInv, Succeeds
<1>2. iPc' = "removeHeader" /\ iStage' = iStage /\ iStage \in [IWriters -> Stages]
  BY DEF Succeeds, IndexInv, ITypeOK
<1>3. ITypeOK' /\ Versions'
  BY <1>0, <1>1, <1>2, VersionsKept DEF IndexInv, ITypeOK, Succeeds, NoFault, Steps
<1>4. Faults' /\ WritersAt' /\ Succeeded'
  BY <1>0, <1>1, <1>2 DEF IndexInv, Kept, NoFault, Faults, WritersAt, Succeeded
<1>5. Temporaries'
  BY <1>0, <1>1, <1>2 DEF IndexInv, Kept, NoFault, Temporaries, Faults, WritersAt
<1>6. JsonAt'
  BY <1>0, <1>1, <1>2 DEF IndexInv, Kept, NoFault, JsonAt, Json, Safe, AtMostOne, Faults, WritersAt
<1>7. PairAt'
  BY <1>0, <1>1, <1>2 DEF IndexInv, Kept, NoFault, PairAt, PairAsBefore,
    Records, Header, Safe, AtMostOne, Faults, WritersAt
<1> QED
  BY <1>3, <1>4, <1>5, <1>6, <1>7 DEF IndexInv

LEMMA RemoveRecordsFailed ==
  ASSUME IndexInv, iPc = "removeRecords", Fails("removeHeader", iStage)
  PROVE  IndexInv'
<1>0. Kept /\ OneFault /\ iFailed' = iFailed
  BY FailedFacts DEF Fails
<1>1. iDisk' = iDisk /\ iDisk' \in [IPaths -> Contents]
  BY DEF IndexInv, ITypeOK, Fails
<1>2. iPc' = "removeHeader" /\ iStage' = iStage /\ iStage \in [IWriters -> Stages]
  BY DEF Fails, IndexInv, ITypeOK
<1>3. ITypeOK' /\ Versions'
  BY <1>0, <1>1, <1>2, VersionsKept DEF IndexInv, ITypeOK, Fails, OneFault, Steps
<1>4. Faults' /\ WritersAt' /\ Succeeded'
  BY <1>0, <1>1, <1>2 DEF IndexInv, Kept, OneFault, Faults, WritersAt, Succeeded
<1>5. Temporaries'
  BY <1>0, <1>1, <1>2 DEF IndexInv, Kept, OneFault, Temporaries, Faults, WritersAt
<1>6. JsonAt'
  BY <1>0, <1>1, <1>2 DEF IndexInv, Kept, OneFault, JsonAt, Json, Safe, AtMostOne, Faults, WritersAt
<1>7. PairAt'
  BY <1>0, <1>1, <1>2 DEF IndexInv, Kept, OneFault, PairAt, PairAsBefore,
    Records, Header, Safe, AtMostOne, Faults, WritersAt
<1> QED
  BY <1>3, <1>4, <1>5, <1>6, <1>7 DEF IndexInv

LEMMA RemoveHeaderDone ==
  ASSUME IndexInv, iPc = "removeHeader", Succeeds(IErase("header"), "backRecords", iStage)
  PROVE  IndexInv'
<1>0. Kept /\ NoFault /\ iFailed' = iFailed
  BY DoneFacts DEF Succeeds
<1>1. /\ iDisk' \in [IPaths -> Contents] /\ iDisk'["header"] = "none"
      /\ \A p \in IPaths \ {"header"} : iDisk'[p] = iDisk[p]
  BY EraseEffect DEF IndexInv, Succeeds
<1>2. iPc' = "backRecords" /\ iStage' = iStage /\ iStage \in [IWriters -> Stages]
  BY DEF Succeeds, IndexInv, ITypeOK
<1>3. ITypeOK' /\ Versions'
  BY <1>0, <1>1, <1>2, VersionsKept DEF IndexInv, ITypeOK, Succeeds, NoFault, Steps
<1>4. Faults' /\ WritersAt' /\ Succeeded'
  BY <1>0, <1>1, <1>2 DEF IndexInv, Kept, NoFault, Faults, WritersAt, Succeeded
<1>5. Temporaries'
  BY <1>0, <1>1, <1>2 DEF IndexInv, Kept, NoFault, Temporaries, Faults, WritersAt
<1>6. JsonAt'
  BY <1>0, <1>1, <1>2 DEF IndexInv, Kept, NoFault, JsonAt, Json, Safe, AtMostOne, Faults, WritersAt
<1>7. PairAt'
  BY <1>0, <1>1, <1>2 DEF IndexInv, Kept, NoFault, PairAt, PairAsBefore,
    Records, Header, Safe, AtMostOne, Faults, WritersAt
<1> QED
  BY <1>3, <1>4, <1>5, <1>6, <1>7 DEF IndexInv

LEMMA RemoveHeaderFailed ==
  ASSUME IndexInv, iPc = "removeHeader", Fails("backRecords", iStage)
  PROVE  IndexInv'
<1>0. Kept /\ OneFault /\ iFailed' = iFailed
  BY FailedFacts DEF Fails
<1>1. iDisk' = iDisk /\ iDisk' \in [IPaths -> Contents]
  BY DEF IndexInv, ITypeOK, Fails
<1>2. iPc' = "backRecords" /\ iStage' = iStage /\ iStage \in [IWriters -> Stages]
  BY DEF Fails, IndexInv, ITypeOK
<1>3. ITypeOK' /\ Versions'
  BY <1>0, <1>1, <1>2, VersionsKept DEF IndexInv, ITypeOK, Fails, OneFault, Steps
<1>4. Faults' /\ WritersAt' /\ Succeeded'
  BY <1>0, <1>1, <1>2 DEF IndexInv, Kept, OneFault, Faults, WritersAt, Succeeded
<1>5. Temporaries'
  BY <1>0, <1>1, <1>2 DEF IndexInv, Kept, OneFault, Temporaries, Faults, WritersAt
<1>6. JsonAt'
  BY <1>0, <1>1, <1>2 DEF IndexInv, Kept, OneFault, JsonAt, Json, Safe, AtMostOne, Faults, WritersAt
<1>7. PairAt'
  BY <1>0, <1>1, <1>2 DEF IndexInv, Kept, OneFault, PairAt, PairAsBefore,
    Records, Header, Safe, AtMostOne, Faults, WritersAt
<1> QED
  BY <1>3, <1>4, <1>5, <1>6, <1>7 DEF IndexInv

LEMMA BackRecordsDone ==
  ASSUME IndexInv, iPc = "backRecords", Succeeds(IMove("recordsBak", "records"), "backHeader", iStage)
  PROVE  IndexInv'
<1>0. Kept /\ NoFault /\ iFailed' = iFailed
  BY DoneFacts DEF Succeeds
<1>1. /\ iDisk' \in [IPaths -> Contents] /\ iDisk'["recordsBak"] = "none"
      /\ iDisk'["records"] = (IF iDisk["recordsBak"] = "none" THEN iDisk["records"] ELSE iDisk["recordsBak"])
      /\ \A p \in IPaths \ {"recordsBak", "records"} : iDisk'[p] = iDisk[p]
  BY MoveEffect DEF IndexInv, Succeeds
<1>2. iPc' = "backHeader" /\ iStage' = iStage /\ iStage \in [IWriters -> Stages]
  BY DEF Succeeds, IndexInv, ITypeOK
<1>3. ITypeOK' /\ Versions'
  BY <1>0, <1>1, <1>2, VersionsKept DEF IndexInv, ITypeOK, Succeeds, NoFault, Steps
<1>4. Faults' /\ WritersAt' /\ Succeeded'
  BY <1>0, <1>1, <1>2 DEF IndexInv, Kept, NoFault, Faults, WritersAt, Succeeded
<1>5. Temporaries'
  BY <1>0, <1>1, <1>2 DEF IndexInv, Kept, NoFault, Temporaries, Faults, WritersAt
<1>6. JsonAt'
  BY <1>0, <1>1, <1>2 DEF IndexInv, Kept, NoFault, JsonAt, Json, Safe, AtMostOne, Faults, WritersAt
<1>7. PairAt'
  BY <1>0, <1>1, <1>2 DEF IndexInv, Kept, NoFault, PairAt, PairAsBefore,
    Records, Header, Safe, AtMostOne, Faults, WritersAt
<1> QED
  BY <1>3, <1>4, <1>5, <1>6, <1>7 DEF IndexInv

LEMMA BackRecordsFailed ==
  ASSUME IndexInv, iPc = "backRecords", Fails("backHeader", iStage)
  PROVE  IndexInv'
<1>0. Kept /\ OneFault /\ iFailed' = iFailed
  BY FailedFacts DEF Fails
<1>1. iDisk' = iDisk /\ iDisk' \in [IPaths -> Contents]
  BY DEF IndexInv, ITypeOK, Fails
<1>2. iPc' = "backHeader" /\ iStage' = iStage /\ iStage \in [IWriters -> Stages]
  BY DEF Fails, IndexInv, ITypeOK
<1>3. ITypeOK' /\ Versions'
  BY <1>0, <1>1, <1>2, VersionsKept DEF IndexInv, ITypeOK, Fails, OneFault, Steps
<1>4. Faults' /\ WritersAt' /\ Succeeded'
  BY <1>0, <1>1, <1>2 DEF IndexInv, Kept, OneFault, Faults, WritersAt, Succeeded
<1>5. Temporaries'
  BY <1>0, <1>1, <1>2 DEF IndexInv, Kept, OneFault, Temporaries, Faults, WritersAt
<1>6. JsonAt'
  BY <1>0, <1>1, <1>2 DEF IndexInv, Kept, OneFault, JsonAt, Json, Safe, AtMostOne, Faults, WritersAt
<1>7. PairAt'
  BY <1>0, <1>1, <1>2 DEF IndexInv, Kept, OneFault, PairAt, PairAsBefore,
    Records, Header, Safe, AtMostOne, Faults, WritersAt
<1> QED
  BY <1>3, <1>4, <1>5, <1>6, <1>7 DEF IndexInv

LEMMA BackHeaderDone ==
  ASSUME IndexInv, iPc = "backHeader", Succeeds(IMove("headerBak", "header"), "closeJson", iStage)
  PROVE  IndexInv'
<1>0. Kept /\ NoFault /\ iFailed' = iFailed
  BY DoneFacts DEF Succeeds
<1>1. /\ iDisk' \in [IPaths -> Contents] /\ iDisk'["headerBak"] = "none"
      /\ iDisk'["header"] = (IF iDisk["headerBak"] = "none" THEN iDisk["header"] ELSE iDisk["headerBak"])
      /\ \A p \in IPaths \ {"headerBak", "header"} : iDisk'[p] = iDisk[p]
  BY MoveEffect DEF IndexInv, Succeeds
<1>2. iPc' = "closeJson" /\ iStage' = iStage /\ iStage \in [IWriters -> Stages]
  BY DEF Succeeds, IndexInv, ITypeOK
<1>3. ITypeOK' /\ Versions'
  BY <1>0, <1>1, <1>2, VersionsKept DEF IndexInv, ITypeOK, Succeeds, NoFault, Steps
<1>4. Faults' /\ WritersAt' /\ Succeeded'
  BY <1>0, <1>1, <1>2 DEF IndexInv, Kept, NoFault, Faults, WritersAt, Succeeded
<1>5. Temporaries'
  BY <1>0, <1>1, <1>2 DEF IndexInv, Kept, NoFault, Temporaries, Faults, WritersAt
<1>6. JsonAt'
  BY <1>0, <1>1, <1>2 DEF IndexInv, Kept, NoFault, JsonAt, Json, Safe, AtMostOne, Faults, WritersAt
<1>7. PairAt'
  BY <1>0, <1>1, <1>2 DEF IndexInv, Kept, NoFault, PairAt, PairAsBefore,
    Records, Header, Safe, AtMostOne, Faults, WritersAt
<1> QED
  BY <1>3, <1>4, <1>5, <1>6, <1>7 DEF IndexInv

LEMMA BackHeaderFailed ==
  ASSUME IndexInv, iPc = "backHeader", Fails("closeJson", iStage)
  PROVE  IndexInv'
<1>0. Kept /\ OneFault /\ iFailed' = iFailed
  BY FailedFacts DEF Fails
<1>1. iDisk' = iDisk /\ iDisk' \in [IPaths -> Contents]
  BY DEF IndexInv, ITypeOK, Fails
<1>2. iPc' = "closeJson" /\ iStage' = iStage /\ iStage \in [IWriters -> Stages]
  BY DEF Fails, IndexInv, ITypeOK
<1>3. ITypeOK' /\ Versions'
  BY <1>0, <1>1, <1>2, VersionsKept DEF IndexInv, ITypeOK, Fails, OneFault, Steps
<1>4. Faults' /\ WritersAt' /\ Succeeded'
  BY <1>0, <1>1, <1>2 DEF IndexInv, Kept, OneFault, Faults, WritersAt, Succeeded
<1>5. Temporaries'
  BY <1>0, <1>1, <1>2 DEF IndexInv, Kept, OneFault, Temporaries, Faults, WritersAt
<1>6. JsonAt'
  BY <1>0, <1>1, <1>2 DEF IndexInv, Kept, OneFault, JsonAt, Json, Safe, AtMostOne, Faults, WritersAt
<1>7. PairAt'
  BY <1>0, <1>1, <1>2 DEF IndexInv, Kept, OneFault, PairAt, PairAsBefore,
    Records, Header, Safe, AtMostOne, Faults, WritersAt
<1> QED
  BY <1>3, <1>4, <1>5, <1>6, <1>7 DEF IndexInv

LEMMA EraseHeaderTmpDone ==
  ASSUME IndexInv, iPc = "eraseHeaderTmp", Succeeds(IErase("headerTmp"), "eraseRecordsTmp", iStage)
  PROVE  IndexInv'
<1>0. Kept /\ NoFault /\ iFailed' = iFailed
  BY DoneFacts DEF Succeeds
<1>1. /\ iDisk' \in [IPaths -> Contents] /\ iDisk'["headerTmp"] = "none"
      /\ \A p \in IPaths \ {"headerTmp"} : iDisk'[p] = iDisk[p]
  BY EraseEffect DEF IndexInv, Succeeds
<1>2. iPc' = "eraseRecordsTmp" /\ iStage' = iStage /\ iStage \in [IWriters -> Stages]
  BY DEF Succeeds, IndexInv, ITypeOK
<1>3. ITypeOK' /\ Versions'
  BY <1>0, <1>1, <1>2, VersionsKept DEF IndexInv, ITypeOK, Succeeds, NoFault, Steps
<1>4. Faults' /\ WritersAt' /\ Succeeded'
  BY <1>0, <1>1, <1>2 DEF IndexInv, Kept, NoFault, Faults, WritersAt, Succeeded
<1>5. Temporaries'
  BY <1>0, <1>1, <1>2 DEF IndexInv, Kept, NoFault, Temporaries, Faults, WritersAt
<1>6. JsonAt'
  BY <1>0, <1>1, <1>2 DEF IndexInv, Kept, NoFault, JsonAt, Json, Safe, AtMostOne, Faults, WritersAt
<1>7. PairAt'
  BY <1>0, <1>1, <1>2 DEF IndexInv, Kept, NoFault, PairAt, PairAsBefore,
    Records, Header, Safe, AtMostOne, Faults, WritersAt
<1> QED
  BY <1>3, <1>4, <1>5, <1>6, <1>7 DEF IndexInv

LEMMA EraseHeaderTmpFailed ==
  ASSUME IndexInv, iPc = "eraseHeaderTmp", Fails("eraseRecordsTmp", iStage)
  PROVE  IndexInv'
<1>0. Kept /\ OneFault /\ iFailed' = iFailed
  BY FailedFacts DEF Fails
<1>1. iDisk' = iDisk /\ iDisk' \in [IPaths -> Contents]
  BY DEF IndexInv, ITypeOK, Fails
<1>2. iPc' = "eraseRecordsTmp" /\ iStage' = iStage /\ iStage \in [IWriters -> Stages]
  BY DEF Fails, IndexInv, ITypeOK
<1>3. ITypeOK' /\ Versions'
  BY <1>0, <1>1, <1>2, VersionsKept DEF IndexInv, ITypeOK, Fails, OneFault, Steps
<1>4. Faults' /\ WritersAt' /\ Succeeded'
  BY <1>0, <1>1, <1>2 DEF IndexInv, Kept, OneFault, Faults, WritersAt, Succeeded
<1>5. Temporaries'
  BY <1>0, <1>1, <1>2 DEF IndexInv, Kept, OneFault, Temporaries, Faults, WritersAt
<1>6. JsonAt'
  BY <1>0, <1>1, <1>2 DEF IndexInv, Kept, OneFault, JsonAt, Json, Safe, AtMostOne, Faults, WritersAt
<1>7. PairAt'
  BY <1>0, <1>1, <1>2 DEF IndexInv, Kept, OneFault, PairAt, PairAsBefore,
    Records, Header, Safe, AtMostOne, Faults, WritersAt
<1> QED
  BY <1>3, <1>4, <1>5, <1>6, <1>7 DEF IndexInv

LEMMA EraseRecordsTmpDone ==
  ASSUME IndexInv, iPc = "eraseRecordsTmp", Succeeds(IErase("recordsTmp"), "closeJson", iStage)
  PROVE  IndexInv'
<1>0. Kept /\ NoFault /\ iFailed' = iFailed
  BY DoneFacts DEF Succeeds
<1>1. /\ iDisk' \in [IPaths -> Contents] /\ iDisk'["recordsTmp"] = "none"
      /\ \A p \in IPaths \ {"recordsTmp"} : iDisk'[p] = iDisk[p]
  BY EraseEffect DEF IndexInv, Succeeds
<1>2. iPc' = "closeJson" /\ iStage' = iStage /\ iStage \in [IWriters -> Stages]
  BY DEF Succeeds, IndexInv, ITypeOK
<1>3. ITypeOK' /\ Versions'
  BY <1>0, <1>1, <1>2, VersionsKept DEF IndexInv, ITypeOK, Succeeds, NoFault, Steps
<1>4. Faults' /\ WritersAt' /\ Succeeded'
  BY <1>0, <1>1, <1>2 DEF IndexInv, Kept, NoFault, Faults, WritersAt, Succeeded
<1>5. Temporaries'
  BY <1>0, <1>1, <1>2 DEF IndexInv, Kept, NoFault, Temporaries, Faults, WritersAt
<1>6. JsonAt'
  BY <1>0, <1>1, <1>2 DEF IndexInv, Kept, NoFault, JsonAt, Json, Safe, AtMostOne, Faults, WritersAt
<1>7. PairAt'
  BY <1>0, <1>1, <1>2 DEF IndexInv, Kept, NoFault, PairAt, PairAsBefore,
    Records, Header, Safe, AtMostOne, Faults, WritersAt
<1> QED
  BY <1>3, <1>4, <1>5, <1>6, <1>7 DEF IndexInv

LEMMA EraseRecordsTmpFailed ==
  ASSUME IndexInv, iPc = "eraseRecordsTmp", Fails("closeJson", iStage)
  PROVE  IndexInv'
<1>0. Kept /\ OneFault /\ iFailed' = iFailed
  BY FailedFacts DEF Fails
<1>1. iDisk' = iDisk /\ iDisk' \in [IPaths -> Contents]
  BY DEF IndexInv, ITypeOK, Fails
<1>2. iPc' = "closeJson" /\ iStage' = iStage /\ iStage \in [IWriters -> Stages]
  BY DEF Fails, IndexInv, ITypeOK
<1>3. ITypeOK' /\ Versions'
  BY <1>0, <1>1, <1>2, VersionsKept DEF IndexInv, ITypeOK, Fails, OneFault, Steps
<1>4. Faults' /\ WritersAt' /\ Succeeded'
  BY <1>0, <1>1, <1>2 DEF IndexInv, Kept, OneFault, Faults, WritersAt, Succeeded
<1>5. Temporaries'
  BY <1>0, <1>1, <1>2 DEF IndexInv, Kept, OneFault, Temporaries, Faults, WritersAt
<1>6. JsonAt'
  BY <1>0, <1>1, <1>2 DEF IndexInv, Kept, OneFault, JsonAt, Json, Safe, AtMostOne, Faults, WritersAt
<1>7. PairAt'
  BY <1>0, <1>1, <1>2 DEF IndexInv, Kept, OneFault, PairAt, PairAsBefore,
    Records, Header, Safe, AtMostOne, Faults, WritersAt
<1> QED
  BY <1>3, <1>4, <1>5, <1>6, <1>7 DEF IndexInv

LEMMA RemoveJsonDone ==
  ASSUME IndexInv, iPc = "removeJson", Succeeds(IErase("json"), "backJson", iStage)
  PROVE  IndexInv'
<1>0. Kept /\ NoFault /\ iFailed' = iFailed
  BY DoneFacts DEF Succeeds
<1>1. /\ iDisk' \in [IPaths -> Contents] /\ iDisk'["json"] = "none"
      /\ \A p \in IPaths \ {"json"} : iDisk'[p] = iDisk[p]
  BY EraseEffect DEF IndexInv, Succeeds
<1>2. iPc' = "backJson" /\ iStage' = iStage /\ iStage \in [IWriters -> Stages]
  BY DEF Succeeds, IndexInv, ITypeOK
<1>3. ITypeOK' /\ Versions'
  BY <1>0, <1>1, <1>2, VersionsKept DEF IndexInv, ITypeOK, Succeeds, NoFault, Steps
<1>4. Faults' /\ WritersAt' /\ Succeeded'
  BY <1>0, <1>1, <1>2 DEF IndexInv, Kept, NoFault, Faults, WritersAt, Succeeded
<1>5. Temporaries'
  BY <1>0, <1>1, <1>2 DEF IndexInv, Kept, NoFault, Temporaries, Faults, WritersAt
<1>6. JsonAt'
  BY <1>0, <1>1, <1>2 DEF IndexInv, Kept, NoFault, JsonAt, Json, Safe, AtMostOne, Faults, WritersAt
<1>7. PairAt'
  BY <1>0, <1>1, <1>2 DEF IndexInv, Kept, NoFault, PairAt, PairAsBefore,
    Records, Header, Safe, AtMostOne, Faults, WritersAt
<1> QED
  BY <1>3, <1>4, <1>5, <1>6, <1>7 DEF IndexInv

LEMMA RemoveJsonFailed ==
  ASSUME IndexInv, iPc = "removeJson", Fails("backJson", iStage)
  PROVE  IndexInv'
<1>0. Kept /\ OneFault /\ iFailed' = iFailed
  BY FailedFacts DEF Fails
<1>1. iDisk' = iDisk /\ iDisk' \in [IPaths -> Contents]
  BY DEF IndexInv, ITypeOK, Fails
<1>2. iPc' = "backJson" /\ iStage' = iStage /\ iStage \in [IWriters -> Stages]
  BY DEF Fails, IndexInv, ITypeOK
<1>3. ITypeOK' /\ Versions'
  BY <1>0, <1>1, <1>2, VersionsKept DEF IndexInv, ITypeOK, Fails, OneFault, Steps
<1>4. Faults' /\ WritersAt' /\ Succeeded'
  BY <1>0, <1>1, <1>2 DEF IndexInv, Kept, OneFault, Faults, WritersAt, Succeeded
<1>5. Temporaries'
  BY <1>0, <1>1, <1>2 DEF IndexInv, Kept, OneFault, Temporaries, Faults, WritersAt
<1>6. JsonAt'
  BY <1>0, <1>1, <1>2 DEF IndexInv, Kept, OneFault, JsonAt, Json, Safe, AtMostOne, Faults, WritersAt
<1>7. PairAt'
  BY <1>0, <1>1, <1>2 DEF IndexInv, Kept, OneFault, PairAt, PairAsBefore,
    Records, Header, Safe, AtMostOne, Faults, WritersAt
<1> QED
  BY <1>3, <1>4, <1>5, <1>6, <1>7 DEF IndexInv

LEMMA BackJsonDone ==
  ASSUME IndexInv, iPc = "backJson", Succeeds(IMove("jsonBak", "json"), "eraseJsonTmp", iStage)
  PROVE  IndexInv'
<1>0. Kept /\ NoFault /\ iFailed' = iFailed
  BY DoneFacts DEF Succeeds
<1>1. /\ iDisk' \in [IPaths -> Contents] /\ iDisk'["jsonBak"] = "none"
      /\ iDisk'["json"] = (IF iDisk["jsonBak"] = "none" THEN iDisk["json"] ELSE iDisk["jsonBak"])
      /\ \A p \in IPaths \ {"jsonBak", "json"} : iDisk'[p] = iDisk[p]
  BY MoveEffect DEF IndexInv, Succeeds
<1>2. iPc' = "eraseJsonTmp" /\ iStage' = iStage /\ iStage \in [IWriters -> Stages]
  BY DEF Succeeds, IndexInv, ITypeOK
<1>3. ITypeOK' /\ Versions'
  BY <1>0, <1>1, <1>2, VersionsKept DEF IndexInv, ITypeOK, Succeeds, NoFault, Steps
<1>4. Faults' /\ WritersAt' /\ Succeeded'
  BY <1>0, <1>1, <1>2 DEF IndexInv, Kept, NoFault, Faults, WritersAt, Succeeded
<1>5. Temporaries'
  BY <1>0, <1>1, <1>2 DEF IndexInv, Kept, NoFault, Temporaries, Faults, WritersAt
<1>6. JsonAt'
  BY <1>0, <1>1, <1>2 DEF IndexInv, Kept, NoFault, JsonAt, Json, Safe, AtMostOne, Faults, WritersAt
<1>7. PairAt'
  BY <1>0, <1>1, <1>2 DEF IndexInv, Kept, NoFault, PairAt, PairAsBefore,
    Records, Header, Safe, AtMostOne, Faults, WritersAt
<1> QED
  BY <1>3, <1>4, <1>5, <1>6, <1>7 DEF IndexInv

LEMMA BackJsonFailed ==
  ASSUME IndexInv, iPc = "backJson", Fails("eraseJsonTmp", iStage)
  PROVE  IndexInv'
<1>0. Kept /\ OneFault /\ iFailed' = iFailed
  BY FailedFacts DEF Fails
<1>1. iDisk' = iDisk /\ iDisk' \in [IPaths -> Contents]
  BY DEF IndexInv, ITypeOK, Fails
<1>2. iPc' = "eraseJsonTmp" /\ iStage' = iStage /\ iStage \in [IWriters -> Stages]
  BY DEF Fails, IndexInv, ITypeOK
<1>3. ITypeOK' /\ Versions'
  BY <1>0, <1>1, <1>2, VersionsKept DEF IndexInv, ITypeOK, Fails, OneFault, Steps
<1>4. Faults' /\ WritersAt' /\ Succeeded'
  BY <1>0, <1>1, <1>2 DEF IndexInv, Kept, OneFault, Faults, WritersAt, Succeeded
<1>5. Temporaries'
  BY <1>0, <1>1, <1>2 DEF IndexInv, Kept, OneFault, Temporaries, Faults, WritersAt
<1>6. JsonAt'
  BY <1>0, <1>1, <1>2 DEF IndexInv, Kept, OneFault, JsonAt, Json, Safe, AtMostOne, Faults, WritersAt
<1>7. PairAt'
  BY <1>0, <1>1, <1>2 DEF IndexInv, Kept, OneFault, PairAt, PairAsBefore,
    Records, Header, Safe, AtMostOne, Faults, WritersAt
<1> QED
  BY <1>3, <1>4, <1>5, <1>6, <1>7 DEF IndexInv

LEMMA EraseJsonTmpDone ==
  ASSUME IndexInv, iPc = "eraseJsonTmp", Succeeds(IErase("jsonTmp"), "done", iStage)
  PROVE  IndexInv'
<1>0. Kept /\ NoFault /\ iFailed' = iFailed
  BY DoneFacts DEF Succeeds
<1>1. /\ iDisk' \in [IPaths -> Contents] /\ iDisk'["jsonTmp"] = "none"
      /\ \A p \in IPaths \ {"jsonTmp"} : iDisk'[p] = iDisk[p]
  BY EraseEffect DEF IndexInv, Succeeds
<1>2. iPc' = "done" /\ iStage' = iStage /\ iStage \in [IWriters -> Stages]
  BY DEF Succeeds, IndexInv, ITypeOK
<1>3. ITypeOK' /\ Versions'
  BY <1>0, <1>1, <1>2, VersionsKept DEF IndexInv, ITypeOK, Succeeds, NoFault, Steps
<1>4. Faults' /\ WritersAt' /\ Succeeded'
  BY <1>0, <1>1, <1>2 DEF IndexInv, Kept, NoFault, Faults, WritersAt, Succeeded
<1>5. Temporaries'
  BY <1>0, <1>1, <1>2 DEF IndexInv, Kept, NoFault, Temporaries, Faults, WritersAt
<1>6. JsonAt'
  BY <1>0, <1>1, <1>2 DEF IndexInv, Kept, NoFault, JsonAt, Json, Safe, AtMostOne, Faults, WritersAt
<1>7. PairAt'
  BY <1>0, <1>1, <1>2 DEF IndexInv, Kept, NoFault, PairAt, PairAsBefore,
    Records, Header, Safe, AtMostOne, Faults, WritersAt
<1> QED
  BY <1>3, <1>4, <1>5, <1>6, <1>7 DEF IndexInv

LEMMA EraseJsonTmpFailed ==
  ASSUME IndexInv, iPc = "eraseJsonTmp", Fails("done", iStage)
  PROVE  IndexInv'
<1>0. Kept /\ OneFault /\ iFailed' = iFailed
  BY FailedFacts DEF Fails
<1>1. iDisk' = iDisk /\ iDisk' \in [IPaths -> Contents]
  BY DEF IndexInv, ITypeOK, Fails
<1>2. iPc' = "done" /\ iStage' = iStage /\ iStage \in [IWriters -> Stages]
  BY DEF Fails, IndexInv, ITypeOK
<1>3. ITypeOK' /\ Versions'
  BY <1>0, <1>1, <1>2, VersionsKept DEF IndexInv, ITypeOK, Fails, OneFault, Steps
<1>4. Faults' /\ WritersAt' /\ Succeeded'
  BY <1>0, <1>1, <1>2 DEF IndexInv, Kept, OneFault, Faults, WritersAt, Succeeded
<1>5. Temporaries'
  BY <1>0, <1>1, <1>2 DEF IndexInv, Kept, OneFault, Temporaries, Faults, WritersAt
<1>6. JsonAt'
  BY <1>0, <1>1, <1>2 DEF IndexInv, Kept, OneFault, JsonAt, Json, Safe, AtMostOne, Faults, WritersAt
<1>7. PairAt'
  BY <1>0, <1>1, <1>2 DEF IndexInv, Kept, OneFault, PairAt, PairAsBefore,
    Records, Header, Safe, AtMostOne, Faults, WritersAt
<1> QED
  BY <1>3, <1>4, <1>5, <1>6, <1>7 DEF IndexInv

-------------------------------------------------------------------------------
(* The four file programs.                                                 *)

LEMMA JsonCommitKeeps ==
  ASSUME IndexInv, IRun(ICommitJson)
  PROVE  IndexInv'
<1>1. CASE iPc = "stageJson"
  <2>1. \/ Succeeds(IMove("json", "jsonBak"), "publishJson", iStage)
        \/ Fails("close", iStage)
    BY <1>1 DEF IRun, ICommitJson, IDo, IFlags, IGoto, Succeeds, Fails
  <2> QED
    BY <1>1, <2>1, StageJsonDone, StageJsonFailed
<1>2. CASE iPc = "publishJson"
  <2>1. \/ Succeeds(IMove("jsonTmp", "json"), IAfterJson, [iStage EXCEPT !["json"] = "committed"])
        \/ Fails("restoreJson", iStage)
    BY <1>2 DEF IRun, ICommitJson, IDo, IFlags, IGoto, Succeeds, Fails
  <2> QED
    BY <1>2, <2>1, PublishJsonDoneThen, PublishJsonDone, PublishJsonFailed DEF IAfterJson
<1>3. CASE iPc = "restoreJson"
  <2>1. \/ Succeeds(IMove("jsonBak", "json"), "close", iStage)
        \/ Fails("close", iStage)
    BY <1>3 DEF IRun, ICommitJson, IDo, IFlags, IGoto, Succeeds, Fails
  <2> QED
    BY <1>3, <2>1, RestoreJsonDone, RestoreJsonFailed
<1> QED
  BY <1>1, <1>2, <1>3 DEF IRun, ICommitJson

LEMMA PairCommitKeeps ==
  ASSUME IndexInv, IRun(ICommitPair)
  PROVE  IndexInv'
<1>1. CASE iPc = "stageRecords"
  <2>1. \/ Succeeds(IMove("records", "recordsBak"), "stageHeader", iStage)
        \/ Fails("close", iStage)
    BY <1>1 DEF IRun, ICommitPair, IDo, IFlags, IGoto, Succeeds, Fails
  <2> QED
    BY <1>1, <2>1, StageRecordsDone, StageRecordsFailed
<1>2. CASE iPc = "stageHeader"
  <2>1. \/ Succeeds(IMove("header", "headerBak"), "publishRecords", iStage)
        \/ Fails("unstageRecords", iStage)
    BY <1>2 DEF IRun, ICommitPair, IDo, IFlags, IGoto, Succeeds, Fails
  <2> QED
    BY <1>2, <2>1, StageHeaderDone, StageHeaderFailed
<1>3. CASE iPc = "unstageRecords"
  <2>1. \/ Succeeds(IMove("recordsBak", "records"), "close", iStage)
        \/ Fails("close", iStage)
    BY <1>3 DEF IRun, ICommitPair, IDo, IFlags, IGoto, Succeeds, Fails
  <2> QED
    BY <1>3, <2>1, UnstageRecordsDone, UnstageRecordsFailed
<1>4. CASE iPc = "publishRecords"
  <2>1. \/ Succeeds(IMove("recordsTmp", "records"), "publishHeader", iStage)
        \/ Fails("restoreRecords", iStage)
    BY <1>4 DEF IRun, ICommitPair, IDo, IFlags, IGoto, Succeeds, Fails
  <2> QED
    BY <1>4, <2>1, PublishRecordsDone, PublishRecordsFailed
<1>5. CASE iPc = "publishHeader"
  <2>1. \/ Succeeds(IMove("headerTmp", "header"), IAfterPair, [iStage EXCEPT !["szst"] = "committed"])
        \/ Fails("dropRecords", iStage)
    BY <1>5 DEF IRun, ICommitPair, IDo, IFlags, IGoto, Succeeds, Fails
  <2> QED
    BY <1>5, <2>1, PublishHeaderDoneThen, PublishHeaderDone, PublishHeaderFailed DEF IAfterPair
<1>6. CASE iPc = "dropRecords"
  <2>1. \/ Succeeds(IErase("records"), "restoreRecords", iStage)
        \/ Fails("restoreRecords", iStage)
    BY <1>6 DEF IRun, ICommitPair, IDo, IFlags, IGoto, Succeeds, Fails
  <2> QED
    BY <1>6, <2>1, DropRecordsDone, DropRecordsFailed
<1>7. CASE iPc = "restoreRecords"
  <2>1. \/ Succeeds(IMove("recordsBak", "records"), "restoreHeader", iStage)
        \/ Fails("restoreHeader", iStage)
    BY <1>7 DEF IRun, ICommitPair, IDo, IFlags, IGoto, Succeeds, Fails
  <2> QED
    BY <1>7, <2>1, RestoreRecordsDone, RestoreRecordsFailed
<1>8. CASE iPc = "restoreHeader"
  <2>1. \/ Succeeds(IMove("headerBak", "header"), "close", iStage)
        \/ Fails("close", iStage)
    BY <1>8 DEF IRun, ICommitPair, IDo, IFlags, IGoto, Succeeds, Fails
  <2> QED
    BY <1>8, <2>1, RestoreHeaderDone, RestoreHeaderFailed
<1> QED
  BY <1>1, <1>2, <1>3, <1>4, <1>5, <1>6, <1>7, <1>8 DEF IRun, ICommitPair

LEMMA CompleteKeeps ==
  ASSUME IndexInv, IRun(IComplete)
  PROVE  IndexInv'
<1>1. CASE iPc = "completeJson"
  <2>1. \/ Succeeds(IErase("jsonBak"), IAfterComplete, [iStage EXCEPT !["json"] = "completed"])
        \/ Fails("close", [iStage EXCEPT !["json"] = "completed"])
    BY <1>1 DEF IRun, IComplete, IDo, IFlags, IGoto, Succeeds, Fails
  <2> QED
    BY <1>1, <2>1, CompleteJsonDoneThen, CompleteJsonDone, CompleteJsonFailed DEF IAfterComplete
<1>2. CASE iPc = "completeRecords"
  <2>1. \/ Succeeds(IErase("recordsBak"), "completeHeader", [iStage EXCEPT !["szst"] = "completed"])
        \/ Fails("close", [iStage EXCEPT !["szst"] = "completed"])
    BY <1>2 DEF IRun, IComplete, IDo, IFlags, IGoto, Succeeds, Fails
  <2> QED
    BY <1>2, <2>1, CompleteRecordsDone, CompleteRecordsFailed
<1>3. CASE iPc = "completeHeader"
  <2>1. \/ Succeeds(IErase("headerBak"), "done", iStage)
        \/ Fails("close", iStage)
    BY <1>3 DEF IRun, IComplete, IDo, IFlags, IGoto, Succeeds, Fails
  <2> QED
    BY <1>3, <2>1, CompleteHeaderDone, CompleteHeaderFailed
<1> QED
  BY <1>1, <1>2, <1>3 DEF IRun, IComplete

LEMMA CloseStepsKeep ==
  ASSUME IndexInv, IRun(ICloseSteps)
  PROVE  IndexInv'
<1>1. CASE iPc = "removeRecords"
  <2>1. \/ Succeeds(IErase("records"), "removeHeader", iStage)
        \/ Fails("removeHeader", iStage)
    BY <1>1 DEF IRun, ICloseSteps, IDo, IFlags, IGoto, Succeeds, Fails
  <2> QED
    BY <1>1, <2>1, RemoveRecordsDone, RemoveRecordsFailed
<1>2. CASE iPc = "removeHeader"
  <2>1. \/ Succeeds(IErase("header"), "backRecords", iStage)
        \/ Fails("backRecords", iStage)
    BY <1>2 DEF IRun, ICloseSteps, IDo, IFlags, IGoto, Succeeds, Fails
  <2> QED
    BY <1>2, <2>1, RemoveHeaderDone, RemoveHeaderFailed
<1>3. CASE iPc = "backRecords"
  <2>1. \/ Succeeds(IMove("recordsBak", "records"), "backHeader", iStage)
        \/ Fails("backHeader", iStage)
    BY <1>3 DEF IRun, ICloseSteps, IDo, IFlags, IGoto, Succeeds, Fails
  <2> QED
    BY <1>3, <2>1, BackRecordsDone, BackRecordsFailed
<1>4. CASE iPc = "backHeader"
  <2>1. \/ Succeeds(IMove("headerBak", "header"), "closeJson", iStage)
        \/ Fails("closeJson", iStage)
    BY <1>4 DEF IRun, ICloseSteps, IDo, IFlags, IGoto, Succeeds, Fails
  <2> QED
    BY <1>4, <2>1, BackHeaderDone, BackHeaderFailed
<1>5. CASE iPc = "eraseHeaderTmp"
  <2>1. \/ Succeeds(IErase("headerTmp"), "eraseRecordsTmp", iStage)
        \/ Fails("eraseRecordsTmp", iStage)
    BY <1>5 DEF IRun, ICloseSteps, IDo, IFlags, IGoto, Succeeds, Fails
  <2> QED
    BY <1>5, <2>1, EraseHeaderTmpDone, EraseHeaderTmpFailed
<1>6. CASE iPc = "eraseRecordsTmp"
  <2>1. \/ Succeeds(IErase("recordsTmp"), "closeJson", iStage)
        \/ Fails("closeJson", iStage)
    BY <1>6 DEF IRun, ICloseSteps, IDo, IFlags, IGoto, Succeeds, Fails
  <2> QED
    BY <1>6, <2>1, EraseRecordsTmpDone, EraseRecordsTmpFailed
<1>7. CASE iPc = "removeJson"
  <2>1. \/ Succeeds(IErase("json"), "backJson", iStage)
        \/ Fails("backJson", iStage)
    BY <1>7 DEF IRun, ICloseSteps, IDo, IFlags, IGoto, Succeeds, Fails
  <2> QED
    BY <1>7, <2>1, RemoveJsonDone, RemoveJsonFailed
<1>8. CASE iPc = "backJson"
  <2>1. \/ Succeeds(IMove("jsonBak", "json"), "eraseJsonTmp", iStage)
        \/ Fails("eraseJsonTmp", iStage)
    BY <1>8 DEF IRun, ICloseSteps, IDo, IFlags, IGoto, Succeeds, Fails
  <2> QED
    BY <1>8, <2>1, BackJsonDone, BackJsonFailed
<1>9. CASE iPc = "eraseJsonTmp"
  <2>1. \/ Succeeds(IErase("jsonTmp"), "done", iStage)
        \/ Fails("done", iStage)
    BY <1>9 DEF IRun, ICloseSteps, IDo, IFlags, IGoto, Succeeds, Fails
  <2> QED
    BY <1>9, <2>1, EraseJsonTmpDone, EraseJsonTmpFailed
<1> QED
  BY <1>1, <1>2, <1>3, <1>4, <1>5, <1>6, <1>7, <1>8, <1>9 DEF IRun, ICloseSteps

-------------------------------------------------------------------------------
(* The other actions.                                                      *)

(* A pass that fails, or a source that changed under it, before a final    *)
(* path is touched.                                                        *)
LEMMA EarlyFails ==
  ASSUME IndexInv, iPc \in Early, UNCHANGED <<iOpts, iPrior, iStage, iDisk>>, IFail, IFault \/ IWell, Versions'
  PROVE  IndexInv'
<1>0. Kept
  BY OptionsKept DEF IndexInv, Kept
<1>1. \/ OneFault
      \/ NoFault
  BY FaultEffect, NoFaultEffect DEF IndexInv, OneFault, NoFault
<1>2. iPc' = "close" /\ iFailed' = TRUE /\ iDisk' = iDisk /\ iStage' = iStage
  BY DEF IFail
<1>3. ITypeOK'
  BY <1>1, <1>2 DEF IndexInv, ITypeOK, OneFault, NoFault, Steps
<1>4. Faults' /\ WritersAt' /\ Succeeded'
  BY <1>0, <1>1, <1>2 DEF IndexInv, Kept, OneFault, NoFault, Faults, WritersAt, Succeeded
<1>5. Temporaries'
  BY <1>0, <1>1, <1>2 DEF IndexInv, Temporaries, WritersAt
<1>6. JsonAt'
  BY <1>0, <1>2 DEF IndexInv, ITypeOK, Stages, Kept, JsonAt, Json, Safe, WritersAt
<1>7. PairAt'
  BY <1>0, <1>2 DEF IndexInv, ITypeOK, Stages, Kept, PairAt, PairAsBefore, Records, Header, Safe, WritersAt
<1> QED
  BY <1>3, <1>4, <1>5, <1>6, <1>7 DEF IndexInv

(* A pass that goes on.                                                    *)
LEMMA EarlyGoesOn ==
  ASSUME IndexInv, iPc \in Early, UNCHANGED <<iOpts, iPrior, iStage, iDisk, iFailed>>, IWell,
         iPc' \in Early, WritersAt', Versions'
  PROVE  IndexInv'
<1>0. Kept
  BY OptionsKept DEF IndexInv, Kept
<1>1. NoFault
  BY NoFaultEffect DEF IndexInv, NoFault
<1>2. iFailed' = iFailed /\ iDisk' = iDisk /\ iStage' = iStage
  OBVIOUS
<1>3. ITypeOK' /\ Faults' /\ Succeeded'
  BY <1>1, <1>2 DEF IndexInv, ITypeOK, NoFault, Faults, Succeeded, Steps
<1>4. Temporaries'
  BY <1>0, <1>1, <1>2 DEF IndexInv, Temporaries
<1>5. JsonAt'
  BY <1>0, <1>2 DEF IndexInv, Kept, JsonAt, Json, Safe
<1>6. PairAt'
  BY <1>0, <1>2 DEF IndexInv, Kept, PairAt, PairAsBefore, Records, Header, Safe
<1> QED
  BY <1>3, <1>4, <1>5, <1>6 DEF IndexInv

LEMMA FirstPassKeeps ==
  ASSUME IndexInv, NEW pc \in {"contexts", "start"}, IFirstPass(pc)
  PROVE  IndexInv'
<1>1. CASE IFault /\ IFail /\ UNCHANGED <<iHash, iSince>>
  BY <1>1, EarlyFails DEF IFirstPass, IndexInv, Versions, IFail
<1>2. CASE IWell /\ iHash' = iSrc /\ iSince' = 0 /\ UNCHANGED iFailed /\ IGoto(pc)
  <2>1. WritersAt'
    BY <1>2, OptionsKept DEF IFirstPass, IGoto, IndexInv, Faults, WritersAt
  <2>2. Versions'
    BY <1>2 DEF IFirstPass, IGoto, IndexInv, Versions
  <2> QED
    BY <1>2, <2>1, <2>2, EarlyGoesOn DEF IFirstPass, IGoto
<1> QED
  BY <1>1, <1>2 DEF IFirstPass

LEMMA CollectContextsKeeps ==
  ASSUME IndexInv, ICollectContexts
  PROVE  IndexInv'
<1>1. CASE IFault /\ IFail
  BY <1>1, EarlyFails DEF ICollectContexts, IndexInv, Versions, IFail
<1>2. CASE IWell /\ IGoto("start") /\ UNCHANGED iFailed
  <2>1. WritersAt'
    BY <1>2, OptionsKept DEF ICollectContexts, IGoto, IndexInv, Faults, WritersAt
  <2>2. Versions'
    BY <1>2 DEF ICollectContexts, IGoto, IndexInv, Versions
  <2> QED
    BY <1>2, <2>1, <2>2, EarlyGoesOn DEF ICollectContexts, IGoto
<1> QED
  BY <1>1, <1>2 DEF ICollectContexts

(* The record pass.  The source may change while it is read; as long as it *)
(* has not, every record is of the content that was hashed.                *)
LEMMA RecordKeeps ==
  ASSUME IndexInv, IRecord
  PROVE  IndexInv'
<1>1. CASE IFault /\ IFail /\ UNCHANGED iRead
  BY <1>1, EarlyFails DEF IRecord, IndexInv, Versions, IFail
<1>2. CASE IWell /\ iRead' = Append(iRead, iSrc) /\ UNCHANGED <<iPc, iFailed>>
  <2>1. WritersAt'
    BY <1>2, OptionsKept DEF IRecord, IndexInv, Faults, WritersAt
  <2>2. /\ iSrc \in Nat /\ iRead \in Seq(Nat)
        /\ ~iFailed /\ iSince = 0 => iSrc = iHash /\ \A i \in DOMAIN iRead : iRead[i] = iHash
    BY DEF IndexInv, Versions, IRecord
  <2>3. /\ iRead' \in Seq(Nat) /\ DOMAIN iRead' = 1..Len(iRead) + 1 /\ DOMAIN iRead = 1..Len(iRead)
        /\ iRead'[Len(iRead) + 1] = iSrc /\ Len(iRead) \in Nat
        /\ \A i \in 1..Len(iRead) : iRead'[i] = iRead[i]
    BY <1>2, <2>2
  <2>4. ~iFailed /\ iSince = 0 => \A i \in DOMAIN iRead' : iRead'[i] = iHash
    <3>1. ASSUME ~iFailed, iSince = 0, NEW i \in DOMAIN iRead' PROVE iRead'[i] = iHash
      <4>1. CASE i = Len(iRead) + 1
        BY <2>2, <2>3, <3>1, <4>1
      <4>2. CASE i \in 1..Len(iRead)
        BY <2>2, <2>3, <3>1, <4>2
      <4> QED
        BY <2>3, <3>1, <4>1, <4>2
    <3> QED
      BY <3>1
  <2>5. Versions'
    BY <1>2, <2>3, <2>4 DEF IRecord, IndexInv, Versions
  <2> QED
    BY <1>2, <2>1, <2>5, EarlyGoesOn DEF IRecord
<1> QED
  BY <1>1, <1>2 DEF IRecord

LEMMA RehashKeeps ==
  ASSUME IndexInv, IRehash
  PROVE  IndexInv'
<1>1. CASE (IFault \/ IWell) /\ IFail
  BY <1>1, EarlyFails DEF IRehash, IndexInv, Versions, IFail
<1>2. CASE IWell /\ (iOpts.format = "json" => iSrc = iHash) /\ IGoto("prepare") /\ UNCHANGED iFailed
  <2>1. WritersAt'
    BY <1>2, OptionsKept DEF IRehash, IGoto, IndexInv, Faults, WritersAt
  <2>2. Versions'
    BY <1>2 DEF IRehash, IGoto, IndexInv, Versions
  <2> QED
    BY <1>2, <2>1, <2>2, EarlyGoesOn DEF IRehash, IGoto
<1> QED
  BY <1>1, <1>2 DEF IRehash

LEMMA StartKeeps ==
  ASSUME IndexInv, NEW w \in IWriters, IStart(w)
  PROVE  IndexInv'
<1>0. Kept
  BY OptionsKept DEF IndexInv, IStart, Kept
<1>1. CASE IFault /\ IFail /\ UNCHANGED <<iStage, iDisk>>
  BY <1>1, EarlyFails DEF IStart, IndexInv, Versions, IFail
<1>2. CASE /\ IWell /\ iStage' = [iStage EXCEPT ![w] = "started"]
           /\ iDisk' = [iDisk EXCEPT ![IFirstFile[w]] = "new"]
           /\ IGoto(IF \A v \in IWriters : IUses(v) => iStage'[v] = "started" THEN "scan" ELSE "start")
           /\ UNCHANGED iFailed
  <2>1. NoFault
    BY <1>2, NoFaultEffect DEF IndexInv, NoFault
  <2>2. /\ iPc = "start" /\ iPc' \in {"start", "scan"} /\ iFailed' = iFailed /\ IUses(w) /\ iStage[w] = "idle"
        /\ iPc' = "scan" => \A v \in IWriters : IUses(v) => iStage'[v] = "started"
    BY <1>2 DEF IStart, IGoto
  <2>3. /\ iStage' \in [IWriters -> Stages] /\ iStage'[w] = "started"
        /\ \A v \in IWriters \ {w} : iStage'[v] = iStage[v]
    BY <1>2 DEF IndexInv, ITypeOK, Stages
  <2>4. /\ iDisk' \in [IPaths -> Contents]
        /\ w = "json" => iDisk'["jsonTmp"] = "new" /\ \A p \in IPaths \ {"jsonTmp"} : iDisk'[p] = iDisk[p]
        /\ w = "szst" => iDisk'["recordsTmp"] = "new" /\ \A p \in IPaths \ {"recordsTmp"} : iDisk'[p] = iDisk[p]
    BY <1>2 DEF IndexInv, ITypeOK, Contents, IFirstFile
  <2>5. ITypeOK' /\ Versions'
    BY <2>1, <2>2, <2>3, <2>4 DEF IStart, IndexInv, ITypeOK, Versions, NoFault, Steps
  <2>6. Faults' /\ WritersAt' /\ Succeeded'
    BY <1>0, <2>1, <2>2, <2>3 DEF IndexInv, Kept, NoFault, Faults, WritersAt, Succeeded
  <2>7. Temporaries'
    BY <2>1, <2>2, <2>3, <2>4 DEF IndexInv, Temporaries, WritersAt
  <2>8. JsonAt'
    BY <1>0, <2>2, <2>3, <2>4 DEF IndexInv, Kept, JsonAt, Json, Safe, WritersAt
  <2>9. PairAt'
    BY <1>0, <2>2, <2>3, <2>4 DEF IndexInv, Kept, PairAt, PairAsBefore, Records, Header, Safe, WritersAt
  <2> QED
    BY <2>5, <2>6, <2>7, <2>8, <2>9 DEF IndexInv
<1> QED
  BY <1>1, <1>2 DEF IStart

LEMMA PrepareKeeps ==
  ASSUME IndexInv, NEW w \in IWriters, IPrepare(w)
  PROVE  IndexInv'
<1>0. Kept
  BY OptionsKept DEF IndexInv, IPrepare, Kept
<1>1. CASE IFault /\ IFail /\ UNCHANGED iStage /\ iDisk' \in IUnprepared(w)
  <2>1. CASE iDisk' = iDisk
    BY <1>1, <2>1, EarlyFails DEF IPrepare, IndexInv, Versions, IFail
  <2>2. CASE w = "szst" /\ iDisk' = IErase("recordsTmp")
    <3>1. OneFault
      BY <1>1, FaultEffect DEF IndexInv, OneFault
    <3>2. /\ iPc = "prepare" /\ iPc' = "close" /\ iFailed' = TRUE /\ iStage' = iStage
          /\ iStage["szst"] = "started"
      BY <1>1, <2>2 DEF IPrepare, IFail
    <3>3. /\ iDisk' \in [IPaths -> Contents] /\ iDisk'["recordsTmp"] = "none"
          /\ \A p \in IPaths \ {"recordsTmp"} : iDisk'[p] = iDisk[p]
      BY <2>2, EraseEffect DEF IndexInv
    <3>4. ITypeOK' /\ Versions'
      BY <3>1, <3>2, <3>3 DEF IPrepare, IndexInv, ITypeOK, Versions, OneFault, Steps
    <3>5. Faults' /\ WritersAt' /\ Succeeded'
      BY <1>0, <3>1, <3>2 DEF IndexInv, Kept, OneFault, Faults, WritersAt, Succeeded
    <3>6. Temporaries'
      BY <3>2, <3>3 DEF IndexInv, Temporaries
    <3>7. JsonAt'
      BY <1>0, <3>2, <3>3 DEF IndexInv, ITypeOK, Stages, Kept, JsonAt, Json, Safe, WritersAt
    <3>8. PairAt'
      BY <1>0, <3>2, <3>3 DEF IndexInv, Kept, PairAt, PairAsBefore, Records, Header, Safe
    <3> QED
      BY <3>4, <3>5, <3>6, <3>7, <3>8 DEF IndexInv
  <2> QED
    BY <1>1, <2>1, <2>2 DEF IUnprepared
<1>2. CASE /\ IWell /\ iStage' = [iStage EXCEPT ![w] = "prepared"]
           /\ iDisk' = IF w = "szst" THEN [iDisk EXCEPT !["headerTmp"] = "new"] ELSE iDisk
           /\ IGoto(IF \A v \in IWriters : IUses(v) => iStage'[v] = "prepared" THEN IAfterPrepare ELSE "prepare")
           /\ UNCHANGED iFailed
  <2>1. NoFault
    BY <1>2, NoFaultEffect DEF IndexInv, NoFault
  <2>2. /\ iPc = "prepare" /\ iFailed' = iFailed /\ IUses(w) /\ iStage[w] = "started"
        /\ \/ iPc' = "prepare"
           \/ /\ iPc' = IAfterPrepare /\ \A v \in IWriters : IUses(v) => iStage'[v] = "prepared"
    BY <1>2 DEF IPrepare, IGoto
  <2>3. /\ iStage' \in [IWriters -> Stages] /\ iStage'[w] = "prepared"
        /\ \A v \in IWriters \ {w} : iStage'[v] = iStage[v]
    BY <1>2 DEF IndexInv, ITypeOK, Stages
  <2>4. /\ iDisk' \in [IPaths -> Contents]
        /\ w = "json" => iDisk' = iDisk
        /\ w = "szst" => iDisk'["headerTmp"] = "new"
        /\ \A p \in IPaths \ {"headerTmp"} : iDisk'[p] = iDisk[p]
    BY <1>2 DEF IndexInv, ITypeOK, Contents
  <2>5. ITypeOK' /\ Versions'
    BY <2>1, <2>2, <2>3, <2>4 DEF IPrepare, IAfterPrepare, IndexInv, ITypeOK, Versions, NoFault, Steps
  <2>6. Faults' /\ Succeeded'
    BY <2>1, <2>2 DEF IAfterPrepare, IndexInv, NoFault, Faults, Succeeded
  <2>7. WritersAt'
    BY <1>0, <2>2, <2>3 DEF IAfterPrepare, IndexInv, Kept, Faults, WritersAt
  <2>8. Temporaries'
    BY <2>1, <2>2, <2>3, <2>4 DEF IAfterPrepare, IndexInv, Temporaries, WritersAt
  <2>9. JsonAt'
    BY <1>0, <2>2, <2>3, <2>4 DEF IAfterPrepare, IndexInv, Kept, JsonAt, Json, Safe, WritersAt
  <2>10. PairAt'
    BY <1>0, <2>2, <2>3, <2>4 DEF IAfterPrepare, IndexInv, Kept, PairAt, PairAsBefore, Records, Header, Safe, WritersAt
  <2> QED
    BY <2>5, <2>6, <2>7, <2>8, <2>9, <2>10 DEF IndexInv
<1> QED
  BY <1>1, <1>2 DEF IPrepare

LEMMA EditKeeps ==
  ASSUME IndexInv, IEdit
  PROVE  IndexInv'
<1>0. Kept
  BY OptionsKept DEF IndexInv, IEdit, Kept
<1>1. \A S : FaultIn(S)' <=> FaultIn(S)
  BY DEF IEdit, FaultIn
<1>2. ITypeOK' /\ Versions'
  BY DEF IndexInv, ITypeOK, Versions, IEdit
<1>3. Faults' /\ WritersAt' /\ Succeeded'
  BY <1>0, <1>1 DEF IndexInv, IEdit, Kept, Faults, WritersAt, Succeeded
<1>4. Temporaries'
  BY <1>0, <1>1 DEF IndexInv, IEdit, Temporaries
<1>5. JsonAt'
  BY <1>0 DEF IndexInv, IEdit, Kept, JsonAt, Json, Safe, AtMostOne
<1>6. PairAt'
  BY <1>0 DEF IndexInv, IEdit, Kept, PairAt, PairAsBefore, Records, Header, Safe, AtMostOne
<1> QED
  BY <1>2, <1>3, <1>4, <1>5, <1>6 DEF IndexInv

LEMMA CloseKeeps ==
  ASSUME IndexInv, IClose
  PROVE  IndexInv'
<1>0. Kept
  BY OptionsKept DEF IndexInv, IClose, Kept
<1>1. /\ \A S : FaultIn(S)' <=> FaultIn(S)
      /\ iFaulted' = iFaulted /\ iDisk' = iDisk /\ iStage' = iStage /\ iFailed' = iFailed
  BY DEF IClose, FaultIn
<1>2. \/ /\ iPc = "close"
         /\ iPc' = (CASE iStage["szst"] = "committed" -> "removeRecords"
                      [] iStage["szst"] \in {"started", "prepared"} -> "eraseHeaderTmp"
                      [] OTHER -> "closeJson")
      \/ /\ iPc = "closeJson"
         /\ iPc' = (CASE iStage["json"] = "committed" -> "removeJson"
                      [] iStage["json"] \in {"started", "prepared"} -> "backJson"
                      [] OTHER -> "done")
  BY DEF IClose, IGoto
<1>3. ITypeOK' /\ Versions'
  BY <1>1, <1>2 DEF IndexInv, ITypeOK, Versions, IClose, Steps
<1>4. Faults' /\ WritersAt' /\ Succeeded'
  BY <1>0, <1>1, <1>2 DEF IndexInv, Kept, Faults, WritersAt, Succeeded
<1>5. Temporaries'
  BY <1>0, <1>1, <1>2 DEF IndexInv, ITypeOK, Stages, Temporaries
<1>6. JsonAt'
  BY <1>0, <1>1, <1>2 DEF IndexInv, ITypeOK, Stages, Kept, JsonAt, Json, Safe, AtMostOne
<1>7. PairAt'
  BY <1>0, <1>1, <1>2 DEF IndexInv, ITypeOK, Stages, Kept, Faults, PairAt, PairAsBefore, Records, Header, Safe, AtMostOne
<1> QED
  BY <1>3, <1>4, <1>5, <1>6, <1>7 DEF IndexInv

-------------------------------------------------------------------------------
(* The theorems.                                                           *)

LEMMA IndexInvInit == IInit => IndexInv
<1> SUFFICES ASSUME IInit PROVE IndexInv
  OBVIOUS
<1>1. /\ iOpts \in IChoices /\ iPrior \subseteq IWriters /\ iPc = "hash" /\ iFailed = FALSE /\ iFaulted = <<>>
      /\ iStage = [w \in IWriters |-> "idle"] /\ iRead = <<>> /\ iSrc = 0 /\ iSince = 0 /\ iHash = 0
  BY DEF IInit
<1>2. /\ iDisk \in [IPaths -> Contents]
      /\ iDisk["json"] = OldJson /\ iDisk["records"] = OldPair /\ iDisk["header"] = OldPair
      /\ \A p \in IPaths \ IFinals : iDisk[p] = "none"
  <2>1. iDisk = [p \in IPaths |-> IF \E w \in iPrior : p \in IArtifacts(w) THEN "old" ELSE "none"]
    BY DEF IInit
  <2>2. \A p \in IPaths : iDisk[p] = IF \E w \in iPrior : p \in IArtifacts(w) THEN "old" ELSE "none"
    BY <2>1
  <2>3. /\ (\E w \in iPrior : "json" \in IArtifacts(w)) <=> "json" \in iPrior
        /\ (\E w \in iPrior : "records" \in IArtifacts(w)) <=> "szst" \in iPrior
        /\ (\E w \in iPrior : "header" \in IArtifacts(w)) <=> "szst" \in iPrior
        /\ \A p \in IPaths \ IFinals : ~\E w \in iPrior : p \in IArtifacts(w)
    BY <1>1 DEF IArtifacts
  <2> QED
    BY <2>1, <2>2, <2>3 DEF OldJson, OldPair, Contents
<1>3. ITypeOK /\ Faults /\ WritersAt /\ Succeeded
  <2>1. iStage \in [IWriters -> Stages] /\ \A w \in IWriters : iStage[w] = "idle"
    BY <1>1 DEF Stages
  <2>2. ITypeOK
    <3>1. iPc \in Steps
      BY <1>1 DEF Steps
    <3>2. iFaulted \in Seq(Steps)
      BY <1>1
    <3> QED
      BY <1>1, <1>2, <2>1, <3>1, <3>2 DEF ITypeOK
  <2>3. WritersAt
    BY <1>1, <2>1 DEF WritersAt
  <2> QED
    BY <1>1, <2>2, <2>3 DEF Faults, Succeeded
<1>4. Temporaries /\ JsonAt /\ PairAt
  BY <1>1, <1>2 DEF Temporaries, JsonAt, Json, PairAt, PairAsBefore, Records, Header, Safe, OldJson, OldPair
<1>5. Versions
  BY <1>1 DEF Versions
<1> QED
  BY <1>3, <1>4, <1>5 DEF IndexInv

LEMMA IndexInvStep == IndexInv /\ [INext]_ivars => IndexInv'
<1> SUFFICES ASSUME IndexInv, [INext]_ivars PROVE IndexInv'
  OBVIOUS
<1>1. CASE IHashSource \/ IHashJson
  BY <1>1, FirstPassKeeps DEF IHashSource, IHashJson
<1>2. CASE ICollectContexts
  BY <1>2, CollectContextsKeeps
<1>3. CASE IScan \/ IScanJson
  BY <1>3, RecordKeeps DEF IScan, IScanJson
<1>4. CASE IRehash
  BY <1>4, RehashKeeps
<1>5. CASE IEdit
  BY <1>5, EditKeeps
<1>6. ASSUME NEW w \in IWriters, IStart(w) \/ IPrepare(w) PROVE IndexInv'
  BY <1>6, StartKeeps, PrepareKeeps
<1>7. CASE IRun(ICommitJson) \/ IRun(ICommitPair)
  BY <1>7, JsonCommitKeeps, PairCommitKeeps
<1>8. CASE IRun(IComplete) \/ IRun(ICloseSteps)
  BY <1>8, CompleteKeeps, CloseStepsKeep
<1>9. CASE IClose
  BY <1>9, CloseKeeps
<1>10. CASE UNCHANGED ivars
  BY <1>10 DEF ivars, IndexInv, ITypeOK, Faults, WritersAt, Temporaries, JsonAt, PairAt, Succeeded, Versions,
    FaultIn, AtMostOne, OldJson, OldPair, Json, Records, Header, Safe, PairAsBefore, IUses
<1> QED
  BY <1>1, <1>2, <1>3, <1>4, <1>5, <1>6, <1>7, <1>8, <1>9, <1>10 DEF INext

(* A process that dies at any step, or returns, leaves what                *)
(* IndexPublication allows.                                                *)
LEMMA InvPublishes == IndexInv => IndexPublication
<1> SUFFICES ASSUME IndexInv PROVE IndexPublication
  OBVIOUS
<1>0. /\ ITypeOK /\ Faults /\ WritersAt /\ Temporaries /\ JsonAt /\ PairAt /\ Succeeded
      /\ Len(iFaulted) \in Nat
  BY DEF IndexInv, ITypeOK
<1>1. /\ IWasThere("json") <=> OldJson = "old"
      /\ \A p \in {"records", "header"} : IWasThere(p) <=> OldPair = "old"
      /\ OldJson \in {"old", "none"} /\ OldPair \in {"old", "none"}
  BY <1>0 DEF ITypeOK, IWasThere, IArtifacts, OldJson, OldPair
<1>2. /\ IAsked("json") <=> IUses("json")
      /\ \A p \in {"records", "header"} : IAsked(p) <=> IUses("szst")
  BY DEF IAsked, IArtifacts
<1>3. iDisk \in [IPaths -> Contents] /\ iStage \in [IWriters -> Stages] /\ iPc \in Steps /\ iFailed \in BOOLEAN
  BY <1>0 DEF ITypeOK
<1>4. (~IHalf /\ iDisk["header"] # "none" /\ iDisk["records"] # "none") => iDisk["header"] = iDisk["records"]
  BY <1>0, <1>3 DEF IHalf, AtMostOne, PairAt, PairAsBefore, Records, Header, WritersAt, Faults, Steps, Stages, Contents
<1>5. IWasThere("json") => iDisk["json"] # "none" \/ iDisk["jsonBak"] # "none"
  BY <1>0, <1>1 DEF JsonAt, Safe
<1>6. IWasThere("header") => \A b \in {<<"records", "recordsBak">>, <<"header", "headerBak">>} :
                               iDisk[b[1]] # "none" \/ iDisk[b[2]] # "none"
  BY <1>0, <1>1 DEF PairAt, Safe
<1>7. ASSUME iPc = "done", ~iFailed
      PROVE  /\ \A p \in IFinals : IAsked(p) => iDisk[p] = "new"
             /\ \A p \in IPaths \ IFinals : iDisk[p] = "none"
  <2>1. iFaulted = <<>> /\ \A w \in IWriters : iStage[w] = IF IUses(w) THEN "completed" ELSE "idle"
    BY <1>0, <1>7 DEF Faults, Succeeded, WritersAt
  <2>2. ~FaultIn(CloseFiles)
    BY <2>1 DEF FaultIn
  <2>3. \A p \in IFinals : IAsked(p) => iDisk[p] = "new"
    BY <1>0, <1>2, <2>1 DEF JsonAt, PairAt
  <2>4. iDisk["jsonTmp"] = "none" /\ iDisk["recordsTmp"] = "none" /\ iDisk["headerTmp"] = "none"
    BY <1>0, <1>7, <2>2 DEF Temporaries
  <2>5. iDisk["jsonBak"] = "none" /\ iDisk["recordsBak"] = "none" /\ iDisk["headerBak"] = "none"
    BY <1>0, <1>7, <2>1 DEF JsonAt, Json, PairAt, PairAsBefore, Records, Header
  <2> QED
    BY <2>3, <2>4, <2>5
<1>8. ASSUME iPc = "done", iFailed, ~IHalf, \A i \in DOMAIN iFaulted : iFaulted[i] \notin DOMAIN IComplete
      PROVE  /\ \A p \in IFinals : iDisk[p] = IF IWasThere(p) THEN "old" ELSE "none"
             /\ \A p \in IPaths \ IFinals : iDisk[p] # "none" =>
                  \E i \in DOMAIN iFaulted : iFaulted[i] \in DOMAIN ICloseSteps
  <2>1. DOMAIN IComplete = Completing /\ DOMAIN ICloseSteps = CloseFiles
    BY DEF IComplete, ICloseSteps
  <2>2. ~FaultIn(Completing) /\ AtMostOne
    BY <1>0, <1>8, <2>1 DEF FaultIn, IHalf, AtMostOne
  <2>3. iStage["szst"] \notin {"committed", "completed"} /\ iStage["json"] # "completed"
    BY <1>0, <1>8, <2>2 DEF WritersAt
  <2>4. Json(OldJson, "none") /\ PairAsBefore
    BY <1>0, <1>8, <2>2, <2>3 DEF JsonAt, PairAt
  <2>5. \A p \in IFinals : iDisk[p] = IF IWasThere(p) THEN "old" ELSE "none"
    BY <1>1, <2>4 DEF Json, PairAsBefore, Records, Header
  <2>6. ASSUME NEW p \in IPaths \ IFinals, iDisk[p] # "none" PROVE FaultIn(CloseFiles)
    BY <1>0, <1>8, <2>4, <2>6 DEF Json, PairAsBefore, Records, Header, Temporaries
  <2> QED
    BY <2>1, <2>5, <2>6 DEF FaultIn
<1> QED
  BY <1>4, <1>5, <1>6, <1>7, <1>8 DEF IndexPublication

(* Whatever operations fail, and at whatever step the process dies, a      *)
(* seekable header stands beside records of its own build unless two       *)
(* operations failed, an artifact of an earlier build is never lost, a     *)
(* build that succeeds publishes exactly what was asked, and one that      *)
(* fails outside Complete restores what was there (JSONIndexWriter and     *)
(* publishSeekablePair, with their Close methods).                         *)
THEOREM IndexPublished == ISpec => []IndexPublication
<1>1. ISpec => []IndexInv
  BY IndexInvInit, IndexInvStep, PTL DEF ISpec
<1> QED
  BY <1>1, InvPublishes, PTL

(* A json index that a successful build leaves describes one content of    *)
(* the source, unless the source was changed at least twice after it was   *)
(* hashed: a single change, at whatever step, cannot pass the second hash  *)
(* of BuildTo, which compares contents.                                    *)
THEOREM OneSource == ISpec => []IndexOfOneSource
<1>1. ISpec => []IndexInv
  BY IndexInvInit, IndexInvStep, PTL DEF ISpec
<1>2. IndexInv => IndexOfOneSource
  <2> SUFFICES ASSUME IndexInv, IBuiltJson, iSince < 2, NEW i \in DOMAIN iRead
               PROVE  iRead[i] = iHash
    BY DEF IndexOfOneSource
  <2>1. iSrc = iHash /\ iSince \in Nat
    BY DEF IndexInv, Versions, IBuiltJson
  <2>2. iSince = 0
    BY <2>1 DEF IndexInv, Versions, IBuiltJson
  <2> QED
    BY <2>2 DEF IndexInv, Versions, IBuiltJson
<1> QED
  BY <1>1, <1>2, PTL

================================================================================
