----------------------------- MODULE ExtractRun -----------------------------
(* The run of one `sumpter extract` command outside the streaming drivers:    *)
(* preflight, the input and output sessions, the choice of a route, the       *)
(* buffered driver (Parquet, several formats, declared floors, applicability) *)
(* and the two record-index drivers.  The streaming and aggregate drivers are *)
(* PerInputRun and AggregateRun; here they are a route that returns.          *)
(* A row's content, a name and a message are abstracted away: an input is its *)
(* ordinal, an output the pair of an input and a format, and the names that   *)
(* outputs get are part of the command line: two outputs may share one.       *)
EXTENDS Naturals, Sequences, FiniteSets

CONSTANTS
  XInputs,     \* the largest number of inputs a run discovers
  XLines,      \* the command lines: records of options
  MaxXFaults   \* how many fallible steps may fail in one run

XFormats == {"json", "parquet"}

ASSUME XAssumption ==
  /\ XInputs \in Nat \ {0} /\ MaxXFaults \in Nat
  /\ XLines \subseteq [index : BOOLEAN, dry : BOOLEAN, cont : BOOLEAN, app : BOOLEAN,
                       floors : BOOLEAN, out : BOOLEAN, manifest : BOOLEAN,
                       descriptor : BOOLEAN, validate : BOOLEAN, declared : BOOLEAN,
                       cloudIn : BOOLEAN, cloudOut : BOOLEAN, formats : SUBSET XFormats,
                       names : [(1..XInputs) \X XFormats -> Nat]]

VARIABLES
  xOpts,      \* the command line
  xPc,        \* the stage of the run
  xAt,        \* the input (or sidecar) the stage is at
  xCohort,    \* the number of inputs discovered
  xIn,        \* the input session: "none", "open" or "closed"
  xOut,       \* the output session
  xSnap,      \* the inputs whose private snapshot is on disk
  xLeft,      \* refused inputs whose copy could not be removed either
  xMissed,    \* acquireFailures: inputs that could not be acquired
  xResults,   \* the results channel, in order
  xWrites,    \* outputs written so far: <<input, format>>
  xFiles,     \* the outputs whose rows the files of the output directory hold
  xLedger,    \* manifestInputs: <<input, disposition>>
  xListed,    \* manifestOutputs
  xFailures,  \* failures.json: the failed inputs
  xApplied,   \* failures.json: its applied counter
  xDisp,      \* dispositions.json: its rows
  xProfile,   \* how often the value profile observed each input's rows
  xSidecars,  \* sidecars on disk
  xFirst,     \* whether dispositionFailure is set
  xFaults,    \* fallible steps failed so far
  xExit       \* "running", "ok", "refused", "error", "partial", "delegated"

xSession == <<xIn, xOut, xSnap, xLeft>>
xBook == <<xWrites, xFiles, xLedger, xListed, xFailures, xApplied, xDisp, xProfile,
           xSidecars, xFirst>>
xvars == <<xOpts, xPc, xAt, xCohort, xSession, xMissed, xResults, xBook,
           xFaults, xExit>>

XCohort == 1..xCohort
\* What ProcessFileWithApplicability may answer: under an applicability
\* configuration every failure but that of preparing the configuration is marked
\* failed; without one no disposition is set, and a signature mismatch is an
\* empty result without an error.
XAnswers == IF xOpts.app THEN {"applied", "notApplicable", "failed", "errorUnmarked"}
            ELSE {"plain", "mismatched", "errorUnmarked"}
XManifest == xOpts.manifest /\ xOpts.out /\ ~xOpts.dry

-----------------------------------------------------------------------------
\* The sessions.

XClosed(s) == IF s = "open" THEN "closed" ELSE s

\* A return with the sessions released: by the explicit Close calls before the
\* defers are installed, by the defers afterwards.
XReturn(code) ==
  /\ xPc' = "done"  /\ xExit' = code
  /\ xIn' = XClosed(xIn)  /\ xOut' = XClosed(xOut)
\* Variant: an early return that leaves the input session open.
XReturnLeaky(code) ==
  /\ xPc' = "done"  /\ xExit' = code
  /\ xIn' = xIn  /\ xOut' = XClosed(xOut)
\* Before the defers are installed every failing branch closes the input session.
XReturnEarly(code) == XReturn(code)

XFaulty == xFaults < MaxXFaults /\ xFaults' = xFaults + 1
XFine == xFaults' = xFaults

-----------------------------------------------------------------------------
\* Preflight.

\* The options runExtract refuses by themselves.
XRefused(o) ==
  \/ "parquet" \in o.formats /\ ~o.out
  \/ o.cont /\ ~o.out /\ ~o.dry
  \/ o.descriptor /\ (~o.out \/ ~o.manifest \/ o.dry)
  \/ o.app /\ o.index

\* Options, local references, credentials, signature and extract configuration,
\* input format, withheld columns, field plan, captures and reference tables: any
\* of them refuses the run, and nothing is open or written yet.
XPreflight ==
  /\ xPc = "options"
  /\ \/ XFaulty /\ XReturn("refused")
     \/ XFine /\ XRefused(xOpts) /\ XReturn("refused")
     \/ /\ XFine /\ ~XRefused(xOpts)
        /\ xPc' = IF xOpts.index THEN "index" ELSE "resolve"
        /\ UNCHANGED <<xIn, xOut, xExit>>
  /\ UNCHANGED <<xOpts, xAt, xCohort, xSnap, xLeft, xMissed, xResults, xBook>>

\* A cloud reference opens the input session; discovery then finds the inputs.
XResolve ==
  /\ xPc = "resolve"
  /\ \/ XFaulty /\ XReturn("refused")
     \/ /\ XFine /\ xPc' = "discover" /\ UNCHANGED <<xOut, xExit>>
        /\ xIn' = IF xOpts.cloudIn THEN "open" ELSE "none"
  /\ UNCHANGED <<xOpts, xAt, xCohort, xSnap, xLeft, xMissed, xResults, xBook>>

XDiscover ==
  /\ xPc = "discover"
  /\ \/ XFaulty /\ XReturnEarly("error") /\ UNCHANGED <<xAt, xCohort>>
     \/ \E n \in 0..XInputs :
          /\ XFine /\ xCohort' = n /\ xAt' = 1
          /\ xPc' = IF xOpts.dry THEN "preview" ELSE "acquire"
          /\ UNCHANGED <<xIn, xOut, xExit>>
  /\ UNCHANGED <<xOpts, xSnap, xLeft, xMissed, xResults, xBook>>

\* A dry run lists and checks its inputs, prints them and writes nothing.
XPreview ==
  /\ xPc = "preview"
  /\ \/ XFine /\ xCohort = 0 /\ XReturn("error")
     \/ XFaulty /\ XReturn("error")
     \/ XFine /\ xCohort > 0 /\ XReturn("ok")
  /\ UNCHANGED <<xOpts, xAt, xCohort, xSnap, xLeft, xMissed, xResults, xBook>>

\* Inputs are acquired in discovery order.  A missing input is kept in place when
\* the run continues on errors and its inputs were named; any other error ends it.
XAcquire ==
  /\ xPc = "acquire" /\ xAt \in XCohort
  /\ \/ XFine /\ xAt' = xAt + 1 /\ UNCHANGED <<xMissed, xPc, xIn, xOut, xExit>>
     \/ /\ XFaulty /\ xOpts.cont
        /\ xMissed' = xMissed \cup {xAt} /\ xAt' = xAt + 1
        /\ UNCHANGED <<xPc, xIn, xOut, xExit>>
     \/ XFaulty /\ XReturnEarly("error") /\ UNCHANGED <<xAt, xMissed>>
  /\ UNCHANGED <<xOpts, xCohort, xSnap, xLeft, xResults, xBook>>

\* Zero inputs, the local input check, the provenance root and the output session,
\* in this order; then the route.
XRoute ==
  /\ xPc = "acquire" /\ xAt = xCohort + 1
  /\ \/ XFine /\ xCohort = 0 /\ XReturnEarly("error")
     \/ xCohort > 0 /\ XFaulty /\ XReturnEarly("error")
     \/ /\ xCohort > 0 /\ XFine /\ UNCHANGED <<xIn, xExit>>
        /\ xOut' = IF xOpts.cloudOut /\ xOpts.out THEN "open" ELSE "none"
        /\ xPc' = "route"
  /\ UNCHANGED <<xOpts, xAt, xCohort, xSnap, xLeft, xMissed, xResults, xBook>>

\* JSON alone and no floor declared: the streaming driver.
XStreams(o) == o.formats = {"json"} /\ ~o.floors

XChoose ==
  /\ xPc = "route"
  /\ \/ XFine /\ xOpts.app /\ ~xOpts.out /\ XReturn("error")
     \/ XFaulty /\ xOpts.app /\ XReturn("error")
     \/ XFine /\ (xOpts.app => xOpts.out) /\ XStreams(xOpts) /\ XReturn("delegated")
     \/ /\ XFine /\ (xOpts.app => xOpts.out) /\ ~XStreams(xOpts)
        /\ xPc' = "read" /\ UNCHANGED <<xIn, xOut, xExit>>
  /\ xAt' = 1
  /\ UNCHANGED <<xOpts, xCohort, xSnap, xLeft, xMissed, xResults, xBook>>

-----------------------------------------------------------------------------
\* The buffered driver: every input is read before the first is written.

XPut(d) == xResults' = Append(xResults, d) /\ xAt' = xAt + 1

\* An input that could not be acquired, or whose declared content identity does
\* not match its bytes, becomes a failed result and is never parsed.  The private
\* copy is removed inside snapshotAndIdentifyInput; when that fails as well its
\* error only joins the mismatch, and the run goes on with the copy on disk.
XReadRefused ==
  /\ xPc = "read" /\ xAt \in XCohort
  /\ \/ xAt \in xMissed /\ XFine /\ UNCHANGED xLeft
     \/ /\ xAt \notin xMissed /\ xOpts.declared /\ xAt \notin xSnap /\ XFaulty
        /\ xLeft' \in {xLeft, xLeft \cup {xAt}}
  /\ XPut("failed")
  /\ UNCHANGED <<xOpts, xPc, xCohort, xIn, xOut, xSnap, xMissed, xBook, xExit>>

\* A declared input is parsed from a private snapshot of the verified bytes.
XSnapshot ==
  /\ xPc = "read" /\ xAt \in XCohort \ xMissed /\ xAt \notin xSnap /\ xOpts.declared
  /\ XFine /\ xSnap' = xSnap \cup {xAt}
  /\ UNCHANGED <<xOpts, xPc, xAt, xCohort, xIn, xOut, xLeft, xMissed, xResults, xBook, xExit>>

\* Fields from the source's name, then the document itself; the snapshot is
\* removed on every way out, and a snapshot that cannot be removed ends the run.
XRead ==
  /\ xPc = "read" /\ xAt \in XCohort \ xMissed /\ (xOpts.declared => xAt \in xSnap)
  /\ \/ /\ XFaulty /\ xSnap' = {} /\ xOpts.cont
        /\ XPut("failed") /\ UNCHANGED <<xPc, xIn, xOut, xExit>>
     \/ XFaulty /\ xSnap' = {} /\ ~xOpts.cont /\ XReturn("error") /\ UNCHANGED <<xAt, xResults>>
     \/ XFaulty /\ xOpts.declared /\ UNCHANGED xSnap /\ XReturn("snapshotLeft")
        /\ UNCHANGED <<xAt, xResults>>
     \/ /\ XFine /\ xSnap' = {}
        /\ \E d \in XAnswers : XPut(d)
        /\ UNCHANGED <<xPc, xIn, xOut, xExit>>
  /\ UNCHANGED <<xOpts, xCohort, xLeft, xMissed, xBook>>

XReadDone ==
  /\ xPc = "read" /\ xAt = xCohort + 1
  /\ xPc' = "collect" /\ xAt' = 1
  /\ UNCHANGED <<xOpts, xCohort, xSession, xMissed, xResults, xBook, xFaults, xExit>>

XResult == xResults[xAt]
XNextInput == xAt' = xAt + 1 /\ UNCHANGED <<xPc, xIn, xOut, xExit>>

\* The ledger line of an input; a failed input that can no longer be hashed is
\* left out when the run continues, and ends it otherwise.
XLedgerLine(d) == xLedger' = IF XManifest THEN Append(xLedger, <<xAt, d>>) ELSE xLedger

\* The lines of the disposition summary and of failures.json.
XSummarise(d) == xDisp' = Append(xDisp, <<xAt, d>>)
XFailure == /\ xFailures' = IF xOpts.cont THEN Append(xFailures, xAt) ELSE xFailures
            /\ xFirst' = (xFirst \/ ~xOpts.cont)

\* What a failed input leaves behind: its rows nowhere, its name in the summary
\* (when it carried a disposition), in failures.json and in the ledger.
XSettleFailed(summarised) ==
  /\ IF summarised THEN XSummarise("failed") ELSE UNCHANGED xDisp
  /\ XFailure
  /\ \/ XFine /\ XLedgerLine("failed") /\ XNextInput
     \/ XFaulty /\ XManifest /\ xOpts.cont /\ UNCHANGED xLedger /\ XNextInput
     \/ XFaulty /\ XManifest /\ ~xOpts.cont /\ UNCHANGED <<xLedger, xAt>> /\ XReturn("error")
  /\ UNCHANGED <<xWrites, xFiles, xListed, xApplied, xProfile, xSidecars>>

XCollectFailed ==
  /\ xPc = "collect" /\ xAt \in XCohort /\ XResult = "failed"
  /\ XSettleFailed(TRUE)
  /\ UNCHANGED <<xOpts, xCohort, xSnap, xLeft, xMissed, xResults>>

\* An error without a disposition: recorded, but not in the disposition summary,
\* when the run continues; otherwise the run ends here.
XCollectError ==
  /\ xPc = "collect" /\ xAt \in XCohort /\ XResult = "errorUnmarked"
  /\ \/ xOpts.cont /\ XSettleFailed(FALSE)
     \/ ~xOpts.cont /\ XFine /\ XReturn("error") /\ UNCHANGED <<xAt, xBook>>
  /\ UNCHANGED <<xOpts, xCohort, xSnap, xLeft, xMissed, xResults>>

\* enforceMinOccurrences: a mismatched signature or too few matches.
XFloorMiss ==
  /\ xPc = "collect" /\ xAt \in XCohort /\ xOpts.floors
  /\ XResult \in {"applied", "plain", "mismatched"}
  /\ \/ /\ XResult = "applied" \/ xOpts.cont
        /\ XSummarise("failed") /\ XFailure
        /\ \/ XFine /\ XLedgerLine("failed") /\ XNextInput
           \/ XFaulty /\ XManifest /\ UNCHANGED <<xLedger, xAt>> /\ XReturn("error")
        /\ UNCHANGED <<xWrites, xFiles, xListed, xApplied, xProfile, xSidecars>>
     \/ /\ XResult # "applied" /\ ~xOpts.cont /\ XFine
        /\ XReturn("error") /\ UNCHANGED <<xAt, xBook>>
  /\ UNCHANGED <<xOpts, xCohort, xSnap, xLeft, xMissed, xResults>>

XMeetsFloors == XResult # "mismatched" \/ ~xOpts.floors

\* An input that met its floors: summarised, entered in the ledger (or the run
\* ends), then written.
XAccept ==
  /\ xPc = "collect" /\ xAt \in XCohort
  /\ XResult \in {"applied", "notApplicable", "plain", "mismatched"} /\ XMeetsFloors
  /\ IF xOpts.app THEN XSummarise(XResult) ELSE UNCHANGED xDisp
  /\ \/ XFine /\ XLedgerLine(XResult) /\ xPc' = "write" /\ UNCHANGED <<xIn, xOut, xExit>>
     \/ XFaulty /\ XManifest /\ UNCHANGED xLedger /\ XReturn("error")
  /\ UNCHANGED <<xOpts, xAt, xCohort, xSnap, xLeft, xMissed, xResults, xWrites, xFiles, xListed,
                 xFailures, xApplied, xProfile, xSidecars, xFirst>>

XUnwritten == {f \in xOpts.formats : <<xAt, f>> \notin xWrites}
XObserve == [xProfile EXCEPT ![xAt] = @ + 1]

\* A file replaces the one of its name, whichever output that one held.
XName(o) == xOpts.names[o]
XOthers(o) == {p \in xFiles : XName(p) # XName(o)}
XStored(o) == xWrites' = xWrites \cup {o} /\ xFiles' = XOthers(o) \cup {o}

\* writeRecordsForFormat: a file of the input, and its line of the manifest.
XWriteOut(f) ==
  /\ XStored(<<xAt, f>>)
  /\ xListed' = IF XManifest THEN Append(xListed, <<xAt, f>>) ELSE xListed

\* Variant: the value profile observes the rows inside the format loop.
XWriteFormatObserves(f) ==
  /\ xPc = "write" /\ xOpts.out /\ f \in XUnwritten
  /\ f = "parquet" => "json" \notin XUnwritten
  /\ XFine /\ XWriteOut(f) /\ xProfile' = XObserve
  /\ UNCHANGED <<xOpts, xPc, xAt, xCohort, xSession, xMissed, xResults, xLedger, xFailures,
                 xApplied, xDisp, xSidecars, xFirst, xExit>>

\* One format after the other, JSON first; a format that cannot be written ends
\* the run without a manifest, and may have truncated the file of its name.
XWriteFormat(f) ==
  /\ xPc = "write" /\ xOpts.out /\ f \in XUnwritten
  /\ f = "parquet" => "json" \notin XUnwritten
  /\ \/ XFine /\ XWriteOut(f) /\ UNCHANGED <<xPc, xIn, xOut, xExit>>
     \/ XFaulty /\ XReturn("error") /\ UNCHANGED <<xWrites, xListed>>
        /\ xFiles' \in {xFiles, XOthers(<<xAt, f>>)}
  /\ UNCHANGED <<xOpts, xAt, xCohort, xSnap, xLeft, xMissed, xResults, xLedger, xFailures,
                 xApplied, xDisp, xProfile, xSidecars, xFirst>>
\* Every representation is written (or the rows went to stdout): observed once.
XWritten ==
  /\ xPc = "write" /\ (xOpts.out => XUnwritten = {})
  /\ xProfile' = XObserve /\ xApplied' = xApplied + 1
  /\ xPc' = IF xOpts.index THEN "finish" ELSE "collect"
  /\ xAt' = IF xOpts.index THEN 1 ELSE xAt + 1
  /\ UNCHANGED <<xOpts, xCohort, xSession, xMissed, xResults, xWrites, xFiles, xLedger, xListed,
                 xFailures, xDisp, xSidecars, xFirst, xFaults, xExit>>

XCollectDone ==
  /\ xPc = "collect" /\ xAt = xCohort + 1
  /\ xPc' = "finish" /\ xAt' = 1
  /\ UNCHANGED <<xOpts, xCohort, xSession, xMissed, xResults, xBook, xFaults, xExit>>

\* The sidecars, in the order they are written.
XSidecars == <<"failures", "dispositions", "manifest", "catalog", "descriptor", "validated">>
XWanted(s) ==
  CASE s = "failures"     -> xOpts.cont /\ Len(xFailures) > 0
    [] s = "dispositions" -> xOpts.app /\ xOpts.out /\ Len(xDisp) > 0
    [] s = "manifest"     -> XManifest
    [] s \in {"catalog", "descriptor"} -> XManifest /\ xOpts.descriptor
    [] s = "validated"    -> XManifest /\ xOpts.validate

XFinishStep ==
  /\ xPc = "finish" /\ xAt \in DOMAIN XSidecars
  /\ LET s == XSidecars[xAt] IN
     \/ XFine /\ xAt' = xAt + 1 /\ UNCHANGED <<xPc, xIn, xOut, xExit>>
        /\ xSidecars' = IF XWanted(s) THEN xSidecars \cup {s} ELSE xSidecars
     \/ XWanted(s) /\ XFaulty /\ XReturn("error") /\ UNCHANGED <<xAt, xSidecars>>
  /\ UNCHANGED <<xOpts, xCohort, xSnap, xLeft, xMissed, xResults, xWrites, xFiles, xLedger, xListed,
                 xFailures, xApplied, xDisp, xProfile, xFirst>>

XFinish ==
  /\ xPc = "finish" /\ xAt = Len(XSidecars) + 1 /\ XFine
  /\ XReturn(IF xFirst THEN "error" ELSE IF Len(xFailures) > 0 THEN "partial" ELSE "ok")
  /\ UNCHANGED <<xOpts, xAt, xCohort, xSnap, xLeft, xMissed, xResults, xBook>>

-----------------------------------------------------------------------------
\* The record-index drivers: one input, the index's source.

\* The store and its header; a cloud source opens the session, is staged and
\* verified against the header, and every refusal closes it.
XOpenIndex ==
  /\ xPc = "index"
  /\ \/ XFaulty /\ XReturn("error")
     \/ /\ XFine /\ xPc' = "source" /\ UNCHANGED <<xOut, xExit>>
        /\ xIn' = IF xOpts.cloudIn THEN "open" ELSE "none"
  /\ xCohort' = 1 /\ xAt' = 1
  /\ UNCHANGED <<xOpts, xSnap, xLeft, xMissed, xResults, xBook>>

\* Acquire, integrity, provenance root, output session, external fields; the
\* cleanup of the source is deferred as soon as it exists.
XIndexSource ==
  /\ xPc = "source"
  /\ \/ XFaulty /\ XReturnEarly("error")
     \/ /\ XFine /\ xPc' = "floors" /\ UNCHANGED <<xIn, xExit>>
        /\ xOut' = IF xOpts.cloudOut /\ xOpts.out THEN "open" ELSE "none"
  /\ UNCHANGED <<xOpts, xAt, xCohort, xSnap, xLeft, xMissed, xResults, xBook>>

\* Floors come before any row when JSON is streamed (the index is counted), after
\* the extraction otherwise; either way before anything is written.  A failing
\* extraction leaves nothing behind: the streamed target is aborted.
XIndexExtract ==
  /\ xPc = "floors"
  /\ \/ XFaulty /\ XReturn("error")
     \/ XFine /\ xOpts.floors /\ XReturn("error")
     \/ XFine /\ xPc' = "indexed" /\ UNCHANGED <<xIn, xOut, xExit>>
  /\ UNCHANGED <<xOpts, xAt, xCohort, xSnap, xLeft, xMissed, xResults, xBook>>

\* Buffered formats enter the ledger before they are written.
XIndexBuffered ==
  /\ xPc = "indexed" /\ xOpts.formats # {"json"}
  /\ \/ XFine /\ XLedgerLine("plain") /\ xPc' = "write" /\ UNCHANGED <<xIn, xOut, xExit>>
     \/ XFaulty /\ XManifest /\ UNCHANGED xLedger /\ XReturn("error")
  /\ UNCHANGED <<xOpts, xAt, xCohort, xSnap, xLeft, xMissed, xResults, xWrites, xFiles, xListed, xFailures,
                 xApplied, xDisp, xProfile, xSidecars, xFirst>>

\* Streamed JSON commits its target, promotes the staged profile, then enters the
\* ledger: a source that cannot be hashed any more leaves a file without manifest.
XIndexStreamed ==
  /\ xPc = "indexed" /\ xOpts.formats = {"json"}
  /\ IF xOpts.out THEN XStored(<<1, "json">>) ELSE UNCHANGED <<xWrites, xFiles>>
  /\ xProfile' = XObserve
  /\ \/ /\ XFine /\ XLedgerLine("plain") /\ xPc' = "finish" /\ UNCHANGED <<xIn, xOut, xExit>>
        /\ xListed' = IF XManifest THEN Append(xListed, <<1, "json">>) ELSE xListed
     \/ XFaulty /\ XManifest /\ UNCHANGED <<xLedger, xListed>> /\ XReturn("error")
  /\ UNCHANGED <<xOpts, xAt, xCohort, xSnap, xLeft, xMissed, xResults, xFailures, xApplied, xDisp,
                 xSidecars, xFirst>>

-----------------------------------------------------------------------------
XInit ==
  /\ xOpts \in XLines
  /\ xPc = "options" /\ xAt = 1 /\ xCohort = 0 /\ xIn = "none" /\ xOut = "none"
  /\ xSnap = {} /\ xLeft = {} /\ xMissed = {} /\ xResults = <<>> /\ xWrites = {} /\ xFiles = {} /\ xLedger = <<>>
  /\ xListed = <<>> /\ xFailures = <<>> /\ xApplied = 0 /\ xDisp = <<>>
  /\ xProfile = [i \in 1..XInputs |-> 0] /\ xSidecars = {} /\ xFirst = FALSE
  /\ xFaults = 0 /\ xExit = "running"

XNext ==
  \/ XPreflight \/ XResolve \/ XDiscover \/ XPreview \/ XAcquire \/ XRoute \/ XChoose
  \/ XReadRefused \/ XSnapshot \/ XRead \/ XReadDone
  \/ XCollectFailed \/ XCollectError \/ XFloorMiss \/ XAccept
  \/ (\E f \in XFormats : XWriteFormat(f)) \/ XWritten \/ XCollectDone
  \/ XFinishStep \/ XFinish
  \/ XOpenIndex \/ XIndexSource \/ XIndexExtract \/ XIndexBuffered \/ XIndexStreamed

XSpec == XInit /\ [][XNext]_xvars

-----------------------------------------------------------------------------
\* However the command returns, both sessions are released, and a private copy of
\* a declared input stays on disk only if removing it failed: then the run ended
\* there, or the input was refused and the run does not succeed.
ExtractReleases ==
  xPc = "done" => /\ xIn # "open" /\ xOut # "open"
                  /\ xSnap # {} => xExit = "snapshotLeft"
                  /\ xLeft # {} => xExit # "ok"

\* No two outputs of the run get the same name.
XDistinct == \A p, q \in XCohort \X xOpts.formats : XName(p) = XName(q) => p = q
XListing == {xListed[k] : k \in DOMAIN xListed}

\* What a buffered or indexed run leaves behind agrees with itself: the manifest
\* lists every output that a file holds, and a file of every name it lists -
\* exactly the files, each once, when no two outputs share a name (the code does
\* not check that they do not); failures.json counts every input once; the profile
\* observed an input's rows once, and only when every representation of them is
\* written; and exit 0 of a run that writes means every input is there.
BufferedRunHonest ==
  /\ \A i \in 1..XInputs :
       /\ xProfile[i] <= 1
       /\ xProfile[i] = 1 /\ xOpts.out /\ XDistinct
            => \A f \in xOpts.formats : <<i, f>> \in xFiles
  /\ "manifest" \in xSidecars =>
       /\ xFiles \subseteq XListing
       /\ \A o \in XListing : \E p \in xFiles : XName(p) = XName(o)
       /\ XDistinct => xFiles = XListing /\ Len(xListed) = Cardinality(xFiles)
  /\ "failures" \in xSidecars => xApplied + Len(xFailures) = xCohort
  /\ "dispositions" \in xSidecars =>
       \A i \in XCohort : (\E k \in DOMAIN xDisp : xDisp[k][1] = i) \/ xResults[i] = "errorUnmarked"
  /\ xExit = "ok" /\ ~xOpts.dry =>
       /\ \A i \in XCohort : xProfile[i] = 1
       /\ XManifest => {xLedger[k][1] : k \in DOMAIN xLedger} = XCohort
=============================================================================
