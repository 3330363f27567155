----------------------------- MODULE PerInputRun ------------------------------
(***************************************************************************)
(* Per-input output (the default --output-mode): each input of a run gets  *)
(* an output file of its own per recipe, written to a temporary file and   *)
(* renamed when the input has succeeded.  Models jsonOutputTarget and      *)
(* runSequentialJSONStreamingExtraction (cmd/sumpter/commands/extract.go), *)
(* commitPerInputApplication (extract_multi_bundle.go) and finalize and    *)
(* the run level of extract_multi_dispatch.go.  The two commands share the *)
(* output target; they differ in what they do with its errors.             *)
(***************************************************************************)
EXTENDS Integers, SequencesExt

CONSTANTS
    CommandLines,   \* the ways a run may be started
    Names,          \* output names
    RowCounts,      \* how many rows an input may extract to
    MaxFaults       \* bound on failing output operations

(* What a run is started with: its recipes, the output name of each input  *)
(* it resolves to (outputFileForFormat), the command (multi: extract-multi,*)
(* otherwise sumpter extract), the kind of output location and             *)
(* --continue-on-error.                                                    *)
CommandLine ==
    [recipes : Nat \ {0}, outputName : Seq(Names) \ {<<>>}, multi : BOOLEAN,
     cloud : BOOLEAN, continueOnError : BOOLEAN]

ASSUME PerInputAssumption ==
    /\ RowCounts \subseteq Nat /\ MaxFaults \in Nat
    /\ \A o \in CommandLines : o \in CommandLine /\ (~o.multi => o.recipes = 1)

VARIABLES
    options,    \* the command line and what it resolves to; never changes
    pc,         \* where the run is
    input,      \* ordinal being settled
    recipe,     \* recipe being worked on
    app,        \* the recipe's application to the input: rows and verdict
    temp,       \* rows in the temporary file, or Closed
    trouble,    \* operations of the output target that failed for this input
    files,      \* per recipe: what a reader finds under each output name
    inputs,     \* per recipe: manifestInputs, the ordinals
    outputs,    \* per recipe: manifestOutputs
    failures,   \* per recipe: inputs failed in the disposition summary, which are
                \* those of failures.json too under --continue-on-error
    profiled,   \* per recipe: inputs promoted into the value profile
    swallowed,  \* <<recipe, input>> whose output error the run went on from
    manifest,   \* per recipe: manifest.json is written
    err,        \* what the run returns: nil, partial, failed, canceled, fatal
    faults      \* output operations that failed

place == <<pc, input, recipe, app, temp, trouble>>
books == <<inputs, outputs, failures, profiled>>
vars == <<options, place, files, books, swallowed, manifest, err, faults>>

NumInputs == Len(options.outputName)
NumRecipes == options.recipes
OutputName == options.outputName
Multi == options.multi
Cloud == options.cloud
ContinueOnError == options.continueOnError

Inputs == 1..NumInputs
Recipes == 1..NumRecipes

(* An extraction error, a failed disposition, and, in extract-multi, a     *)
(* min_occurrences floor miss (extract buffers those runs, elsewhere).     *)
Verdicts == {"applied", "error", "failed"} \cup (IF Multi THEN {"floor"} ELSE {})

Closed == -1        \* no temporary file
NoFile == [input |-> 0, count |-> 0]

Init ==
    /\ options \in CommandLines
    /\ pc = "input" /\ input = 1 /\ recipe = 1
    /\ app = [rows |-> 0, verdict |-> "applied"] /\ temp = Closed /\ trouble = {}
    /\ files = [r \in Recipes |-> [n \in Names |-> NoFile]]
    /\ inputs = [r \in Recipes |-> <<>>] /\ outputs = [r \in Recipes |-> <<>>]
    /\ failures = [r \in Recipes |-> {}] /\ profiled = [r \in Recipes |-> {}]
    /\ manifest = [r \in Recipes |-> FALSE]
    /\ swallowed = {} /\ err = "nil" /\ faults = 0

-----------------------------------------------------------------------------
(* Where the run goes next.                                                *)

NextInput ==
    /\ recipe' = 1
    /\ IF input < NumInputs THEN pc' = "input" /\ input' = input + 1
       ELSE pc' = "finalize" /\ UNCHANGED input

Advance ==
    IF recipe < NumRecipes
    THEN pc' = "apply" /\ recipe' = recipe + 1 /\ UNCHANGED input
    ELSE NextInput

(* The pass ends without finalizing.                                       *)
Abandon(outcome) == pc' = "done" /\ err' = outcome /\ UNCHANGED <<input, recipe>>

(* Variant: the error is never terminal.                                   *)
OutputErrorSkips == Advance /\ UNCHANGED <<err, swallowed>>

(* An error the output target, or the ledger, returned for an input that   *)
(* had extracted cleanly.  commitBuiltOutcome stops on it only if the run  *)
(* is fail-fast, or if it is marked terminal, which these errors are not.  *)
OutputError ==
    IF Multi /\ ContinueOnError
    THEN Advance /\ swallowed' = swallowed \cup {<<recipe, input>>} /\ UNCHANGED err
    ELSE Abandon("fatal") /\ UNCHANGED swallowed

Fault == faults < MaxFaults /\ faults' = faults + 1

(* recordFailedSequentialResult for the given recipes: the disposition is  *)
(* always recorded, and the input inventoried if its ledger entry can be   *)
(* made.                                                                   *)
RecordFailed(recipes) ==
    /\ failures' = [r \in Recipes |->
            IF r \in recipes THEN failures[r] \cup {input} ELSE failures[r]]
    /\ \E hashed \in BOOLEAN : inputs' = [r \in Recipes |->
            IF r \in recipes /\ hashed THEN Append(inputs[r], input) ELSE inputs[r]]
    /\ UNCHANGED <<outputs, profiled>>

-----------------------------------------------------------------------------
(* Settling an input.                                                      *)

(* The input cannot be acquired, verified, read or parsed.  extract-multi  *)
(* records it for every recipe even if it then stops.                      *)
InputFails ==
    /\ pc = "input"
    /\ IF ContinueOnError \/ Multi THEN RecordFailed(Recipes) ELSE UNCHANGED books
    /\ IF ContinueOnError THEN NextInput /\ UNCHANGED err ELSE Abandon("fatal")
    /\ UNCHANGED <<options, swallowed, app, temp, trouble, files, manifest, faults>>

Cancel ==
    /\ pc = "input" /\ Multi
    /\ Abandon("canceled")
    /\ UNCHANGED <<options, swallowed, app, temp, trouble, files, books, manifest, faults>>

ReadInput ==
    /\ pc = "input"
    /\ pc' = "apply" /\ recipe' = 1
    /\ UNCHANGED <<options, swallowed, input, app, temp, trouble, files, books, manifest, err, faults>>

(* buildExternalFieldsForFile fails.                                       *)
ExternalFieldsFail ==
    /\ pc = "apply"
    /\ IF ContinueOnError THEN RecordFailed({recipe}) /\ Advance /\ UNCHANGED err
       ELSE Abandon("fatal") /\ UNCHANGED books
    /\ UNCHANGED <<options, swallowed, app, temp, trouble, files, manifest, faults>>

(* newJSONOutputTarget                                                     *)
OpenTarget ==
    /\ pc = "apply"
    /\ \E rows \in RowCounts, verdict \in Verdicts : app' = [rows |-> rows, verdict |-> verdict]
    /\ temp' = Closed /\ trouble' = {} /\ pc' = "write"
    /\ UNCHANGED <<options, swallowed, input, recipe, files, books, manifest, err, faults>>

OpenTargetFails ==
    /\ pc = "apply" /\ Fault
    /\ OutputError
    /\ UNCHANGED <<options, app, temp, trouble, files, books, manifest>>

(* The rows, then OnFileBoundary, which creates the file of an input       *)
(* without rows unless its disposition is failed.                          *)
WriteRows ==
    /\ pc = "write"
    /\ temp' = IF app.rows = 0 /\ app.verdict \in {"error", "failed"} THEN Closed ELSE app.rows
    /\ pc' = "close"
    /\ UNCHANGED <<options, swallowed, input, recipe, app, trouble, files, books, manifest, err, faults>>

(* Creating the temporary file, writing a row, or the boundary fails.      *)
WriteRowsFails ==
    /\ pc = "write" /\ Fault
    /\ \E rows \in {Closed} \cup 0..app.rows : temp' = rows
    /\ trouble' = {"write"} /\ pc' = "close"
    /\ UNCHANGED <<options, swallowed, input, recipe, app, files, books, manifest, err>>

CloseTarget ==
    /\ pc = "close"
    /\ \/ UNCHANGED <<trouble, faults>>
       \/ temp # Closed /\ Fault /\ trouble' = trouble \cup {"close"}
    /\ pc' = "settle"
    /\ UNCHANGED <<options, swallowed, input, recipe, app, temp, files, books, manifest, err>>

InputFailed == app.verdict \in {"error", "failed"} \/ "write" \in trouble

(* result.Error is an error of the output target (isJSONOutputFailure): a  *)
(* failed write, which extract meets as the extraction's own error, or a   *)
(* failed close after a failed disposition without an error.               *)
IsOutputFailure ==
    "write" \in trouble \/ ("close" \in trouble /\ app.verdict = "failed")

(* The failed input's temporary file is removed (Abort) and the failure is *)
(* recorded or ends the run.  extract makes an output failure fatal in     *)
(* every mode; after a failed disposition without an error it still writes *)
(* the manifest of what it has.                                            *)
SettleFailed ==
    /\ pc = "settle" /\ InputFailed
    /\ temp' = Closed
    /\ \/ /\ ~Multi /\ IsOutputFailure
          /\ Abandon("fatal") /\ UNCHANGED books
       \/ /\ ContinueOnError /\ (Multi \/ ~IsOutputFailure)
          /\ RecordFailed({recipe}) /\ Advance /\ UNCHANGED err
       \/ /\ ~ContinueOnError /\ (Multi \/ (~IsOutputFailure /\ app.verdict = "error"))
          /\ Abandon("fatal") /\ UNCHANGED books
       \/ /\ ~ContinueOnError /\ ~Multi /\ ~IsOutputFailure /\ app.verdict = "failed"
          /\ RecordFailed({recipe}) /\ pc' = "finalize" /\ err' = "failed"
          /\ UNCHANGED <<input, recipe>>
    /\ UNCHANGED <<options, swallowed, app, trouble, files, manifest, faults>>

SettleCloseError ==
    /\ pc = "settle" /\ ~InputFailed /\ "close" \in trouble
    /\ temp' = Closed
    /\ OutputError
    /\ UNCHANGED <<options, app, trouble, files, books, manifest, faults>>

WriteFile ==
    files' = [files EXCEPT ![recipe][OutputName[input]] = [input |-> input, count |-> temp]]

(* Variant: the floors are checked after the commit.                       *)
SettleFloorMissLate ==
    /\ pc = "settle" /\ ~InputFailed /\ trouble = {} /\ app.verdict = "floor"
    /\ temp' = Closed /\ WriteFile
    /\ IF ContinueOnError THEN RecordFailed({recipe}) /\ Advance /\ UNCHANGED err
       ELSE Abandon("fatal") /\ UNCHANGED books
    /\ UNCHANGED <<options, swallowed, app, trouble, manifest, faults>>

SettleFloorMiss ==
    /\ pc = "settle" /\ ~InputFailed /\ trouble = {} /\ app.verdict = "floor"
    /\ temp' = Closed
    /\ IF ContinueOnError THEN RecordFailed({recipe}) /\ Advance /\ UNCHANGED err
       ELSE Abandon("fatal") /\ UNCHANGED books
    /\ UNCHANGED <<options, swallowed, app, trouble, files, manifest, faults>>

Clean == pc = "settle" /\ ~InputFailed /\ trouble = {} /\ app.verdict = "applied"

(* jsonOutputTarget.Commit, and the value profile's promotion.             *)
CommitTarget ==
    /\ Clean
    /\ WriteFile /\ temp' = Closed
    /\ profiled' = [profiled EXCEPT ![recipe] = @ \cup {input}]
    /\ pc' = "ledger"
    /\ UNCHANGED <<options, swallowed, input, recipe, app, trouble, inputs, outputs, failures, manifest, err, faults>>

(* The rename fails, or the envelope validation or the upload after it; a  *)
(* local output stays in place in the second case.                         *)
CommitTargetFails ==
    /\ Clean /\ Fault
    /\ temp' = Closed /\ trouble' = {"commit"}
    /\ \/ UNCHANGED files
       \/ ~Cloud /\ WriteFile
    /\ OutputError
    /\ UNCHANGED <<options, app, books, manifest>>

Entry == [name |-> OutputName[input], input |-> input, count |-> app.rows]

(* The input and its output enter the manifest's ledgers.                  *)
LedgerInput ==
    /\ pc = "ledger"
    /\ inputs' = [inputs EXCEPT ![recipe] = Append(@, input)]
    /\ outputs' = [outputs EXCEPT ![recipe] = Append(@, Entry)]
    /\ Advance
    /\ UNCHANGED <<options, swallowed, app, temp, trouble, files, failures, profiled, manifest, err, faults>>

LedgerInputFails ==
    /\ pc = "ledger" /\ Fault
    /\ trouble' = {"ledger"}
    /\ OutputError
    /\ UNCHANGED <<options, app, temp, files, books, manifest>>

-----------------------------------------------------------------------------
(* finalize, one recipe after the other; extract-multi keeps the first     *)
(* error.  A failure may come before the manifest or after it.             *)

Finalized(outcome) ==
    /\ err' = IF err = "nil" \/ (~Multi /\ outcome = "fatal") THEN outcome ELSE err
    /\ IF recipe < NumRecipes THEN recipe' = recipe + 1 /\ UNCHANGED pc
       ELSE pc' = "done" /\ UNCHANGED recipe
    /\ UNCHANGED <<options, input, app, temp, trouble, files, books, swallowed>>

Finalize ==
    /\ pc = "finalize"
    /\ \/ /\ manifest' = [manifest EXCEPT ![recipe] = TRUE]
          /\ Finalized(IF ContinueOnError /\ failures[recipe] # {} THEN "partial" ELSE "nil")
          /\ UNCHANGED faults
       \/ /\ Fault /\ Finalized("fatal")
          /\ \E written \in BOOLEAN : manifest' = [manifest EXCEPT ![recipe] = written]

Done == pc = "done" /\ UNCHANGED vars

Next ==
    \/ InputFails \/ Cancel \/ ReadInput \/ ExternalFieldsFail
    \/ OpenTarget \/ OpenTargetFails \/ WriteRows \/ WriteRowsFails \/ CloseTarget
    \/ SettleFailed \/ SettleCloseError \/ SettleFloorMiss
    \/ CommitTarget \/ CommitTargetFails \/ LedgerInput \/ LedgerInputFails
    \/ Finalize \/ Done

Spec == Init /\ [][Next]_vars

-----------------------------------------------------------------------------
(* Properties.                                                             *)

(* Every variable keeps its type.                                          *)
TypeOK ==
    /\ options \in CommandLines /\ swallowed \subseteq Recipes \X Inputs
    /\ pc \in {"input", "apply", "write", "close", "settle", "ledger", "finalize", "done"}
    /\ input \in Inputs /\ recipe \in Recipes
    /\ app.rows \in RowCounts \cup {0} /\ app.verdict \in Verdicts
    /\ temp \in {Closed} \cup 0..app.rows
    /\ trouble \subseteq {"write", "close", "commit", "ledger"}
    /\ err \in {"nil", "partial", "failed", "canceled", "fatal"} /\ faults \in 0..MaxFaults
    /\ \A r \in Recipes :
          /\ \A n \in Names : files[r][n].input \in 0..NumInputs /\ files[r][n].count \in Nat
          /\ ToSet(inputs[r]) \subseteq Inputs
          /\ failures[r] \subseteq Inputs /\ profiled[r] \subseteq Inputs
          /\ manifest[r] \in BOOLEAN

Listed(r) == {o.input : o \in ToSet(outputs[r])}
Swallowed(r) == {i \in Inputs : <<r, i>> \in swallowed}

(* A manifest is exact: each output it lists is in place and holds all     *)
(* rows of its input, no other output is in place, and the value profile   *)
(* covers exactly the listed inputs; the only exceptions are inputs whose  *)
(* output error extract-multi went on from.                                *)
ManifestMatchesFiles ==
    \A r \in Recipes : manifest[r] =>
        /\ \A o \in ToSet(outputs[r]) : files[r][o.name] = [input |-> o.input, count |-> o.count]
        /\ \A n \in Names : files[r][n] # NoFile =>
               files[r][n].input \in Listed(r) \cup Swallowed(r)
        /\ Listed(r) \subseteq profiled[r] /\ profiled[r] \subseteq Listed(r) \cup Swallowed(r)

(* No input is dropped for any other reason: every input the run came to   *)
(* is, for each recipe with a manifest, in its inventory, among its        *)
(* failures, or one whose output error was swallowed.                      *)
NothingElseDropped ==
    \A r \in Recipes : manifest[r] =>
        1..input \subseteq ToSet(inputs[r]) \cup failures[r] \cup Swallowed(r)

(* A failed input never has an output file.                                *)
FailedHasNoOutput ==
    \A r \in Recipes, n \in Names : files[r][n].input \notin failures[r]

(* Whatever happens to an input, no temporary file of it is left.          *)
NoTempLeft == temp # Closed => pc \in {"close", "settle"}

(* A zero exit lists, for every recipe, an output for every input whose    *)
(* output error was not swallowed.                                         *)
ZeroExitAccounted ==
    pc = "done" /\ err = "nil" =>
        \A r \in Recipes : manifest[r] /\ Listed(r) = Inputs \ Swallowed(r)

(* Exit status zero means every resolved input was applied for every       *)
(* recipe (docs/extract-workflow.md, "Knowing a multi-input run            *)
(* completed"), and output and ledger failures are never suppressed by     *)
(* --continue-on-error (the comment of terminalDispatchError).             *)
ZeroExitMeansAllApplied ==
    pc = "done" /\ err = "nil" =>
        \A r \in Recipes : manifest[r] /\ Listed(r) = Inputs
(* Files, manifest and value profile agree: what is listed is in place, a  *)
(* failed input has no output, and no temporary file outlives its input.   *)
OutputsHonest == TypeOK /\ ManifestMatchesFiles /\ FailedHasNoOutput /\ NoTempLeft

(* No input is lost but those whose output error extract-multi swallows,   *)
(* in a finished run and, with a zero exit, in its list of outputs.        *)
InputsAccounted == NothingElseDropped /\ ZeroExitAccounted
==============================================================================
