----------------------------- MODULE AggregateRun -----------------------------
(***************************************************************************)
(* Aggregate output (--output-mode aggregate): the inputs of a run are     *)
(* settled in ordinal order into one rolling sequence of NDJSON shards per *)
(* recipe, and each recipe ends with a manifest that lists its shards and  *)
(* inputs.  Models aggregateWriter and runAggregateJSONStreamingExtraction *)
(* (cmd/sumpter/commands/extract_aggregate.go), commitAggregateApplication *)
(* (extract_multi_bundle.go), finalizeAggregate (extract_multi_aggregate.  *)
(* go) and the run level of extract_multi_dispatch.go.                     *)
(*                                                                         *)
(* A row is its input, its position in the input and its size.  The cloud  *)
(* object of a shard appears when the shard is finalized; local shards get *)
(* their final names together (the steps of that are in DurableCommit) and *)
(* a failed run's local cleanup is taken to succeed here.                  *)
(***************************************************************************)
EXTENDS Integers, SequencesExt

CONSTANTS
    CommandLines,   \* the ways a run may be started
    RowPlans,       \* the row-size sequences an input may extract to
    MaxFaults       \* bound on failing output operations

(* What a run is started with: how many inputs its arguments resolve to,   *)
(* its recipes, the command (streaming: sumpter extract, otherwise         *)
(* extract-multi), the kind of output location, whether the recipes        *)
(* declare min_occurrences floors, and the flags.  A cap of 0 is none.     *)
CommandLine ==
    [inputs : Nat \ {0}, recipes : Nat \ {0}, streaming : BOOLEAN, cloud : BOOLEAN,
     floors : BOOLEAN, continueOnError : BOOLEAN, emitInputIdentity : BOOLEAN,
     maxRecords : Nat, maxBytes : Nat]

ASSUME AggregateAssumption ==
    /\ RowPlans \subseteq Seq(Nat \ {0}) /\ MaxFaults \in Nat
    /\ \A o \in CommandLines :
          /\ o \in CommandLine
          /\ o.cloud => o.maxBytes > 0
          /\ o.streaming => o.recipes = 1

VARIABLES
    options,    \* the command line; never changes
    pc,         \* where the run is
    input,      \* ordinal being settled (currentInputOrdinal)
    recipe,     \* recipe being worked on
    app,        \* the recipe's application to the input: its rows and verdict
    done,       \* rows of app handed to the writer
    before,     \* totalRecords when the application started
    pending,    \* per recipe: the per-input buffer
    isOpen,     \* per recipe: a shard is open
    shard,      \* per recipe: the open shard
    shards,     \* per recipe: finalized shards
    objects,    \* per recipe: shards a reader finds under their final names
    ledger,     \* per recipe: manifestInputs
    failures,   \* per recipe: the inputs in the failure manifest
    extracted,  \* per recipe and input: rows of a clean extraction
    manifest,   \* per recipe: manifest.json
    err,        \* the error the run returns: nil, partial, canceled, fatal
    hard,       \* the recipes a hard error was met in
    unlisted,   \* the recipes whose incomplete manifest could not be written
    faults      \* output operations that failed

place == <<pc, input, recipe, app, done, before>>
writer == <<pending, isOpen, shard, shards, objects>>
books == <<ledger, failures, extracted>>
verdicts == <<manifest, err, hard, unlisted>>
vars == <<options, place, writer, books, verdicts, faults>>

NumInputs == options.inputs
NumRecipes == options.recipes
Streaming == options.streaming
Cloud == options.cloud
Floors == options.floors
ContinueOnError == options.continueOnError
EmitInputIdentity == options.emitInputIdentity
MaxRecords == options.maxRecords
MaxBytes == options.maxBytes

Inputs == 1..NumInputs
Recipes == 1..NumRecipes

(* aggregateBuffering: rows wait in the per-input buffer until the input   *)
(* has extracted cleanly.                                                  *)
Buffering == ContinueOnError \/ Floors

Verdicts == {"applied", "not_applicable", "failed"}
                \cup (IF Floors THEN {"floor"} ELSE {})

Clean(verdict) == verdict \in {"applied", "not_applicable"}

NewShard == [rows |-> <<>>, first |-> 0, last |-> 0]
NoManifest == [kind |-> "none", shards |-> <<>>, inputs |-> <<>>, counted |-> FALSE]

Init ==
    /\ options \in CommandLines
    /\ pc = "input" /\ input = 1 /\ recipe = 1 /\ done = 0 /\ before = 0
    /\ app = [rows |-> <<>>, verdict |-> "applied"]
    /\ pending = [r \in Recipes |-> <<>>]
    /\ isOpen = [r \in Recipes |-> FALSE]
    /\ shard = [r \in Recipes |-> NewShard]
    /\ shards = [r \in Recipes |-> <<>>]
    /\ objects = [r \in Recipes |-> <<>>]
    /\ ledger = [r \in Recipes |-> <<>>]
    /\ failures = [r \in Recipes |-> {}]
    /\ extracted = [r \in Recipes |-> [i \in Inputs |-> 0]]
    /\ manifest = [r \in Recipes |-> NoManifest]
    /\ err = "nil" /\ hard = {} /\ unlisted = {} /\ faults = 0

-----------------------------------------------------------------------------
(* Rows, shards and where the run goes next.                               *)

Bytes(rows) == MapThenSumSet(LAMBDA n : rows[n].size, DOMAIN rows)

(* totalRecords                                                            *)
RowsWritten(r) ==
    Len(shard[r].rows) + MapThenSumSet(LAMBDA j : Len(shards[r][j].rows), DOMAIN shards[r])

(* Variant: the record cap is checked one row late.                        *)
RollsLate(s, row) ==
    /\ Len(s.rows) > 0
    /\ \/ MaxBytes > 0 /\ Bytes(s.rows) > MaxBytes
       \/ MaxRecords > 0 /\ Len(s.rows) > MaxRecords

(* writeRecordLocked: the row would push the open shard past a cap.        *)
Rolls(s, row) ==
    /\ Len(s.rows) > 0
    /\ \/ MaxBytes > 0 /\ Bytes(s.rows) + row.size > MaxBytes
       \/ MaxRecords > 0 /\ Len(s.rows) >= MaxRecords

(* A cloud row larger than a shard can never be published.                 *)
Unpublishable(row) == Cloud /\ row.size > MaxBytes

Extended(s, row) ==
    [rows |-> Append(s.rows, row),
     first |-> IF s.first = 0 THEN input ELSE s.first,
     last |-> input]

(* writeRecordLocked for the current recipe, without its failures.         *)
WriteRecord(row) ==
    LET old == shard[recipe]
        rolls == isOpen[recipe] /\ Rolls(old, row)
        base == IF isOpen[recipe] /\ ~rolls THEN old ELSE NewShard
    IN  /\ ~Unpublishable(row)
        /\ isOpen' = [isOpen EXCEPT ![recipe] = TRUE]
        /\ shard' = [shard EXCEPT ![recipe] = Extended(base, row)]
        /\ shards' = IF rolls THEN [shards EXCEPT ![recipe] = Append(@, old)] ELSE shards
        /\ objects' = IF rolls /\ Cloud
                      THEN [objects EXCEPT ![recipe] = Append(@, old)] ELSE objects

(* writeRecordLocked fails: the row is unpublishable, or the write does    *)
(* (before or after a roll), or the roll's finalize or open.               *)
WriteRecordFails(row) ==
    LET old == shard[recipe]
        rolls == isOpen[recipe] /\ Rolls(old, row)
    IN  \/ Unpublishable(row) /\ UNCHANGED <<isOpen, shard, shards, objects, faults>>
        \/ /\ ~Unpublishable(row) /\ faults < MaxFaults /\ faults' = faults + 1
           /\ \/ UNCHANGED <<isOpen, shard, shards, objects>>
              \/ /\ rolls
                 /\ \E reopened \in BOOLEAN : isOpen' = [isOpen EXCEPT ![recipe] = reopened]
                 /\ shard' = [shard EXCEPT ![recipe] = NewShard]
                 /\ shards' = [shards EXCEPT ![recipe] = Append(@, old)]
                 /\ objects' = IF Cloud THEN [objects EXCEPT ![recipe] = Append(@, old)] ELSE objects

(* Next recipe of this input, next input, or the finalize loop.            *)
Advance ==
    /\ UNCHANGED <<app, done, before>>
    /\ IF recipe < NumRecipes
       THEN pc' = "apply" /\ recipe' = recipe + 1 /\ UNCHANGED input
       ELSE /\ recipe' = 1
            /\ IF input < NumInputs
               THEN pc' = "input" /\ input' = input + 1
               ELSE pc' = "commit" /\ UNCHANGED input

(* An error ends the pass before any recipe is finalized.                  *)
Abandon(recipes) ==
    /\ pc' = "cleanup" /\ recipe' = 1
    /\ err' = "fatal" /\ hard' = recipes
    /\ UNCHANGED <<input, app, done, before, manifest, unlisted>>

Entry(count, disposition) ==
    [ordinal |-> input, count |-> count, disposition |-> disposition]

-----------------------------------------------------------------------------
(* Settling an input.                                                      *)

(* Variant: an input that cannot be hashed is left out of the failures.    *)
RecordFailedIfLedgered(recipes, ledgered) ==
    /\ failures' = [r \in Recipes |->
            IF r \in recipes /\ ledgered THEN failures[r] \cup {input} ELSE failures[r]]
    /\ ledger' = [r \in Recipes |->
            IF r \in recipes /\ ledgered THEN Append(ledger[r], Entry(0, "failed")) ELSE ledger[r]]
    /\ UNCHANGED extracted

(* recordFailedAggregateInput for the given recipes: into the failure      *)
(* manifest always, into the ledger if the input could be hashed.          *)
RecordFailed(recipes, ledgered) ==
    /\ failures' = [r \in Recipes |->
            IF r \in recipes THEN failures[r] \cup {input} ELSE failures[r]]
    /\ ledger' = [r \in Recipes |->
            IF r \in recipes /\ ledgered THEN Append(ledger[r], Entry(0, "failed")) ELSE ledger[r]]
    /\ UNCHANGED extracted

(* The input cannot be acquired, verified, read or parsed: every recipe    *)
(* records it.                                                             *)
InputFails ==
    /\ pc = "input"
    /\ \E ledgered \in BOOLEAN :
          /\ RecordFailed(IF Streaming /\ ~ContinueOnError THEN {} ELSE Recipes, ledgered)
          /\ IF ContinueOnError /\ (ledgered \/ ~EmitInputIdentity)
             THEN /\ recipe' = 1 /\ UNCHANGED <<app, done, before, verdicts>>
                  /\ IF input < NumInputs
                     THEN pc' = "input" /\ input' = input + 1
                     ELSE pc' = "commit" /\ UNCHANGED input
             ELSE Abandon(Recipes)
    /\ UNCHANGED <<options, writer, faults>>

(* The context is canceled; inputs settled so far are not finalized.       *)
Cancel ==
    /\ pc = "input" /\ ~Streaming
    /\ pc' = "cleanup" /\ recipe' = 1 /\ err' = "canceled"
    /\ UNCHANGED <<options, input, app, done, before, writer, books, manifest, hard, unlisted, faults>>

(* The input is read; the recipes are applied one after the other.         *)
ReadInput ==
    /\ pc = "input"
    /\ pc' = "apply" /\ recipe' = 1
    /\ UNCHANGED <<options, input, app, done, before, writer, books, verdicts, faults>>

(* beginInput, and the outcome of applying the recipe: in extract-multi    *)
(* the rows are already built, in extract they stream during extraction.   *)
Apply ==
    /\ pc = "apply"
    /\ \E rows \in RowPlans, verdict \in Verdicts :
          /\ verdict = "not_applicable" => rows = <<>>
          /\ app' = [rows |-> rows, verdict |-> verdict]
          /\ pc' = IF Streaming \/ Clean(verdict) THEN "rows" ELSE "verdict"
    /\ pending' = [pending EXCEPT ![recipe] = <<>>]
    /\ done' = 0 /\ before' = RowsWritten(recipe)
    /\ UNCHANGED <<options, input, recipe, isOpen, shard, shards, objects, books, verdicts, faults>>

Row(n) == [input |-> input, index |-> n, size |-> app.rows[n]]

(* OnRecord, writeMarshaled: into the buffer, or straight to the shard.    *)
OnRecord ==
    /\ pc = "rows" /\ done < Len(app.rows)
    /\ IF Buffering
       THEN /\ pending' = [pending EXCEPT ![recipe] = Append(@, Row(done + 1))]
            /\ UNCHANGED <<isOpen, shard, shards, objects>>
       ELSE WriteRecord(Row(done + 1)) /\ UNCHANGED pending
    /\ done' = done + 1
    /\ UNCHANGED <<options, pc, input, recipe, app, before, books, verdicts, faults>>

RowsEnd ==
    /\ pc = "rows" /\ done = Len(app.rows)
    /\ pc' = "verdict"
    /\ UNCHANGED <<options, input, recipe, app, done, before, writer, books, verdicts, faults>>

(* A failing direct write is fatal: without a buffer the run is fail-fast. *)
OnRecordFails ==
    /\ pc = "rows" /\ done < Len(app.rows) /\ ~Buffering
    /\ WriteRecordFails(Row(done + 1))
    /\ Abandon({recipe})
    /\ UNCHANGED <<options, pending, books>>

(* discardInput, then fail-fast or the failure record.                     *)
Discard ==
    /\ pc = "verdict" /\ ~Clean(app.verdict)
    /\ pending' = [pending EXCEPT ![recipe] = <<>>]
    /\ IF ContinueOnError
       THEN \E ledgered \in BOOLEAN :
              /\ RecordFailed({recipe}, ledgered)
              /\ IF ledgered \/ ~EmitInputIdentity
                 THEN Advance /\ UNCHANGED verdicts
                 ELSE Abandon({recipe})
       ELSE Abandon({recipe}) /\ UNCHANGED books
    /\ UNCHANGED <<options, isOpen, shard, shards, objects, faults>>

(* commitInput: the next buffered row goes to the shard.                   *)
CommitInput ==
    /\ pc = "verdict" /\ Clean(app.verdict) /\ pending[recipe] # <<>>
    /\ \/ /\ WriteRecord(Head(pending[recipe]))
          /\ pending' = [pending EXCEPT ![recipe] = Tail(@)]
          /\ UNCHANGED <<place, verdicts, faults>>
       \/ /\ WriteRecordFails(Head(pending[recipe]))
          /\ Abandon({recipe})
          /\ UNCHANGED pending
    /\ UNCHANGED <<options, books>>

(* The flushed input enters the ledger with the number of rows the shard   *)
(* sequence has grown by.                                                  *)
LedgerInput ==
    /\ pc = "verdict" /\ Clean(app.verdict) /\ pending[recipe] = <<>>
    /\ \/ /\ ledger' = [ledger EXCEPT ![recipe] =
                 Append(@, Entry(RowsWritten(recipe) - before, app.verdict))]
          /\ extracted' = [extracted EXCEPT ![recipe][input] = Len(app.rows)]
          /\ Advance /\ UNCHANGED <<failures, verdicts, faults>>
       \/ /\ faults < MaxFaults /\ faults' = faults + 1
          /\ Abandon({recipe}) /\ UNCHANGED books
    /\ UNCHANGED <<options, writer>>

-----------------------------------------------------------------------------
(* finalizeAggregate, one recipe after the other.                          *)

(* The recipe's finalize returns outcome; the loop keeps the first error.  *)
(* A single-recipe run goes on to its deferred cleanup all the same.       *)
Finalized(outcome) ==
    /\ err' = IF err = "nil" THEN outcome ELSE err
    /\ hard' = IF outcome = "fatal" THEN hard \cup {recipe} ELSE hard
    /\ IF recipe < NumRecipes
       THEN pc' = "commit" /\ recipe' = recipe + 1
       ELSE pc' = "cleanup" /\ recipe' = 1
    /\ UNCHANGED <<input, app, done, before, unlisted>>

(* aggregateWriter.commit: an empty run gets one empty shard over all      *)
(* inputs; the open shard is finalized; local shards are renamed.          *)
Commit ==
    /\ pc = "commit"
    /\ LET empty == ~isOpen[recipe] /\ shards[recipe] = <<>>
           last == IF empty THEN [rows |-> <<>>, first |-> 1, last |-> NumInputs]
                   ELSE shard[recipe]
           all == IF empty \/ isOpen[recipe] THEN Append(shards[recipe], last) ELSE shards[recipe]
       IN  /\ shards' = [shards EXCEPT ![recipe] = all]
           /\ objects' = [objects EXCEPT ![recipe] = all]
    /\ isOpen' = [isOpen EXCEPT ![recipe] = FALSE]
    /\ shard' = [shard EXCEPT ![recipe] = NewShard]
    /\ pc' = "manifest"
    /\ UNCHANGED <<options, input, recipe, app, done, before, pending, books, verdicts, faults>>

(* commit fails: the last shard is not finalized, and finalizeAggregate    *)
(* aborts, which closes it.                                                *)
CommitFails ==
    /\ pc = "commit" /\ faults < MaxFaults /\ faults' = faults + 1
    /\ isOpen' = [isOpen EXCEPT ![recipe] = FALSE]
    /\ Finalized("fatal")
    /\ UNCHANGED <<options, pending, shard, shards, objects, books, manifest>>

(* failures.json, dispositions.json, the input accounting, the envelope    *)
(* validation and the manifest itself; the manifest is written last.       *)
WriteManifest ==
    /\ pc = "manifest"
    /\ manifest' = [manifest EXCEPT ![recipe] =
            [kind |-> "complete", shards |-> shards[recipe], inputs |-> ledger[recipe],
             counted |-> Len(ledger[recipe]) = NumInputs]]
    /\ pc' = "descriptor"
    /\ UNCHANGED <<options, input, recipe, app, done, before, writer, books, err, hard, unlisted, faults>>

WriteManifestFails ==
    /\ pc = "manifest" /\ faults < MaxFaults /\ faults' = faults + 1
    /\ Finalized("fatal")
    /\ UNCHANGED <<options, writer, books, manifest>>

(* The descriptor and the output validation follow the manifest; what the  *)
(* recipe then returns depends on its failures.                            *)
FinishRecipe ==
    /\ pc = "descriptor"
    /\ \/ /\ Finalized(IF ContinueOnError /\ failures[recipe] # {} THEN "partial" ELSE "nil")
          /\ UNCHANGED faults
       \/ faults < MaxFaults /\ faults' = faults + 1 /\ Finalized("fatal")
    /\ UNCHANGED <<options, writer, books, manifest>>

(* Variant: the cleanup lists no orphans and removes nothing local.        *)
CleanupForgets ==
    /\ pc = "cleanup"
    /\ isOpen' = [isOpen EXCEPT ![recipe] = FALSE]
    /\ IF recipe < NumRecipes
       THEN recipe' = recipe + 1 /\ UNCHANGED pc
       ELSE pc' = "done" /\ UNCHANGED recipe
    /\ UNCHANGED <<options, input, app, done, before, pending, shard, shards, objects, books, verdicts, faults>>

(* Variant: the cleanup does not ask whether the recipe is finalized.      *)
CleanupIgnoresFinalized ==
    /\ pc = "cleanup"
    /\ manifest' = IF err # "nil" /\ Cloud /\ shards[recipe] # <<>>
                   THEN [manifest EXCEPT ![recipe] =
                           [kind |-> "incomplete", shards |-> shards[recipe],
                            inputs |-> ledger[recipe], counted |-> FALSE]]
                   ELSE manifest
    /\ objects' = IF Cloud THEN objects ELSE [objects EXCEPT ![recipe] = <<>>]
    /\ isOpen' = [isOpen EXCEPT ![recipe] = FALSE]
    /\ IF recipe < NumRecipes
       THEN recipe' = recipe + 1 /\ UNCHANGED pc
       ELSE pc' = "done" /\ UNCHANGED recipe
    /\ UNCHANGED <<options, input, app, done, before, pending, shard, shards, books, err, hard, unlisted, faults>>

(* The deferred cleanup: published shards of a recipe without its own      *)
(* manifest are listed in an incomplete one, then the writer is aborted:   *)
(* unpublished staging goes, and everything local that is not committed.   *)
Cleanup ==
    /\ pc = "cleanup"
    /\ LET orphans == /\ err # "nil" /\ manifest[recipe].kind # "complete"
                      /\ Cloud /\ shards[recipe] # <<>>
       IN  \/ /\ orphans
              /\ manifest' = [manifest EXCEPT ![recipe] =
                     [kind |-> "incomplete", shards |-> shards[recipe],
                      inputs |-> ledger[recipe], counted |-> FALSE]]
              /\ UNCHANGED <<unlisted, faults>>
           \/ /\ orphans /\ faults < MaxFaults /\ faults' = faults + 1
              /\ unlisted' = unlisted \cup {recipe} /\ UNCHANGED manifest
           \/ ~orphans /\ UNCHANGED <<manifest, unlisted, faults>>
    /\ isOpen' = [isOpen EXCEPT ![recipe] = FALSE]
    /\ objects' = IF Cloud \/ manifest[recipe].kind = "complete" THEN objects
                  ELSE [objects EXCEPT ![recipe] = <<>>]
    /\ IF recipe < NumRecipes
       THEN recipe' = recipe + 1 /\ UNCHANGED pc
       ELSE pc' = "done" /\ UNCHANGED recipe
    /\ UNCHANGED <<options, input, app, done, before, pending, shard, shards, books, err, hard>>

Done == pc = "done" /\ UNCHANGED vars

Next ==
    \/ InputFails \/ Cancel \/ ReadInput \/ Apply \/ OnRecord \/ OnRecordFails \/ RowsEnd
    \/ Discard \/ CommitInput \/ LedgerInput
    \/ Commit \/ CommitFails \/ WriteManifest \/ WriteManifestFails \/ FinishRecipe
    \/ Cleanup \/ Done

Spec == Init /\ [][Next]_vars

-----------------------------------------------------------------------------
(* Properties.                                                             *)

Shard == [rows : Seq([input : Inputs, index : Nat, size : Nat]), first : 0..NumInputs, last : 0..NumInputs]

(* Every variable keeps its type, and a shard is open only while it has    *)
(* rows or a write to it has failed.                                       *)
TypeOK ==
    /\ options \in CommandLines
    /\ pc \in {"input", "apply", "rows", "verdict", "commit", "manifest", "descriptor", "cleanup", "done"}
    /\ input \in Inputs /\ recipe \in Recipes /\ done \in 0..Len(app.rows) /\ before \in Nat
    /\ app.rows \in RowPlans \cup {<<>>} /\ app.verdict \in Verdicts
    /\ err \in {"nil", "partial", "canceled", "fatal"} /\ hard \subseteq Recipes
    /\ unlisted \subseteq Recipes /\ faults \in 0..MaxFaults
    /\ \A r \in Recipes :
          /\ shard[r] \in Shard /\ pending[r] \in Seq([input : Inputs, index : Nat, size : Nat])
          /\ \A s \in ToSet(shards[r]) \cup ToSet(objects[r]) : s \in Shard
          /\ \A e \in ToSet(ledger[r]) : e.ordinal \in Inputs /\ e.count \in Nat
          /\ failures[r] \subseteq Inputs /\ extracted[r] \in [Inputs -> Nat]
          /\ manifest[r].kind \in {"none", "complete", "incomplete"}
          /\ isOpen[r] => shard[r].rows # <<>> \/ err = "fatal"

(* Everything the recipe's writer has put into shards, in order.           *)
AllShards(r) == IF shard[r].rows = <<>> THEN shards[r] ELSE Append(shards[r], shard[r])
Identity(rows) == [n \in DOMAIN rows |-> <<rows[n].input, rows[n].index>>]
RowsOf(list) == Identity(FlattenSeq([j \in DOMAIN list |-> list[j].rows]))
RowsOfInputs(inputs) ==
    FlattenSeq([j \in DOMAIN inputs |-> [n \in 1..inputs[j].count |-> <<inputs[j].ordinal, n>>]])

(* A complete manifest reconciles (R4): reading its shards one after the   *)
(* other gives the rows of its inputs in ordinal order, each input with    *)
(* exactly the rows it extracted to and the count its entry states, and    *)
(* the shards it lists are the ones a reader finds.                        *)
CompleteManifestReconciles ==
    \A r \in Recipes : manifest[r].kind = "complete" =>
        LET m == manifest[r] IN
        /\ RowsOf(m.shards) = RowsOfInputs(m.inputs)
        /\ \A e \in ToSet(m.inputs) : e.disposition # "failed" => e.count = extracted[r][e.ordinal]
        /\ m.shards = objects[r]

(* No input is dropped silently (R5): a complete manifest's recipe has     *)
(* every resolved input either in the inventory as settled or among the    *)
(* failures, and when the accounting integers are emitted the inventory    *)
(* has exactly one entry per input.                                        *)
EveryInputAccounted ==
    \A r \in Recipes : manifest[r].kind = "complete" =>
        LET m == manifest[r]
            settled == {e.ordinal : e \in {d \in ToSet(m.inputs) : d.disposition # "failed"}}
        IN  /\ settled \cap failures[r] = {} /\ settled \cup failures[r] = Inputs
            /\ m.counted => [j \in DOMAIN m.inputs |-> m.inputs[j].ordinal] = [j \in Inputs |-> j]
            /\ ~ContinueOnError => failures[r] = {}

(* The per-input barrier: with --continue-on-error or floors no row of a   *)
(* failed input ever reaches a shard, and so none is ever published.       *)
FailedRowsStayOut ==
    ContinueOnError \/ Floors => \A r \in Recipes : \A s \in ToSet(AllShards(r)) : \A row \in ToSet(s.rows) :
        /\ row.input \notin failures[r]
        /\ pc = "verdict" /\ app.verdict \in {"failed", "floor"} /\ r = recipe => row.input # input

(* Shards respect both caps (only a local row larger than the byte cap may *)
(* exceed it, alone in its shard) and never roll early.                    *)
ShardsPacked ==
    \A r \in Recipes : LET all == AllShards(r) IN
        /\ \A s \in ToSet(all) :
              /\ MaxRecords > 0 => Len(s.rows) <= MaxRecords
              /\ MaxBytes > 0 => Bytes(s.rows) <= MaxBytes \/ (~Cloud /\ Len(s.rows) = 1)
        /\ \A j \in 1..Len(all) - 1 : Rolls(all[j], Head(all[j + 1].rows))

(* A shard's ordinal range is the range of inputs whose rows it holds; an  *)
(* empty shard is the only one of its recipe and covers every input.       *)
SpansHonest ==
    \A r \in Recipes : LET all == AllShards(r) IN
        /\ \A s \in ToSet(all) :
              IF s.rows = <<>> THEN all = <<s>> /\ s.first = 1 /\ s.last = NumInputs
              ELSE s.first = Head(s.rows).input /\ s.last = Last(s.rows).input
        /\ \A j \in 1..Len(all) - 1 : all[j].last <= all[j + 1].first

(* What a finished run leaves under final names is exactly what some       *)
(* manifest of the recipe lists, unless writing the incomplete manifest    *)
(* failed too; a failed local run leaves nothing (R8).                     *)
OutputDiscoverable ==
    pc = "done" => \A r \in Recipes :
        \/ r \in unlisted
        \/ objects[r] = <<>> /\ manifest[r].kind = "none"
        \/ manifest[r].kind # "none" /\ manifest[r].shards = objects[r]

(* Exit status zero means every resolved input was applied, or found not   *)
(* applicable, for every recipe and its complete manifest is in place.     *)
ZeroExitMeansAllApplied ==
    pc = "done" /\ err = "nil" => \A r \in Recipes :
        /\ manifest[r].kind = "complete" /\ failures[r] = {} /\ r \notin hard
        /\ manifest[r].counted

(* Per-recipe isolation: once a recipe's complete manifest is written, a   *)
(* later failure of a sibling, of the descriptor or of the validation      *)
(* neither replaces it nor withdraws its shards.                           *)
CompleteIsFinal ==
    [][\A r \in Recipes : manifest[r].kind = "complete" =>
           manifest'[r] = manifest[r] /\ objects'[r] = objects[r]]_vars
(* Manifests, shards and objects agree: a complete manifest reconciles     *)
(* with the published shards, and whatever is published is listed.         *)
ManifestsHonest == TypeOK /\ CompleteManifestReconciles /\ OutputDiscoverable

(* No input is lost: each is settled or failed in every complete manifest, *)
(* and a zero exit means all of them were applied.                         *)
InputsAccounted == EveryInputAccounted /\ ZeroExitMeansAllApplied

(* Shards hold the rows of applied inputs only, are packed to their caps   *)
(* and labelled with exactly the inputs they hold.                         *)
ShardsExact == FailedRowsStayOut /\ ShardsPacked /\ SpansHonest
==============================================================================
