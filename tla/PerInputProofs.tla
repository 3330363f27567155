---------------------------- MODULE PerInputProofs -----------------------------
(***************************************************************************)
(* Proofs about per-input output (PerInputRun): for any number of inputs   *)
(* and recipes, every command line and any number of failing operations.   *)
(***************************************************************************)
EXTENDS PerInputRun, TLAPS

-------------------------------------------------------------------------------
(* The inductive invariant.                                                *)

Settling == {"apply", "write", "close", "settle", "ledger"}
Stages == Settling \cup {"input", "finalize", "done"}
Outcomes == {"nil", "partial", "failed", "canceled", "fatal"}
File == [input : 0..NumInputs, count : Nat]
Output == [name : Names, input : Inputs, count : Nat]

Types ==
    /\ options \in CommandLines /\ pc \in Stages /\ input \in Inputs /\ recipe \in Recipes
    /\ app \in [rows : RowCounts \cup {0}, verdict : Verdicts]
    /\ temp \in {Closed} \cup 0..app.rows /\ trouble \subseteq {"write", "close", "commit", "ledger"}
    /\ files \in [Recipes -> [Names -> File]]
    /\ inputs \in [Recipes -> Seq(Inputs)] /\ outputs \in [Recipes -> Seq(Output)]
    /\ failures \in [Recipes -> SUBSET Inputs] /\ profiled \in [Recipes -> SUBSET Inputs]
    /\ manifest \in [Recipes -> BOOLEAN] /\ swallowed \subseteq Recipes \X Inputs
    /\ err \in Outcomes /\ faults \in 0..MaxFaults

(* The temporary file, from its creation to the rename.                    *)
Target ==
    /\ NoTempLeft
    /\ pc = "write" => trouble = {}
    /\ pc \in {"close", "settle"} /\ "write" \notin trouble /\ app.verdict \notin {"error", "failed"}
         => temp = app.rows
    /\ pc = "ledger" => /\ files[recipe][OutputName[input]] = [input |-> input, count |-> app.rows]
                        /\ input \in profiled[recipe]

(* The manifests, the error and the recipes finalized.                     *)
Control ==
    /\ pc \notin {"finalize", "done"} => err = "nil" /\ \A r \in Recipes : ~manifest[r]
    /\ pc = "finalize" => /\ \A r \in Recipes : manifest[r] => r < recipe
                          /\ err # "nil" \/ input = NumInputs
                          /\ err = "nil" => \A r \in 1..(recipe - 1) : manifest[r] /\ failures[r] = {}
    /\ ~ContinueOnError /\ pc # "done" /\ err = "nil" => \A r \in Recipes : failures[r] = {}

(* No two inputs of a run have the same output name.  Nothing in the code  *)
(* prevents it: a later input then replaces the output of an earlier one.  *)
DistinctNames ==
    \A o \in CommandLines : \A i, j \in DOMAIN o.outputName :
        o.outputName[i] = o.outputName[j] => i = j

(* The books of one recipe: with n inputs settled, and those of extra in   *)
(* the middle of it, the inventory I, the outputs O, the failures F, the   *)
(* profile P and the swallowed inputs S agree with the files fl.           *)
Balanced(names, n, extra, I, O, F, P, S, fl) ==
    LET L == {o.input : o \in O} IN
    /\ 1..n \subseteq I \cup F \cup S /\ 1..n \subseteq L \cup F \cup S
    /\ L \subseteq 1..n /\ F \subseteq 1..n /\ S \subseteq 1..n /\ L \cap S = {}
    /\ L \subseteq P /\ P \subseteq L \cup S \cup extra
    /\ \A o \in O : o.name = names[o.input]
    /\ DistinctNames => \A o \in O : fl[o.name] = [input |-> o.input, count |-> o.count]
    /\ \A m \in Names : fl[m] # NoFile => m = names[fl[m].input] /\ fl[m].input \in L \cup S \cup extra
    /\ \A m \in Names : fl[m].input \notin F

Passed(r) == IF pc = "input" \/ (pc \in Settling /\ r >= recipe) THEN input - 1 ELSE input
Halfway(r) == IF pc = "ledger" /\ r = recipe THEN {input} ELSE {}
Settled(r) == Balanced(OutputName, Passed(r), Halfway(r), ToSet(inputs[r]), ToSet(outputs[r]),
                       failures[r], profiled[r], Swallowed(r), files[r])

PerInputInv ==
    /\ Types /\ Target /\ Control
    /\ pc # "done" => \A r \in Recipes : Settled(r)
    /\ FailedHasNoOutput
    /\ DistinctNames => ManifestMatchesFiles
    /\ NothingElseDropped /\ ZeroExitAccounted

-------------------------------------------------------------------------------
(* What the settling of input n does to the books of a recipe.             *)

LEMMA FailedBalance ==
  ASSUME NEW names, NEW n \in Nat \ {0}, NEW I, NEW J, NEW O, NEW F, NEW P, NEW S, NEW fl,
         Balanced(names, n - 1, {}, I, O, F, P, S, fl), I \subseteq J
  PROVE  Balanced(names, n, {}, J, O, F \cup {n}, P, S, fl)
<1> DEFINE L == {o.input : o \in O}
<1>1. 1..n = (1..(n - 1)) \cup {n} /\ n \notin 1..(n - 1)
  OBVIOUS
<1>2. /\ 1..(n - 1) \subseteq I \cup F \cup S /\ 1..(n - 1) \subseteq L \cup F \cup S
      /\ L \subseteq 1..(n - 1) /\ F \subseteq 1..(n - 1) /\ S \subseteq 1..(n - 1) /\ L \cap S = {}
      /\ L \subseteq P /\ P \subseteq L \cup S \cup {}
      /\ \A o \in O : o.name = names[o.input]
      /\ DistinctNames => \A o \in O : fl[o.name] = [input |-> o.input, count |-> o.count]
      /\ \A m \in Names : fl[m] # NoFile => m = names[fl[m].input] /\ fl[m].input \in L \cup S
      /\ \A m \in Names : fl[m].input \notin F
  BY DEF Balanced
<1>3. \A m \in Names : fl[m].input # n
  BY <1>1, <1>2 DEF NoFile
<1> HIDE DEF L
<1>4. /\ 1..n \subseteq J \cup (F \cup {n}) \cup S /\ 1..n \subseteq L \cup (F \cup {n}) \cup S
      /\ L \subseteq 1..n /\ (F \cup {n}) \subseteq 1..n /\ S \subseteq 1..n
      /\ \A m \in Names : fl[m].input \notin F \cup {n}
  BY <1>1, <1>2, <1>3
<1> QED
  BY <1>2, <1>4 DEF Balanced, L

LEMMA SwallowedBalance ==
  ASSUME NEW names, NEW n \in Nat \ {0}, NEW E, NEW I, NEW O, NEW F, NEW P, NEW S, NEW fl,
         Balanced(names, n - 1, E, I, O, F, P, S, fl), E \subseteq {n}
  PROVE  Balanced(names, n, {}, I, O, F, P, S \cup {n}, fl)
<1> DEFINE L == {o.input : o \in O}
<1>1. 1..n = (1..(n - 1)) \cup {n} /\ n \notin 1..(n - 1)
  OBVIOUS
<1>2. /\ 1..(n - 1) \subseteq I \cup F \cup S /\ 1..(n - 1) \subseteq L \cup F \cup S
      /\ L \subseteq 1..(n - 1) /\ F \subseteq 1..(n - 1) /\ S \subseteq 1..(n - 1) /\ L \cap S = {}
      /\ L \subseteq P /\ P \subseteq L \cup S \cup E
      /\ \A o \in O : o.name = names[o.input]
      /\ DistinctNames => \A o \in O : fl[o.name] = [input |-> o.input, count |-> o.count]
      /\ \A m \in Names : fl[m] # NoFile => m = names[fl[m].input] /\ fl[m].input \in L \cup S \cup E
      /\ \A m \in Names : fl[m].input \notin F
  BY DEF Balanced
<1> HIDE DEF L
<1>3. /\ 1..n \subseteq I \cup F \cup (S \cup {n}) /\ 1..n \subseteq L \cup F \cup (S \cup {n})
      /\ L \subseteq 1..n /\ F \subseteq 1..n /\ (S \cup {n}) \subseteq 1..n
  BY <1>1, <1>2
<1>4. L \cap (S \cup {n}) = {} /\ P \subseteq L \cup (S \cup {n}) \cup {}
  BY <1>1, <1>2
<1>5. \A m \in Names : fl[m] # NoFile => fl[m].input \in L \cup (S \cup {n}) \cup {}
  BY <1>2
<1> QED
  BY <1>2, <1>3, <1>4, <1>5 DEF Balanced, L

LEMMA CommittedBalance ==
  ASSUME NEW names, NEW n \in Nat \ {0}, NEW I, NEW O, NEW F, NEW P, NEW Q, NEW S, NEW fl, NEW gl,
         Balanced(names, n - 1, {}, I, O, F, P, S, fl), P \subseteq Q, Q \subseteq P \cup {n},
         \A o \in O : o.input \in DOMAIN names, n \in DOMAIN names,
         DistinctNames => \A i, j \in DOMAIN names : names[i] = names[j] => i = j,
         gl[names[n]].input = n, \A m : m # names[n] => gl[m] = fl[m]
  PROVE  Balanced(names, n - 1, {n}, I, O, F, Q, S, gl)
<1> DEFINE L == {o.input : o \in O}
<1>1. n \notin 1..(n - 1)
  OBVIOUS
<1>2. /\ 1..(n - 1) \subseteq I \cup F \cup S /\ 1..(n - 1) \subseteq L \cup F \cup S
      /\ L \subseteq 1..(n - 1) /\ F \subseteq 1..(n - 1) /\ S \subseteq 1..(n - 1) /\ L \cap S = {}
      /\ L \subseteq P /\ P \subseteq L \cup S \cup {}
      /\ \A o \in O : o.name = names[o.input]
      /\ DistinctNames => \A o \in O : fl[o.name] = [input |-> o.input, count |-> o.count]
      /\ \A m \in Names : fl[m] # NoFile => m = names[fl[m].input] /\ fl[m].input \in L \cup S \cup {}
      /\ \A m \in Names : fl[m].input \notin F
  BY DEF Balanced
<1>3. gl[names[n]].input = n
  OBVIOUS
<1>4. \A m : m # names[n] => gl[m] = fl[m]
  OBVIOUS
<1>5. ASSUME DistinctNames, NEW o \in O PROVE gl[o.name] = [input |-> o.input, count |-> o.count]
  <2>1. o.input \in L
    OBVIOUS
  <2>2. o.input # n
    BY <1>1, <1>2, <2>1
  <2>3. o.name # names[n]
    BY <1>2, <1>5, <2>2
  <2> QED
    BY <1>2, <1>4, <1>5, <2>3
<1> HIDE DEF L
<1>6. ASSUME NEW m \in Names, gl[m] # NoFile
      PROVE  m = names[gl[m].input] /\ gl[m].input \in L \cup S \cup {n}
  BY <1>2, <1>3, <1>4, <1>6
<1>7. \A m \in Names : gl[m].input \notin F
  BY <1>1, <1>2, <1>3, <1>4
<1>8. L \subseteq Q /\ Q \subseteq L \cup S \cup {n}
  BY <1>2
<1> QED
  BY <1>2, <1>3, <1>5, <1>6, <1>7, <1>8 DEF Balanced, L

LEMMA LedgeredBalance ==
  ASSUME NEW names, NEW n \in Nat \ {0}, NEW I, NEW O, NEW F, NEW P, NEW S, NEW fl, NEW c,
         Balanced(names, n - 1, {n}, I, O, F, P, S, fl), n \in P,
         fl[names[n]] = [input |-> n, count |-> c],
         NEW e, e = [name |-> names[n], input |-> n, count |-> c]
  PROVE  Balanced(names, n, {}, I \cup {n}, O \cup {e}, F, P, S, fl)
<1> DEFINE L == {o.input : o \in O}
           M == {o.input : o \in O \cup {e}}
<1>1. 1..n = (1..(n - 1)) \cup {n} /\ n \notin 1..(n - 1)
  OBVIOUS
<1>2. /\ 1..(n - 1) \subseteq I \cup F \cup S /\ 1..(n - 1) \subseteq L \cup F \cup S
      /\ L \subseteq 1..(n - 1) /\ F \subseteq 1..(n - 1) /\ S \subseteq 1..(n - 1) /\ L \cap S = {}
      /\ L \subseteq P /\ P \subseteq L \cup S \cup {n}
      /\ \A o \in O : o.name = names[o.input]
      /\ DistinctNames => \A o \in O : fl[o.name] = [input |-> o.input, count |-> o.count]
      /\ \A m \in Names : fl[m] # NoFile => m = names[fl[m].input] /\ fl[m].input \in L \cup S \cup {n}
      /\ \A m \in Names : fl[m].input \notin F
  BY DEF Balanced
<1>4. e.name = names[n] /\ e.input = n /\ e.count = c
  OBVIOUS
<1>3. M = L \cup {n}
  BY <1>4, Zenon
<1>5. /\ \A o \in O \cup {e} : o.name = names[o.input]
      /\ DistinctNames => \A o \in O \cup {e} : fl[o.name] = [input |-> o.input, count |-> o.count]
  BY <1>2, <1>4
<1> HIDE DEF L, M
<1>6. /\ 1..n \subseteq (I \cup {n}) \cup F \cup S /\ 1..n \subseteq M \cup F \cup S
      /\ M \subseteq 1..n /\ F \subseteq 1..n /\ S \subseteq 1..n
  BY <1>1, <1>2, <1>3
<1>7. M \cap S = {} /\ M \subseteq P /\ P \subseteq M \cup S \cup {}
  <2>1. n \notin S
    BY <1>1, <1>2
  <2>2. M \cap S = {}
    BY <1>2, <1>3, <2>1, ZenonT(40)
  <2>3. M \subseteq P /\ P \subseteq M \cup S \cup {}
    BY <1>2, <1>3
  <2> QED
    BY <2>2, <2>3
<1>8. \A m \in Names : fl[m] # NoFile => fl[m].input \in M \cup S \cup {}
  BY <1>2, <1>3
<1> QED
  BY <1>2, <1>5, <1>6, <1>7, <1>8 DEF Balanced, M

LEMMA SetOfAppend ==
  ASSUME NEW S
  PROVE  \A s \in Seq(S), e \in S : Append(s, e) \in Seq(S) /\ ToSet(Append(s, e)) = ToSet(s) \cup {e}
<1> TAKE s \in Seq(S), e \in S
<1> DEFINE t == Append(s, e)
<1>1. t \in Seq(S) /\ Len(s) \in Nat /\ DOMAIN t = 1..(Len(s) + 1) /\ DOMAIN s = 1..Len(s)
  OBVIOUS
<1>2. (\A k \in DOMAIN s : k \in DOMAIN t /\ t[k] = s[k]) /\ t[Len(s) + 1] = e
  BY <1>1
<1>3. Len(s) + 1 \in DOMAIN t /\ \A k \in DOMAIN t : k \in DOMAIN s \/ k = Len(s) + 1
  BY <1>1
<1> HIDE DEF t
<1>4. {t[k] : k \in DOMAIN t} = {s[k] : k \in DOMAIN s} \cup {e}
  BY <1>2, <1>3
<1> QED
  BY <1>1, <1>4 DEF ToSet, t

-------------------------------------------------------------------------------
(* Common facts.                                                           *)

LEMMA LineFields ==
  ASSUME options \in CommandLines
  PROVE  /\ NumRecipes \in Nat \ {0} /\ NumInputs \in Nat \ {0} /\ OutputName \in Seq(Names)
         /\ DOMAIN OutputName = Inputs /\ (\A i \in Inputs : OutputName[i] \in Names)
         /\ Multi \in BOOLEAN /\ Cloud \in BOOLEAN /\ ContinueOnError \in BOOLEAN
         /\ (~Multi => NumRecipes = 1) /\ 1 \in Inputs /\ 1 \in Recipes
         /\ DistinctNames => \A i, j \in Inputs : OutputName[i] = OutputName[j] => i = j
<1>1. options \in CommandLine /\ (~options.multi => options.recipes = 1)
  BY PerInputAssumption
<1>2. /\ options.recipes \in Nat \ {0} /\ options.outputName \in Seq(Names) /\ options.outputName # <<>>
      /\ options.multi \in BOOLEAN /\ options.cloud \in BOOLEAN /\ options.continueOnError \in BOOLEAN
  BY <1>1 DEF CommandLine
<1>3. /\ Len(options.outputName) \in Nat \ {0} /\ DOMAIN options.outputName = 1..Len(options.outputName)
      /\ \A i \in 1..Len(options.outputName) : options.outputName[i] \in Names
  BY <1>2
<1>4. 1 \in Inputs /\ 1 \in Recipes
  BY <1>2, <1>3 DEF Inputs, Recipes, NumInputs, NumRecipes
<1> QED
  BY <1>1, <1>2, <1>3, <1>4
  DEF NumRecipes, NumInputs, OutputName, Inputs, Multi, Cloud, ContinueOnError, DistinctNames

LEMMA SameLine ==
  ASSUME options' = options
  PROVE  /\ NumRecipes' = NumRecipes /\ NumInputs' = NumInputs /\ OutputName' = OutputName
         /\ Inputs' = Inputs /\ Recipes' = Recipes /\ Multi' = Multi /\ Cloud' = Cloud
         /\ ContinueOnError' = ContinueOnError /\ Verdicts' = Verdicts /\ File' = File /\ Output' = Output
BY DEF NumRecipes, NumInputs, OutputName, Inputs, Recipes, Multi, Cloud, ContinueOnError, Verdicts, File, Output

LEMMA InHand ==
  ASSUME PerInputInv
  PROVE  /\ Types /\ input \in Inputs /\ recipe \in Recipes /\ input \in Nat \ {0} /\ recipe \in Nat \ {0}
         /\ input <= NumInputs /\ recipe <= NumRecipes /\ options \in CommandLines
<1>1. Types /\ input \in Inputs /\ recipe \in Recipes /\ options \in CommandLines
  BY DEF PerInputInv, Types
<1> QED
  BY <1>1, LineFields DEF Inputs, Recipes

(* Before the finalization nothing is claimed but the books.               *)
LEMMA UnderWay ==
  ASSUME Types', Target', pc' \notin {"finalize", "done"}, Control', \A r \in Recipes' : Settled(r)'
  PROVE  PerInputInv'
<1>1. \A r \in Recipes' : manifest'[r] = FALSE
  BY DEF Control, Types
<1>2. ManifestMatchesFiles' /\ NothingElseDropped' /\ ZeroExitAccounted'
  BY <1>1 DEF ManifestMatchesFiles, NothingElseDropped, ZeroExitAccounted
<1>3. FailedHasNoOutput'
  BY DEF FailedHasNoOutput, Settled, Balanced
<1> QED
  BY <1>2, <1>3 DEF PerInputInv

LEMMA FinalBooks ==
  ASSUME Types', Target', pc' = "finalize", Control', \A r \in Recipes' : Settled(r)'
  PROVE  PerInputInv'
<1>1. input' \in Nat /\ \A r \in Recipes' : Passed(r)' = input' /\ Halfway(r)' = {}
  <2>1. options' \in CommandLines /\ input' \in Inputs'
    BY DEF Types
  <2> QED
    BY <2>1, PerInputAssumption DEF Passed, Halfway, Settling, Inputs, NumInputs, CommandLine
<1>2. ASSUME NEW r \in Recipes'
      PROVE  /\ DistinctNames => \A o \in ToSet(outputs[r])' : files'[r][o.name] = [input |-> o.input, count |-> o.count]
             /\ \A n \in Names : files'[r][n] # NoFile => files'[r][n].input \in Listed(r)' \cup Swallowed(r)'
             /\ Listed(r)' \subseteq profiled'[r] /\ profiled'[r] \subseteq Listed(r)' \cup Swallowed(r)'
             /\ 1..input' \subseteq ToSet(inputs[r])' \cup failures'[r] \cup Swallowed(r)'
  <2>1. Balanced(OutputName', input', {}, ToSet(inputs[r])', ToSet(outputs[r])', failures'[r], profiled'[r],
                 Swallowed(r)', files'[r])
    BY <1>1, <1>2 DEF Settled
  <2> QED
    BY <2>1 DEF Balanced, Listed
<1>3. (DistinctNames => ManifestMatchesFiles') /\ NothingElseDropped' /\ ZeroExitAccounted'
  BY <1>2 DEF ManifestMatchesFiles, NothingElseDropped, ZeroExitAccounted
<1>4. FailedHasNoOutput'
  BY DEF FailedHasNoOutput, Settled, Balanced
<1> QED
  BY <1>3, <1>4 DEF PerInputInv

(* A run that is abandoned has written no manifest.                        *)
LEMMA Abandoned ==
  ASSUME PerInputInv, pc \notin {"finalize", "done"}, NEW outcome, outcome # "nil", Abandon(outcome),
         options' = options, manifest' = manifest, Types', temp' = Closed, FailedHasNoOutput'
  PROVE  PerInputInv'
<1>1. pc' = "done" /\ err' = outcome /\ \A r \in Recipes' : manifest'[r] = FALSE
  BY SameLine DEF PerInputInv, Control, Abandon, Types
<1>2. Target' /\ Control'
  BY <1>1 DEF Target, NoTempLeft, Control
<1>3. ManifestMatchesFiles' /\ NothingElseDropped' /\ ZeroExitAccounted'
  BY <1>1 DEF ManifestMatchesFiles, NothingElseDropped, ZeroExitAccounted
<1> QED
  BY <1>1, <1>2, <1>3 DEF PerInputInv

-------------------------------------------------------------------------------
(* Steps inside the settling of an input and on to the next.               *)

(* The books of recipe r and the books of the step's end.                  *)
Account(r, n, extra) == Balanced(OutputName, n, extra, ToSet(inputs[r]), ToSet(outputs[r]),
                                 failures[r], profiled[r], Swallowed(r), files[r])

LEMMA SameAccount ==
  ASSUME NEW r, NEW n, NEW extra, Account(r, n, extra), options' = options,
         inputs'[r] = inputs[r], outputs'[r] = outputs[r], failures'[r] = failures[r],
         profiled'[r] = profiled[r], files'[r] = files[r],
         \A i \in Inputs : <<r, i>> \in swallowed' <=> <<r, i>> \in swallowed
  PROVE  Account(r, n, extra)'
<1>1. Swallowed(r)' = Swallowed(r)
  BY SameLine DEF Swallowed
<1>2. ToSet(inputs[r])' = ToSet(inputs[r]) /\ ToSet(outputs[r])' = ToSet(outputs[r])
  BY DEF ToSet
<1> QED
  BY <1>1, <1>2, SameLine DEF Account

(* The step goes on with the same input and recipe, or starts an input.    *)
LEMMA Within ==
  ASSUME PerInputInv, UNCHANGED <<options, books, files, swallowed, manifest, err, input>>,
         pc' \in {"apply", "write", "close", "settle"},
         (pc = "input" /\ recipe' = 1) \/ (pc \in {"apply", "write", "close"} /\ recipe' = recipe),
         Types', Target'
  PROVE  PerInputInv'
<1>1. ASSUME NEW r \in Recipes' PROVE Settled(r)'
  <2>1. r \in Recipes /\ r >= 1
    BY <1>1, SameLine, InHand, LineFields DEF Recipes
  <2>2. PICK n : n = Passed(r)
    OBVIOUS
  <2>3. Passed(r)' = n /\ Halfway(r) = {} /\ Halfway(r)' = {}
    BY <2>1, <2>2, InHand DEF Passed, Halfway, Settling
  <2>4. Account(r, n, {})
    BY <2>1, <2>2, <2>3 DEF PerInputInv, Settled, Account
  <2>5. Account(r, n, {})'
    BY <2>4, SameAccount DEF books
  <2> QED
    BY <2>3, <2>5 DEF Settled, Account
<1>2. Control'
  BY SameLine DEF PerInputInv, Control, books
<1> QED
  BY <1>1, <1>2, UnderWay

(* All recipes have settled the input: the next one, or the end.           *)
LEMMA NextKeeps ==
  ASSUME PerInputInv, pc \in Settling \cup {"input"}, options' = options, NextInput, Types', temp' = Closed,
         UNCHANGED <<err, manifest>>, NEW n \in Nat, n = input, \A r \in Recipes : Account(r, n, {})',
         ~ContinueOnError => failures' = failures
  PROVE  PerInputInv'
<1>0. /\ pc' \in {"input", "finalize"} /\ recipe' = 1
      /\ pc' = "input" => input' = n + 1
      /\ pc' = "finalize" => input' = n /\ n = NumInputs
  BY InHand, LineFields DEF NextInput
<1>1. ASSUME NEW r \in Recipes' PROVE Settled(r)'
  <2>1. Passed(r)' = n /\ Halfway(r)' = {}
    BY <1>0 DEF Passed, Halfway, Settling
  <2>2. Account(r, n, {})'
    BY <1>1, SameLine
  <2> QED
    BY <2>1, <2>2 DEF Settled, Account
<1>2. Target'
  BY <1>0 DEF Target, NoTempLeft
<1>3. err = "nil" /\ (\A r \in Recipes : ~manifest[r]) /\ (~ContinueOnError => \A r \in Recipes : failures[r] = {})
  BY DEF PerInputInv, Control, Settling
<1>4. Control'
  BY <1>0, <1>3, SameLine DEF Control
<1> QED
  BY <1>0, <1>1, <1>2, <1>4, UnderWay, FinalBooks

LEMMA AdvanceKeeps ==
  ASSUME PerInputInv, pc \in Settling, options' = options, Advance, Types', temp' = Closed,
         UNCHANGED <<err, manifest>>, NEW n \in Nat, n = input, NEW q \in Recipes, q = recipe,
         Account(q, n, {})',
         \A r \in Recipes \ {q} :
            /\ inputs'[r] = inputs[r] /\ outputs'[r] = outputs[r] /\ failures'[r] = failures[r]
            /\ profiled'[r] = profiled[r] /\ files'[r] = files[r]
            /\ \A i \in Inputs : <<r, i>> \in swallowed' <=> <<r, i>> \in swallowed,
         ~ContinueOnError => failures' = failures
  PROVE  PerInputInv'
<1>1. ASSUME NEW r \in Recipes \ {q} PROVE Account(r, IF r < q THEN n ELSE n - 1, {})'
  <2>1. Passed(r) = (IF r < q THEN n ELSE n - 1) /\ Halfway(r) = {}
    BY <1>1, InHand DEF Passed, Halfway, Settling, Recipes
  <2>2. PICK p : p = Passed(r)
    OBVIOUS
  <2>3. Account(r, p, {})
    BY <1>1, <2>1, <2>2 DEF PerInputInv, Settled, Account, Settling
  <2>4. Account(r, p, {})'
    BY <1>1, <2>3, SameAccount
  <2> QED
    BY <2>1, <2>2, <2>4
<1>2. CASE recipe < NumRecipes
  <2>0. pc' = "apply" /\ recipe' = q + 1 /\ input' = n /\ q \in Nat
    BY <1>2, InHand DEF Advance
  <2>1. ASSUME NEW r \in Recipes' PROVE Settled(r)'
    <3>1. r \in Recipes /\ r \in Nat
      BY SameLine, InHand DEF Recipes
    <3>2. Passed(r)' = (IF r <= q THEN n ELSE n - 1) /\ Halfway(r)' = {}
      BY <2>0, <3>1 DEF Passed, Halfway, Settling
    <3>3. Account(r, IF r <= q THEN n ELSE n - 1, {})'
      BY <1>1, <2>0, <3>1
    <3> QED
      BY <3>2, <3>3 DEF Settled, Account
  <2>2. Target'
    BY <2>0 DEF Target, NoTempLeft
  <2>3. err = "nil" /\ (\A r \in Recipes : ~manifest[r]) /\ (~ContinueOnError => \A r \in Recipes : failures[r] = {})
    BY DEF PerInputInv, Control, Settling
  <2>4. Control'
    BY <2>0, <2>3, SameLine DEF Control
  <2> QED
    BY <2>0, <2>1, <2>2, <2>4, UnderWay
<1>3. CASE ~(recipe < NumRecipes)
  <2>1. NextInput
    BY <1>3 DEF Advance
  <2>2. ASSUME NEW r \in Recipes PROVE Account(r, n, {})'
    <3>1. r = q \/ r < q
      BY <1>3, InHand, LineFields DEF Recipes
    <3> QED
      BY <1>1, <3>1
  <2> QED
    BY <2>1, <2>2, NextKeeps
<1> QED
  BY <1>2, <1>3

LEMMA MoveTypes ==
  ASSUME PerInputInv, Advance \/ NextInput \/ (\E outcome : Abandon(outcome))
  PROVE  pc' \in Stages /\ input' \in Inputs /\ recipe' \in Recipes
<1>1. /\ input \in Inputs /\ recipe \in Recipes /\ input \in Nat \ {0} /\ recipe \in Nat \ {0}
      /\ NumInputs \in Nat /\ NumRecipes \in Nat \ {0}
  BY InHand, LineFields
<1>2. CASE NextInput
  BY <1>1, <1>2 DEF NextInput, Stages, Inputs, Recipes
<1>3. CASE Advance
  BY <1>1, <1>2, <1>3 DEF Advance, Stages, Settling, Inputs, Recipes
<1>4. CASE \E outcome : Abandon(outcome)
  BY <1>1, <1>4 DEF Abandon, Stages
<1> QED
  BY <1>2, <1>3, <1>4

LEMMA FaultTypes == ASSUME Types, Fault PROVE faults' \in 0..MaxFaults
BY PerInputAssumption DEF Types, Fault

(* Recording failures.                                                     *)
LEMMA Recorded ==
  ASSUME PerInputInv, NEW R, RecordFailed(R)
  PROVE  /\ inputs' \in [Recipes -> Seq(Inputs)] /\ failures' \in [Recipes -> SUBSET Inputs]
         /\ UNCHANGED <<outputs, profiled>>
         /\ \A r \in Recipes \cap R : failures'[r] = failures[r] \cup {input} /\ ToSet(inputs[r]) \subseteq ToSet(inputs'[r])
         /\ \A r \in Recipes \ R : failures'[r] = failures[r] /\ inputs'[r] = inputs[r]
<1>0. inputs \in [Recipes -> Seq(Inputs)] /\ failures \in [Recipes -> SUBSET Inputs] /\ input \in Inputs
  BY InHand DEF Types
<1>1. PICK hashed \in BOOLEAN : inputs' = [r \in Recipes |->
            IF r \in R /\ hashed THEN Append(inputs[r], input) ELSE inputs[r]]
  BY DEF RecordFailed
<1>2. failures' = [r \in Recipes |-> IF r \in R THEN failures[r] \cup {input} ELSE failures[r]]
      /\ UNCHANGED <<outputs, profiled>>
  BY DEF RecordFailed
<1>3. ASSUME NEW r \in Recipes PROVE inputs'[r] \in Seq(Inputs) /\ ToSet(inputs[r]) \subseteq ToSet(inputs'[r])
  <2>1. inputs[r] \in Seq(Inputs)
    BY <1>0
  <2>2. CASE inputs'[r] = inputs[r]
    BY <2>1, <2>2
  <2>3. CASE inputs'[r] = Append(inputs[r], input)
    <3>1. inputs'[r] \in Seq(Inputs) /\ ToSet(inputs'[r]) = ToSet(inputs[r]) \cup {input}
      <4>1. Append(inputs[r], input) \in Seq(Inputs)
             /\ ToSet(Append(inputs[r], input)) = ToSet(inputs[r]) \cup {input}
        BY <1>0, <2>1, SetOfAppend
      <4> QED
        BY <2>3, <4>1
    <3> QED
      BY <3>1
  <2> QED
    BY <1>1, <2>2, <2>3
<1>4. inputs' \in [Recipes -> Seq(Inputs)]
  <2>1. inputs' = [r \in Recipes |-> inputs'[r]]
    BY <1>1
  <2> QED
    BY <1>3, <2>1
<1>5. failures' \in [Recipes -> SUBSET Inputs]
  BY <1>0, <1>2
<1>6. \A r \in Recipes \ R : inputs'[r] = inputs[r]
  BY <1>1
<1> QED
  BY <1>2, <1>3, <1>4, <1>5, <1>6

LEMMA FailedAccount ==
  ASSUME PerInputInv, NEW R, RecordFailed(R), UNCHANGED <<options, files, swallowed>>,
         NEW n \in Nat, n = input, NEW r \in Recipes \cap R,
         pc = "input" \/ (r = recipe /\ pc \in {"apply", "write", "close", "settle"})
  PROVE  Account(r, n, {})'
<1>1. Passed(r) = n - 1 /\ Halfway(r) = {} /\ n \in Nat \ {0}
  BY InHand DEF Passed, Halfway, Settling
<1>2. Balanced(OutputName, n - 1, {}, ToSet(inputs[r]), ToSet(outputs[r]), failures[r], profiled[r],
               Swallowed(r), files[r])
  BY <1>1 DEF PerInputInv, Settled
<1>3. Balanced(OutputName, n, {}, ToSet(inputs'[r]), ToSet(outputs[r]), failures[r] \cup {n}, profiled[r],
               Swallowed(r), files[r])
  BY <1>1, <1>2, Recorded, FailedBalance
<1>4. /\ ToSet(inputs[r])' = ToSet(inputs'[r]) /\ ToSet(outputs[r])' = ToSet(outputs[r])
      /\ Swallowed(r)' = Swallowed(r) /\ OutputName' = OutputName
      /\ failures'[r] = failures[r] \cup {n} /\ profiled'[r] = profiled[r] /\ files'[r] = files[r]
  BY Recorded, SameLine DEF ToSet, Swallowed
<1> QED
  BY <1>3, <1>4 DEF Account

(* The input in hand fails for the recipe in hand and the run goes on.     *)
LEMMA FailedGoesOn ==
  ASSUME PerInputInv, pc \in {"apply", "write", "close", "settle"}, RecordFailed({recipe}), Advance,
         ContinueOnError, temp' = Closed, UNCHANGED <<options, files, swallowed, err, manifest, app, faults, trouble>>
  PROVE  PerInputInv'
<1>1. PICK n \in Nat : n = input
  BY InHand
<1>2. PICK q \in Recipes : q = recipe
  BY InHand
<1>3. Account(q, n, {})'
  BY <1>1, <1>2, FailedAccount
<1>4. Types'
  BY InHand, MoveTypes, Recorded, SameLine DEF Types
<1>5. \A r \in Recipes \ {q} :
            /\ inputs'[r] = inputs[r] /\ outputs'[r] = outputs[r] /\ failures'[r] = failures[r]
            /\ profiled'[r] = profiled[r] /\ files'[r] = files[r]
            /\ \A i \in Inputs : <<r, i>> \in swallowed' <=> <<r, i>> \in swallowed
  BY <1>2, Recorded
<1>6. pc \in Settling /\ options' = options /\ UNCHANGED <<err, manifest>>
  BY DEF Settling
<1> QED
  BY <1>1, <1>2, <1>3, <1>4, <1>5, <1>6, AdvanceKeeps

(* The run stops with the books as they are.                               *)
LEMMA StopsHere ==
  ASSUME PerInputInv, pc \notin {"finalize", "done"}, NEW outcome \in Outcomes \ {"nil"}, Abandon(outcome),
         temp' = Closed, UNCHANGED <<options, books, files, swallowed, manifest, app>>,
         trouble' \subseteq {"write", "close", "commit", "ledger"}, faults' \in 0..MaxFaults
  PROVE  PerInputInv'
<1>1. Types'
  BY InHand, MoveTypes, SameLine DEF Types, books, Abandon
<1>2. FailedHasNoOutput'
  BY SameLine DEF PerInputInv, FailedHasNoOutput, books
<1> QED
  BY <1>1, <1>2, Abandoned DEF Outcomes

LEMMA InputFailsKeeps == ASSUME PerInputInv, InputFails PROVE PerInputInv'
<1>0. /\ pc = "input" /\ UNCHANGED <<options, swallowed, app, temp, trouble, files, manifest, faults>>
      /\ temp' = Closed /\ ContinueOnError \in BOOLEAN /\ Multi \in BOOLEAN
  BY InHand, LineFields DEF InputFails, PerInputInv, Target, NoTempLeft
<1>1. PICK n \in Nat : n = input
  BY InHand
<1>2. CASE RecordFailed(Recipes)
  <2>1. \A r \in Recipes : Account(r, n, {})'
    BY <1>0, <1>1, <1>2, FailedAccount
  <2>2. CASE ContinueOnError
    <3>1. NextInput /\ UNCHANGED err
      BY <2>2 DEF InputFails
    <3>2. Types'
      BY <1>0, <1>2, <3>1, InHand, MoveTypes, Recorded, SameLine DEF Types
    <3> QED
      BY <1>0, <1>1, <2>1, <2>2, <3>1, <3>2, NextKeeps
  <2>3. CASE ~ContinueOnError
    <3>1. Abandon("fatal")
      BY <2>3 DEF InputFails
    <3>2. Types'
      BY <1>0, <1>2, <3>1, InHand, MoveTypes, Recorded, SameLine DEF Types, Abandon, Outcomes
    <3>3. FailedHasNoOutput'
      BY <1>0, <2>1, SameLine DEF FailedHasNoOutput, Account, Balanced
    <3> QED
      BY <1>0, <3>1, <3>2, <3>3, Abandoned
  <2> QED
    BY <1>0, <2>2, <2>3
<1>3. CASE ~ContinueOnError /\ UNCHANGED books
  <2>1. Abandon("fatal")
    BY <1>3 DEF InputFails
  <2> QED
    BY <1>0, <1>3, <2>1, InHand, StopsHere DEF Types, Outcomes
<1> QED
  BY <1>0, <1>2, <1>3 DEF InputFails

LEMMA CancelKeeps == ASSUME PerInputInv, Cancel PROVE PerInputInv'
<1>1. /\ pc = "input" /\ Abandon("canceled") /\ temp' = Closed
      /\ UNCHANGED <<options, swallowed, app, trouble, files, books, manifest, faults>>
  BY DEF Cancel, PerInputInv, Target, NoTempLeft
<1> QED
  BY <1>1, InHand, StopsHere DEF Types, Outcomes

LEMMA ReadInputKeeps == ASSUME PerInputInv, ReadInput PROVE PerInputInv'
<1>1. /\ pc = "input" /\ pc' = "apply" /\ recipe' = 1 /\ temp' = Closed /\ temp = Closed
      /\ UNCHANGED <<options, swallowed, input, app, trouble, files, books, manifest, err, faults>>
  BY DEF ReadInput, PerInputInv, Target, NoTempLeft
<1>2. Types'
  BY <1>1, InHand, LineFields, SameLine DEF Types, books, Stages, Settling
<1>3. Target'
  BY <1>1 DEF Target, NoTempLeft
<1> QED
  BY <1>1, <1>2, <1>3, Within

LEMMA ExternalFieldsFailKeeps == ASSUME PerInputInv, ExternalFieldsFail PROVE PerInputInv'
<1>1. /\ pc = "apply" /\ temp' = Closed /\ ContinueOnError \in BOOLEAN
      /\ UNCHANGED <<options, swallowed, app, temp, trouble, files, manifest, faults>>
  BY InHand, LineFields DEF ExternalFieldsFail, PerInputInv, Target, NoTempLeft
<1>2. CASE ContinueOnError
  BY <1>1, <1>2, FailedGoesOn DEF ExternalFieldsFail
<1>3. CASE ~ContinueOnError
  BY <1>1, <1>3, InHand, StopsHere DEF ExternalFieldsFail, Types, Outcomes
<1> QED
  BY <1>1, <1>2, <1>3

-------------------------------------------------------------------------------
(* The output target.                                                      *)

LEMMA OpenTargetKeeps == ASSUME PerInputInv, OpenTarget PROVE PerInputInv'
<1>1. /\ pc = "apply" /\ temp' = Closed /\ trouble' = {} /\ pc' = "write"
      /\ UNCHANGED <<options, swallowed, input, recipe, files, books, manifest, err, faults>>
  BY DEF OpenTarget
<1>2. app' \in [rows : RowCounts \cup {0}, verdict : Verdicts]
  BY DEF OpenTarget
<1>3. Types'
  BY <1>1, <1>2, InHand, SameLine DEF Types, books, Stages, Settling
<1>4. Target'
  BY <1>1 DEF Target, NoTempLeft
<1> QED
  BY <1>1, <1>3, <1>4, Within

LEMMA AppRows == ASSUME Types PROVE app.rows \in Nat /\ app.verdict \in Verdicts
<1>1. app.rows \in RowCounts \cup {0} /\ app.verdict \in Verdicts
  BY DEF Types
<1>2. RowCounts \subseteq Nat
  BY PerInputAssumption
<1>3. 0 \in Nat
  OBVIOUS
<1>4. app.rows \in Nat
  BY <1>1, <1>2, <1>3, Zenon
<1> QED
  BY <1>1, <1>4

LEMMA WriteRowsKeeps == ASSUME PerInputInv, WriteRows PROVE PerInputInv'
<1>1. /\ pc = "write" /\ pc' = "close"
      /\ temp' = (IF app.rows = 0 /\ app.verdict \in {"error", "failed"} THEN Closed ELSE app.rows)
      /\ UNCHANGED <<options, swallowed, input, recipe, app, trouble, files, books, manifest, err, faults>>
  BY DEF WriteRows
<1>2. temp' \in {Closed} \cup 0..app.rows
  BY <1>1, InHand, AppRows
<1>3. Types'
  BY <1>1, <1>2, InHand, SameLine DEF Types, books, Stages, Settling
<1>4. Target'
  BY <1>1 DEF Target, NoTempLeft
<1> QED
  BY <1>1, <1>3, <1>4, Within

LEMMA WriteRowsFailsKeeps == ASSUME PerInputInv, WriteRowsFails PROVE PerInputInv'
<1>1. /\ pc = "write" /\ pc' = "close" /\ trouble' = {"write"} /\ Fault
      /\ temp' \in {Closed} \cup 0..app.rows
      /\ UNCHANGED <<options, swallowed, input, recipe, app, files, books, manifest, err>>
  BY DEF WriteRowsFails
<1>2. Types'
  BY <1>1, InHand, SameLine, FaultTypes DEF Types, books, Stages, Settling
<1>3. Target'
  BY <1>1 DEF Target, NoTempLeft
<1> QED
  BY <1>1, <1>2, <1>3, Within

LEMMA CloseTargetKeeps == ASSUME PerInputInv, CloseTarget PROVE PerInputInv'
<1>1. /\ pc = "close" /\ pc' = "settle" /\ trouble' \in {trouble, trouble \cup {"close"}}
      /\ UNCHANGED <<options, swallowed, input, recipe, app, temp, files, books, manifest, err>>
  BY DEF CloseTarget
<1>2. faults' \in 0..MaxFaults
  BY InHand, FaultTypes DEF CloseTarget, Types
<1>3. Types'
  BY <1>1, <1>2, InHand, SameLine DEF Types, books, Stages, Settling
<1>4. Target'
  BY <1>1 DEF PerInputInv, Target, NoTempLeft
<1> QED
  BY <1>1, <1>3, <1>4, Within

(* An output error: the run stops, or goes on from a swallowed input.      *)
LEMMA OutputErrorKeeps ==
  ASSUME PerInputInv, pc \in Settling, OutputError, UNCHANGED <<options, app, books, manifest>>, temp' = Closed,
         trouble' \subseteq {"write", "close", "commit", "ledger"}, faults' \in 0..MaxFaults,
         files' \in [Recipes -> [Names -> File]], NEW n \in Nat, n = input, NEW q \in Recipes, q = recipe,
         \A r \in Recipes \ {q} : files'[r] = files[r], NEW E, E \subseteq {n},
         Balanced(OutputName, n - 1, E, ToSet(inputs[q]), ToSet(outputs[q]), failures[q], profiled[q],
                  Swallowed(q), files'[q])
  PROVE  PerInputInv'
<1>0. pc \notin {"finalize", "done"} /\ n \in Nat \ {0} /\ n \in Inputs
  BY InHand DEF Settling
<1>1. CASE Advance /\ swallowed' = swallowed \cup {<<recipe, input>>} /\ UNCHANGED err
  <2>1. Balanced(OutputName, n, {}, ToSet(inputs[q]), ToSet(outputs[q]), failures[q], profiled[q],
                 Swallowed(q) \cup {n}, files'[q])
    BY <1>0, SwallowedBalance
  <2>2. Swallowed(q)' = Swallowed(q) \cup {n}
    BY <1>0, <1>1, SameLine DEF Swallowed
  <2>3. ToSet(inputs[q])' = ToSet(inputs[q]) /\ ToSet(outputs[q])' = ToSet(outputs[q])
        /\ failures'[q] = failures[q] /\ profiled'[q] = profiled[q] /\ OutputName' = OutputName
    BY SameLine DEF ToSet, books
  <2>4. Account(q, n, {})'
    BY <2>1, <2>2, <2>3 DEF Account
  <2>5. Types'
    <3>1. swallowed' \subseteq Recipes \X Inputs
      BY <1>1, InHand DEF Types
    <3> QED
      BY <1>1, <3>1, InHand, MoveTypes, SameLine DEF Types, books
  <2>6. \A r \in Recipes \ {q} :
            /\ inputs'[r] = inputs[r] /\ outputs'[r] = outputs[r] /\ failures'[r] = failures[r]
            /\ profiled'[r] = profiled[r] /\ files'[r] = files[r]
            /\ \A i \in Inputs : <<r, i>> \in swallowed' <=> <<r, i>> \in swallowed
    BY <1>1 DEF books
  <2> QED
    BY <1>1, <2>4, <2>5, <2>6, AdvanceKeeps DEF books
<1>2. CASE Abandon("fatal") /\ UNCHANGED swallowed
  <2>1. Types'
    BY <1>2, InHand, MoveTypes, SameLine DEF Types, books, Abandon, Outcomes
  <2>2. FailedHasNoOutput'
    <3> SUFFICES ASSUME NEW r \in Recipes, NEW m \in Names PROVE files'[r][m].input \notin failures[r]
      BY SameLine DEF FailedHasNoOutput, books
    <3>1. CASE r = q
      BY <3>1 DEF Balanced
    <3>2. CASE r # q
      BY <3>2 DEF PerInputInv, FailedHasNoOutput
    <3> QED
      BY <3>1, <3>2
  <2> QED
    BY <1>0, <1>2, <2>1, <2>2, Abandoned
<1> QED
  BY <1>1, <1>2 DEF OutputError

(* The books of the recipe in hand.                                        *)
LEMMA BooksInHand ==
  ASSUME PerInputInv, pc \in Settling, NEW n, n = input, NEW q, q = recipe
  PROVE  Balanced(OutputName, n - 1, IF pc = "ledger" THEN {n} ELSE {}, ToSet(inputs[q]), ToSet(outputs[q]),
                  failures[q], profiled[q], Swallowed(q), files[q])
<1>1. Passed(q) = n - 1 /\ Halfway(q) = IF pc = "ledger" THEN {n} ELSE {}
  BY InHand DEF Passed, Halfway
<1>2. Settled(q)
  BY InHand DEF PerInputInv, Settling
<1> QED
  BY <1>1, <1>2 DEF Settled

(* An output error that leaves the files alone.                            *)
LEMMA PlainOutputError ==
  ASSUME PerInputInv, pc \in Settling, OutputError, UNCHANGED <<options, app, books, manifest, files>>, temp' = Closed,
         trouble' \subseteq {"write", "close", "commit", "ledger"}, faults' \in 0..MaxFaults
  PROVE  PerInputInv'
<1>1. PICK n \in Nat : n = input
  BY InHand
<1>2. PICK q \in Recipes : q = recipe
  BY InHand
<1>3. PICK E : E = (IF pc = "ledger" THEN {n} ELSE {}) /\ E \subseteq {n}
  OBVIOUS
<1>4. Balanced(OutputName, n - 1, E, ToSet(inputs[q]), ToSet(outputs[q]), failures[q], profiled[q],
               Swallowed(q), files[q])
  BY <1>1, <1>2, <1>3, BooksInHand
<1>5. files' \in [Recipes -> [Names -> File]]
  BY InHand DEF Types
<1> QED
  BY <1>1, <1>2, <1>3, <1>4, <1>5, OutputErrorKeeps

LEMMA OpenTargetFailsKeeps == ASSUME PerInputInv, OpenTargetFails PROVE PerInputInv'
<1>1. /\ pc = "apply" /\ pc \in Settling /\ Fault /\ OutputError /\ temp' = Closed
      /\ UNCHANGED <<options, app, trouble, files, books, manifest>>
  BY DEF OpenTargetFails, PerInputInv, Target, NoTempLeft, Settling
<1> QED
  BY <1>1, InHand, FaultTypes, PlainOutputError DEF Types

LEMMA SettleCloseErrorKeeps == ASSUME PerInputInv, SettleCloseError PROVE PerInputInv'
<1>1. /\ pc \in Settling /\ OutputError /\ temp' = Closed
      /\ UNCHANGED <<options, app, trouble, files, books, manifest, faults>>
  BY DEF SettleCloseError, Settling
<1> QED
  BY <1>1, InHand, PlainOutputError DEF Types

LEMMA LedgerInputFailsKeeps == ASSUME PerInputInv, LedgerInputFails PROVE PerInputInv'
<1>1. /\ pc \in Settling /\ Fault /\ OutputError /\ temp' = Closed /\ trouble' = {"ledger"}
      /\ UNCHANGED <<options, app, files, books, manifest>>
  BY DEF LedgerInputFails, Settling, PerInputInv, Target, NoTempLeft
<1> QED
  BY <1>1, InHand, FaultTypes, PlainOutputError

-------------------------------------------------------------------------------
(* Settling a failed input, committing and ledgering a clean one.          *)

LEMMA SettleFailedKeeps == ASSUME PerInputInv, SettleFailed PROVE PerInputInv'
<1>0. /\ pc = "settle" /\ temp' = Closed /\ ContinueOnError \in BOOLEAN /\ Multi \in BOOLEAN
      /\ UNCHANGED <<options, swallowed, app, trouble, files, manifest, faults>>
  BY InHand, LineFields DEF SettleFailed
<1>1. CASE Abandon("fatal") /\ UNCHANGED books
  BY <1>0, <1>1, InHand, StopsHere DEF Types, Outcomes
<1>2. CASE ContinueOnError /\ RecordFailed({recipe}) /\ Advance /\ UNCHANGED err
  BY <1>0, <1>2, FailedGoesOn
<1>3. CASE /\ ~Multi /\ RecordFailed({recipe}) /\ pc' = "finalize" /\ err' = "failed"
           /\ UNCHANGED <<input, recipe>>
  <2>1. PICK n \in Nat : n = input
    BY InHand
  <2>2. Recipes = {recipe}
    BY <1>3, InHand, LineFields DEF Recipes
  <2>3. ASSUME NEW r \in Recipes' PROVE Settled(r)'
    <3>1. r \in Recipes /\ r = recipe
      BY <1>0, <2>2, SameLine
    <3>2. Account(r, n, {})'
      BY <1>0, <1>3, <2>1, <3>1, FailedAccount
    <3>3. Passed(r)' = n /\ Halfway(r)' = {}
      BY <1>3, <2>1 DEF Passed, Halfway, Settling
    <3> QED
      BY <3>2, <3>3 DEF Settled, Account
  <2>4. Types'
    BY <1>0, <1>3, InHand, Recorded, SameLine DEF Types, Stages, Outcomes
  <2>5. Target'
    BY <1>0, <1>3 DEF Target, NoTempLeft
  <2>6. \A r \in Recipes : ~manifest[r]
    BY <1>0 DEF PerInputInv, Control
  <2>7. Control'
    BY <1>0, <1>3, <2>6, SameLine DEF Control
  <2> QED
    BY <1>3, <2>3, <2>4, <2>5, <2>7, FinalBooks
<1> QED
  BY <1>0, <1>1, <1>2, <1>3 DEF SettleFailed

LEMMA SettleFloorMissKeeps == ASSUME PerInputInv, SettleFloorMiss PROVE PerInputInv'
<1>0. /\ pc = "settle" /\ temp' = Closed /\ ContinueOnError \in BOOLEAN
      /\ UNCHANGED <<options, swallowed, app, trouble, files, manifest, faults>>
  BY InHand, LineFields DEF SettleFloorMiss
<1>1. CASE ~ContinueOnError
  BY <1>0, <1>1, InHand, StopsHere DEF SettleFloorMiss, Types, Outcomes
<1>2. CASE ContinueOnError
  BY <1>0, <1>2, FailedGoesOn DEF SettleFloorMiss
<1> QED
  BY <1>0, <1>1, <1>2

(* The rename: the file of the input in hand holds all its rows.           *)
LEMMA FileWritten ==
  ASSUME PerInputInv, Clean, WriteFile, NEW n \in Nat, n = input, NEW q \in Recipes, q = recipe,
         NEW Q, profiled[q] \subseteq Q, Q \subseteq profiled[q] \cup {n}
  PROVE  /\ files' \in [Recipes -> [Names -> File]] /\ \A r \in Recipes \ {q} : files'[r] = files[r]
         /\ Balanced(OutputName, n - 1, {n}, ToSet(inputs[q]), ToSet(outputs[q]), failures[q], Q,
                     Swallowed(q), files'[q])
         /\ files'[q][OutputName[n]] = [input |-> n, count |-> app.rows]
<1>0. /\ files \in [Recipes -> [Names -> File]] /\ n \in Inputs /\ n \in Nat \ {0} /\ outputs[q] \in Seq(Output)
      /\ app.rows \in Nat /\ files[q] \in [Names -> File]
  BY InHand, AppRows DEF Types
<1>1. temp = app.rows
  BY DEF PerInputInv, Target, Clean, InputFailed
<1>2. DOMAIN OutputName = Inputs /\ OutputName[n] \in Names
      /\ (DistinctNames => \A i, j \in Inputs : OutputName[i] = OutputName[j] => i = j)
  BY <1>0, InHand, LineFields
<1>3. files'[q] = [files[q] EXCEPT ![OutputName[n]] = [input |-> n, count |-> app.rows]]
      /\ files' = [files EXCEPT ![q] = files'[q]]
  BY <1>0, <1>1 DEF WriteFile
<1>4. [input |-> n, count |-> app.rows] \in File
  BY <1>0, InHand, LineFields DEF File
<1>5. files'[q] \in [Names -> File] /\ files' \in [Recipes -> [Names -> File]]
  BY <1>0, <1>2, <1>3, <1>4
<1>6. \A o \in ToSet(outputs[q]) : o.input \in DOMAIN OutputName
  <2>1. ToSet(outputs[q]) \subseteq Output
    BY <1>0 DEF ToSet
  <2> QED
    BY <1>2, <2>1 DEF Output
<1>7. Balanced(OutputName, n - 1, {}, ToSet(inputs[q]), ToSet(outputs[q]), failures[q], profiled[q],
               Swallowed(q), files[q])
  BY BooksInHand DEF Clean, Settling
<1>8. /\ Balanced(OutputName, n - 1, {n}, ToSet(inputs[q]), ToSet(outputs[q]), failures[q], Q,
                  Swallowed(q), files'[q])
      /\ files'[q][OutputName[n]] = [input |-> n, count |-> app.rows]
  <2>1. /\ n \in DOMAIN OutputName /\ OutputName[n] \in Names
        /\ (DistinctNames => \A i, j \in DOMAIN OutputName : OutputName[i] = OutputName[j] => i = j)
    BY <1>0, <1>2
  <2>2. PICK gl : gl = files'[q]
    OBVIOUS
  <2>3. gl = [files[q] EXCEPT ![OutputName[n]] = [input |-> n, count |-> app.rows]]
    BY <1>3, <2>2
  <2>4. gl[OutputName[n]] = [input |-> n, count |-> app.rows] /\ \A m : m # OutputName[n] => gl[m] = files[q][m]
    BY <1>0, <2>1, <2>3
  <2>5. gl[OutputName[n]].input = n
    BY <2>4
  <2>6. Balanced(OutputName, n - 1, {n}, ToSet(inputs[q]), ToSet(outputs[q]), failures[q], Q,
                 Swallowed(q), gl)
    BY <1>0, <1>6, <1>7, <2>1, <2>4, <2>5, CommittedBalance
  <2> QED
    BY <2>2, <2>4, <2>6
<1> QED
  BY <1>0, <1>3, <1>5, <1>8

LEMMA CommitTargetKeeps == ASSUME PerInputInv, CommitTarget PROVE PerInputInv'
<1>0. /\ Clean /\ WriteFile /\ temp' = Closed /\ profiled' = [profiled EXCEPT ![recipe] = @ \cup {input}]
      /\ pc = "settle" /\ pc' = "ledger"
      /\ UNCHANGED <<options, swallowed, input, recipe, app, trouble, inputs, outputs, failures, manifest, err, faults>>
  BY DEF CommitTarget, Clean
<1>1. PICK n \in Nat : n = input
  BY InHand
<1>2. PICK q \in Recipes : q = recipe
  BY InHand
<1>3. /\ profiled' \in [Recipes -> SUBSET Inputs] /\ profiled'[q] = profiled[q] \cup {n}
      /\ \A r \in Recipes \ {q} : profiled'[r] = profiled[r]
  BY <1>0, <1>1, <1>2, InHand DEF Types
<1>4. /\ files' \in [Recipes -> [Names -> File]] /\ \A r \in Recipes \ {q} : files'[r] = files[r]
      /\ Balanced(OutputName, n - 1, {n}, ToSet(inputs[q]), ToSet(outputs[q]), failures[q], profiled'[q],
                  Swallowed(q), files'[q])
      /\ files'[q][OutputName[n]] = [input |-> n, count |-> app.rows]
  BY <1>0, <1>1, <1>2, <1>3, FileWritten
<1>5. Types'
  BY <1>0, <1>3, <1>4, InHand, SameLine DEF Types, Stages, Settling
<1>6. Target'
  BY <1>0, <1>1, <1>2, <1>3, <1>4, SameLine DEF Target, NoTempLeft
<1>7. ASSUME NEW r \in Recipes' PROVE Settled(r)'
  <2>1. PICK p : p = Passed(r)
    OBVIOUS
  <2>2. Passed(r)' = p /\ Halfway(r) = {} /\ Halfway(r)' = (IF r = q THEN {n} ELSE {}) /\ r \in Recipes
    BY <1>0, <1>1, <1>2, <2>1, SameLine DEF Passed, Halfway, Settling
  <2>3. CASE r # q
    <3>1. Account(r, p, {})
      BY <1>0, <2>1, <2>2 DEF PerInputInv, Settled, Account
    <3>2. Account(r, p, {})'
      BY <1>0, <1>3, <1>4, <2>2, <2>3, <3>1, SameAccount
    <3> QED
      BY <2>2, <2>3, <3>2 DEF Settled, Account
  <2>4. CASE r = q
    <3>1. p = n - 1
      BY <1>0, <1>1, <1>2, <2>1, <2>4, InHand DEF Passed, Settling
    <3>2. /\ ToSet(inputs[r])' = ToSet(inputs[r]) /\ ToSet(outputs[r])' = ToSet(outputs[r])
          /\ failures'[r] = failures[r] /\ Swallowed(r)' = Swallowed(r) /\ OutputName' = OutputName
      BY <1>0, SameLine DEF ToSet, Swallowed
    <3> QED
      BY <1>4, <2>2, <2>4, <3>1, <3>2 DEF Settled
  <2> QED
    BY <2>3, <2>4
<1>8. Control'
  BY <1>0, SameLine DEF PerInputInv, Control
<1> QED
  BY <1>0, <1>5, <1>6, <1>7, <1>8, UnderWay

LEMMA CommitTargetFailsKeeps == ASSUME PerInputInv, CommitTargetFails PROVE PerInputInv'
<1>0. /\ Clean /\ pc \in Settling /\ Fault /\ temp' = Closed /\ trouble' = {"commit"} /\ OutputError
      /\ UNCHANGED <<options, app, books, manifest>> /\ faults' \in 0..MaxFaults
  BY InHand, FaultTypes DEF CommitTargetFails, Clean, Settling
<1>1. CASE UNCHANGED files
  BY <1>0, <1>1, PlainOutputError
<1>2. CASE WriteFile
  <2>1. PICK n \in Nat : n = input
    BY InHand
  <2>2. PICK q \in Recipes : q = recipe
    BY InHand
  <2>3. /\ files' \in [Recipes -> [Names -> File]] /\ \A r \in Recipes \ {q} : files'[r] = files[r]
        /\ Balanced(OutputName, n - 1, {n}, ToSet(inputs[q]), ToSet(outputs[q]), failures[q], profiled[q],
                    Swallowed(q), files'[q])
    BY <1>0, <1>2, <2>1, <2>2, FileWritten
  <2> QED
    BY <1>0, <2>1, <2>2, <2>3, OutputErrorKeeps
<1> QED
  BY <1>1, <1>2 DEF CommitTargetFails

LEMMA LedgerInputKeeps == ASSUME PerInputInv, LedgerInput PROVE PerInputInv'
<1>0. /\ pc = "ledger" /\ pc \in Settling /\ Advance /\ temp' = Closed
      /\ inputs' = [inputs EXCEPT ![recipe] = Append(@, input)]
      /\ outputs' = [outputs EXCEPT ![recipe] = Append(@, Entry)]
      /\ UNCHANGED <<options, swallowed, app, trouble, files, failures, profiled, manifest, err, faults>>
  BY DEF LedgerInput, PerInputInv, Target, NoTempLeft, Settling
<1>1. PICK n \in Nat : n = input
  BY InHand
<1>2. PICK q \in Recipes : q = recipe
  BY InHand
<1>3. /\ inputs \in [Recipes -> Seq(Inputs)] /\ outputs \in [Recipes -> Seq(Output)] /\ n \in Inputs /\ n \in Nat \ {0}
      /\ inputs[q] \in Seq(Inputs) /\ outputs[q] \in Seq(Output)
  BY <1>1, InHand DEF Types
<1>4. PICK e : e = Entry
  OBVIOUS
<1>5. e = [name |-> OutputName[n], input |-> n, count |-> app.rows] /\ e \in Output
  BY <1>1, <1>3, <1>4, InHand, LineFields, AppRows DEF Entry, Output
<1>6. Append(inputs[q], n) \in Seq(Inputs) /\ ToSet(Append(inputs[q], n)) = ToSet(inputs[q]) \cup {n}
  BY <1>3, SetOfAppend
<1>7. Append(outputs[q], e) \in Seq(Output) /\ ToSet(Append(outputs[q], e)) = ToSet(outputs[q]) \cup {e}
  BY <1>3, <1>5, SetOfAppend
<1>8. /\ inputs'[q] = Append(inputs[q], n) /\ outputs'[q] = Append(outputs[q], e)
      /\ inputs' \in [Recipes -> Seq(Inputs)] /\ outputs' \in [Recipes -> Seq(Output)]
      /\ \A r \in Recipes \ {q} : inputs'[r] = inputs[r] /\ outputs'[r] = outputs[r]
  BY <1>0, <1>1, <1>2, <1>3, <1>4, <1>6, <1>7
<1>9. Balanced(OutputName, n - 1, {n}, ToSet(inputs[q]), ToSet(outputs[q]), failures[q], profiled[q],
               Swallowed(q), files[q])
  BY <1>0, <1>1, <1>2, BooksInHand
<1>10. n \in profiled[q] /\ files[q][OutputName[n]] = [input |-> n, count |-> app.rows]
  BY <1>0, <1>1, <1>2 DEF PerInputInv, Target
<1>11. Balanced(OutputName, n, {}, ToSet(inputs[q]) \cup {n}, ToSet(outputs[q]) \cup {e}, failures[q], profiled[q],
                Swallowed(q), files[q])
  BY <1>3, <1>5, <1>9, <1>10, LedgeredBalance
<1>12. Account(q, n, {})'
  <2>1. /\ ToSet(inputs[q])' = ToSet(inputs[q]) \cup {n} /\ ToSet(outputs[q])' = ToSet(outputs[q]) \cup {e}
    BY <1>6, <1>7, <1>8
  <2>2. Swallowed(q)' = Swallowed(q) /\ OutputName' = OutputName
    BY <1>0, SameLine DEF Swallowed
  <2> QED
    BY <1>0, <1>11, <2>1, <2>2 DEF Account
<1>13. Types'
  BY <1>0, <1>8, InHand, MoveTypes, SameLine DEF Types
<1> QED
  BY <1>0, <1>1, <1>2, <1>8, <1>12, <1>13, AdvanceKeeps

-------------------------------------------------------------------------------
(* Finalization.                                                           *)

LEMMA FinalClaims ==
  ASSUME PerInputInv, pc = "finalize", NEW r \in Recipes
  PROVE  /\ DistinctNames => \A o \in ToSet(outputs[r]) : files[r][o.name] = [input |-> o.input, count |-> o.count]
         /\ \A n \in Names : files[r][n] # NoFile => files[r][n].input \in Listed(r) \cup Swallowed(r)
         /\ Listed(r) \subseteq profiled[r] /\ profiled[r] \subseteq Listed(r) \cup Swallowed(r)
         /\ 1..input \subseteq ToSet(inputs[r]) \cup failures[r] \cup Swallowed(r)
         /\ failures[r] = {} => Listed(r) = (1..input) \ Swallowed(r)
<1>1. Passed(r) = input /\ Halfway(r) = {}
  BY DEF Passed, Halfway, Settling
<1>2. Balanced(OutputName, input, {}, ToSet(inputs[r]), ToSet(outputs[r]), failures[r], profiled[r],
               Swallowed(r), files[r])
  BY <1>1 DEF PerInputInv, Settled
<1> QED
  BY <1>2 DEF Balanced, Listed

LEMMA FinalizeKeeps == ASSUME PerInputInv, Finalize PROVE PerInputInv'
<1> DEFINE verdict == IF ContinueOnError /\ failures[recipe] # {} THEN "partial" ELSE "nil"
<1>0. /\ pc = "finalize" /\ temp = Closed
      /\ UNCHANGED <<options, input, app, temp, trouble, files, inputs, outputs, failures, profiled, swallowed>>
  BY DEF Finalize, Finalized, books, PerInputInv, Target, NoTempLeft
<1>1. PICK outcome \in {verdict, "fatal"}, w \in BOOLEAN :
        /\ manifest' = [manifest EXCEPT ![recipe] = w] /\ Finalized(outcome) /\ (outcome # "fatal" => w = TRUE)
        /\ (UNCHANGED faults \/ Fault)
  <2>1. CASE manifest' = [manifest EXCEPT ![recipe] = TRUE] /\ Finalized(verdict) /\ UNCHANGED faults
    BY <2>1
  <2>2. CASE Fault /\ Finalized("fatal") /\ \E written \in BOOLEAN : manifest' = [manifest EXCEPT ![recipe] = written]
    BY <2>2
  <2> QED
    BY <2>1, <2>2 DEF Finalize
<1>2. manifest \in [Recipes -> BOOLEAN] /\ manifest' \in [Recipes -> BOOLEAN] /\ manifest'[recipe] = w
      /\ \A r \in Recipes \ {recipe} : manifest'[r] = manifest[r]
  BY <1>1, InHand DEF Types
<1>3. err' = (IF err = "nil" \/ (~Multi /\ outcome = "fatal") THEN outcome ELSE err)
      /\ (recipe < NumRecipes => recipe' = recipe + 1 /\ pc' = "finalize")
      /\ (~(recipe < NumRecipes) => pc' = "done" /\ recipe' = recipe)
  BY <1>0, <1>1 DEF Finalized
<1>4. err' = "nil" => err = "nil" /\ outcome = verdict /\ w = TRUE
  BY <1>1, <1>3
<1>5. err' = "nil" => failures[recipe] = {}
  <2>1. CASE ContinueOnError
    BY <1>3, <1>4, <2>1
  <2>2. CASE ~ContinueOnError
    BY <1>0, <1>4, <2>2, InHand DEF PerInputInv, Control
  <2> QED
    BY <2>1, <2>2
<1>6. err' = "nil" => input = NumInputs /\ \A r \in 1..recipe : manifest'[r] = TRUE /\ failures[r] = {}
  <2> SUFFICES ASSUME err' = "nil" PROVE input = NumInputs /\ \A r \in 1..recipe : manifest'[r] = TRUE /\ failures[r] = {}
    OBVIOUS
  <2>1. input = NumInputs /\ \A r \in 1..(recipe - 1) : manifest[r] /\ failures[r] = {}
    BY <1>0, <1>4 DEF PerInputInv, Control
  <2>2. ASSUME NEW r \in 1..recipe PROVE manifest'[r] = TRUE /\ failures[r] = {}
    <3>1. CASE r = recipe
      BY <1>2, <1>4, <1>5, <3>1
    <3>2. CASE r # recipe
      <4>1. r \in 1..(recipe - 1) /\ r \in Recipes
        BY <2>2, <3>2, InHand, LineFields DEF Recipes
      <4> QED
        BY <1>2, <2>1, <3>2, <4>1
    <3> QED
      BY <3>1, <3>2
  <2> QED
    BY <2>1, <2>2
<1>7. Types'
  <2>1. pc' \in Stages /\ recipe' \in Recipes
    BY <1>3, InHand, LineFields DEF Stages, Recipes
  <2>2. err' \in Outcomes
    BY <1>1, <1>3, InHand DEF Types, Outcomes
  <2>3. faults' \in 0..MaxFaults
    BY <1>1, InHand, FaultTypes DEF Types
  <2> QED
    BY <1>0, <1>2, <2>1, <2>2, <2>3, InHand, SameLine DEF Types
<1>8. Target'
  BY <1>0, <1>3 DEF Target, NoTempLeft
<1>9. CASE recipe < NumRecipes
  <2>1. ASSUME NEW r \in Recipes' PROVE Settled(r)'
    <3>1. PICK n : n = input
      OBVIOUS
    <3>2. Passed(r) = n /\ Passed(r)' = n /\ Halfway(r) = {} /\ Halfway(r)' = {} /\ r \in Recipes
      BY <1>0, <1>3, <1>9, <3>1, SameLine DEF Passed, Halfway, Settling
    <3>3. Account(r, n, {})
      BY <1>0, <3>2 DEF PerInputInv, Settled, Account
    <3>4. Account(r, n, {})'
      BY <1>0, <3>3, SameAccount
    <3> QED
      BY <3>2, <3>4 DEF Settled, Account
  <2>2. Control'
    <3>1. \A r \in Recipes' : manifest'[r] => r < recipe'
      BY <1>0, <1>2, <1>3, <1>9, SameLine, InHand DEF PerInputInv, Control, Recipes
    <3>2. err' # "nil" \/ input' = NumInputs'
      BY <1>0, <1>6, SameLine
    <3>3. err' = "nil" => \A r \in 1..(recipe' - 1) : manifest'[r] /\ failures'[r] = {}
      BY <1>0, <1>3, <1>6, <1>9, InHand
    <3>4. ~ContinueOnError' /\ err' = "nil" => \A r \in Recipes' : failures'[r] = {}
      BY <1>0, <1>4, SameLine DEF PerInputInv, Control
    <3> QED
      BY <1>3, <1>9, <3>1, <3>2, <3>3, <3>4 DEF Control
  <2> QED
    BY <1>3, <1>7, <1>8, <1>9, <2>1, <2>2, FinalBooks
<1>10. CASE ~(recipe < NumRecipes)
  <2>1. pc' = "done" /\ Control'
    BY <1>3, <1>10 DEF Control
  <2>2. FailedHasNoOutput'
    BY <1>0, SameLine DEF PerInputInv, FailedHasNoOutput
  <2>3. ASSUME NEW r \in Recipes PROVE Listed(r)' = Listed(r) /\ Swallowed(r)' = Swallowed(r)
                                       /\ ToSet(outputs[r])' = ToSet(outputs[r]) /\ ToSet(inputs[r])' = ToSet(inputs[r])
    BY <1>0, SameLine DEF Listed, Swallowed, ToSet
  <2>4. DistinctNames => ManifestMatchesFiles'
    <3> SUFFICES ASSUME DistinctNames, NEW r \in Recipes
                 PROVE  /\ \A o \in ToSet(outputs[r]) : files[r][o.name] = [input |-> o.input, count |-> o.count]
                        /\ \A n \in Names : files[r][n] # NoFile => files[r][n].input \in Listed(r) \cup Swallowed(r)
                        /\ Listed(r) \subseteq profiled[r] /\ profiled[r] \subseteq Listed(r) \cup Swallowed(r)
      BY <1>0, <2>3, SameLine DEF ManifestMatchesFiles
    <3> QED
      BY <1>0, FinalClaims
  <2>5. NothingElseDropped'
    BY <1>0, <2>3, SameLine, FinalClaims DEF NothingElseDropped
  <2>6. ZeroExitAccounted'
    <3> SUFFICES ASSUME err' = "nil", NEW r \in Recipes
                 PROVE  manifest'[r] /\ Listed(r) = Inputs \ Swallowed(r)
      BY <2>3, SameLine, <1>0 DEF ZeroExitAccounted
    <3>1. r \in 1..recipe
      BY <1>10, InHand, LineFields DEF Recipes
    <3>2. manifest'[r] = TRUE /\ failures[r] = {} /\ 1..input = Inputs
      BY <1>6, <3>1 DEF Inputs
    <3> QED
      BY <1>0, <3>2, FinalClaims
  <2> QED
    BY <1>7, <1>8, <2>1, <2>2, <2>4, <2>5, <2>6 DEF PerInputInv
<1> QED
  BY <1>9, <1>10

LEMMA Unmoved == ASSUME PerInputInv, UNCHANGED vars PROVE PerInputInv'
<1>1. UNCHANGED <<options, pc, input, recipe, app, temp, trouble, files, inputs, outputs, failures, profiled,
                  swallowed, manifest, err, faults>>
  BY DEF vars, place, books
<1>2. Types' /\ Target' /\ Control' /\ FailedHasNoOutput'
  BY <1>1, SameLine DEF PerInputInv, Types, Target, NoTempLeft, Control, FailedHasNoOutput
<1>3. (DistinctNames => ManifestMatchesFiles') /\ NothingElseDropped' /\ ZeroExitAccounted'
  <2>1. ASSUME NEW r \in Recipes PROVE Listed(r)' = Listed(r) /\ Swallowed(r)' = Swallowed(r)
                                       /\ ToSet(outputs[r])' = ToSet(outputs[r]) /\ ToSet(inputs[r])' = ToSet(inputs[r])
    BY <1>1, SameLine DEF Listed, Swallowed, ToSet
  <2>2. DistinctNames => ManifestMatchesFiles'
    BY <1>1, <2>1, SameLine DEF PerInputInv, ManifestMatchesFiles
  <2>3. NothingElseDropped'
    BY <1>1, <2>1, SameLine DEF PerInputInv, NothingElseDropped
  <2>4. ZeroExitAccounted'
    BY <1>1, <2>1, SameLine DEF PerInputInv, ZeroExitAccounted
  <2> QED
    BY <2>2, <2>3, <2>4
<1>4. ASSUME pc' # "done", NEW r \in Recipes' PROVE Settled(r)'
  <2>1. PICK n : n = Passed(r)
    OBVIOUS
  <2>2. PICK E : E = Halfway(r)
    OBVIOUS
  <2>3. Passed(r)' = n /\ Halfway(r)' = E /\ r \in Recipes
    BY <1>1, <2>1, <2>2, SameLine DEF Passed, Halfway
  <2>4. Account(r, n, E)
    BY <1>1, <1>4, <2>1, <2>2, <2>3 DEF PerInputInv, Settled, Account
  <2>5. Account(r, n, E)'
    BY <1>1, <2>4, SameAccount
  <2> QED
    BY <2>3, <2>5 DEF Settled, Account
<1> QED
  BY <1>2, <1>3, <1>4 DEF PerInputInv

LEMMA PerInputStarts == Init => PerInputInv
<1> SUFFICES ASSUME Init PROVE PerInputInv
  OBVIOUS
<1>0. /\ options \in CommandLines /\ pc = "input" /\ input = 1 /\ recipe = 1
      /\ app = [rows |-> 0, verdict |-> "applied"] /\ temp = Closed /\ trouble = {}
      /\ files = [r \in Recipes |-> [n \in Names |-> NoFile]]
      /\ inputs = [r \in Recipes |-> <<>>] /\ outputs = [r \in Recipes |-> <<>>]
      /\ failures = [r \in Recipes |-> {}] /\ profiled = [r \in Recipes |-> {}]
      /\ manifest = [r \in Recipes |-> FALSE] /\ swallowed = {} /\ err = "nil" /\ faults = 0
  BY DEF Init
<1>1. Types
  <2>1. files \in [Recipes -> [Names -> File]]
    BY <1>0, LineFields DEF NoFile, File
  <2>2. inputs \in [Recipes -> Seq(Inputs)]
    BY <1>0
  <2>3. outputs \in [Recipes -> Seq(Output)]
    <3>1. <<>> \in Seq(Output)
      OBVIOUS
    <3> QED
      BY <1>0, <3>1
  <2>4. app \in [rows : RowCounts \cup {0}, verdict : Verdicts]
    BY <1>0 DEF Verdicts
  <2>5. manifest \in [Recipes -> BOOLEAN] /\ failures \in [Recipes -> SUBSET Inputs]
        /\ profiled \in [Recipes -> SUBSET Inputs] /\ swallowed \subseteq Recipes \X Inputs
    BY <1>0
  <2>6. /\ options \in CommandLines /\ pc \in Stages /\ input \in Inputs /\ recipe \in Recipes
        /\ temp \in {Closed} \cup 0..app.rows /\ trouble \subseteq {"write", "close", "commit", "ledger"}
        /\ err \in Outcomes /\ faults \in 0..MaxFaults
    BY <1>0, LineFields, PerInputAssumption DEF Stages, Outcomes
  <2> QED
    BY <2>1, <2>2, <2>3, <2>4, <2>5, <2>6 DEF Types
<1>2. Target /\ Control
  BY <1>0 DEF Target, NoTempLeft, Control, Recipes
<1>3. ASSUME NEW r \in Recipes PROVE Settled(r)
  <2>1. Passed(r) = 0 /\ Halfway(r) = {}
    BY <1>0 DEF Passed, Halfway
  <2>2. ToSet(inputs[r]) = {} /\ ToSet(outputs[r]) = {} /\ Swallowed(r) = {}
    BY <1>0 DEF ToSet, Swallowed
  <2>3. failures[r] = {} /\ profiled[r] = {} /\ \A m \in Names : files[r][m] = NoFile
    BY <1>0
  <2> QED
    BY <2>1, <2>2, <2>3 DEF Settled, Balanced
<1>4. \A r \in Recipes : manifest[r] = FALSE
  BY <1>0
<1>5. FailedHasNoOutput /\ ManifestMatchesFiles /\ NothingElseDropped /\ ZeroExitAccounted
  BY <1>0, <1>4 DEF FailedHasNoOutput, ManifestMatchesFiles, NothingElseDropped, ZeroExitAccounted
<1> QED
  BY <1>1, <1>2, <1>3, <1>5 DEF PerInputInv

LEMMA PerInputKeeps == PerInputInv /\ [Next]_vars => PerInputInv'
<1> SUFFICES ASSUME PerInputInv, [Next]_vars PROVE PerInputInv'
  OBVIOUS
<1>1. CASE UNCHANGED vars
  BY <1>1, Unmoved
<1>2. CASE Next
  BY <1>2, InputFailsKeeps, CancelKeeps, ReadInputKeeps, ExternalFieldsFailKeeps, OpenTargetKeeps,
     OpenTargetFailsKeeps, WriteRowsKeeps, WriteRowsFailsKeeps, CloseTargetKeeps, SettleFailedKeeps,
     SettleCloseErrorKeeps, SettleFloorMissKeeps, CommitTargetKeeps, CommitTargetFailsKeeps,
     LedgerInputKeeps, LedgerInputFailsKeeps, FinalizeKeeps, Unmoved DEF Next, Done
<1> QED
  BY <1>1, <1>2

LEMMA TypesSay == PerInputInv => TypeOK
<1> SUFFICES ASSUME PerInputInv PROVE TypeOK
  OBVIOUS
<1>1. Types
  BY DEF PerInputInv
<1>2. app.rows \in RowCounts \cup {0} /\ app.verdict \in Verdicts
  BY <1>1 DEF Types
<1>3. ASSUME NEW r \in Recipes
      PROVE  /\ \A n \in Names : files[r][n].input \in 0..NumInputs /\ files[r][n].count \in Nat
             /\ ToSet(inputs[r]) \subseteq Inputs /\ failures[r] \subseteq Inputs /\ profiled[r] \subseteq Inputs
             /\ manifest[r] \in BOOLEAN
  <2>1. \A n \in Names : files[r][n] \in File
    BY <1>1 DEF Types
  <2>2. inputs[r] \in Seq(Inputs)
    BY <1>1 DEF Types
  <2>3. ToSet(inputs[r]) \subseteq Inputs
    BY <2>2 DEF ToSet
  <2> QED
    BY <1>1, <2>1, <2>3 DEF Types, File
<1> QED
  BY <1>1, <1>2, <1>3 DEF Types, TypeOK, Stages, Settling, Outcomes

(* Files, manifest and value profile agree, whatever fails, for every      *)
(* number of inputs and recipes; with inputs whose output names differ,    *)
(* which commitPerInputApplication and runSequentialJSONStreamingExtraction *)
(* take for granted.                                                       *)
THEOREM OutputsAgree == ASSUME DistinctNames PROVE Spec => []OutputsHonest
<1>1. PerInputInv => OutputsHonest
  BY TypesSay DEF PerInputInv, OutputsHonest, Target
<1> QED
  BY <1>1, PerInputStarts, PerInputKeeps, PTL DEF Spec

(* No input is lost but those whose output error extract-multi swallows,   *)
(* and a zero exit lists all others: with any output names at all.         *)
THEOREM InputsKept == Spec => []InputsAccounted
<1>1. PerInputInv => InputsAccounted
  BY DEF PerInputInv, InputsAccounted
<1> QED
  BY <1>1, PerInputStarts, PerInputKeeps, PTL DEF Spec

===============================================================================
