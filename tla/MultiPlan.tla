------------------------------ MODULE MultiPlan ------------------------------
(* The plan of an extract-multi run: what its preflight refuses before an      *)
(* input is read, the plan each recipe gets, and the recorded command line.    *)
(* A line s is a record of the shared flags; a recipe r is what its manifest   *)
(* and assets say.  Parameters are sets of [key, formed, text]; place says     *)
(* where the local paths of the line are: here, below the working directory,   *)
(* away from it, or that there are none (cloud); last whether the last         *)
(* workspace looks like a secret's name (secret) or not (plain).               *)
EXTENDS Integers, FiniteSets, FieldScope

CONSTANT PMaxPut        \* bytes of the largest object one request can publish
ASSUME PMaxPutAssumption == PMaxPut \in Nat \ {0}

PKeys == {"k", "token"}
\* A key that looks like a secret's name.
PSecret(key) == key = "token"
PRefusal == [refused |-> TRUE]
PCloud(s) == s.root = "cloud"
PLocal(s) == s.root = "local"

\* Exactly one of --files, --file-list and --input-path.
PInputModeRefused(s) == Cardinality(s.inputs) # 1
\* The root is required; an unsupported scheme is refused.
PRootRefused(s) == ~PCloud(s) /\ ~PLocal(s)
\* A provenance root, by flag or environment, is an existing directory; what a recorded
\* line says of it, "set", is none.
PProvenanceRefused(s) == s.rooted = "set"
PWorkersRefused(s) == s.workers < 1
\* A run-level internal parameter is key=value, and its key is not also visible.
PInternalRefused(s) ==
  \E h \in s.hidden : ~h.formed \/ h.key = "" \/ \E v \in s.visible : v.formed /\ v.key = h.key
\* Both kinds go to the field plan; the keys of the second are internal everywhere.
PParameters(s) == s.visible \cup s.hidden
PInternalKeys(s, r) == r.internal \cup {h.key : h \in s.hidden}

-----------------------------------------------------------------------------
\* Output directories.

\* An id is a sequence of characters, used as it is: a letter or digit, then letters,
\* digits and ". _ -", or refused.
PLetters == {"a", "A", "b", "B", "1"}
PSlugRefused(id) == id = <<>> \/ id[1] \notin PLetters \/ \E i \in DOMAIN id : id[i] \notin PLetters \cup {".", "_", "-"}
\* Directories are compared without case.
PLower(c) == CASE c = "A" -> "a" [] c = "B" -> "b" [] OTHER -> c
PFold(id) == [i \in DOMAIN id |-> PLower(id[i])]
\* disk says what stands at <root>/<id>: none, dir, file, link, or unknown.
PDirsRefused(s, ids, disk) ==
  \/ ids = <<>>
  \/ \E i \in DOMAIN ids :
       \/ PSlugRefused(ids[i])
       \/ \E j \in 1..(i - 1) : PFold(ids[i]) = PFold(ids[j])
       \/ PLocal(s) /\ disk[ids[i]] \in {"file", "link", "unknown"}
PDir(s, id) == <<s.root, id>>

-----------------------------------------------------------------------------
\* One recipe's plan.

\* What the layers say of one key (FieldScope).
PCase(s, r, key) ==
  [patterns |-> <<>>, shim |-> FALSE, requiredCapture |-> FALSE,
   manifest |-> IF key \in r.parameters THEN "full" ELSE "none",
   cli |-> IF \E p \in PParameters(s) : ~p.formed \/ p.key = "" THEN "bad"
           ELSE IF \E p \in PParameters(s) : p.key = key THEN "full" ELSE "none",
   internal |-> key \in PInternalKeys(s, r), mapped |-> key \in r.mapped, required |-> key \in r.required]
PFields(s, r) == [key \in PKeys |-> FResolve(PCase(s, r, key))]

\* A descriptor needs its contract and a manifest to point to.
PDescriptorRefused(s) == s.contract # s.descriptor \/ (s.descriptor /\ s.noManifest)
\* Output validation: a known rung (sidecars, or artifact for those above it), a
\* manifest, and from the second rung on a descriptor with its contract.
PValidates(s) == s.validate \notin {"", "off"}
PValidateRefused(s) ==
  PValidates(s) /\ (s.validate \notin {"sidecars", "artifact"} \/ s.noManifest
                    \/ (s.validate = "artifact" /\ ~(s.descriptor /\ s.contract)))
\* Manifest, assets and configurations load; the recipe is an extract recipe, its
\* applicability file inside the workspace, its input xml, its output json.
PLoads(r) == r.loads /\ r.kind = "extract" /\ ~r.escapes
PFormatsRefused(r) == r.input # "xml" \/ ~(r.formats \subseteq {"json", "ndjson"})
PRecipeRefused(s, r) ==
  \/ ~PLoads(r) \/ PDescriptorRefused(s) \/ PValidateRefused(s) \/ PFormatsRefused(r)
  \/ \E key \in PKeys : PFields(s, r)[key].layer = "refused"
\* The input handle is the shared one or else the recipe's; the output handle is the
\* recipe's; the directory is the dispatcher's whatever the manifest says.  The
\* manifest is read a second time here: it may have changed since its id was taken.
PPlan(s, r, id) ==
  [id |-> r.idThen, dir |-> PDir(s, id), run |-> s.run, formats |-> r.formats, fields |-> PFields(s, r),
   source |-> IF s.handle # "none" THEN s.handle ELSE r.source, target |-> r.target,
   mode |-> s.mode, records |-> s.records, bytes |-> s.bytes, identity |-> s.identity,
   texts |-> {<<p.key, p.text>> : p \in PParameters(s)}]

\* The options of aggregate output, and of per-input output without them.
PAggregateRefused(s) ==
  CASE s.mode \in {"", "per-input"} -> s.identity \/ s.noDurable \/ s.records # 0 \/ s.bytes # 0
    [] s.mode = "aggregate" ->
         \/ s.noManifest \/ s.records < 0 \/ s.bytes < 0
         \/ PCloud(s) /\ (s.noDurable \/ s.bytes = 0 \/ s.bytes > PMaxPut)
    [] OTHER -> TRUE

\* Cloud inputs are staged before the run, or as it goes within limits that are given.
PBounded(s) == s.cloudMode = "bounded"
PCloudInputRefused(s) ==
  CASE s.cloudMode \in {"", "eager"} -> FALSE
    [] PBounded(s) -> "list" \notin s.inputs \/ s.stagedBytes <= 0 \/ s.stagedFiles <= 0 \/ s.objectBytes <= 0 \/ s.prefetch < 0
    [] OTHER -> TRUE

-----------------------------------------------------------------------------
\* The whole preflight, up to the directories it creates.  found is the resolved
\* inputs, sorted when a walk found them and ordinals count; how they are found, read
\* and checked is the line's.
PInputs(s, found) ==
  IF s.mode = "aggregate" /\ "path" \in s.inputs THEN SortSeq(found, <) ELSE found
PHow(s) ==
  [place |-> s.place, patterns |-> s.patterns, depth |-> s.depth, follow |-> s.follow, goOn |-> s.goOn, workers |-> s.workers,
   validate |-> IF PValidates(s) THEN s.validate ELSE "off",
   staging |-> IF PBounded(s) THEN <<s.prefetch, s.stagedBytes, s.stagedFiles, s.objectBytes>> ELSE <<>>]
PLineRefused(s) ==
  \/ PInputModeRefused(s) \/ PRootRefused(s) \/ PProvenanceRefused(s) \/ PWorkersRefused(s) \/ PInternalRefused(s)
  \/ PAggregateRefused(s) \/ PCloudInputRefused(s)
PPreflight(s, rs, disk, found) ==
  LET ids == [i \in DOMAIN rs |-> rs[i].id] IN
  IF \/ PLineRefused(s) \/ PDirsRefused(s, ids, disk)
     \/ \E i \in DOMAIN rs : PRecipeRefused(s, rs[i])
     \/ found = <<>>
  THEN PRefusal
  ELSE [refused |-> FALSE, plans |-> [i \in DOMAIN rs |-> PPlan(s, rs[i], ids[i])], inputs |-> PInputs(s, found), how |-> PHow(s),
        created |-> IF s.mode # "aggregate" /\ PLocal(s) THEN {PDir(s, ids[i]) : i \in DOMAIN rs} ELSE {}]

\* The command line the dispatcher keeps: each flag where it differs from its default.
\* Credentials and telemetry are left out, and the run's id when it was not a flag.
PDefault ==
  [inputs |-> {}, root |-> "none", place |-> "here", rooted |-> "none", visible |-> {}, hidden |-> {}, mode |-> "per-input",
   records |-> 0, bytes |-> 0, identity |-> FALSE, noDurable |-> FALSE, noManifest |-> FALSE, descriptor |-> FALSE,
   contract |-> FALSE, workers |-> 1, patterns |-> "", depth |-> 0, follow |-> FALSE, goOn |-> FALSE, validate |-> "off",
   cloudMode |-> "eager", prefetch |-> 0, stagedBytes |-> 0, stagedFiles |-> 0, objectBytes |-> 0]
PCounts == {"records", "bytes", "depth", "prefetch", "stagedBytes", "stagedFiles", "objectBytes"}
PRecorded(f, v) ==
  CASE f = "mode" -> v \notin {"", "per-input"}
    [] f = "validate" -> v \notin {"", "off"}
    [] f = "cloudMode" -> v \notin {"", "eager"}
    [] f = "rooted" -> v = "flag"
    [] f \in PCounts -> v > 0
    [] f = "workers" -> v > 1
    [] OTHER -> v # PDefault[f]

\* What the manifest of recipe r records of it.  A text with a separator is cleaned as a
\* path is; a secret's value and an internal one are masked, the key is kept.
PClean(text) == IF text = "path" THEN "cleaned" ELSE text
PVisible(p, s, r) ==
  [p EXCEPT !.text = IF ~p.formed THEN PClean(@)
                     ELSE IF PSecret(p.key) THEN "<redacted>"
                     ELSE IF p.key \in PInternalKeys(s, r) THEN "<internal>" ELSE PClean(@)]
PHidden(h) == [h EXCEPT !.formed = @ /\ h.key # "", !.text = "<internal>"]
\* A path away from the working directory is cut; under a provenance root so is every
\* local input and every list of inputs.
PPlaceRecorded(s) ==
  IF s.place = "away" \/ (s.rooted # "none" /\ (s.place = "here" \/ "list" \in s.inputs)) THEN "cut" ELSE s.place
\* A workspace that looks like a secret's name masks the argument after it: the inputs.
PInputsRecorded(s) == IF s.last = "secret" THEN {} ELSE s.inputs
PSanitized(s, r) ==
  [s EXCEPT !.place = PPlaceRecorded(s), !.rooted = IF @ = "flag" THEN "set" ELSE @, !.inputs = PInputsRecorded(s),
            !.visible = {PVisible(p, s, r) : p \in s.visible}, !.hidden = {PHidden(h) : h \in s.hidden}]
PArgv(s, r) == [f \in {g \in DOMAIN PDefault : PRecorded(g, s[g])} |-> PSanitized(s, r)[f]]

-----------------------------------------------------------------------------
\* An accepted bundle keeps its recipes apart, whatever their manifests say later:
\* directories whose names differ also without case, inside the root and not through a
\* link; a recipe's plan is the one it gets alone; a run-level internal value is hidden
\* in every recipe; and the order of the recipes decides nothing.
PSameButCase(x, y) ==
  DOMAIN x = DOMAIN y /\ \A k \in DOMAIN x : x[k] = y[k] \/ {x[k], y[k]} \in {{"a", "A"}, {"b", "B"}}
PIsolated(s, rs, disk, found) ==
  LET p == PPreflight(s, rs, disk, found) IN
  ~p.refused =>
    /\ \A i, j \in DOMAIN rs : i # j => ~PSameButCase(p.plans[i].dir[2], p.plans[j].dir[2])
    /\ \A i \in DOMAIN rs :
         /\ p.plans[i].dir[1] = s.root /\ (PLocal(s) => disk[p.plans[i].dir[2]] \in {"none", "dir"})
         /\ PPreflight(s, <<rs[i]>>, disk, found).plans = <<p.plans[i]>>
         /\ \A h \in s.hidden : p.plans[i].fields[h.key].hidden /\ p.plans[i].fields[h.key].layer = "cli"
         /\ p.plans[i].formats \subseteq {"json", "ndjson"}
    /\ PPreflight(s, Reverse(rs), disk, found).plans = Reverse(p.plans)

\* Running a recorded line again in the same directory, with the run's id and credentials.
PReplay(argv, s) == [f \in DOMAIN s |->
  IF f \in DOMAIN argv THEN argv[f] ELSE IF f \in DOMAIN PDefault THEN PDefault[f] ELSE s[f]]
\* A line whose paths can be recorded: no provenance root, nothing away from the working
\* directory, no negative depth, and no workspace that masks the inputs.
PPortable(s) == s.rooted = "none" /\ s.place # "away" /\ s.depth >= 0 /\ s.last = "plain"
\* The parameters whose value the manifest of recipe r keeps.
PKept(s, r) == {p \in s.visible : PVisible(p, s, r) = p}
\* Two plans that differ in the values of parameters only.
PLike(x, y) ==
  /\ \A f \in DOMAIN x \ {"mode", "texts"} : x[f] = y[f]
  /\ (x.mode = "aggregate") = (y.mode = "aggregate")

\* The line that any recipe's manifest records of a portable run is accepted again and
\* plans the same run, but for the values of parameters that are masked or cleaned.
PReplays(s, rs, disk, found) ==
  \A i \in DOMAIN rs :
    LET p == PPreflight(s, rs, disk, found)
        q == PPreflight(PReplay(PArgv(s, rs[i]), s), rs, disk, found)
    IN (~p.refused /\ PPortable(s)) =>
         /\ ~q.refused /\ q.inputs = p.inputs /\ q.created = p.created /\ q.how = p.how
         /\ \A j \in DOMAIN rs : PLike(q.plans[j], p.plans[j]) /\ \A v \in PKept(s, rs[i]) : <<v.key, v.text>> \in q.plans[j].texts
PMultiHolds(s, rs, disk, found) == PIsolated(s, rs, disk, found) /\ PReplays(s, rs, disk, found)
==============================================================================
