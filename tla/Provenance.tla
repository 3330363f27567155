------------------------------ MODULE Provenance ------------------------------
(* What a provenance manifest says of the run: its command line without the     *)
(* values that stay private, the paths of its inputs, also under a provenance   *)
(* root, its input counts, and the content hash of its recipe.                  *)
(* A path is a sequence of names from the file system's root.                   *)
EXTENDS Integers, Sequences, FiniteSets, SequencesExt, FiniteSetsExt

CONSTANT QSafe          \* the largest integer canonical JSON can hold exactly
ASSUME QSafeAssumption == QSafe \in Nat

-----------------------------------------------------------------------------
\* The command line.  An argument is [flag, joined, value]: a flag alone, a flag
\* joined to a value by "=", or a value alone (flag ""); a value is [inner, text],
\* where inner is the key of a key=value pair or "".
QNoValue == [inner |-> "", text |-> ""]
QSecret(name) == name = "token"
QMark(inner) == [inner |-> inner, text |-> "<internal>"]

\* A local path is cut to what follows a root, or to its last name.
QClip(text) == IF text = "path" THEN "name" ELSE text
\* --parameter k=v: the inner key decides.
QParameter(v, internal) ==
  IF v.inner = "" THEN [v EXCEPT !.text = QClip(@)]
  ELSE IF QSecret(v.inner) THEN [v EXCEPT !.text = "<redacted>"]
  ELSE IF v.inner \in internal THEN QMark(v.inner)
  ELSE [v EXCEPT !.text = QClip(@)]
\* Variant: an internal value is hidden only for the keys the recipe lists.
QInternalByKey(v, internal) == QParameter(v, internal)
\* --parameter-internal k=v: the flag decides, whatever the recipe's keys are.
QInternal(v, internal) == QMark(v.inner)

\* The value of a flag, as it is recorded; a flag without a rule keeps a split value
\* in the next argument, where it is read as an argument of its own.
QRules == {"provenance-root", "token", "parameter-internal", "parameter"}
QRuled(flag, v, internal) ==
  CASE flag = "provenance-root" -> [inner |-> "", text |-> "<set>"]
    [] flag = "token" -> [inner |-> "", text |-> "<redacted>"]
    [] flag = "parameter-internal" -> QInternal(v, internal)
    [] flag = "parameter" -> QParameter(v, internal)
    [] OTHER -> [v EXCEPT !.text = QClip(@)]
\* A pair alone is read as a flag named by its key; any other value alone is kept.
QAlone(a) ==
  IF a.value.inner = "" THEN a
  ELSE [a EXCEPT !.value.text = IF QSecret(a.value.inner) THEN "<redacted>" ELSE QClip(@)]
\* The rule an argument without a value applies to the next one, or "": a flag's own,
\* and also a plain word that looks like a secret's name.
QTakes(a) ==
  IF a.flag \in QRules THEN a.flag
  ELSE IF a.flag = "" /\ a.value.inner = "" /\ QSecret(a.value.text) THEN "token" ELSE ""
\* The value is recorded after its flag; a root's is folded into it.
QGive(out, flag, v, internal) ==
  IF flag = "provenance-root"
  THEN Append(Front(out), [flag |-> flag, joined |-> TRUE, value |-> QRuled(flag, v, internal)])
  ELSE Append(out, [flag |-> "", joined |-> FALSE, value |-> QRuled(flag, v, internal)])
\* sanitizeArgv, from left to right.
QSanitize(args, internal) ==
  FoldLeft(LAMBDA s, a :
    IF s.waiting # "" THEN [out |-> QGive(s.out, s.waiting, a.value, internal), waiting |-> ""]
    ELSE IF a.joined THEN
      [out |-> Append(s.out, [a EXCEPT !.value = QRuled(a.flag, @, internal)]), waiting |-> ""]
    ELSE [out |-> Append(s.out, IF a.flag = "" THEN QAlone(a) ELSE a), waiting |-> QTakes(a)],
    [out |-> <<>>, waiting |-> ""], args).out

\* Under a root, local input references become placeholders first.
QInputFlags == {"files", "input-path", "file-list"}
QPlaceholder(flag, v) ==
  IF flag = "file-list" THEN [inner |-> "", text |-> "<input-list>"]
  ELSE IF v.text \in {"", "cloud"} THEN v ELSE [inner |-> "", text |-> "<input>"]
QRedactInputs(args) ==
  FoldLeft(LAMBDA s, a :
    IF s.waiting # "" THEN
      [out |-> Append(s.out, [flag |-> "", joined |-> FALSE, value |-> QPlaceholder(s.waiting, a.value)]),
       waiting |-> ""]
    ELSE IF a.joined /\ a.flag \in QInputFlags THEN
      [out |-> Append(s.out, [a EXCEPT !.value = QPlaceholder(a.flag, @)]), waiting |-> ""]
    ELSE [out |-> Append(s.out, a), waiting |-> IF ~a.joined /\ a.flag \in QInputFlags THEN a.flag ELSE ""],
    [out |-> <<>>, waiting |-> ""], args).out
QArgv(args, internal, rooted) == QSanitize(IF rooted THEN QRedactInputs(args) ELSE args, internal)

-----------------------------------------------------------------------------
\* Paths.

\* The path below a root, strictly, or <<>>.
QBelow(root, path) ==
  IF IsStrictPrefix(root, path) THEN SubSeq(path, Len(root) + 1, Len(path)) ELSE <<>>
\* SanitizePath: below the first root that contains it, or the last name.
QShort(path, roots) ==
  LET in == SelectSeq(roots, LAMBDA r : QBelow(r, path) # <<>>) IN
  IF in = <<>> THEN <<Last(path)>> ELSE QBelow(in[1], path)

\* A root that is named is an existing directory or stops the run.
QResolve(value) == IF value = "dir" THEN "on" ELSE "refused"
\* Flag over environment, either may be unset, blank or name a missing directory.
QSelect(flag, env) ==
  LET chosen == IF flag # "unset" THEN flag ELSE env IN IF chosen = "unset" THEN "off" ELSE QResolve(chosen)
\* ensureProvenanceRoot: the run resolves again what the command line left in its options.
QEnsure(set, value, env) ==
  IF set \/ value # "blank" THEN QResolve(value) ELSE IF env = "unset" THEN "off" ELSE QResolve(env)

\* Root.Relative: strictly inside by spelling and after links are followed.  A file is
\* [lexical, evaluated, cloud]; a dangling link has no evaluated path.
QRelative(root, f) ==
  IF f.evaluated = <<>> \/ QBelow(root.evaluated, f.evaluated) = <<>> THEN <<>> ELSE QBelow(root.lexical, f.lexical)
\* The path the manifest gives an input.
QRecordedPath(root, active, f, roots) ==
  IF f.cloud THEN <<"cloud">> \o f.lexical
  ELSE IF active THEN QRelative(root, f) ELSE QShort(f.lexical, roots)
QLabel(active, f, i) == IF ~active THEN <<"path", f>> ELSE IF f.cloud THEN <<"uri", f>> ELSE <<"input", i>>

\* The order of the inputs: sorted when a walk found them and ordinals count.  Files
\* sort by their spelling, here by rank.
QOrder(walk, aggregate, files) ==
  IF walk /\ aggregate THEN SortSeq(files, LAMBDA a, b : a.rank < b.rank) ELSE files
\* The first local input outside the root, by its place; 0 when there is none.
QPreflight(root, files) ==
  LET out == {i \in DOMAIN files : ~files[i].cloud /\ QRelative(root, files[i]) = <<>>} IN
  IF out = {} THEN 0 ELSE Min(out)

-----------------------------------------------------------------------------
\* Input counts: only known dispositions are counted, an unknown one refuses all.
QKnown == {"applied", "not_applicable", "failed"}
QCount(ds, d) == Cardinality({i \in DOMAIN ds : ds[i] = d})
QAccounting(ds) ==
  IF \E i \in DOMAIN ds : ds[i] \notin QKnown THEN <<"refused">>
  ELSE <<"counts", Len(ds), [d \in QKnown |-> QCount(ds, d)]>>

\* A run id: the flag, else the environment, else a new one; a given one is a UUIDv7.
QRunId(flag, env) ==
  LET given == IF flag # "blank" THEN flag ELSE env IN
  CASE given = "blank" -> "new" [] given = "v4" -> "refused" [] OTHER -> given

-----------------------------------------------------------------------------
\* The canonical form of a YAML asset.  A scalar is [kind, of]; an int may be written with
\* a leading zero (octal) or a base prefix (hex); text 2 is another spelling of text 1,
\* and key 0 is the empty one.
QNormal(text) == IF text = 2 THEN 1 ELSE text
QBad == [kind |-> "refused", of |-> 0]
\* A number in canonical JSON is a double: beyond QSafe the odd integers are lost.
QDouble(n) == [kind |-> "number", of |-> IF n \in -QSafe..QSafe THEN n ELSE n - (n % 2)]
\* parseSafeJSONInt reads base ten, after a leading zero too, and is exact or refuses;
\* a prefix such as 0x is refused.
QInteger(n) == IF n \in -QSafe..QSafe THEN QDouble(n) ELSE QBad
\* A float must be finite, an alias is refused, other tags are kept as texts.  of is what
\* the digits of a number say in base ten.
QScalar(n) ==
  CASE n.kind \in {"int", "octal"} -> QInteger(n.of)
    [] n.kind = "float" -> QDouble(n.of)
    [] n.kind = "text" -> [n EXCEPT !.of = QNormal(@)]
    [] n.kind \in {"hex", "inf", "alias"} -> QBad
    [] OTHER -> n
\* A mapping is a sequence of <<key, scalar>>; its keys are texts, not empty, and
\* distinct once normalised; their order is lost.
QMapping(entries) ==
  LET keys == [i \in DOMAIN entries |-> QNormal(entries[i][1])]
      value(k) == QScalar(entries[CHOOSE i \in DOMAIN entries : keys[i] = k][2])
  IN IF 0 \in ToSet(keys) \/ ~IsInjective(keys) \/ \E k \in ToSet(keys) : value(k) = QBad THEN QBad
     ELSE [kind |-> "map", of |-> [k \in ToSet(keys) |-> value(k)]]
\* The hash is taken of the canonical assets in order, kept apart; an absent
\* applicability asset adds nothing.
QContent(sig, ext, app) ==
  LET parts == <<QMapping(sig), QMapping(ext)>> \o IF app = <<>> THEN <<>> ELSE <<QMapping(app)>> IN
  IF QBad \in ToSet(parts) THEN <<QBad>> ELSE parts

-----------------------------------------------------------------------------
\* No private value is left in the recorded command line: what --parameter-internal,
\* a secret flag or key, the root flag, or an internal key of --parameter was given,
\* and under a root no local input.  items are the flags as the user meant them,
\* each written joined or split; private text is "hush".  One thing is excepted: a word
\* that looks like a secret's name takes the next argument for its value, so a flag
\* written split after it is lost and its value is read on its own.  The lines that the
\* commands build (buildExtractArgv and its kin) join every flag: they show nothing.
QWritten(item) ==
  IF item.split THEN <<[flag |-> item.flag, joined |-> FALSE, value |-> QNoValue],
                       [flag |-> "", joined |-> FALSE, value |-> item.value]>>
  ELSE <<[flag |-> item.flag, joined |-> item.flag # "", value |-> item.value]>>
QPrivate(item, internal, rooted) ==
  \/ item.flag \in {"parameter-internal", "token", "provenance-root"}
  \/ item.flag = "parameter" /\ (QSecret(item.value.inner) \/ item.value.inner \in internal)
  \/ rooted /\ item.flag \in QInputFlags /\ item.value.text # "cloud"
\* The word before item i that takes its flag.
QTaken(items, i) ==
  /\ i > 1 /\ items[i].split /\ items[i - 1].value = [inner |-> "", text |-> "token"]
  /\ items[i - 1].flag = "" \/ (items[i - 1].split /\ items[i - 1].flag \notin QRules)
QArgvHolds(items, internal, rooted) ==
  LET out == QArgv(FlattenSeq([i \in DOMAIN items |-> QWritten(items[i])]), internal, rooted) IN
  (\A i \in DOMAIN items : items[i].value.text = "hush" => QPrivate(items[i], internal, rooted)) =>
    \A j \in DOMAIN out : out[j].value.text = "hush" =>
      \E i \in DOMAIN items : items[i].value = out[j].value /\ QTaken(items, i)

\* Under a root, accepted inputs lie inside it also after links are followed, have
\* paths that tell them apart, and a refusal names the place the input has in the
\* manifest's order; diagnostics never name a local path.
QRootHolds(root, files, walk, aggregate) ==
  LET order == QOrder(walk, aggregate, files)
      bad == QPreflight(root, order)
      path(i) == QRecordedPath(root, TRUE, order[i], <<>>)
  IN /\ bad = 0 =>
          /\ \A i \in DOMAIN order : order[i].cloud \/ IsStrictPrefix(root.evaluated, order[i].evaluated)
          /\ \A i, j \in DOMAIN order : path(i) = path(j) => order[i].lexical = order[j].lexical
     /\ bad # 0 => /\ \A i \in 1..(bad - 1) : order[i].cloud \/ path(i) # <<>>
                   /\ QLabel(TRUE, order[bad], bad) = <<"input", bad>>

\* The two passes over the root agree, so one that is asked for is in force or stops the
\* run; and a run id that is given is recorded or refused, never replaced.
QChoiceHolds(flag, env, id, idEnv) ==
  /\ QSelect(flag, env) = "on" => QEnsure(TRUE, "dir", env) = "on"
  /\ QSelect(flag, env) = "off" => QEnsure(FALSE, "blank", env) = "off"
  /\ (flag # "unset" \/ env # "unset") => QSelect(flag, env) # "off"
  /\ \A g \in {id, idEnv} \ {"blank"} : g = id \/ id = "blank" => QRunId(id, idEnv) \in {g, "refused"}

\* The recorded path is a nonempty end of the path, and below every root in force
\* nothing above the root is shown.
QShortHolds(path, roots) ==
  LET s == QShort(path, roots) IN
  /\ s # <<>> /\ IsSuffix(s, path)
  /\ \A r \in ToSet(roots) : QBelow(r, path) # <<>> => \E q \in ToSet(roots) : path = q \o s

\* The counts add up to the inputs.
QAccountingHolds(ds) ==
  LET a == QAccounting(ds) IN
  a[1] = "counts" => a[2] = Len(ds) /\
    a[3]["applied"] + a[3]["not_applicable"] + a[3]["failed"] = Len(ds)

\* Two accepted recipes that say the same have one hash: the order of a mapping's
\* entries, the spelling of a text and how a number is written do not count; and two
\* that say different things have two, but for floats beyond QSafe, which may share a
\* double.  An integer with a leading zero is excepted: it is read in base ten here and
\* in base eight by the decoder that loads the recipe.
QOctal(n) == 8 * (n \div 10) + (n % 10)
QMeans(n) ==
  CASE n.kind = "text" -> [n EXCEPT !.of = QNormal(@)]
    [] n.kind \in {"int", "float"} -> [n EXCEPT !.kind = "number"]
    [] n.kind = "octal" -> [kind |-> "number", of |-> QOctal(n.of)]
    [] OTHER -> n
QSays(entries) == {<<QNormal(entries[i][1]), QMeans(entries[i][2])>> : i \in DOMAIN entries}
QSame(a, b) == \A k \in 1..3 : QSays(a[k]) = QSays(b[k]) /\ (k = 3 => (a[k] = <<>>) = (b[k] = <<>>))
QAny(a, Is(_)) == \E k \in 1..3 : \E i \in DOMAIN a[k] : Is(a[k][i][2])
QLeadingZero(n) == n.kind = "octal"
QBeyond(n) == n.kind = "float" /\ n.of \notin -QSafe..QSafe
QHashHolds(a, b) ==
  LET x == QContent(a[1], a[2], a[3])
      y == QContent(b[1], b[2], b[3])
  IN (/\ x # <<QBad>> /\ y # <<QBad>>
      /\ ~QAny(a, QLeadingZero) /\ ~QAny(b, QLeadingZero)) =>
       /\ QSame(a, b) => x = y
       /\ (x = y /\ ~QAny(a, QBeyond) /\ ~QAny(b, QBeyond)) => QSame(a, b)
===============================================================================
