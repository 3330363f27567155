----------------------------- MODULE Validation -----------------------------
(* The validation pipeline of an extracted record: accumulators over its rows, *)
(* aggregations, reconciliations with grouped components, rules with           *)
(* severities, and the policy that decides whether the extraction fails.       *)
(* Numbers are exact: the code adds float64 values, the groups' in the order of *)
(* a map, so what is said here of sums is said of the code but for rounding.    *)
EXTENDS Expression

VField(row, f) == IF f \in DOMAIN row THEN row[f] ELSE DNull
VAdd(a, b) == DArithmetic("+", a, b)
VSub(a, b) == DArithmetic("-", a, b)
VTotal(values) == FoldLeft(VAdd, DNum(0, 1), values)
VNone == [f \in {} |-> DNull]
VOverlay(over, under) ==
  [f \in DOMAIN over \cup DOMAIN under |-> IF f \in DOMAIN over THEN over[f] ELSE under[f]]

-----------------------------------------------------------------------------
\* Filters: a simple one compares a field, a full one is an expression.  A missing
\* field fails a simple comparison and is an error in an expression.
VSimple(f, row) ==
  LET v == VField(row, f.field) IN
  IF f.value = DNull
  THEN IF f.op \in {"==", "!="} THEN DBool((v = DNull) = (f.op = "==")) ELSE DError
  ELSE IF v = DNull THEN DBool(FALSE) ELSE DCompare(f.op, v, f.value)
VMatches(f, row) ==
  LET v == CASE f.kind = "none" -> DBool(TRUE)
             [] f.kind = "simple" -> VSimple(f, row)
             [] f.kind = "full" -> DEval(DParse(f.expr), row, <<>>)
  IN IF DIs(v, "bool") THEN v ELSE DError

\* Accumulators; least and most are null until a number arrives.
VAccumulator(op, field, filter) ==
  [op |-> op, field |-> field, filter |-> filter, count |-> 0, sum |-> DNum(0, 1), least |-> DNull, most |-> DNull]
VBroken == [op |-> "broken"]
VUpdate(acc, row) ==
  LET m == VMatches(acc.filter, row)
      v == VField(row, acc.field)
      better(old, less) == old = DNull \/ IF less THEN DLess(v, old) ELSE DLess(old, v)
  IN IF m = DError THEN VBroken
     ELSE IF ~m[2] THEN acc
     ELSE IF acc.op = "count" THEN [acc EXCEPT !.count = @ + 1]
     ELSE IF acc.field = "" THEN VBroken
     ELSE IF v = DNull THEN acc
     ELSE IF ~DIs(v, "num") THEN VBroken
     ELSE [acc EXCEPT !.count = @ + 1, !.sum = VAdd(@, v), !.least = IF better(@, TRUE) THEN v ELSE @,
                      !.most = IF better(@, FALSE) THEN v ELSE @]
VAccumulate(acc, rows) ==
  FoldLeft(LAMBDA a, r : IF a = VBroken THEN VBroken ELSE VUpdate(a, r), acc, rows)
VResult(acc) ==
  IF acc = VBroken THEN DError ELSE
    CASE acc.op = "count" -> DNum(acc.count, 1)
    [] acc.op = "sum" -> acc.sum
    [] acc.op = "min" -> acc.least
    [] acc.op = "max" -> acc.most
    [] acc.op = "avg" -> IF acc.count = 0 THEN DNull ELSE DArithmetic("/", acc.sum, DNum(acc.count, 1))

\* The fields of the objects among the items of an array; nulls are passed over.
VPresent(items) == SelectSeq(items, LAMBDA v : v # DNull)
VObjects(items) == LET there == VPresent(items) IN [i \in DOMAIN there |-> there[i][2]]
\* The rows an accumulator sees: the record itself, or the array at the path.
VRows(path, doc) ==
  IF path = "" THEN <<"rows", <<doc>>>>
  ELSE IF ~DIs(VField(doc, path), "rows") \/ \E i \in DOMAIN doc[path][2] : ~DIs(doc[path][2][i], "object") THEN DError
  ELSE <<"rows", VObjects(doc[path][2])>>

-----------------------------------------------------------------------------
\* The names an expression sees: later layers hide earlier ones.
VScope(accs, aggs, doc, scalars) == VOverlay(scalars, VOverlay(doc, VOverlay(aggs, accs)))

\* A tolerance of zero is the default unless an aggregation's author wrote it.
VDefaultTolerance == DNum(1, 100)
VTolerance(c) == IF c.tolerance[2] = 0 /\ ~c.written THEN VDefaultTolerance ELSE c.tolerance
VWithin(a, b, tolerance) == ~DLess(tolerance, DAbs(VSub(a, b)))

\* Aggregations in order; one that is compared must be within its tolerance of a
\* field of the record.
VAggregate(accs, configs, doc) ==
  FoldLeft(LAMBDA aggs, c :
    LET v == DEval(DParse(c.expr), VScope(accs, aggs.of, doc, VNone), <<>>)
        t == VField(doc, c.target)
        close == DIs(v, "num") /\ DIs(t, "num") /\ VWithin(v, t, VTolerance(c))
    IN [ok |-> aggs.ok /\ v # DError /\ (c.target # "" => close),
        of |-> VOverlay([n \in {c.name} |-> v], aggs.of)],
    [ok |-> TRUE, of |-> VNone], configs)

-----------------------------------------------------------------------------
\* Grouped components of a reconciliation.

\* The records a group's source path leads to, a segment [name, array] at a time: what
\* is missing leads to nothing, what is not an object or not an array is an error.
VFollow(s, segment) ==
  LET next == VPresent([i \in DOMAIN VObjects(s.items) |-> VField(VObjects(s.items)[i], segment.name)])
      object(v) == v = DNull \/ DIs(v, "object")
  IN IF ~s.ok \/ segment.name = "" \/ \E i \in DOMAIN s.items : ~object(s.items[i]) THEN [s EXCEPT !.ok = FALSE]
     ELSE IF ~segment.array THEN [s EXCEPT !.items = next]
     ELSE IF \E i \in DOMAIN next : ~DIs(next[i], "rows") THEN [s EXCEPT !.ok = FALSE]
     ELSE [s EXCEPT !.items = FlattenSeq([i \in DOMAIN next |-> next[i][2]])]
VCollect(doc, source) == FoldLeft(VFollow, [ok |-> TRUE, items |-> <<<<"object", doc>>>>], source)
VCollected(c) == c.ok /\ \A i \in DOMAIN c.items : c.items[i] = DNull \/ DIs(c.items[i], "object")
VGroupRows(g, doc) == VObjects(VCollect(doc, g.source).items)

VGroupKey(g, row) == LET v == VField(row, g.field) IN IF v \in {DNull, DText(<<>>)} THEN g.missing ELSE v
\* The rows that count, and what each contributes.
VKept(g, rows, scope) == SelectSeq(rows, LAMBDA r : VMatches(g.filter, VOverlay(r, scope)) = DBool(TRUE))
VWorth(g, row, scope) == DEval(DParse(g.value), VOverlay(row, scope), <<>>)
VRowsFail(g, rows, scope) ==
  \/ g.aggregation # "sum" \/ DParse(g.value) = DBad
  \/ \E i \in DOMAIN rows : VMatches(g.filter, VOverlay(rows[i], scope)) = DError
  \/ \E i \in DOMAIN VKept(g, rows, scope) : ~DIs(VWorth(g, VKept(g, rows, scope)[i], scope), "num")
\* Without records there is nothing to refuse but the group itself.
VGroupFails(g, doc, scope) ==
  \/ g.source = <<>> \/ g.field = "" \/ g.value = <<>>
  \/ ~VCollected(VCollect(doc, g.source))
  \/ VGroupRows(g, doc) # <<>> /\ VRowsFail(g, VGroupRows(g, doc), scope)
VWorths(g, rows, scope) == [i \in DOMAIN rows |-> VWorth(g, rows[i], scope)]
VTotalsOf(g, kept, scope) ==
  [k \in {VGroupKey(g, kept[i]) : i \in DOMAIN kept} |->
     VTotal(VWorths(g, SelectSeq(kept, LAMBDA r : VGroupKey(g, r) = k), scope))]
VTotals(g, rows, scope) == VTotalsOf(g, VKept(g, rows, scope), scope)
VSum(totals) == FoldLeft(LAMBDA a, k : VAdd(a, totals[k]), DNum(0, 1), SetToSeq(DOMAIN totals))

\* Variant: the totals are never scaled.
VScaleNever(g, base, sum) == DNum(1, 1)
\* cap_to_base: totals that exceed the base are scaled down to it.
VScale(g, base, sum) ==
  IF g.cap /\ sum[2] > 0 /\ DLess(DAbs(base), sum) THEN DArithmetic("/", DAbs(base), sum) ELSE DNum(1, 1)
\* A share below the cut-off counts as nothing.  The code's cut-off is 1e-9; this one
\* keeps the fractions within TLC's integers, and like it is below every tolerance.
VCutoff == DNum(1, 200)
VCut(v) == IF DLess(DAbs(v), VCutoff) THEN DNum(0, 1) ELSE v
VScaled(totals, scale) == [k \in DOMAIN totals |-> VCut(DArithmetic("*", totals[k], scale))]
VShares(g, totals, base) == VScaled(totals, VScale(g, base, VSum(totals)))
VComponents(g, rows, scope, base) == VShares(g, VTotals(g, rows, scope), base)

\* The scalar names of components in order, from the slugs of their names: a slug
\* seen before gets a number.  A slug is <<word>> or <<word, number>>.
VSlugs(slugs) ==
  FoldLeft(LAMBDA s, w :
    LET n == IF w \in DOMAIN s.seen THEN s.seen[w] ELSE 0
        slug == IF n > 0 THEN Append(w, n + 1) ELSE w
        m == IF slug \in DOMAIN s.seen THEN s.seen[slug] ELSE 0
    IN [seen |-> VOverlay([z \in {slug} |-> m + 1], s.seen), out |-> Append(s.out, slug)],
    [seen |-> [z \in {} |-> 0], out |-> <<>>], slugs).out

\* A reconciliation: the base against its grouped and its listed components, which
\* do not name the scalars of the groups here.
VVerdict(c, base, total) ==
  <<"result", base, total, VSub(base, total),
    IF VWithin(base, total, IF c.tolerance[2] = 0 THEN VDefaultTolerance ELSE c.tolerance) THEN "balanced"
    ELSE IF c.allow THEN "unexplained" ELSE "unbalanced">>
VBalance(c, scope, doc, base, listed) ==
  IF ~DIs(base, "num") THEN DError
  ELSE IF c.group # <<>> /\ VGroupFails(c.group[1], doc, scope) THEN DError
  ELSE IF \E i \in DOMAIN listed : ~DIs(listed[i], "num") THEN DError
  ELSE VVerdict(c, base, VAdd(VTotal(listed),
         IF c.group = <<>> THEN DNum(0, 1)
         ELSE VSum(VComponents(c.group[1], VGroupRows(c.group[1], doc), scope, base))))
VReconcile(c, scope, doc) ==
  VBalance(c, scope, doc, DEval(DParse(c.base), scope, <<>>),
           [i \in DOMAIN c.components |-> DEval(DParse(c.components[i]), scope, <<>>)])

-----------------------------------------------------------------------------
\* Rules: [severity, rule]; a failing fatal one ends the list under halting.
VRules(rules, scope, halt) ==
  FoldLeft(LAMBDA r, c :
    LET v == DEval(DParse(c.rule), scope, <<>>) IN
    IF ~r.ok \/ r.halted THEN r
    ELSE IF ~DIs(v, "bool") THEN [r EXCEPT !.ok = FALSE]
    ELSE [r EXCEPT !.results = Append(@, [severity |-> c.severity, pass |-> v[2]]),
                   !.halted = halt /\ ~v[2] /\ c.severity = "fatal"],
    [ok |-> TRUE, halted |-> FALSE, results |-> <<>>], rules)
VFailing(results, severity) ==
  Cardinality({i \in DOMAIN results : ~results[i].pass /\ results[i].severity = severity})
VFails(results, policy) ==
  \/ policy.failOnFatal /\ VFailing(results, "fatal") > 0
  \/ policy.errors >= 0 /\ VFailing(results, "error") > policy.errors

\* RunValidation: one accumulation at most, named "total"; the residual of a
\* reconciliation is a scalar, here under its name, that the rules see.
VAccumulated(meta, rows) ==
  [n \in (IF meta.accumulate = <<>> THEN {} ELSE {"total"}) |->
     IF rows = DError THEN DError ELSE VResult(VAccumulate(meta.accumulate[1], rows[2]))]
\* Reconciliations in order: each sees the residuals of those before it.
VNoted(s, name, r) ==
  IF ~s.ok \/ r = DError THEN [s EXCEPT !.ok = FALSE]
  ELSE [s EXCEPT !.scalars = VOverlay([n \in {name} |-> r[4]], @)]
VReconciled(meta, doc, accs, aggs) ==
  FoldLeft(LAMBDA s, c : VNoted(s, c.name, VReconcile(c, VScope(accs, aggs, doc, s.scalars), doc)),
           [ok |-> TRUE, scalars |-> VNone], meta.reconciliations)
VJudged(rules, policy) ==
  IF ~rules.ok THEN "error" ELSE IF VFails(rules.results, policy) THEN "failed" ELSE "passed"
VRuled(meta, doc, accs, aggs, recs) ==
  IF (\E n \in DOMAIN accs : accs[n] = DError) \/ ~aggs.ok \/ ~recs.ok THEN "error"
  ELSE VJudged(VRules(meta.rules, VScope(accs, aggs.of, doc, recs.scalars), meta.policy.halt), meta.policy)
VAggregated(meta, doc, accs, aggs) == VRuled(meta, doc, accs, aggs, VReconciled(meta, doc, accs, aggs.of))
VPipeline(meta, doc, accs) == VAggregated(meta, doc, accs, VAggregate(accs, meta.aggregations, doc))
VRun(meta, doc) == VPipeline(meta, doc, VAccumulated(meta, VRows(meta.path, doc)))

-----------------------------------------------------------------------------
\* What an accumulator reports does not depend on the order of the rows.
VOrderHolds(acc, rows) ==
  \A p \in {q \in [DOMAIN rows -> DOMAIN rows] : IsInjective(q)} :
    DSame(VResult(VAccumulate(acc, rows)), VResult(VAccumulate(acc, [i \in DOMAIN rows |-> rows[p[i]]])))

\* The groups of a reconciliation account for every row that counts: what they add up
\* to differs from the rows' own worth, or from the base that caps it, by less than a
\* cut-off for each group that was cut, and not at all when none was; and the result
\* says balanced exactly when the components reach the base within the tolerance.
VNear(a, b, n) == IF n = 0 THEN DSame(a, b) ELSE DLess(DAbs(VSub(a, b)), DNum(n * VCutoff[2], VCutoff[3]))
VCutGroups(totals, shares) == {k \in DOMAIN totals : totals[k][2] # 0 /\ shares[k][2] = 0}
VAccounted(c, r, worth, totals, shares) ==
  LET limit == IF c.group[1].cap /\ DLess(DAbs(r[2]), worth) THEN DAbs(r[2]) ELSE worth
      cut == IF limit[2] = 0 THEN {} ELSE VCutGroups(totals, shares)
  IN /\ VNear(VSum(shares), limit, Cardinality(cut))
     /\ (r[5] = "balanced") = ~DLess(IF c.tolerance[2] = 0 THEN VDefaultTolerance ELSE c.tolerance, DAbs(r[4]))
VReconcileHolds(c, scope, doc) ==
  LET g == c.group[1]
      rows == VGroupRows(g, doc)
  IN \A r \in {VReconcile(c, scope, doc)} :
       (r # DError /\ c.group # <<>>) =>
         VAccounted(c, r, VTotal(VWorths(g, VKept(g, rows, scope), scope)),
                    VTotals(g, rows, scope), VComponents(g, rows, scope, r[2]))

\* Halting at the first fatal failure never lets an extraction pass that would
\* fail without halting, when fatal failures fail it.
VHaltHolds(rules, scope, policy) ==
  LET all == VRules(rules, scope, FALSE)
      cut == VRules(rules, scope, TRUE)
  IN (policy.failOnFatal /\ all.ok) =>
       cut.ok /\ VFails(cut.results, policy) = VFails(all.results, policy)

\* A record passes only if what the pipeline computed is within the tolerances: a
\* rule that holds of the record's own field is not decided by an accumulator or
\* an aggregation of the same name.
VRunHolds(meta, doc) ==
  VRun(meta, doc) = "passed" =>
    /\ \A i \in DOMAIN meta.aggregations :
         meta.aggregations[i].target # "" => meta.aggregations[i].target \in DOMAIN doc
    /\ meta.policy.failOnFatal => \A i \in DOMAIN meta.rules :
         (meta.rules[i].severity = "fatal" /\ meta.rules[i].rule = <<"x", "==", "1">> /\ "x" \in DOMAIN doc) =>
           DEqual(doc["x"], DNum(1, 1))

\* Two components get two scalars, as long as no three names share a slug and no
\* name looks like a numbered slug.
VSlugsHold(slugs) ==
  (\A w \in ToSet(slugs) : Len(w) = 1 /\ Cardinality({i \in DOMAIN slugs : slugs[i] = w}) <= 2) =>
    IsInjective(VSlugs(slugs))
=============================================================================
