----------------------------- MODULE ExtractCore -----------------------------
(* The extraction of one input (internal/extract): the choice between the      *)
(* whole-document and the streaming route, applicability, signature, the match *)
(* selectors, filters, validation and enrichment, for a buffered caller and    *)
(* for a record sink; the record's projection; coercions and summaries.        *)
(* A document is its candidate nodes: a sequence per selector.  A node carries *)
(* what becomes of it ("row", "filtered", "bad": building or the output schema *)
(* fails, "refused": the failure policy rejects it), its signature score and   *)
(* its place: "outer", "inner" (inside a candidate of the same name) or        *)
(* "prefixed" (only its local name is the selector's).                         *)
EXTENDS Integers, Sequences, FiniteSets, SequencesExt, FiniteSetsExt

CONSTANTS
  EThreshold    \* the confidence threshold; scores are integers
ASSUME EThresholdAssumption == EThreshold \in Nat

\* What a route selects of the candidates.  An xml document's XPath takes the
\* nested ones and compares names as written; the record scanner takes outermost
\* elements by local name.  The json scanner selects what the json document does.
ESelected(seq, o, route) ==
  IF o.format # "xml" THEN seq
  ELSE SelectSeq(seq, LAMBDA n : n.place # (IF route = "stream" THEN "inner" ELSE "prefixed"))
\* The document as the whole-document route finds it.
EFound(doc, o) ==
  [doc EXCEPT !.selectors = [i \in DOMAIN doc.selectors |-> ESelected(doc.selectors[i], o, "whole")]]

ENodes(doc) == FlattenSeq(doc.selectors)
EFirst(seq, stops) ==
  LET hits == {i \in DOMAIN seq : seq[i] \in stops} IN IF hits = {} THEN Len(seq) + 1 ELSE Min(hits)

\* Record numbers are positions before filtering, counted across the selectors.
ERowsBefore(seq, n) == SelectSeq([i \in 1..(n - 1) |-> i], LAMBDA i : seq[i].kind \in {"row", "refused"})
ECounts(doc) == [i \in DOMAIN doc.selectors |-> Len(doc.selectors[i])]
EZeroCounts(doc) == [i \in DOMAIN doc.selectors |-> 0]

-----------------------------------------------------------------------------
\* Routes.

\* What keeps json off the streaming route.
EBlocked(o) == o.scope # "record" \/ o.app \/ ~o.sink

ELarge(o) == o.size # "small"
\* Large inputs stream when asked to, or into a sink without applicability;
\* ndjson always does; json above the threshold streams, is refused, or is kept
\* whole by --allow-large-files.
ERoute(o) ==
  CASE o.format = "ndjson" -> "stream"
    [] o.format = "json" -> IF ELarge(o) /\ ~o.allow THEN IF EBlocked(o) THEN "unsupported" ELSE "stream"
                            ELSE "whole"
    [] OTHER -> IF ELarge(o) /\ (o.allow \/ (o.sink /\ ~o.app)) THEN "stream" ELSE "whole"

\* readFileContent: an input above the read limit is not read whole unasked.
EUnread(o) == o.size = "huge" /\ ~o.allow

\* checkMatchScope and the other load-time rules: ndjson is record-scoped without
\* applicability, xml never record-scoped, a record scope has one selector, of the
\* form Name or //Name.
EAdmissible(o, doc) ==
  /\ o.format = "ndjson" => o.scope = "record" /\ ~o.app
  /\ o.scope = "record" => o.format # "xml" /\ Len(doc.selectors) = 1 /\ o.selector = "name"

-----------------------------------------------------------------------------
\* Signature: confidence is the matched share of the weights; a record-scoped
\* signature takes the lowest score up to the first record it does not admit.
EAdmits(node) == node.score >= EThreshold
ELowest(seq) ==
  LET n == EFirst(seq, {x \in ToSet(seq) : ~EAdmits(x)})
      scored == {seq[i].score : i \in 1..(IF n > Len(seq) THEN Len(seq) ELSE n)}
  IN IF scored = {} THEN 0 ELSE Min(scored)
EPerRecord(doc) ==
  LET seq == doc.selectors[1] IN
  [status |-> CASE seq = <<>> -> "unknown"
                [] seq # <<>> /\ \A i \in DOMAIN seq : EAdmits(seq[i]) -> "matched"
                [] OTHER -> "mismatched",
   confidence |-> ELowest(seq)]

-----------------------------------------------------------------------------
\* Extraction of an admitted whole document.

EFailing(node) == node.kind \in {"bad", "refused"}

\* Buffered: every record is built and filtered, then every record is enriched;
\* an error anywhere leaves no row.
EBuffered(doc) ==
  LET seq == ENodes(doc) IN
  IF \E i \in DOMAIN seq : EFailing(seq[i])
  THEN [error |-> TRUE, rows |-> <<>>, counts |-> <<>>]
  ELSE [error |-> FALSE, rows |-> ERowsBefore(seq, Len(seq) + 1), counts |-> ECounts(doc)]

\* Into a sink: record by record, so rows before the failing one are out already.
ESink(doc) ==
  LET seq == ENodes(doc)
      stop == EFirst(seq, {x \in ToSet(seq) : EFailing(x)})
  IN [error |-> stop <= Len(seq), rows |-> ERowsBefore(seq, stop),
      counts |-> IF stop <= Len(seq) THEN <<>> ELSE ECounts(doc)]

\* Streaming: the first selector only, each record scanned, scored under a record
\* scope, extracted and emitted before the next; the rows of a failing input are
\* dropped for a buffered caller.  ndjson without a record is an error.
EStop(seq, o) ==
  EFirst(seq, {x \in ToSet(seq) : x.garbled \/ EFailing(x) \/ (o.format # "xml" /\ ~EAdmits(x))})
EStream(doc, o) ==
  LET seq == ESelected(doc.selectors[1], o, "stream")
      stop == EStop(seq, o)
      failed == stop <= Len(seq)
      mismatch == failed /\ ~seq[stop].garbled /\ o.format # "xml" /\ ~EAdmits(seq[stop])
      empty == o.format = "ndjson" /\ seq = <<>>
  IN [error |-> failed \/ empty,
      rows |-> IF failed /\ ~o.sink THEN <<>> ELSE ERowsBefore(seq, stop),
      counts |-> <<IF failed THEN stop ELSE Len(seq)>>,
      complete |-> Len(doc.selectors) = 1,
      status |-> IF o.format # "xml" /\ mismatch THEN "mismatched"
                 ELSE IF o.format = "xml" \/ failed \/ seq = <<>> THEN "unknown" ELSE "matched"]

-----------------------------------------------------------------------------
\* One input, with the file boundary a sink is told of.

\* markFailed sets a disposition only under an applicability configuration.
EMarked(o) == IF o.app THEN "failed" ELSE ""
\* What the sink's boundary says: the result's disposition where there is one, a
\* marked boundary failure otherwise.
EBoundary(o, disp, marked) ==
  IF ~o.sink THEN "none"
  ELSE IF disp \in {"failed", "notApplicable"} THEN disp
  ELSE IF marked THEN "failed" ELSE "applied"

EResult(o, error, disp, status, rows, counts, complete, marked) ==
  [error |-> error, disp |-> disp, status |-> status, rows |-> rows, counts |-> counts,
   complete |-> complete, boundary |-> EBoundary(o, disp, marked)]
EFailed(o, disp) == EResult(o, TRUE, disp, "unknown", <<>>, <<>>, FALSE, TRUE)

EExtract(doc, o, status) ==
  LET r == IF o.sink THEN ESink(doc) ELSE EBuffered(doc) IN
  CASE ~doc.prepared           -> EResult(o, TRUE, "", status, <<>>, <<>>, FALSE, TRUE)
    [] doc.prepared /\ r.error -> EResult(o, TRUE, EMarked(o), status, r.rows, <<>>, FALSE, TRUE)
    [] OTHER                   -> EResult(o, FALSE, IF o.app THEN "applied" ELSE "", status, r.rows,
                                          r.counts, TRUE, FALSE)

\* ProcessParsedDocument: applicability, signature, extraction.
EParsed(doc, o) ==
  LET record == EPerRecord(doc) IN
  IF o.app /\ ~doc.applies
  THEN EResult(o, FALSE, "notApplicable", "unknown", <<>>, EZeroCounts(doc), TRUE, FALSE)
  ELSE
    CASE o.scope = "record" /\ record.status = "mismatched" ->
         EResult(o, TRUE, "failed", "mismatched", <<>>, EZeroCounts(doc), FALSE, TRUE)
    [] o.scope = "record" /\ record.status # "mismatched" -> EExtract(doc, o, record.status)
    [] o.scope # "record" /\ doc.score < EThreshold ->
         EResult(o, FALSE, EMarked(o), "mismatched", <<>>, EZeroCounts(doc), TRUE, FALSE)
    [] OTHER -> EExtract(doc, o, "matched")

\* processFileWithProvenance.
EProcess(doc, o) ==
  LET s == EStream(doc, o) IN
  CASE ERoute(o) = "unsupported" -> EFailed(o, EMarked(o))
    [] ERoute(o) = "stream" /\ o.app -> EFailed(o, EMarked(o))
    [] ERoute(o) = "stream" /\ ~o.app /\ ~(doc.prepared /\ o.selector = "name") -> EFailed(o, "")
    [] ERoute(o) = "stream" /\ ~o.app /\ doc.prepared /\ o.selector = "name" ->
         EResult(o, s.error, "", s.status, s.rows, s.counts, s.complete, s.error)
    [] ERoute(o) = "whole" /\ (EUnread(o) \/ \E i \in DOMAIN ENodes(doc) : ENodes(doc)[i].garbled) ->
         EFailed(o, EMarked(o))
    [] OTHER -> EParsed(EFound(doc, o), o)

-----------------------------------------------------------------------------
\* One output name of one record.  k is the name's declaration (type, internal,
\* nested: an internal item mapping, shape: which of xpath and expression it has,
\* transform: "none", "exists" or one of text, twice: another mapping has the name,
\* inSchema, inFilter), what its xpath selects (raw; "null" is a json null), the external field of the same name ("none", "plain" or
\* "internal") and whether the recipe asks for a uniform schema.

\* validateInternalFieldMappings: an internal name has one scalar source and is
\* declared nowhere else.
EPrepareRefused(k) ==
  \/ k.nested
  \/ k.internal /\ \/ k.shape \notin {"xpath", "expression"}
                   \/ k.shape = "expression" /\ k.transform # "none"
                   \/ k.type = "array"
                   \/ k.twice \/ k.inSchema \/ k.inFilter

\* Coercion of an absent value, Boolean and text results; text is a numeral, a
\* number with a point, a word for false or another word.
ECoerce(type, v) ==
  CASE v = "nil" -> IF type = "boolean" THEN "F" ELSE "nil"
    [] v # "nil" /\ type \in {"string", "array"} -> v
    [] v # "nil" /\ type = "boolean" -> IF v \in {"F", "empty", "zero", "no"} THEN "F" ELSE "T"
    [] OTHER -> CASE v = "empty" -> "nil"
                  [] v \in {"word", "no"} -> "error"
                  [] v = "point" -> IF type = "integer" THEN "truncated" ELSE "number"
                  [] OTHER -> "number"

\* What the xpath's value is read as: a json null is absent.
ERead(raw) == IF raw = "null" THEN "nil" ELSE raw
\* A transform works on the printed value and is not coerced: of an absent value
\* it gets, and a text transform returns, a text ("<nil>").
ETransform(k) ==
  CASE k.transform = "exists" -> IF k.raw = "nil" THEN "F" ELSE "T"
    [] ERead(k.raw) \in {"nil", "T", "F"} -> "word"
    [] OTHER -> k.raw
\* The mapping's value; an expression over absent fields is left to its own module.
EValue(k) ==
  CASE k.shape = "neither" -> "nil"
    [] k.shape = "xpath" /\ k.transform # "none" /\ k.type # "array" -> ETransform(k)
    [] k.shape \in {"expression", "both"} /\ k.transform # "none" -> "error"
    [] OTHER -> ECoerce(k.type, ERead(k.raw))

\* An external field may not have the name of an internal mapping, bound or not.
ECollides(k) == k.internal /\ k.external # "none"

\* What the record holds under the name once it is built, projected and made
\* uniform: "error", "absent", "null", "external" or the value.
EProject(k) ==
  LET v == EValue(k) IN
  IF ECollides(k) \/ v = "error" \/ (v # "nil" /\ k.external # "none") THEN "error" ELSE
    CASE v = "nil" /\ k.external = "plain" -> "external"
    [] v # "nil" /\ k.external = "none" /\ ~k.internal -> v
    [] OTHER -> IF k.uniform /\ k.inSchema THEN "null" ELSE "absent"
\* What an expression of another field reads under the name.
EReads(k) == IF EValue(k) # "nil" THEN EValue(k) ELSE IF k.external # "none" THEN "external" ELSE "unbound"

\* A summary: its components in order, of those marked as remainder only the last
\* one and at the end; what the components leave of the total is reported.
ESum(seq) == FoldSeq(LAMBDA a, b : a + b, 0, seq)
ESummary(total, components) ==
  LET parts == SelectSeq(components, LAMBDA c : ~c.remainder)
      values == [i \in DOMAIN parts |-> parts[i].value]
      shown == IF \E i \in DOMAIN components : components[i].remainder
               THEN Append(values, total - ESum(values)) ELSE values
  IN [shown |-> shown, unreconciled |-> total - ESum(shown)]

-----------------------------------------------------------------------------
\* Where the routes must agree: one selector of the form Name or //Name whose
\* candidates are all outermost and unprefixed, and an xml signature that matches
\* (streaming does not score it); and the options allow either route.
EComparable(doc, o) ==
  /\ ERoute(o) # "unsupported" /\ ~(ERoute(o) = "stream" /\ o.app) /\ ~(ERoute(o) = "whole" /\ EUnread(o))
  /\ Len(doc.selectors) = 1 /\ o.selector = "name"
  /\ o.format = "xml" => /\ doc.score >= EThreshold
                         /\ \A i \in DOMAIN doc.selectors[1] : doc.selectors[1][i].place = "outer"

\* For a buffered caller, a sink and the streaming route, where they are
\* comparable: the same inputs fail, and where none does the rows, their record
\* numbers and the counts the floors use are the same.  On every input: a buffered
\* caller never sees rows of a failed input; the boundary of a sink is "failed"
\* exactly when the input failed; counts called complete are those of the nodes
\* the route selects.
ERoutesAgree(doc, o) ==
  LET r == EProcess(doc, o)
      b == EProcess(doc, [o EXCEPT !.sink = FALSE, !.size = "small"])
      taken == [i \in DOMAIN doc.selectors |-> ESelected(doc.selectors[i], o, ERoute(o))]
  IN EAdmissible(o, doc) =>
       /\ r.error /\ ~o.sink => r.rows = <<>>
       /\ r.error /\ o.app /\ doc.prepared => r.disp = "failed"
       /\ o.sink => ((r.boundary = "failed") = (r.error \/ r.disp = "failed"))
       /\ EComparable(doc, o) =>
            /\ r.error = b.error
            /\ ~r.error => r.rows = b.rows /\ r.counts = b.counts
                           /\ r.complete = b.complete
            /\ r.error => \A i \in DOMAIN r.rows : r.rows[i] \in DOMAIN doc.selectors[1]
       /\ r.complete /\ ~r.error /\ r.status # "mismatched" /\ r.disp # "notApplicable" =>
            r.counts = ECounts([doc EXCEPT !.selectors = taken])

\* Under a configuration that is accepted, an internal name is in no record, in
\* no uniform column, and an expression that reads it never sees a field of that
\* name from outside; a string field without a transform is in the record exactly
\* when its node is there and not null, and one with a text transform always is.
ERecordHolds(k) ==
  ~EPrepareRefused(k) =>
    /\ k.internal => EProject(k) \in {"absent", "error"}
    /\ k.internal /\ EProject(k) # "error" => EReads(k) # "external"
    /\ (k.type = "string" /\ k.shape # "neither" /\ ~k.internal /\ k.external = "none") =>
         /\ k.transform = "none" =>
              ((EProject(k) \notin {"absent", "null"}) = (k.raw \notin {"nil", "null"}))
         /\ k.transform = "text" => EProject(k) \notin {"absent", "null"}

\* A summary always accounts for its total, and a remainder leaves nothing over.
ESummaryHolds(s) ==
  LET r == ESummary(s.total, s.components) IN
  /\ ESum(r.shown) + r.unreconciled = s.total
  /\ (\E i \in DOMAIN s.components : s.components[i].remainder) => r.unreconciled = 0
=============================================================================
