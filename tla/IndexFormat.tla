----------------------------- MODULE IndexFormat -----------------------------
(* The record index as a format: which headers the stores accept and as what,  *)
(* the namespace table, the streaming JSON reader, the fixed-width records,    *)
(* the statistics, and the verification of an index against its source.        *)
(* Pure functions, each checked against what it must agree with.               *)
EXTENDS Integers, Sequences, FiniteSets, SequencesExt, FiniteSetsExt

CONSTANTS
  NShort,   \* the width in bits of a record's short fields (32)
  NLong     \* the width in bits of an offset (64); an int has this width too
ASSUME NWidths == NShort \in Nat \ {0} /\ NLong \in Nat /\ NShort < NLong

-----------------------------------------------------------------------------
\* Headers.  j13 is the current JSON version, z12 the current seekable one.
NCurrent == {"j13", "z12"}
NLegacyJson == {"j12", "j11", "j10"}
NLegacyPair == {"z11", "z10"}

\* A current header must name its format, an earlier one must not and means xml.
NFormat(version, format) ==
  CASE version \in NCurrent /\ format \in {"xml", "json"} -> format
    [] version \in NLegacyJson \cup NLegacyPair /\ format = "" -> "xml"
    [] OTHER -> "refused"

\* The namespace table: contexts [id, decls], decls "null", "empty" or "some".
NShapeHolds(h) ==
  h.version \in NCurrent =>
    /\ h.contexts # <<>>
    /\ \A i \in DOMAIN h.contexts : h.contexts[i].id >= 0 /\ h.contexts[i].decls # "null"
    /\ \A i, j \in DOMAIN h.contexts : i # j => h.contexts[i].id # h.contexts[j].id
    /\ h.format = "json" => h.contexts = <<[id |-> 0, decls |-> "empty"]>>

\* What the reader fills in for an index of the version before.
NNormalize(h) ==
  IF h.version = "j12" /\ h.contexts = <<>> THEN [h EXCEPT !.contexts = <<[id |-> 0, decls |-> "empty"]>>] ELSE h

\* What a writer emits for the table.
NWritable(contexts) ==
  IF contexts = <<>> THEN <<[id |-> 0, decls |-> "empty"]>>
  ELSE [i \in DOMAIN contexts |->
          [contexts[i] EXCEPT !.decls = IF @ = "null" THEN "empty" ELSE @]]

\* The layout a seekable header declares: in its layout object, or flat before.
NLayout(h) ==
  CASE h.version = "z12" -> IF h.layout = "canonical" /\ h.flat = "none" THEN "canonical" ELSE "refused"
    [] h.version \in NLegacyPair -> IF h.layout = "none" /\ h.flat # "none" THEN h.flat ELSE "refused"
    [] OTHER -> "refused"

\* A seekable header has a layout and a record count its records file agrees with.
NPairOpens(h) == NLayout(h) # "refused" /\ h.count >= 0 /\ h.size = h.count

\* store.Open: the file's name chooses the store; every store answers for version,
\* format and table before a record is read.
NOpen(h) ==
  LET n == NNormalize(h) IN
  IF \/ h.pair /\ ~NPairOpens(h)
     \/ NFormat(n.version, n.format) = "refused" \/ ~NShapeHolds(n)
  THEN "refused" ELSE NFormat(n.version, n.format)

\* A namespace-bound recipe needs an index with per-record contexts.
NSupports(h, bound) ==
  bound => h.version \notin {"j11", "j10"} /\ NNormalize(h).contexts # <<>>

\* requireWritableFormat and the header the writers put out.
NWrites(format, contexts, pair) ==
  [version |-> IF pair THEN "z12" ELSE "j13", format |-> format, contexts |-> NWritable(contexts),
   pair |-> pair, layout |-> IF pair THEN "canonical" ELSE "none", flat |-> "none", count |-> 1, size |-> 1]

\* RefFor over the contexts of the records in order; context 0 is the empty one.
NRefFor(table, decls) ==
  IF \E i \in DOMAIN table : table[i] = decls
  THEN [table |-> table, ref |-> (CHOOSE i \in DOMAIN table : table[i] = decls) - 1]
  ELSE [table |-> Append(table, decls), ref |-> Len(table)]
NTable(records) == FoldLeft(LAMBDA t, d : NRefFor(t, d).table, <<{}>>, records)

-----------------------------------------------------------------------------
\* The streaming reader: the fields of the index object in file order.

NKnown == {"version", "source", "selector", "namespace_contexts", "summary", "metadata"}
NDuplicate(fields) ==
  \E i, j \in DOMAIN fields : i # j /\ fields[i] = fields[j] /\ fields[i] \in NKnown \cup {"records"}

\* The snapshot Header returns holds what precedes the records.
NHeader(fields) ==
  LET at == {i \in DOMAIN fields : fields[i] = "records"} IN
  IF at = {} THEN {"error"}
  ELSE LET before == SubSeq(fields, 1, Min(at) - 1) IN
       IF NDuplicate(before) THEN {"error"} ELSE ToSet(before) \cap NKnown
\* After the last record the rest is decoded; only then is there a summary.
NFinal(fields) ==
  IF NHeader(fields) = {"error"} \/ NDuplicate(fields) THEN "error"
  ELSE IF "summary" \in ToSet(fields) THEN "summary" ELSE "no summary"

-----------------------------------------------------------------------------
\* Fixed-width records: offset (a long), num and ref (short) of each.

\* The checked conversions refuse what does not fit.
NEncode(r) ==
  IF r.offset < 0 \/ r.num < 0 \/ r.ref < 0 \/ r.num >= 2^NShort \/ r.ref >= 2^NShort THEN <<>>
  ELSE <<r.offset % 2^NLong, r.num % 2^NShort, r.ref % 2^NShort>>

\* The iterator converts an offset to a signed long; DecodeBinaryRecord refuses
\* one that is too large.
NSigned(u) == IF u >= 2^(NLong - 1) THEN u - 2^NLong ELSE u
NNext(b) == [offset |-> NSigned(b[1]), num |-> b[2], ref |-> b[3]]
NDecode(b) == IF b[1] >= 2^(NLong - 1) THEN <<>> ELSE <<[offset |-> b[1], num |-> b[2], ref |-> b[3]]>>

-----------------------------------------------------------------------------
\* Statistics of the sizes, and the exact percentiles (interpolated, rounded).
NSorted(sizes) == SortSeq(sizes, <)
NPercentile(sizes, p) ==
  LET s == NSorted(sizes)
      x == p * (Len(s) - 1)
      lower == (x \div 100) + 1
      weight == x % 100
  IN CASE s = <<>> -> 0
       [] s # <<>> /\ lower >= Len(s) -> s[Len(s)]
       [] OTHER -> (s[lower] * (100 - weight) + s[lower + 1] * weight + 50) \div 100
NSummary(sizes) ==
  [total |-> Len(sizes), bytes |-> FoldLeft(LAMBDA a, b : a + b, 0, sizes),
   least |-> IF sizes = <<>> THEN 0 ELSE Min(ToSet(sizes)),
   most |-> IF sizes = <<>> THEN 0 ELSE Max(ToSet(sizes))]

-----------------------------------------------------------------------------
\* Verification.  A source is a sequence of record contents; an index lists
\* entries [num, at, hash] (the number, the range and what it hashes to), the
\* source's hash and a total.
NEntry(source, i) == [num |-> i, at |-> i, hash |-> source[i]]
NBuild(source) ==
  [hash |-> source, total |-> Len(source), records |-> [i \in DOMAIN source |-> NEntry(source, i)]]

\* json: a fresh scan in step with the index.  What the loop does once n records
\* of both agreed: both at their end, one at its end, or a record to compare.
NScan(x, source, n) ==
  CASE n = Len(source) /\ n = Len(x.records) -> IF x.total = n THEN "valid" ELSE "fail"
    [] n < Len(source) /\ n < Len(x.records) -> IF x.records[n + 1] = NEntry(source, n + 1) THEN "next" ELSE "fail"
    [] OTHER -> "fail"
NVerifyJson(x, source) ==
  /\ x.total >= 0 /\ x.hash = source
  /\ \E n \in 0..Len(source) : /\ NScan(x, source, n) = "valid"
                               /\ \A k \in 0..(n - 1) : NScan(x, source, k) = "next"

\* xml: the source's hash; with --verify-records the bytes of every listed range.
\* Neither the numbers nor whether every record is listed is looked at.
NVerifyXml(x, source, records) ==
  /\ x.hash = source
  /\ records => \A i \in DOMAIN x.records :
       x.records[i].at \in DOMAIN source /\ x.records[i].hash = source[x.records[i].at]

\* index stream: records in step, numbers contiguous where they are set, and the
\* total when no limit is given.
NWalk(x, limit) ==
  LET n == IF limit = 0 \/ limit > Len(x.records) THEN Len(x.records) ELSE limit
      set == SelectSeq(SubSeq(x.records, 1, n), LAMBDA r : r.num # 0)
  IN /\ \A i \in 1..(Len(set) - 1) : set[i + 1].num = set[i].num + 1
     /\ limit = 0 => x.total = n

\* Offsets address the bytes of an uncompressed source, by the header and by the
\* source's name.
NOffsetsUsable(o) == o.kind = "source" /\ ~o.packed /\ ~o.packedName

\* index verify: the declared format is the index's, the offsets are usable, and
\* the format's own verification holds.
NVerifyCommand(x, built, declared, o, source, records) ==
  /\ declared = built /\ NOffsetsUsable(o)
  /\ IF built = "json" THEN NVerifyJson(x, source) ELSE NVerifyXml(x, source, records)

-----------------------------------------------------------------------------
\* What the writers put out is accepted as the format it was built from; an
\* accepted header of an earlier version is never read as json, a header without
\* a usable table never serves a namespace-bound recipe, and an accepted table
\* names every context once.
NHeaderHolds(h) ==
  /\ h.format \in {"xml", "json"} /\ NShapeHolds([h EXCEPT !.version = "j13"]) =>
       \A pair \in BOOLEAN : NOpen(NWrites(h.format, h.contexts, pair)) = h.format
  /\ NOpen(h) = "json" => h.version \in NCurrent
  /\ (NOpen(h) # "refused" /\ h.version \in NCurrent) =>
       /\ NSupports(h, TRUE)
       /\ Cardinality({h.contexts[i].id : i \in DOMAIN h.contexts}) = Len(h.contexts)

\* Every reference a record gets resolves to its own declarations, in the final
\* table too, and context 0 is the empty one.
NTableHolds(records) ==
  LET t == NTable(records) IN
  /\ t[1] = {} /\ IsInjective(t)
  /\ \A i \in DOMAIN records :
       LET r == NRefFor(NTable(SubSeq(records, 1, i - 1)), records[i]) IN t[r.ref + 1] = records[i]

\* A header snapshot never shows a field that follows the records; an accepted
\* file has one records array and no field twice.
NStreamHolds(fields) ==
  NFinal(fields) # "error" =>
    /\ Cardinality({i \in DOMAIN fields : fields[i] = "records"}) = 1
    /\ \A f \in NHeader(fields) : \E i, j \in DOMAIN fields :
         fields[i] = f /\ fields[j] = "records" /\ i < j

\* Encoding refuses exactly the records that do not fit, and both readers return
\* the record that was encoded.
NCodecHolds(r) ==
  /\ (NEncode(r) = <<>>) = (r.offset < 0 \/ r.num \notin 0..(2^NShort - 1) \/ r.ref \notin 0..(2^NShort - 1))
  /\ NEncode(r) # <<>> => NNext(NEncode(r)) = r /\ NDecode(NEncode(r)) = <<r>>

\* A percentile lies between the least and the largest size and grows with p.
NStatsHold(sizes) ==
  LET s == NSummary(sizes)
      P == <<0, 50, 95, 99, 100>>
  IN /\ \A i \in DOMAIN P : NPercentile(sizes, P[i]) \in s.least..s.most
     /\ \A i \in 1..4 : NPercentile(sizes, P[i]) <= NPercentile(sizes, P[i + 1])
     /\ sizes # <<>> => NPercentile(sizes, 100) = s.most

\* The in-step walk over a json index accepts exactly what a build of the source
\* writes.  That of an xml index is weaker: it accepts what a build writes, but also
\* an index that leaves out, repeats or renumbers records, whose listed ranges with
\* --verify-records are at least those of the build.  The command accepts no index
\* of another source or format, or whose offsets address a packed one.
NVerifyExact(x, source) ==
  /\ NVerifyJson(x, source) = (x = NBuild(source))
  /\ NVerifyXml(NBuild(source), source, TRUE)
  /\ NVerifyXml(x, source, TRUE) =>
       \A i \in DOMAIN x.records : \E j \in DOMAIN source :
         x.records[i].at = NBuild(source).records[j].at /\ x.records[i].hash = NBuild(source).records[j].hash
  /\ \A built, declared \in {"xml", "json"}, records \in BOOLEAN :
       \A o \in [kind : {"source", "other"}, packed : BOOLEAN, packedName : BOOLEAN] :
         NVerifyCommand(x, built, declared, o, source, records) =>
           x.hash = source /\ declared = built /\ ~o.packed
\* The walk accepts what verification does, wherever it stops.
NVerifyHolds(x, source) ==
  /\ NVerifyExact(x, source)
  /\ \A limit \in 0..2 : NVerifyJson(x, source) => NWalk(x, limit)
=============================================================================
