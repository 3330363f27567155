------------------------------ MODULE MCCases ------------------------------
(* The bounded inputs on which the sequential parts are checked.             *)
EXTENDS ExtractCore, IndexFormat, Validation, MultiPlan, Provenance

Upto(S, n) == UNION {[1..k -> S] : k \in 0..n}

-----------------------------------------------------------------------------
\* External fields and source paths (FieldScope).
FieldCases ==
  LET pattern == {[has |-> FALSE, internal |-> FALSE, yields |-> "none"]}
                 \cup [has : {TRUE}, internal : BOOLEAN, yields : {"none", "blank", "full"}]
  IN [patterns : [1..2 -> pattern], shim : BOOLEAN, manifest : {"none", "blank", "list"}, cli : {"none", "blank", "full", "bad"},
      internal : BOOLEAN, mapped : BOOLEAN, required : BOOLEAN, requiredCapture : BOOLEAN]
PathCases == [root : {<<>>, <<"a">>, <<"a", "/">>, <<"a", "a">>}, key : Upto({"a", "/"}, 3) \ {<<>>}]

\* Documents and options of the extraction core (ExtractCore).
CoreNodes == {n \in [kind : {"row", "filtered", "bad", "refused"}, score : {0, 1}, garbled : BOOLEAN,
                     place : {"outer", "inner", "prefixed"}] :
                /\ n.garbled => n.kind = "row"
                /\ n.kind = "filtered" => n.score = 1
                /\ n.place # "outer" => ~n.garbled /\ n.score = 1}
CoreDocs ==
  {[selectors |-> s, prepared |-> p, applies |-> a, score |-> c] :
     s \in {<<r>> : r \in {u \in Upto(CoreNodes, 2) : u # <<>> => u[1].place # "inner"}}
           \cup {<<<<m>>, <<n>>>> : m, n \in {c \in CoreNodes : c.score = 1 /\ ~c.garbled /\ c.place # "inner"}},
     p \in BOOLEAN, a \in BOOLEAN, c \in {0, 1}}
CoreOptions == {o \in [format : {"xml", "json", "ndjson"}, scope : {"document", "record"}, size : {"small", "large", "huge"},
                       selector : {"name", "path"}, allow : BOOLEAN, sink : BOOLEAN, app : BOOLEAN] :
                 (o.allow => o.size # "small") /\ (o.format # "xml" => o.size # "huge")}
CoreFields == [type : {"string", "array", "boolean", "integer", "number"}, internal : BOOLEAN, nested : {FALSE},
               shape : {"xpath", "expression", "both", "neither"}, transform : {"none", "exists", "text"}, twice : BOOLEAN,
               inSchema : BOOLEAN, inFilter : {FALSE}, raw : {"nil", "null", "empty", "zero", "point", "no", "word", "T", "F"},
               external : {"none", "plain", "internal"}, uniform : BOOLEAN]
CoreSums == [total : {-1, 0, 2}, components : Upto([remainder : BOOLEAN, value : {-1, 1}], 2)]

\* Index files (IndexFormat).
IndexHeads == [version : {"j13", "z12", "j12", "j11", "z11", "other"}, format : {"", "xml", "json", "else"},
               contexts : Upto([id : {-1, 0, 1}, decls : {"null", "empty", "some"}], 2), pair : BOOLEAN,
               layout : {"none", "canonical", "odd"}, flat : {"none", "wide"}, count : {0, 1}, size : {1}]
IndexFiles == [hash : Upto({"a", "b"}, 2), total : -1..2, records : Upto([num : 0..2, at : 1..2, hash : {"a", "b"}], 2)]

-----------------------------------------------------------------------------
\* Expressions (Expression): chains of operators, and trees.
ChainsOf(vals, ops, n) ==
  {[i \in 1..(2 * n + 1) |-> IF i % 2 = 1 THEN o[1][(i + 1) \div 2] ELSE o[2][i \div 2]] :
     o \in [1..(n + 1) -> vals] \X [1..n -> ops]}
Chains == ChainsOf({"x", "2", "true"}, ToSet(DOperators), 2) \cup ChainsOf({"x", "2"}, {"+", "-", "*", "/"}, 3)
           \cup ChainsOf({"y", "true"}, {"&&", "||", "=="}, 3)
Envs == {[x |-> DNum(1, 1), y |-> DBool(TRUE)], [x |-> DNum(0, 1), y |-> DBool(FALSE)], [x |-> DText(<<"a">>)]}
VarLeaf == DLeaf("var", <<"x">>)
TextLeaf == DLeaf("const", <<"'s'">>)
Leaves == {VarLeaf, TextLeaf, DLeaf("var", <<"null">>), DLeaf("const", <<"2">>), DLeaf("const", <<"-", "1">>)}
BinaryTrees(S, R, ops) == {DNode(o, <<a, b>>) : o \in ops, a \in S, b \in R}
TernaryTrees(S) == {DNode("?", <<a, b, c>>) : a \in S, b \in S, c \in S}
CallTrees(S, names) == {[op |-> "call", at |-> <<f>>, args |-> a] : f \in names, a \in Upto(S, 3)}
Trees ==
  LET nots(S) == {DNode("!", <<t>>) : t \in S}
      small == nots(Leaves) \cup BinaryTrees(Leaves, Leaves, {"-", "==", "&&"}) \cup TernaryTrees({VarLeaf, TextLeaf})
               \cup CallTrees({VarLeaf, TextLeaf}, DReferences \cup {"min", "mask_tail"})
  IN small \cup nots(small) \cup BinaryTrees(small, {VarLeaf}, {"-", "=="}) \cup BinaryTrees({TextLeaf}, small, {"-", "||"})
     \cup TernaryTrees(nots({VarLeaf}) \cup TernaryTrees({VarLeaf})) \cup CallTrees(CallTrees({TextLeaf}, {"in_reference"}), {"lookup_reference"})
DeclaredTables == [q \in {"'s'"} |-> [k \in {<<"a">>} |-> <<"b">>]]

\* Rules, accumulations and reconciliations (Validation).
Filters ==
  {[kind |-> "none"], [kind |-> "simple", field |-> "x", op |-> "==", value |-> DNum(1, 1)],
   [kind |-> "simple", field |-> "x", op |-> "<", value |-> DNum(1, 1)], [kind |-> "simple", field |-> "x", op |-> "!=", value |-> DNull],
   [kind |-> "simple", field |-> "x", op |-> "<", value |-> DNull], [kind |-> "full", expr |-> <<"x", "==", "1">>], [kind |-> "full", expr |-> <<"x">>]}
Accumulators == {VAccumulator(o, f, q) : o \in {"count", "sum", "avg", "min", "max"}, f \in {"x", ""}, q \in Filters}
RowLists == Upto({[x |-> v] : v \in {DNum(0, 1), DNum(1, 1), DNum(-2, 1), DNull, DText(<<"a">>)}} \cup {[y |-> DNum(1, 1)]}, 2)
GroupRows == {[k |-> k, x |-> v] : k \in {DNull, DText(<<"a">>), DText(<<"b">>)}, v \in {DNum(1, 1), DNum(-1, 1), DNum(2, 1)}}
Items(rows) == [i \in DOMAIN rows |-> <<"object", rows[i]>>]
GroupDocs ==
  {[rows |-> <<"rows", Items(r)>>] : r \in Upto(GroupRows, 2)} \cup {[w |-> DNum(1, 1)]}
  \cup {[rows |-> v] : v \in {DNum(1, 1), <<"object", [k |-> DNull, x |-> DNum(1, 1)]>>, <<"object", [rows |-> <<"rows", <<DNull>>>>]>>}}
  \cup {[rows |-> <<"rows", <<i, <<"object", [k |-> DNull, x |-> DNum(1, 1), rows |-> v]>>>>>>] : i \in {DNull, DNum(1, 1)}, v \in {DNull, <<"rows", Items(<<[x |-> DNum(2, 1)]>>)>>}}
Segment(n, a) == [name |-> n, array |-> a]
Group(source, filter, value, cap, aggregation) ==
  [source |-> source, field |-> "k", missing |-> DText(<<"u">>), filter |-> filter, value |-> value, cap |-> cap, aggregation |-> aggregation]
Below2 == [kind |-> "full", expr |-> <<"x", "<", "2">>]
Groups ==
  {Group(<<Segment("rows", TRUE)>>, q, v, p, "sum") : p \in BOOLEAN, q \in {[kind |-> "none"], Below2}, v \in {<<"x">>, <<"x", "-", "y">>}}
  \cup {Group(s, [kind |-> "none"], v, FALSE, a) : v \in {<<>>, <<"x">>}, a \in {"sum", "avg"},
          s \in {<<>>, <<Segment("", TRUE)>>, <<Segment("rows", FALSE)>>, <<Segment("rows", TRUE), Segment("rows", TRUE)>>}}
Reconciliations ==
  {[base |-> <<b>>, group |-> g, components |-> c, tolerance |-> DNum(t, 1), allow |-> t = 1] :
     b \in {"0", "2", "z"}, c \in {<<>>, <<<<"y">>>>}, t \in {0, 1}, g \in {<<>>} \cup {<<q>> : q \in Groups}}
RuleLists == Upto([severity : {"info", "warning", "error", "fatal"}, rule : {<<"true">>, <<"false">>, <<"x", "==", "1">>, <<"2">>}], 2)
Policies == [failOnFatal : BOOLEAN, errors : {-1, 0, 1}, halt : BOOLEAN]
RuleScope == [y |-> DNum(1, 1), x |-> DNum(1, 1), z |-> DNum(1, 120)]
SlugLists == Upto({<<"a">>, <<"b">>, <<"a", 2>>}, 4)
Metas ==
  {[path |-> p, accumulate |-> a, aggregations |-> g, reconciliations |-> r, rules |-> u, policy |-> o] :
     p \in {"", "rows", "q"}, a \in {<<>>, <<VAccumulator("sum", "x", [kind |-> "none"])>>},
     g \in {<<>>} \cup {<<[name |-> n, expr |-> e, target |-> t, tolerance |-> DNum(0, 1), written |-> w]>> :
                          n \in {"x", "z"}, e \in {<<"total">>, <<"2">>}, t \in {"", "x", "q"}, w \in BOOLEAN},
     r \in {<<>>, <<[name |-> "residual", base |-> <<"x">>, group |-> <<>>, components |-> <<>>, tolerance |-> DNum(0, 1), allow |-> FALSE]>>},
     u \in {<<[severity |-> "fatal", rule |-> <<"x", "==", "1">>]>>, <<[severity |-> "error", rule |-> <<"residual", "==", "0">>]>>},
     o \in {p2 \in Policies : p2.errors = 0}}
Documents == {[x |-> DNum(1, 1)], [x |-> DNum(2, 1), rows |-> <<"rows", Items(<<[x |-> DNum(1, 1)], [x |-> DNum(1, 1)]>>)>>], [x |-> DNum(1, 1), rows |-> <<"rows", <<DNull>>>>], [y |-> DNum(1, 1)]}

-----------------------------------------------------------------------------
\* Command lines, bundles and directories of extract-multi (MultiPlan).
BaseLine == [f \in DOMAIN PDefault \cup {"handle", "run", "last"} |->
  CASE f = "handle" -> "none" [] f = "run" -> "r" [] f = "last" -> "plain" [] f = "inputs" -> {"path"} [] f = "root" -> "local" [] OTHER -> PDefault[f]]
Pair(k, f, t) == [key |-> k, formed |-> f, text |-> t]
PairSets == {{}, {Pair("k", TRUE, "plain")}, {Pair("k", TRUE, "path"), Pair("token", TRUE, "plain")}, {Pair("k", FALSE, "plain")}, {Pair("", TRUE, "plain")}}
FieldLines == {[BaseLine EXCEPT !.inputs = i, !.root = r, !.visible = v, !.hidden = h, !.handle = c] :
  i \in {{}, {"path"}, {"files", "path"}}, r \in {"none", "local", "cloud", "other"}, v \in PairSets, h \in PairSets, c \in {"none", "h"}}
ModeLines == {[BaseLine EXCEPT !.root = r, !.mode = m, !.records = n, !.bytes = b, !.identity = e, !.noDurable = u, !.noManifest = a,
                             !.descriptor = d, !.contract = d, !.workers = w] :
  r \in {"local", "cloud"}, m \in {"", "per-input", "aggregate", "bogus"}, n \in -1..1, b \in {-1, 0, PMaxPut, PMaxPut + 1},
  e \in BOOLEAN, u \in BOOLEAN, a \in BOOLEAN, d \in BOOLEAN, w \in {0, 2}}
PlaceLines == {[BaseLine EXCEPT !.inputs = {i}, !.place = p, !.rooted = r, !.depth = d, !.patterns = t, !.follow = f, !.goOn = ~f, !.last = w] :
  i \in {"path", "list"}, p \in {"here", "away", "cloud"}, r \in {"none", "flag", "env"}, d \in -1..1, t \in {"", "p"}, f \in BOOLEAN, w \in {"plain", "secret"}}
StagingLines == {[BaseLine EXCEPT !.inputs = {i}, !.cloudMode = m, !.prefetch = p, !.stagedBytes = b, !.stagedFiles = f, !.objectBytes = o] :
  i \in {"path", "list"}, m \in {"", "eager", "bounded", "bogus"}, p \in -1..1, b \in -1..1, f \in 0..1, o \in 0..1}
ValidateLines == {[BaseLine EXCEPT !.validate = v, !.noManifest = a, !.descriptor = d, !.contract = c] :
  v \in {"", "off", "sidecars", "artifact", "bogus"}, a \in BOOLEAN, d \in BOOLEAN, c \in BOOLEAN}
Recipe(id, then) ==
  [id |-> id, idThen |-> then, loads |-> TRUE, kind |-> "extract", escapes |-> FALSE, input |-> "xml", formats |-> {"json"},
   parameters |-> {}, internal |-> {}, mapped |-> {}, required |-> {}, source |-> "s", target |-> "t"]
RecipeA == Recipe(<<"a">>, <<"a">>)
RecipeB == Recipe(<<"b">>, <<"b">>)
Recipes ==
  {Recipe(<<"b">>, <<"a">>)}
  \cup {[RecipeB EXCEPT !.parameters = p, !.internal = n, !.mapped = m, !.required = q] :
          p \in SUBSET {"k"}, n \in SUBSET {"k"}, m \in SUBSET {"k"}, q \in {{}, {"token"}}}
  \cup {[RecipeB EXCEPT !.formats = {"parquet"}], [RecipeB EXCEPT !.input = "json"], [RecipeB EXCEPT !.kind = "inspect"],
        [RecipeB EXCEPT !.escapes = TRUE], [RecipeB EXCEPT !.loads = FALSE]}
\* Ids with a separator, with a leading dot, with blanks, and ones that differ by case
\* or by a dot only.
Ids == {<<>>, <<"a">>, <<"A">>, <<"B">>, <<"a", ".">>, <<"A", ".">>, <<".">>, <<".", ".", "/", "a">>, <<"a", " ">>, <<"a", "B">>, <<"A", "b">>}
Bundles ==
  {<<>>} \cup {<<r>> : r \in Recipes} \cup {<<RecipeA, r>> : r \in Recipes}
  \cup {<<Recipe(i, i), Recipe(j, j), RecipeB>> : i, j \in Ids}
DiskWith(x) == [i \in Ids \cup {<<"b">>} |-> IF i = <<"b">> THEN x ELSE "none"]

\* Recorded command lines, paths and hashes (Provenance).
ArgvItems == {[flag |-> f, split |-> s, value |-> [inner |-> k, text |-> t]] :
             f \in {"parameter", "parameter-internal", "token", "provenance-root", "files", "file-list", "output-path"},
             s \in BOOLEAN, k \in {"", "k", "token"}, t \in {"hush", "path"}}
          \cup {[flag |-> "output-path", split |-> s, value |-> [inner |-> "", text |-> "token"]] : s \in BOOLEAN}
          \cup {[flag |-> "", split |-> FALSE, value |-> [inner |-> k, text |-> t]] : k \in {"", "k"}, t \in {"path", "token"}}
PathNames == {<<"r">>, <<"r", "a">>, <<"r", "b">>, <<"o">>, <<"o", "a">>}
RankedFiles(n) == [lexical : PathNames, evaluated : PathNames \cup {<<>>}, cloud : BOOLEAN, rank : {n}]
RootCases == {[lexical |-> <<"r">>, evaluated |-> <<"r">>], [lexical |-> <<"r">>, evaluated |-> <<"o">>]}
\* Numbers up to QSafe, the octal 010 among them, and two beyond of one double.
Assets ==
  LET one == [kind |-> "int", of |-> 1]
      scalar == {[kind |-> k, of |-> n] : k \in {"int", "float"}, n \in {1, 8, 10, QSafe + 2, QSafe + 3}}
                \cup {[kind |-> "octal", of |-> n] : n \in {1, 10}} \cup {[kind |-> "text", of |-> n] : n \in 1..3}
                \cup {[kind |-> k, of |-> 0] : k \in {"hex", "inf", "alias", "null"}}
  IN {<<>>} \cup {<<<<k, v>>>> : k \in 0..2, v \in scalar}
     \cup {<<<<k, one>>, <<l, [kind |-> "text", of |-> 2]>>>> : k \in 1..3, l \in 1..3}
Applicability == {<<>>, <<<<1, [kind |-> "int", of |-> 1]>>>>}
============================================================================
