----------------------------- MODULE Expression -----------------------------
(* The expression language of recipes: the splitting parser, the evaluator,    *)
(* its functions, and the pre-flight walk over reference tables.               *)
(* An expression is a sequence of tokens: names, literals and punctuation.     *)
(* Numbers are rationals <<n, d>>: the rounding of float64 is left out, so a   *)
(* property of a value is one up to rounding.  Texts are sequences of letters. *)
EXTENDS Integers, Sequences, FiniteSets, SequencesExt, FiniteSetsExt

DMasks == {"mask_tail", "mask_middle"}
DTexts == {"lower", "upper", "normalize_space"}
DReferences == {"in_reference", "lookup_reference"}
DFunctions ==
  {"abs", "round", "min", "max", "count", "sum", "string_length", "starts_with_any", "value_in"}
  \cup DTexts \cup DMasks \cup DReferences
DNames == {"x", "y", "null"} \cup DFunctions
DNumbers == {"0", "1", "2"}
DQuoted == {"'s'", "'('"}           \* the second holds a parenthesis
DBad == [op |-> "refused", at |-> <<>>, args |-> <<>>]
DNode(op, args) == [op |-> op, at |-> <<>>, args |-> args]
DLeaf(op, s) == [op |-> op, at |-> s, args |-> <<>>]

-----------------------------------------------------------------------------
\* The parser.

\* Depth of the parentheses outside quoted text before position i.
DDepth(s, i) ==
  Cardinality({j \in 1..(i - 1) : s[j] = "("}) - Cardinality({j \in 1..(i - 1) : s[j] = ")"})
DAt(s, op) == {i \in DOMAIN s : s[i] = op /\ DDepth(s, i) = 0}

\* Variant: the leftmost occurrence splits.
DSplitLeft(s, op) == IF DAt(s, op) = {} THEN 0 ELSE Min(DAt(s, op))
\* The rightmost occurrence outside quotes and parentheses splits; 0 is none.
DSplit(s, op) == IF DAt(s, op) = {} THEN 0 ELSE Max(DAt(s, op))

\* The colon of the ternary whose question mark is at q: nested ones pair up.
DColon(s, q) ==
  LET level(i) == Cardinality({j \in (q + 1)..(i - 1) : s[j] = "?" /\ DDepth(s, j) = DDepth(s, q)})
                  - Cardinality({j \in (q + 1)..(i - 1) : s[j] = ":" /\ DDepth(s, j) = DDepth(s, q)})
      at == {i \in (q + 1)..Len(s) : s[i] = ":" /\ DDepth(s, i) = DDepth(s, q) /\ level(i) = 0}
  IN IF at = {} THEN 0 ELSE Min(at)

\* One pair of parentheses around everything.  This scan looks into quoted text.
DEnclosed(s) ==
  LET opens == {"(", "'('"}
      depth(i) == Cardinality({j \in 1..i : s[j] \in opens}) - Cardinality({j \in 1..i : s[j] = ")"})
  IN /\ Len(s) >= 2 /\ s[1] = "(" /\ s[Len(s)] = ")" /\ depth(Len(s)) = 0
     /\ \A i \in 1..(Len(s) - 1) : depth(i) > 0

\* A name and one argument list; an unclosed list counts and is refused later.
DIsCall(s) ==
  /\ Len(s) >= 3 /\ s[1] \in DNames /\ s[2] = "(" /\ s[Len(s)] = ")"
  /\ \A i \in 2..(Len(s) - 1) : DDepth(s, i + 1) > 0

\* The arguments between the outer parentheses, split at commas of depth 0.
DArguments(s) ==
  LET in == SubSeq(s, 3, Len(s) - 1)
      cuts == <<0>> \o SetToSortSeq(DAt(in, ","), <) \o <<Len(in) + 1>>
  IN IF in = <<>> THEN <<>> ELSE [k \in 1..(Len(cuts) - 1) |-> SubSeq(in, cuts[k] + 1, cuts[k + 1] - 1)]
DBalanced(s) == DDepth(s, Len(s) + 1) = 0 /\ \A i \in DOMAIN s : DDepth(s, i) >= 0

DConstant(s) ==
  \/ Len(s) = 1 /\ s[1] \in DNumbers \cup {"true", "false"}
  \/ Len(s) = 2 /\ s[1] \in {"+", "-"} /\ s[2] \in DNumbers
  \/ s[1] \in DQuoted /\ s[Len(s)] \in DQuoted

\* The operators in the order in which they are tried.
DOperators == <<"||", "&&", "==", "!=", "<", "+", "-", "*", "/">>

\* A side that is empty or does not parse makes the parser try the next operator;
\* what nothing matches is a variable.
RECURSIVE DParse(_), DBinary(_, _)
DBinary(s, k) ==
  IF k > Len(DOperators) THEN <<>>
  ELSE LET at == DSplit(s, DOperators[k])
           left == SubSeq(s, 1, at - 1)
           right == SubSeq(s, at + 1, Len(s))
       IN IF at > 1 /\ at < Len(s) /\ DParse(left) # DBad /\ DParse(right) # DBad
          THEN <<DNode(DOperators[k], <<DParse(left), DParse(right)>>)>>
          ELSE DBinary(s, k + 1)
DCall(s) ==
  LET args == DArguments(s)
      trees == [k \in DOMAIN args |-> DParse(args[k])]
  IN IF ~DBalanced(SubSeq(s, 3, Len(s) - 1)) \/ \E k \in DOMAIN args : trees[k] = DBad
     THEN DBad ELSE [op |-> "call", at |-> <<s[1]>>, args |-> trees]
DTernary(s) ==
  LET q == Min(DAt(s, "?"))
      c == DColon(s, q)
      parts == <<SubSeq(s, 1, q - 1), SubSeq(s, q + 1, c - 1), SubSeq(s, c + 1, Len(s))>>
  IN IF c = 0 THEN DBad
     ELSE IF \E k \in 1..3 : parts[k] = <<>> \/ DParse(parts[k]) = DBad THEN DBad
     ELSE DNode("?", [k \in 1..3 |-> DParse(parts[k])])
DParse(s) ==
  IF s = <<>> THEN DBad
  ELSE IF DIsCall(s) THEN DCall(s)
  ELSE IF DAt(s, "?") # {} THEN DTernary(s)
  ELSE LET b == DBinary(s, 1) IN
  IF b # <<>> THEN b[1]
  ELSE IF s[1] = "!" THEN
    LET t == DParse(Tail(s)) IN IF t = DBad THEN DBad ELSE DNode("!", <<t>>)
  ELSE IF DEnclosed(s) THEN DParse(SubSeq(s, 2, Len(s) - 1))
  ELSE IF DConstant(s) THEN DLeaf("const", s)
  ELSE DLeaf("var", s)

-----------------------------------------------------------------------------
\* Values and operators.

DError == <<"error">>
DNull == <<"null">>
DBool(b) == <<"bool", b>>
DNum(n, d) == IF d < 0 THEN <<"num", -n, -d>> ELSE <<"num", n, d>>
DText(s) == <<"text", s>>
DIs(v, type) == v[1] = type
DEqual(a, b) == IF DIs(a, "num") /\ DIs(b, "num") THEN a[2] * b[3] = b[2] * a[3] ELSE a = b
DLess(a, b) == a[2] * b[3] < b[2] * a[3]

DArithmetic(op, a, b) ==
  IF ~DIs(a, "num") \/ ~DIs(b, "num") THEN DError
  ELSE CASE op = "+" -> DNum(a[2] * b[3] + b[2] * a[3], a[3] * b[3])
         [] op = "-" -> DNum(a[2] * b[3] - b[2] * a[3], a[3] * b[3])
         [] op = "*" -> DNum(a[2] * b[2], a[3] * b[3])
         [] op = "/" -> IF b[2] = 0 THEN DError ELSE DNum(a[2] * b[3], a[3] * b[2])
\* Order is for numbers; equality is for everything.
DCompare(op, a, b) ==
  CASE op = "==" -> DBool(DEqual(a, b))
    [] op = "!=" -> DBool(~DEqual(a, b))
    [] OTHER -> IF DIs(a, "num") /\ DIs(b, "num") THEN DBool(DLess(a, b)) ELSE DError
\* Both operands are evaluated, and both must be boolean.
DLogical(op, a, b) ==
  IF ~DIs(a, "bool") \/ ~DIs(b, "bool") THEN DError
  ELSE DBool(IF op = "&&" THEN a[2] /\ b[2] ELSE a[2] \/ b[2])

DLiteral(s) ==
  LET n(t) == CHOOSE i \in 0..2 : <<"0", "1", "2">>[i + 1] = t IN
  CASE s[1] = "true" -> DBool(TRUE) [] s[1] = "false" -> DBool(FALSE)
    [] s[1] \in DNumbers -> DNum(n(s[1]), 1)
    [] s[1] \in {"+", "-"} -> DNum(IF s[1] = "-" THEN -n(s[2]) ELSE n(s[2]), 1)
    [] OTHER -> DText(s)

-----------------------------------------------------------------------------
\* Functions, by their argument values.

\* A text argument: null stays null, anything else but a text is refused.
DTextArgument(v, result) == IF DIs(v, "null") THEN DNull ELSE IF DIs(v, "text") THEN result ELSE DError
DCount(v) == DIs(v, "num") /\ v[2] >= 0 /\ v[2] % v[3] = 0
DMaskChar(v) == DIs(v, "text") /\ Len(v[2]) = 1
DMaskTail(s, keep, c) ==
  IF keep >= Len(s) THEN s ELSE [i \in DOMAIN s |-> IF i <= Len(s) - keep THEN c ELSE s[i]]
DMaskMiddle(s, head, tail, c) ==
  IF head + tail >= Len(s) THEN s
  ELSE [i \in DOMAIN s |-> IF i > head /\ i <= Len(s) - tail THEN c ELSE s[i]]
DMask(name, v) ==
  LET counts == IF name = "mask_tail" THEN 1 ELSE 2
      c == IF Len(v) = counts + 2 THEN v[counts + 2] ELSE DText(<<"X">>)
  IN IF Len(v) \notin {counts + 1, counts + 2} THEN DError
     ELSE DTextArgument(v[1],
       IF (\E k \in 1..counts : ~DCount(v[k + 1])) \/ ~DMaskChar(c) THEN DError
       ELSE DText(IF name = "mask_tail" THEN DMaskTail(v[1][2], v[2][2] \div v[2][3], c[2][1])
                  ELSE DMaskMiddle(v[1][2], v[2][2] \div v[2][3], v[3][2] \div v[3][3], c[2][1])))

\* Letters in two cases and the space, which normalize_space keeps once between words.
DUpper == [a |-> "A", b |-> "B"]
DRecase(name, c) ==
  CASE name = "upper" /\ c \in DOMAIN DUpper -> DUpper[c]
    [] name = "lower" /\ c \in {DUpper[l] : l \in DOMAIN DUpper} -> CHOOSE l \in DOMAIN DUpper : DUpper[l] = c
    [] OTHER -> c
DSpaced(s) ==
  LET word(i) == s[i] # " "
      kept == {i \in DOMAIN s : word(i) \/ (i > 1 /\ word(i - 1) /\ \E j \in i..Len(s) : word(j))}
  IN [k \in 1..Cardinality(kept) |-> s[SetToSortSeq(kept, <)[k]]]
DRewrite(name, s) ==
  IF name = "normalize_space" THEN DSpaced(s) ELSE [i \in DOMAIN s |-> DRecase(name, s[i])]

\* A list argument is a list of nonempty texts.
DListArgument(v) == DIs(v, "list") /\ \A i \in DOMAIN v[2] : v[2][i] # <<>>
DMember(name, v) ==
  LET hit(s, m) == IF name = "starts_with_any" THEN IsPrefix(m, s) ELSE m = s IN
  IF Len(v) # 2 \/ ~(DIs(v[1], "text") \/ DIs(v[1], "null")) \/ ~DListArgument(v[2]) THEN DError
  ELSE DBool(DIs(v[1], "text") /\ \E i \in DOMAIN v[2][2] : hit(v[1][2], v[2][2][i]))

\* min and max of numbers; count() and sum() read the variable of that name.
DExtreme(name, v) ==
  IF v = <<>> \/ \E i \in DOMAIN v : ~DIs(v[i], "num") THEN DError
  ELSE v[CHOOSE i \in DOMAIN v : \A j \in DOMAIN v :
           IF name = "min" THEN ~DLess(v[j], v[i]) ELSE ~DLess(v[i], v[j])]
DAbs(v) == IF DIs(v, "num") THEN DNum(IF v[2] < 0 THEN -v[2] ELSE v[2], v[3]) ELSE DError
\* Half away from zero at the given number of decimal places, at least none.
DRound(v, places) ==
  LET f == 10^(IF places[2] < 0 THEN 0 ELSE (2 * places[2] + places[3]) \div (2 * places[3]))
      a == DAbs(v)
      r == (2 * a[2] * f + a[3]) \div (2 * a[3])
  IN IF DIs(v, "num") /\ DIs(places, "num") THEN DNum(IF v[2] < 0 THEN -r ELSE r, f) ELSE DError
\* A missing text has length 0.
DStringLength(v) ==
  IF DIs(v, "null") THEN DNum(0, 1) ELSE DTextArgument(v, DNum(Len(v[2]), 1))

-----------------------------------------------------------------------------
\* Reference tables: a function from table names to functions from keys to values;
\* the empty one is an evaluator without tables.  A table name is a literal; a key
\* that is null, empty or unknown is a miss, and only a usable key needs the table.
DReference(name, table, key, default, tables) ==
  LET miss == IF name = "in_reference" THEN DBool(FALSE) ELSE default
      usable == DIs(key, "text") /\ key[2] # <<>>
      t == tables[table.at[1]]
  IN IF \/ table.op # "const" \/ table.at[1] \notin DQuoted \/ DOMAIN tables = {}
        \/ ~(DIs(key, "null") \/ DIs(key, "text"))
        \/ ~(DIs(default, "null") \/ DIs(default, "text"))
     THEN DError
     ELSE IF ~usable THEN miss
     ELSE IF table.at[1] \notin DOMAIN tables THEN DError
     ELSE IF key[2] \notin DOMAIN t THEN miss
     ELSE IF name = "in_reference" THEN DBool(TRUE) ELSE DText(t[key[2]])

\* A call by the values of its arguments; a table name is looked at as it is written.
DApply(name, args, v, env, tables) ==
  LET n == Len(v)
      refused == \E k \in DOMAIN v : v[k] = DError
  IN
  IF name \in DMasks /\ n > 0 /\ v[1] = DNull THEN DMask(name, v)
  ELSE IF refused THEN DError
  ELSE CASE name = "abs" -> IF n = 1 THEN DAbs(v[1]) ELSE DError
         [] name = "round" -> IF n = 1 THEN DRound(v[1], DNum(0, 1)) ELSE IF n = 2 THEN DRound(v[1], v[2]) ELSE DError
         [] name \in {"min", "max"} -> DExtreme(name, v)
         [] name \in {"count", "sum"} ->
              IF n > 0 THEN DError ELSE IF name \in DOMAIN env THEN env[name] ELSE DNum(0, 1)
         [] name = "string_length" -> IF n = 1 THEN DStringLength(v[1]) ELSE DError
         [] name \in DTexts ->
              IF n = 1 THEN DTextArgument(v[1], DText(DRewrite(name, v[1][2]))) ELSE DError
         [] name \in {"starts_with_any", "value_in"} -> DMember(name, v)
         [] name \in DMasks -> DMask(name, v)
         [] name = "in_reference" -> IF n = 2 THEN DReference(name, args[1], v[2], DNull, tables) ELSE DError
         [] name = "lookup_reference" -> IF n = 3 THEN DReference(name, args[1], v[2], v[3], tables) ELSE DError
         [] OTHER -> DError

\* The environment maps names to values; a name it lacks is undefined.  Only the
\* chosen branch of a ternary is evaluated, both sides of an operator always are.
RECURSIVE DEval(_, _, _)
DEval(t, env, tables) ==
  IF t.op = "const" THEN DLiteral(t.at)
  ELSE IF t.op = "var" THEN
    IF t.at = <<"null">> THEN DNull
    ELSE IF Len(t.at) = 1 /\ t.at[1] \in DOMAIN env THEN env[t.at[1]] ELSE DError
  ELSE IF t.op = "?" THEN
    LET c == DEval(t.args[1], env, tables) IN
    IF ~DIs(c, "bool") THEN DError ELSE DEval(t.args[IF c[2] THEN 2 ELSE 3], env, tables)
  ELSE LET v == [k \in DOMAIN t.args |-> DEval(t.args[k], env, tables)] IN
  IF t.op = "call" THEN DApply(t.at[1], t.args, v, env, tables)
  ELSE IF \E k \in DOMAIN v : v[k] = DError THEN DError
  ELSE CASE t.op = "!" -> IF DIs(v[1], "bool") THEN DBool(~v[1][2]) ELSE DError
         [] t.op \in {"+", "-", "*", "/"} -> DArithmetic(t.op, v[1], v[2])
         [] t.op \in {"&&", "||"} -> DLogical(t.op, v[1], v[2])
         [] t.op \in {"==", "!=", "<"} -> DCompare(t.op, v[1], v[2])
         [] OTHER -> DError

\* walkReferenceCalls: the tables an expression names, or a refusal.
RECURSIVE DTables(_)
DTables(t) ==
  LET below == [k \in DOMAIN t.args |-> DTables(t.args[k])]
      own == IF t.op = "call" /\ t.at[1] \in DReferences
             THEN IF Len(t.args) < 2 THEN {"refused"}
                  ELSE IF t.args[1].op # "const" \/ t.args[1].at[1] \notin DQuoted THEN {"refused"}
                  ELSE {t.args[1].at[1]}
             ELSE {}
  IN own \cup UNION {below[k] : k \in DOMAIN below}

-----------------------------------------------------------------------------
\* The documented grammar: levels of operators, lowest first, each grouping from
\* the left.
DDocumented == <<{"||", "&&"}, {"==", "!=", "<"}, {"+", "-"}, {"*", "/"}>>
RECURSIVE DReading(_)
DReading(s) ==
  LET lvl == {k \in 1..4 : \E i \in DOMAIN s : s[i] \in DDocumented[k]}
      at == Max({i \in DOMAIN s : s[i] \in DDocumented[Min(lvl)]})
  IN IF lvl = {} THEN IF DConstant(s) THEN DLeaf("const", s) ELSE DLeaf("var", s)
     ELSE DNode(s[at], <<DReading(SubSeq(s, 1, at - 1)), DReading(SubSeq(s, at + 1, Len(s)))>>)

DSame(a, b) == (a = DError /\ b = DError) \/ (a # DError /\ b # DError /\ DEqual(a, b))
\* A chain mixes no two operators of one of the levels.
DUnmixed(s, levels) == \A k \in levels : Cardinality(DDocumented[k] \cap ToSet(s)) <= 1

\* A chain of operands and operators is grouped as the documented grammar says, as
\* far as no two operators of one level are mixed.  Where only arithmetic ones are
\* the parser groups otherwise (x * 2 / 2 as x * (2 / 2)), with the same value but
\* for rounding.
DChainHolds(s, env) ==
  /\ DUnmixed(s, 1..4) => DParse(s) = DReading(s)
  /\ DUnmixed(s, 1..2) => DSame(DEval(DParse(s), env, <<>>), DEval(DReading(s), env, <<>>))

\* A tree printed with parentheses around every operand that is not an atom.  A
\* signed literal needs them: 2 / -1 splits at the minus.
RECURSIVE DPrint(_)
DAtom(t) == IF t.op = "call" \/ Len(t.at) = 1 THEN DPrint(t) ELSE <<"(">> \o DPrint(t) \o <<")">>
DPrint(t) ==
  CASE t.op \in {"var", "const"} -> t.at
    [] t.op = "!" -> <<"!">> \o DAtom(t.args[1])
    [] t.op = "?" -> DAtom(t.args[1]) \o <<"?">> \o DAtom(t.args[2]) \o <<":">> \o DAtom(t.args[3])
    [] t.op = "call" -> t.at \o <<"(">> \o
         FlattenSeq([k \in DOMAIN t.args |-> DPrint(t.args[k]) \o IF k < Len(t.args) THEN <<",">> ELSE <<>>])
         \o <<")">>
    [] OTHER -> DAtom(t.args[1]) \o <<t.op>> \o DAtom(t.args[2])

\* Printing and parsing give the tree back.  When the pre-flight walk accepts an
\* expression and every table it names is declared, no call fails for its table:
\* declaring every possible table changes no value.
DPrintHolds(t, env, tables) ==
  /\ DParse(DPrint(t)) = t
  /\ ("refused" \notin DTables(t) /\ DTables(t) \subseteq DOMAIN tables) =>
       DEval(t, env, tables) = DEval(t, env, [q \in DQuoted |-> IF q \in DOMAIN tables THEN tables[q] ELSE <<>>])
\* Rewriting a text twice is rewriting it once, and the case of a word does not
\* depend on the order of the two rewritings.
DRewriteHolds(s) ==
  LET norm(t) == DRewrite("normalize_space", t) IN
  /\ \A f \in DTexts : DRewrite(f, DRewrite(f, s)) = DRewrite(f, s)
  /\ \A f \in DTexts : norm(DRewrite(f, s)) = DRewrite(f, norm(s))
  /\ norm(s) # <<>> => norm(s)[1] # " " /\ norm(s)[Len(norm(s))] # " "
\* A masked text keeps its length, and shows no more than the counts allow unless
\* it is no longer than they are.
DMaskHolds(s, m, n) ==
  LET shown(r) == {i \in DOMAIN s : r[i] # "X"}
      t == DMask("mask_tail", <<DText(s), DNum(m, 1)>>)[2]
      u == DMask("mask_middle", <<DText(s), DNum(m, 1), DNum(n, 1)>>)[2]
  IN /\ Len(t) = Len(s) /\ (m < Len(s) => shown(t) = (Len(s) - m + 1)..Len(s))
     /\ Len(u) = Len(s) /\ (m + n < Len(s) => shown(u) = 1..m \cup (Len(s) - n + 1)..Len(s))
=============================================================================
