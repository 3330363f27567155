--------------------------- MODULE InputIdentity ---------------------------
(* A file list that declares what its inputs contain, and the run that       *)
(* checks each input against its line while other programs may still write   *)
(* or remove the files.  A digest is the content itself: equal digests mean   *)
(* equal bytes.                                                              *)
EXTENDS Integers, Sequences, FiniteSets, SequencesExt

CONSTANTS JEdits,       \* how often another program changes a file
          JLists        \* the lists a run may be given, as sequences of lines
ASSUME JEditsAssumption == JEdits \in Nat
ASSUME JListsAssumption == \A lines \in JLists : lines \in Seq(ToSet(lines))

-----------------------------------------------------------------------------
\* The list.  A line is [kind, ref, fields]; fields are the <<key, value>> of an
\* object line in order, value a reference, a size or a content.
JRefs == {"f", "g"}
JNone == [bound |-> FALSE, size |-> 0, sha |-> <<>>]

JGood(key, v) ==
  CASE key = "uri" -> v.kind = "ref"
    [] key = "size" -> v.kind = "size" /\ v.size >= 0
    [] key = "sha256" -> v.kind = "sha"
    [] OTHER -> FALSE
JField(fields, key) == (CHOOSE p \in ToSet(fields) : p[1] = key)[2]
\* Exactly the three fields, each once and well formed.
JLineRefused(line) ==
  \/ line.kind = "scheme"
  \/ line.kind = "object" /\
       \/ {p[1] : p \in ToSet(line.fields)} # {"uri", "size", "sha256"}
       \/ Len(line.fields) # 3
       \/ \E p \in ToSet(line.fields) : ~JGood(p[1], p[2])
JEntry(line) ==
  IF line.kind = "object"
  THEN [ref |-> JField(line.fields, "uri").ref,
        decl |-> [bound |-> TRUE, size |-> JField(line.fields, "size").size, sha |-> JField(line.fields, "sha256").sha]]
  ELSE [ref |-> line.ref, decl |-> JNone]
\* The lines that name an input, in order.
JNamed(lines) ==
  LET kept == {n \in DOMAIN lines : lines[n].kind # "comment"}
  IN  [k \in 1..Cardinality(kept) |-> lines[CHOOSE n \in kept : Cardinality({m \in kept : m <= n}) = k]]
JListRefused(lines) == JNamed(lines) = <<>> \/ \E l \in ToSet(JNamed(lines)) : JLineRefused(l)

-----------------------------------------------------------------------------
VARIABLES jLines, jMode,        \* the list and the command line
          jFile, jEdits,        \* the files: [there, bytes]; changes so far
          jEntries, jAt, jPc,   \* the parsed list, the input in hand, the step
          jSnap,                \* its private copy: [held, bytes]
          jBuilt,               \* the bytes its rows were built from
          jOut,                 \* per input: [state, bytes, sha]
          jExit
jvars == <<jLines, jMode, jFile, jEdits, jEntries, jAt, jPc, jSnap, jBuilt, jOut, jExit>>

\* The drivers: extract-multi, the buffered one of extract, and its streaming and
\* aggregate ones.  Row identity is for aggregates and extract-multi.
JModes == {m \in [cont : BOOLEAN, identity : BOOLEAN, driver : {"multi", "buffered", "streamed"}] :
             m.driver = "buffered" => ~m.identity}
JBytes == {<<"a">>, <<"b">>, <<"a", "b">>}
JFiles == [there : BOOLEAN, bytes : JBytes]
JNoSnap == [held |-> FALSE, bytes |-> <<>>]

JInit ==
  /\ jLines \in JLists /\ jMode \in JModes
  /\ jFile \in [JRefs -> {f \in JFiles : f.bytes = <<"a">>}]
  /\ jEdits = 0 /\ jEntries = <<>> /\ jAt = 1 /\ jPc = "list"
  /\ jSnap = JNoSnap /\ jBuilt = <<>> /\ jOut = <<>> /\ jExit = "running"

JEnd(exit) == jExit' = exit /\ jPc' = "done"
\* readFileListRefs.
JReadList ==
  /\ jPc = "list"
  /\ IF JListRefused(jLines) THEN JEnd("error") /\ UNCHANGED <<jEntries, jOut>>
     ELSE /\ jEntries' = [i \in DOMAIN JNamed(jLines) |-> JEntry(JNamed(jLines)[i])]
          /\ jOut' = [i \in DOMAIN JNamed(jLines) |-> [state |-> "pending", bytes |-> <<>>, sha |-> <<>>]]
          /\ jPc' = "preflight" /\ UNCHANGED jExit
  /\ UNCHANGED <<jLines, jMode, jFile, jEdits, jAt, jSnap, jBuilt>>

\* Variant: only the first input is opened.
JMissingFirst == ~jFile[jEntries[1].ref].there
\* preflightLocalInputs: every input is opened and closed.
JMissing == \E e \in ToSet(jEntries) : ~jFile[e.ref].there
JPreflight ==
  /\ jPc = "preflight"
  /\ IF jMode.driver # "multi" /\ ~jMode.cont /\ JMissing THEN JEnd("error")
     ELSE jPc' = "stat" /\ UNCHANGED jExit
  /\ UNCHANGED <<jLines, jMode, jFile, jEdits, jEntries, jAt, jSnap, jBuilt, jOut>>

\* declarationAt: by place in the list, never by reference.
JDeclaration == jEntries[jAt].decl
JSource == jFile[jEntries[jAt].ref]
JBound == JDeclaration.bound \/ jMode.identity

\* The next input, or the end of the run: dispositionFailure is its error.
JAdvance ==
  IF jAt < Len(jEntries) THEN jAt' = jAt + 1 /\ jPc' = "stat" /\ UNCHANGED jExit
  ELSE JEnd(IF \A i \in DOMAIN jOut' : jOut'[i].state = "applied" THEN "ok"
            ELSE IF jMode.cont THEN "partial" ELSE "error") /\ UNCHANGED jAt
\* An input that failed is recorded, and ends the run unless it is to continue; the
\* buffered driver goes on anyway when the result carries a failed disposition.
JFailed(state) ==
  /\ jOut' = [jOut EXCEPT ![jAt].state = state]
  /\ \/ (jMode.cont \/ jMode.driver = "buffered") /\ JAdvance
     \/ ~jMode.cont /\ JEnd("error") /\ UNCHANGED jAt
\* unavailableClass decides the recorded reason.
JReason == IF JSource.there THEN "failed" ELSE "unavailable"

\* snapshotAndIdentifyInput: stat and compare the size; open.
JStat ==
  /\ jPc = "stat"
  /\ jBuilt' = <<>>
  /\ IF ~JBound THEN jPc' = "parse" /\ UNCHANGED <<jAt, jSnap, jOut, jExit>>
     ELSE IF ~JSource.there \/ (JDeclaration.bound /\ Len(JSource.bytes) # JDeclaration.size)
     THEN JFailed(JReason) /\ UNCHANGED jSnap
     ELSE jPc' = "open" /\ UNCHANGED <<jAt, jSnap, jOut, jExit>>
  /\ UNCHANGED <<jLines, jMode, jFile, jEdits, jEntries>>
JOpen ==
  /\ jPc = "open"
  /\ IF JSource.there THEN jPc' = "copy" /\ jSnap' = [held |-> TRUE, bytes |-> <<>>] /\ UNCHANGED <<jAt, jOut, jExit>>
     ELSE JFailed(JReason) /\ UNCHANGED jSnap
  /\ UNCHANGED <<jLines, jMode, jFile, jEdits, jEntries, jBuilt>>
\* The copy reads the open file a piece at a time.
JCopy ==
  /\ jPc = "copy"
  /\ IF Len(jSnap.bytes) < Len(JSource.bytes)
     THEN jSnap' = [jSnap EXCEPT !.bytes = Append(@, JSource.bytes[Len(@) + 1])] /\ UNCHANGED jPc
     ELSE jPc' = "verify" /\ UNCHANGED jSnap
  /\ UNCHANGED <<jLines, jMode, jFile, jEdits, jEntries, jAt, jBuilt, jOut, jExit>>
\* The size and the digest of what was copied; a mismatch drops the copy, if it can.
JVerify ==
  /\ jPc = "verify"
  /\ IF JDeclaration.bound /\ (Len(jSnap.bytes) # JDeclaration.size \/ jSnap.bytes # JDeclaration.sha)
     THEN jSnap' \in {JNoSnap, jSnap} /\ JFailed("failed")
     ELSE jPc' = "parse" /\ UNCHANGED <<jSnap, jAt, jOut, jExit>>
  /\ UNCHANGED <<jLines, jMode, jFile, jEdits, jEntries, jBuilt>>

\* Variant: the source is parsed, not the copy that was checked.
JTargetSource == JSource
\* The bytes that are parsed.
JTarget == IF JBound THEN [there |-> TRUE, bytes |-> jSnap.bytes] ELSE JSource
JParse ==
  /\ jPc = "parse"
  /\ IF JTarget.there THEN jPc' = (IF JBound THEN "remove" ELSE "hash") /\ jBuilt' = JTarget.bytes /\ UNCHANGED <<jAt, jOut, jExit>>
     ELSE JFailed("unavailable") /\ UNCHANGED jBuilt
  /\ UNCHANGED <<jLines, jMode, jFile, jEdits, jEntries, jSnap>>

JSettle(sha) ==
  /\ jOut' = [jOut EXCEPT ![jAt] = [state |-> "applied", bytes |-> jBuilt, sha |-> sha]]
  /\ JAdvance
\* Without a declaration the digest is taken of the file after it was parsed.  A
\* file that is gone then is a failed input of extract-multi, and ends an extract:
\* its rows may be written, but no manifest is.
JHash ==
  /\ jPc = "hash"
  /\ IF JSource.there THEN JSettle(JSource.bytes)
     ELSE IF jMode.driver = "multi" THEN JFailed("unavailable")
     ELSE JEnd("error") /\ UNCHANGED <<jAt, jOut>>
  /\ UNCHANGED <<jLines, jMode, jFile, jEdits, jEntries, jSnap, jBuilt>>
\* The copy goes before the rows are committed; when it cannot be removed the rows
\* are dropped and the run ends.
JRemove ==
  /\ jPc = "remove"
  /\ \/ jSnap' = JNoSnap /\ JSettle(jSnap.bytes)
     \/ jOut' = [jOut EXCEPT ![jAt].state = "failed"] /\ JEnd("error") /\ UNCHANGED <<jSnap, jAt>>
  /\ UNCHANGED <<jLines, jMode, jFile, jEdits, jEntries, jBuilt>>

\* Another program writes or removes a file.
JEdit ==
  /\ jPc # "done" /\ jEdits < JEdits
  /\ \E r \in JRefs, f \in JFiles :
       /\ f # jFile[r] /\ (~f.there => f.bytes = jFile[r].bytes)
       /\ jFile' = [jFile EXCEPT ![r] = f]
  /\ jEdits' = jEdits + 1
  /\ UNCHANGED <<jLines, jMode, jEntries, jAt, jPc, jSnap, jBuilt, jOut, jExit>>

JNext == JReadList \/ JPreflight \/ JStat \/ JOpen \/ JCopy \/ JVerify \/ JParse \/ JHash \/ JRemove \/ JEdit
JSpec == JInit /\ [][JNext]_jvars

-----------------------------------------------------------------------------
\* Whatever other programs do to the files, an applied input that its line declares,
\* or that a run with input identity reads, has its rows from exactly the bytes whose
\* digest the manifest gives, and from the bytes declared on its own line; an input
\* on two lines is held to each.  A run that says ok leaves no private copy.
InputIdentityKept ==
  /\ \A i \in DOMAIN jOut : jOut[i].state = "applied" =>
       LET line == JNamed(jLines)[i] IN
       /\ (line.kind = "object" \/ jMode.identity) => jOut[i].bytes = jOut[i].sha
       /\ line.kind = "object" => \E p \in ToSet(line.fields) : p[1] = "sha256" /\ p[2].sha = jOut[i].bytes
  /\ jExit = "ok" => ~jSnap.held
\* A fail-fast extract that names a missing file writes no row of its siblings, as long
\* as the files stay as they are; and a run that says ok applied every line.
MissingStopsFirst ==
  /\ jMode.driver # "multi" /\ ~jMode.cont /\ jEdits = 0 /\ (\E l \in ToSet(JNamed(jLines)) : l.kind = "uri" /\ ~jFile[l.ref].there) =>
       \A i \in DOMAIN jOut : jOut[i].state # "applied"
  /\ jExit = "ok" => Len(jOut) = Len(JNamed(jLines)) /\ \A i \in DOMAIN jOut : jOut[i].state = "applied"
============================================================================
