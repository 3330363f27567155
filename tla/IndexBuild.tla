----------------------------- MODULE IndexBuild -----------------------------
(* `sumpter index build`: the passes over the source, the JSON and the         *)
(* seekable-zstd writer driven side by side, the publication of their files    *)
(* over those of an earlier build, and the rollback when a step fails.         *)
(* A file's content is the build it belongs to ("old" or "new"); the source is *)
(* its content, which may change and change back under the build.  Every state *)
(* is one in which the process may die or a reader may look.                   *)
EXTENDS Naturals, Sequences

CONSTANTS
  IRecords,    \* records in the source
  MaxEdits,    \* how often the source changes during the build
  MaxIFaults   \* how many file operations may fail

VARIABLES
  iOpts,    \* [format, writers]: the source syntax and the writers, in order
  iPrior,   \* the artifacts of an earlier build that exist before this one
  iSrc,     \* the source's content
  iSince,   \* how often it changed after the header's hash was taken
  iHash,    \* the version the header's hash was taken from
  iTable,   \* the version the namespace table was taken from
  iRead,    \* the version each record was read from
  iPc,      \* the step of the build
  iStage,   \* how far each writer is
  iDisk,    \* the files
  iFailed,  \* whether BuildTo returns an error
  iFaulted  \* the steps that failed
ivars == <<iOpts, iPrior, iSrc, iSince, iHash, iTable, iRead, iPc, iStage, iDisk, iFailed, iFaulted>>

IWriters == {"json", "szst"}
IArtifacts(w) == IF w = "json" THEN {"json"} ELSE {"records", "header"}
IFinals == {"json", "records", "header"}
IPaths == IFinals \cup {"jsonTmp", "recordsTmp", "headerTmp"} \cup {"jsonBak", "recordsBak", "headerBak"}
IUses(w) == \E i \in DOMAIN iOpts.writers : iOpts.writers[i] = w

\* rename of a path that is not there is not an error of any caller.
IMove(from, to) ==
  IF iDisk[from] = "none" THEN iDisk ELSE [iDisk EXCEPT ![to] = iDisk[from], ![from] = "none"]
IErase(p) == [iDisk EXCEPT ![p] = "none"]

IFault == Len(iFaulted) < MaxIFaults /\ iFaulted' = Append(iFaulted, iPc)
IWell == UNCHANGED iFaulted
IGoto(pc) == iPc' = pc
\* Every error return of BuildTo runs the deferred Close of the started writers.
IFail == iPc' = "close" /\ iFailed' = TRUE

-----------------------------------------------------------------------------
\* The passes over the source.

\* The first pass hashes the source.
IFirstPass(next) ==
  /\ iPc = "hash"
  /\ \/ IFault /\ IFail /\ UNCHANGED <<iHash, iSince>>
     \/ IWell /\ iHash' = iSrc /\ iSince' = 0 /\ UNCHANGED iFailed /\ IGoto(next)
  /\ UNCHANGED <<iOpts, iPrior, iSrc, iTable, iRead, iStage, iDisk>>
\* Format, stat, compression and selector refuse the build before the pass.
IHashSource == iOpts.format = "xml" /\ IFirstPass("contexts")
IHashJson == iOpts.format = "json" /\ IFirstPass("start")

\* xml: a pass of its own collects the namespace contexts the header lists.
ICollectContexts ==
  /\ iPc = "contexts"
  /\ \/ IFault /\ IFail /\ UNCHANGED iTable
     \/ IWell /\ iTable' = iSrc /\ IGoto("start") /\ UNCHANGED iFailed
  /\ UNCHANGED <<iOpts, iPrior, iSrc, iSince, iHash, iRead, iStage, iDisk>>

\* The file a writer's Start creates.
IFirstFile == [json |-> "jsonTmp", szst |-> "recordsTmp"]
\* The writers start in order; a writer that fails to start removes what it made.
IStart(w) ==
  /\ iPc = "start" /\ IUses(w) /\ iStage[w] = "idle"
  /\ w = "szst" /\ IUses("json") => iStage["json"] = "started"
  /\ \/ IFault /\ IFail /\ UNCHANGED <<iStage, iDisk>>
     \/ /\ IWell /\ iStage' = [iStage EXCEPT ![w] = "started"]
        /\ iDisk' = [iDisk EXCEPT ![IFirstFile[w]] = "new"]
        /\ IGoto(IF \A v \in IWriters : IUses(v) => iStage'[v] = "started" THEN "scan" ELSE "start")
        /\ UNCHANGED iFailed
  /\ UNCHANGED <<iOpts, iPrior, iSrc, iSince, iHash, iTable, iRead>>

\* The record pass: a record's range, hash and context go to every writer.
IRecord ==
  /\ iPc = "scan" /\ Len(iRead) < IRecords
  /\ \/ IFault /\ IFail /\ UNCHANGED iRead
     \/ IWell /\ iRead' = Append(iRead, iSrc) /\ UNCHANGED <<iPc, iFailed>>
  /\ UNCHANGED <<iOpts, iPrior, iSrc, iSince, iHash, iTable, iStage, iDisk>>
IScan == iOpts.format = "xml" /\ IRecord
IScanJson == iOpts.format = "json" /\ IRecord

\* Variant: the hash of the source is not taken again.
IRehashSkipped ==
  /\ iPc = "scan" /\ Len(iRead) = IRecords /\ IWell /\ IGoto("prepare") /\ UNCHANGED iFailed
  /\ UNCHANGED <<iOpts, iPrior, iSrc, iSince, iHash, iTable, iRead, iStage, iDisk>>
\* json: the source is hashed again after the pass and must not have changed; an
\* xml source is not looked at again.
IRehash ==
  /\ iPc = "scan" /\ Len(iRead) = IRecords
  /\ \/ IFault /\ iOpts.format = "json" /\ IFail
     \/ IWell /\ iOpts.format = "json" /\ iSrc # iHash /\ IFail
     \/ IWell /\ (iOpts.format = "json" => iSrc = iHash) /\ IGoto("prepare") /\ UNCHANGED iFailed
  /\ UNCHANGED <<iOpts, iPrior, iSrc, iSince, iHash, iTable, iRead, iStage, iDisk>>

\* Someone writes the source while it is being indexed: other content, which it
\* may have had before.
IEdit ==
  /\ iPc \in {"hash", "contexts", "start", "scan"} /\ iSince < MaxEdits
  /\ iSince' = iSince + 1 /\ iSrc' \in (0..MaxEdits) \ {iSrc}
  /\ UNCHANGED <<iOpts, iPrior, iHash, iTable, iRead, iPc, iStage, iDisk, iFailed, iFaulted>>

-----------------------------------------------------------------------------
\* Publication.  After(pc) says where a phase continues when a writer is unused.

IAfterPrepare == IF IUses("json") THEN "stageJson" ELSE "stageRecords"
IAfterJson == IF IUses("szst") THEN "stageRecords" ELSE "completeJson"
IAfterPair == IF IUses("json") THEN "completeJson" ELSE "completeRecords"
IAfterComplete == IF IUses("szst") THEN "completeRecords" ELSE "done"

\* What a failing Prepare may leave: a seekable writer whose header cannot be
\* written removes its temporary files.
IUnprepared(w) == {iDisk} \cup (IF w = "szst" THEN {IErase("recordsTmp")} ELSE {})
\* Every temporary file is finished before any final path changes.
IPrepare(w) ==
  /\ iPc = "prepare" /\ IUses(w) /\ iStage[w] = "started"
  /\ w = "szst" /\ IUses("json") => iStage["json"] = "prepared"
  /\ \/ IFault /\ IFail /\ UNCHANGED iStage /\ iDisk' \in IUnprepared(w)
     \/ /\ IWell /\ iStage' = [iStage EXCEPT ![w] = "prepared"]
        /\ iDisk' = IF w = "szst" THEN [iDisk EXCEPT !["headerTmp"] = "new"] ELSE iDisk
        /\ IGoto(IF \A v \in IWriters : IUses(v) => iStage'[v] = "prepared" THEN IAfterPrepare ELSE "prepare")
        /\ UNCHANGED iFailed
  /\ UNCHANGED <<iOpts, iPrior, iSrc, iSince, iHash, iTable, iRead>>

\* A step of a file program: what it does to the disk, where it goes on success
\* and where on failure.
IDo(disk, ok, bad) == [disk |-> disk, ok |-> ok, bad |-> bad]

\* JSONIndexWriter.Commit.
ICommitJson ==
  [stageJson   |-> IDo(IMove("json", "jsonBak"), "publishJson", "close"),
   publishJson |-> IDo(IMove("jsonTmp", "json"), IAfterJson, "restoreJson"),
   restoreJson |-> IDo(IMove("jsonBak", "json"), "close", "close")]

\* Variant: the new records replace the old ones while the old header is in place.
ICommitPairHeaderLate ==
  [stageRecords   |-> IDo(IMove("records", "recordsBak"), "publishRecords", "close"),
   publishRecords |-> IDo(IMove("recordsTmp", "records"), "stageHeader", "restoreRecords"),
   stageHeader    |-> IDo(IMove("header", "headerBak"), "publishHeader", "dropRecords"),
   unstageRecords |-> IDo(iDisk, "close", "close"),
   publishHeader  |-> IDo(IMove("headerTmp", "header"), IAfterPair, "dropRecords"),
   dropRecords    |-> IDo(IErase("records"), "restoreRecords", "restoreRecords"),
   restoreRecords |-> IDo(IMove("recordsBak", "records"), "restoreHeader", "restoreHeader"),
   restoreHeader  |-> IDo(IMove("headerBak", "header"), "close", "close")]
\* publishSeekablePair: the old header goes before the old records come back and
\* the new header comes last, so a header is never beside foreign records.
ICommitPair ==
  [stageRecords   |-> IDo(IMove("records", "recordsBak"), "stageHeader", "close"),
   stageHeader    |-> IDo(IMove("header", "headerBak"), "publishRecords", "unstageRecords"),
   unstageRecords |-> IDo(IMove("recordsBak", "records"), "close", "close"),
   publishRecords |-> IDo(IMove("recordsTmp", "records"), "publishHeader", "restoreRecords"),
   publishHeader  |-> IDo(IMove("headerTmp", "header"), IAfterPair, "dropRecords"),
   dropRecords    |-> IDo(IErase("records"), "restoreRecords", "restoreRecords"),
   restoreRecords |-> IDo(IMove("recordsBak", "records"), "restoreHeader", "restoreHeader"),
   restoreHeader  |-> IDo(IMove("headerBak", "header"), "close", "close")]

\* The Complete methods: a writer is completed from here on, and only its backup
\* is left to remove.
IComplete ==
  [completeJson    |-> IDo(IErase("jsonBak"), IAfterComplete, "close"),
   completeRecords |-> IDo(IErase("recordsBak"), "completeHeader", "close"),
   completeHeader  |-> IDo(IErase("headerBak"), "done", "close")]

\* The Close methods, last writer first.
ICloseSteps ==
  [removeRecords |-> IDo(IErase("records"), "removeHeader", "removeHeader"),
   removeHeader  |-> IDo(IErase("header"), "backRecords", "backRecords"),
   backRecords   |-> IDo(IMove("recordsBak", "records"), "backHeader", "backHeader"),
   backHeader    |-> IDo(IMove("headerBak", "header"), "closeJson", "closeJson"),
   eraseHeaderTmp  |-> IDo(IErase("headerTmp"), "eraseRecordsTmp", "eraseRecordsTmp"),
   eraseRecordsTmp |-> IDo(IErase("recordsTmp"), "closeJson", "closeJson"),
   removeJson    |-> IDo(IErase("json"), "backJson", "backJson"),
   backJson      |-> IDo(IMove("jsonBak", "json"), "eraseJsonTmp", "eraseJsonTmp"),
   eraseJsonTmp  |-> IDo(IErase("jsonTmp"), "done", "done")]

\* What a step makes of the writers' flags.
IFlags(ok) ==
  CASE iPc = "publishJson" /\ ok   -> [iStage EXCEPT !["json"] = "committed"]
    [] iPc = "publishHeader" /\ ok -> [iStage EXCEPT !["szst"] = "committed"]
    [] iPc = "completeJson"        -> [iStage EXCEPT !["json"] = "completed"]
    [] iPc = "completeRecords"     -> [iStage EXCEPT !["szst"] = "completed"]
    [] OTHER                       -> iStage

IRun(program) ==
  /\ iPc \in DOMAIN program
  /\ LET s == program[iPc] IN
     \/ /\ IWell /\ iDisk' = s.disk /\ iStage' = IFlags(TRUE) /\ IGoto(s.ok)
        /\ iFailed' = (iFailed \/ s.ok = "close")
     \/ /\ IFault /\ UNCHANGED iDisk /\ iStage' = IFlags(FALSE) /\ IGoto(s.bad)
        /\ iFailed' = (iFailed \/ s.bad = "close")
  /\ UNCHANGED <<iOpts, iPrior, iSrc, iSince, iHash, iTable, iRead>>

\* A completed writer's Close does nothing; a committed one rolls back; another
\* removes its temporary files.
IClose ==
  /\ iPc \in {"close", "closeJson"}
  /\ LET w == IF iPc = "close" THEN "szst" ELSE "json"
         committed == IF w = "szst" THEN "removeRecords" ELSE "removeJson"
         started == IF w = "szst" THEN "eraseHeaderTmp" ELSE "backJson"
     IN IGoto(CASE iStage[w] = "committed" -> committed
                [] iStage[w] \in {"started", "prepared"} -> started
                [] OTHER -> IF w = "szst" THEN "closeJson" ELSE "done")
  /\ UNCHANGED <<iOpts, iPrior, iSrc, iSince, iHash, iTable, iRead, iStage, iDisk, iFailed, iFaulted>>

-----------------------------------------------------------------------------
IChoices == [format : {"xml", "json"}, writers : {<<"json">>, <<"szst">>, <<"json", "szst">>}]
IInit ==
  /\ iOpts \in IChoices /\ iPrior \in SUBSET IWriters
  /\ iSrc = 0 /\ iSince = 0 /\ iHash = 0 /\ iTable = 0 /\ iRead = <<>> /\ iPc = "hash"
  /\ iStage = [w \in IWriters |-> "idle"] /\ iFailed = FALSE /\ iFaulted = <<>>
  /\ iDisk = [p \in IPaths |-> IF \E w \in iPrior : p \in IArtifacts(w) THEN "old" ELSE "none"]

INext ==
  \/ IHashSource \/ IHashJson \/ ICollectContexts \/ IScan \/ IScanJson \/ IRehash \/ IEdit
  \/ (\E w \in IWriters : IStart(w) \/ IPrepare(w))
  \/ IRun(ICommitJson) \/ IRun(ICommitPair) \/ IRun(IComplete) \/ IRun(ICloseSteps) \/ IClose
ISpec == IInit /\ [][INext]_ivars

-----------------------------------------------------------------------------
IWasThere(p) == \E w \in iPrior : p \in IArtifacts(w)
IAsked(p) == \E w \in IWriters : IUses(w) /\ p \in IArtifacts(w)
IHalf == Len(iFaulted) > 1

\* Whenever the process dies: a seekable header stands beside the records of its
\* own build (unless two operations failed), and of an artifact that existed the
\* old or the new one is on disk, in place or as a backup.  When the build has
\* returned: success means every asked artifact is new and nothing else is left;
\* a failure of one operation outside Complete leaves every artifact as it was
\* before, and a backup or a temporary file only where its removal failed.
IndexPublication ==
  /\ (~IHalf /\ iDisk["header"] # "none" /\ iDisk["records"] # "none") =>
       iDisk["header"] = iDisk["records"]
  /\ IWasThere("json") => iDisk["json"] # "none" \/ iDisk["jsonBak"] # "none"
  /\ IWasThere("header") => \A b \in {<<"records", "recordsBak">>, <<"header", "headerBak">>} :
                              iDisk[b[1]] # "none" \/ iDisk[b[2]] # "none"
  /\ (iPc = "done" /\ ~iFailed) => /\ \A p \in IFinals : IAsked(p) => iDisk[p] = "new"
                                   /\ \A p \in IPaths \ IFinals : iDisk[p] = "none"
  /\ (iPc = "done" /\ iFailed /\ ~IHalf
      /\ \A i \in DOMAIN iFaulted : iFaulted[i] \notin DOMAIN IComplete) =>
       /\ \A p \in IFinals : iDisk[p] = IF IWasThere(p) THEN "old" ELSE "none"
       /\ \A p \in IPaths \ IFinals : iDisk[p] # "none" =>
            \E i \in DOMAIN iFaulted : iFaulted[i] \in DOMAIN ICloseSteps

IBuiltJson == iPc = "done" /\ ~iFailed /\ iOpts.format = "json"
\* An index of a json source describes one content of the source, its header's
\* hash and every record, unless the source was changed and changed back while it
\* was read: a single change cannot pass the second hash.
IndexOfOneSource == IBuiltJson /\ iSince < 2 => \A i \in DOMAIN iRead : iRead[i] = iHash
=============================================================================
