---------------------------- MODULE MCAggregateRun ----------------------------
(* Model values of AggregateRun for TLC.  With a byte cap of 4, rows of    *)
(* sizes 1, 3 and 5 fill a shard, overflow it, and fit in none.            *)
EXTENDS AggregateRun

MixedRows == {<<>>, <<1>>, <<3, 3>>, <<1, 5>>}
(* extract-multi, local, everything buffered, both kinds of input failure. *)
LocalMulti ==
    [inputs |-> 2, recipes |-> 2, streaming |-> FALSE, cloud |-> FALSE, floors |-> TRUE,
     continueOnError |-> TRUE, emitInputIdentity |-> FALSE, maxRecords |-> 3, maxBytes |-> 4]
(* extract-multi to an object store, fail-fast, one row per shard, with    *)
(* and without the buffer.                                                 *)
CloudMulti ==
    [inputs |-> 2, recipes |-> 2, streaming |-> FALSE, cloud |-> TRUE, floors |-> FALSE,
     continueOnError |-> FALSE, emitInputIdentity |-> FALSE, maxRecords |-> 1, maxBytes |-> 4]
CloudFloors == [CloudMulti EXCEPT !.recipes = 1, !.floors = TRUE]
(* extract over more inputs: buffered to an object store with row          *)
(* identities, and streamed directly into local shards.                    *)
CloudStream ==
    [inputs |-> 4, recipes |-> 1, streaming |-> TRUE, cloud |-> TRUE, floors |-> FALSE,
     continueOnError |-> TRUE, emitInputIdentity |-> TRUE, maxRecords |-> 3, maxBytes |-> 4]
LocalStream ==
    [CloudStream EXCEPT !.cloud = FALSE, !.continueOnError = FALSE,
                        !.emitInputIdentity = FALSE, !.maxRecords = 2]

AllCommandLines == {LocalMulti, CloudMulti, CloudFloors, CloudStream, LocalStream}
==============================================================================
