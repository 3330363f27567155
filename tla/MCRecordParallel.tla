--------------------------- MODULE MCRecordParallel ---------------------------
(* Model values of RecordParallel for TLC.                                 *)
EXTENDS RecordParallel

Cmd(route, index, declared, requested, skipLarge, verify) ==
    [route |-> route, index |-> index, declared |-> declared, requested |-> requested,
     skipLarge |-> skipLarge, verify |-> verify]

(* A window of two with two workers, so that a slow front record stops the *)
(* scheduler; too large, failing and unreadable records, an index with its *)
(* count up front or (0) behind the records, and one with a wrong count.   *)
RecordCommands ==
    {Cmd("xml", <<"ok", "large", "ok", "ok">>, 4, 2, TRUE, FALSE),
     Cmd("xml", <<"ok", "bad", "large", "ok">>, 0, 2, FALSE, TRUE),
     Cmd("xml", <<"ok", "unreadable">>, 2, 2, FALSE, FALSE),
     Cmd("json", <<"ok", "ok", "ok">>, 3, 2, FALSE, TRUE),
     Cmd("json", <<"ok", "bad", "ok", "large">>, 4, 0, FALSE, FALSE),
     Cmd("json", <<"ok", "unreadable">>, 2, 0, FALSE, FALSE),
     Cmd("json", <<"ok", "ok">>, 3, 2, FALSE, FALSE)}

UnreadableIndex == {Cmd("xml", <<"ok", "unreadable">>, 2, 2, FALSE, FALSE)}
===============================================================================
