----------------------------- MODULE EventStream -----------------------------
(* The event stream of a process run (internal/processrun/emitter.go) and    *)
(* its driver in extract-multi: the main goroutine writes started, progress  *)
(* and one terminal event and closes; a heartbeat goroutine writes on a      *)
(* ticker.  A write that fails disables the emitter, tries to remove the     *)
(* partial stream and runs the card's Sweep as a callback outside the mutex; *)
(* a sync or close that fails at the end does the same.  The errors of these *)
(* removals are dropped by the code: either file may stay.                   *)
(*                                                                           *)
(* A critical section is one action, up to the point where the callback is   *)
(* run without the mutex and from there to its end.                          *)
EXTENDS Naturals, Sequences, FiniteSets

CONSTANTS MaxProgress,    \* progress events of the run
          MaxBeats,       \* ticks of the heartbeat, a bound
          Artifacts       \* descriptors published by the run

ASSUME StreamAssumption == MaxProgress \in Nat /\ MaxBeats \in Nat /\ IsFiniteSet(Artifacts)

VARIABLES lines,        \* the stream: a sequence of events with their numbers
          torn,         \* its last line is incomplete
          file,         \* "open", "kept" (closed), "gone", or "left": its removal failed
          seq, disabled, terminal, started, stopped,
          refs,         \* artifact references collected for the terminal event
          withheld,     \* withholdFired
          published,    \* card.json is in place
          sweep,        \* Card.Sweep: "none", "done", or "failed" (the card stayed)
          mpc, hpc,     \* what main and the heartbeat do next
          beats, clean, \* ticks so far; the run did not panic
          done          \* progress reported
svars == <<lines, torn, file, seq, disabled, terminal, started, stopped, refs, withheld, published, sweep, mpc, hpc, beats, clean, done>>

Terminals == {"completed", "canceled", "failed"}
Event(name, arts) == [event |-> name, seq |-> seq, artifacts |-> arts]

StreamInit ==
    /\ lines = <<>> /\ torn = FALSE /\ file = "open" /\ seq = 0 /\ published = TRUE /\ sweep = "none"
    /\ disabled = FALSE /\ terminal = FALSE /\ started = FALSE /\ stopped = FALSE
    /\ refs = {} /\ withheld = FALSE /\ mpc = "started" /\ hpc = "off" /\ beats = 0 /\ done = 0
    /\ clean \in BOOLEAN

(* writeLocked appends a whole line and counts it.                           *)
Append1(name, arts) ==
    /\ lines' = Append(lines, Event(name, arts)) /\ seq' = seq + 1
    /\ UNCHANGED <<torn, file, disabled, stopped, withheld>>
(* os.Remove of the stream, whose error is dropped.                          *)
Removal == {"gone", "left"}
(* A failed or short write: disableLocked closes the writer, stops the       *)
(* heartbeat and removes the stream unless its terminal event is in it.      *)
disableLocked ==
    /\ torn' \in BOOLEAN
    /\ disabled' = TRUE /\ stopped' = TRUE /\ withheld' = (withheld \/ ~terminal)
    /\ file' \in IF terminal THEN {"kept"} ELSE Removal
    /\ UNCHANGED <<lines, seq>>
Skip == UNCHANGED <<lines, torn, file, seq, disabled, stopped, withheld>>

(* A write whose failure sends the writer into the callback, to return where *)
(* it was.                                                                   *)
writeLocked(name, arts, ok, bad) == (Append1(name, arts) /\ ok) \/ (disableLocked /\ bad)

Main(where) == mpc = where
MainTo(where) == mpc' = where /\ UNCHANGED hpc
Beat(where) == hpc' = where /\ UNCHANGED mpc

Started ==
    /\ Main("started")
    /\ writeLocked("started", {},
                   started' = TRUE /\ hpc' = "idle" /\ mpc' = "run",
                   UNCHANGED started /\ MainTo("callback"))
    /\ UNCHANGED <<terminal, refs, published, sweep, beats, clean, done>>

(* A progress report; nothing is written on a disabled emitter.              *)
Progress ==
    /\ Main("run") /\ done < MaxProgress /\ done' = done + 1
    /\ \/ ~disabled /\ writeLocked("progress", {}, MainTo("run"), MainTo("callback"))
       \/ disabled /\ Skip /\ MainTo("run")
    /\ UNCHANGED <<terminal, started, refs, published, sweep, beats, clean>>

ArtifactPublished ==
    /\ Main("run") /\ \E a \in Artifacts \ refs : refs' = IF disabled THEN refs ELSE refs \cup {a}
    /\ Skip /\ UNCHANGED <<terminal, started, published, sweep, mpc, hpc, beats, clean, done>>

(* Variant: the heartbeat does not look whether the run has ended.           *)
HeartbeatLate ==
    /\ hpc = "tick"
    /\ \/ ~disabled /\ file = "open" /\ writeLocked("heartbeat", {}, Beat("idle"), Beat("callback"))
       \/ (disabled \/ file # "open") /\ Skip /\ Beat("idle")
    /\ UNCHANGED <<terminal, started, refs, published, sweep, beats, clean, done>>

(* The heartbeat goroutine: a tick is taken from the ticker without the      *)
(* mutex, and written if the emitter still allows it once the mutex is had.  *)
Tick ==
    /\ hpc = "idle" /\ beats < MaxBeats
    /\ beats' = beats + 1 /\ hpc' = "tick"
    /\ Skip /\ UNCHANGED <<terminal, started, refs, published, sweep, mpc, clean, done>>
Heartbeat ==
    /\ hpc = "tick"
    /\ \/ ~disabled /\ ~terminal /\ file = "open" /\ writeLocked("heartbeat", {}, Beat("idle"), Beat("callback"))
       \/ (disabled \/ terminal \/ file # "open") /\ Skip /\ Beat("idle")
    /\ UNCHANGED <<terminal, started, refs, published, sweep, beats, clean, done>>
HeartbeatStops ==
    /\ hpc = "idle" /\ stopped /\ Beat("done")
    /\ Skip /\ UNCHANGED <<terminal, started, refs, published, sweep, beats, clean, done>>

(* Card.Sweep acts once: it removes card.json, and the card stays where the  *)
(* removal, or the reading of the claim before it, fails.                    *)
SweepCard ==
    \/ sweep = "none" /\ sweep' = "done" /\ published' = FALSE
    \/ sweep = "none" /\ sweep' = "failed" /\ UNCHANGED published
    \/ sweep # "none" /\ UNCHANGED <<sweep, published>>
(* The callback and the return to the section that ran it.                   *)
OnWithhold ==
    /\ \/ mpc = "callback" /\ MainTo("run")
       \/ mpc = "closeCallback" /\ MainTo("closing")
       \/ hpc = "callback" /\ Beat("idle")
    /\ SweepCard
    /\ Skip /\ UNCHANGED <<terminal, started, refs, beats, clean, done>>

(* The deferred end of multiDispatcher.run: one terminal event of the run's  *)
(* class (a panic is never completed), if the emitter is still enabled.      *)
Terminal ==
    /\ Main("run")
    /\ \E class \in IF clean THEN Terminals ELSE {"failed"} :
          \/ /\ ~disabled /\ started
             /\ \/ /\ lines' = Append(lines, Event(class, refs)) /\ seq' = seq + 1 /\ terminal' = TRUE /\ stopped' = TRUE
                   /\ UNCHANGED <<torn, file, disabled, withheld>> /\ MainTo("close")
                \/ disableLocked /\ MainTo("endCallback") /\ UNCHANGED terminal
          \/ (disabled \/ ~started) /\ Skip /\ UNCHANGED terminal /\ MainTo("close")
    /\ UNCHANGED <<started, refs, published, sweep, beats, clean, done>>
EndCallback ==
    /\ Main("endCallback") /\ SweepCard /\ MainTo("close")
    /\ Skip /\ UNCHANGED <<terminal, started, refs, beats, clean, done>>

(* Variant: the card is left to the stream's withholding alone.              *)
CardCloseKeeps ==
    /\ Main("sweep") /\ MainTo("ended")
    /\ Skip /\ UNCHANGED <<terminal, started, refs, published, sweep, beats, clean, done>>

(* Close: stop the heartbeat, sync and close; where that fails durability is *)
(* not proven and the stream is withheld, its terminal event notwithstanding.*)
Close ==
    /\ Main("close") /\ stopped' = TRUE
    /\ \/ disabled /\ MainTo("sweep") /\ UNCHANGED <<file, disabled, withheld, torn>>
       \/ ~disabled /\ file' = "kept" /\ disabled' = TRUE /\ MainTo("sweep") /\ UNCHANGED <<withheld, torn>>
       \/ ~disabled /\ torn' \in BOOLEAN /\ file' \in Removal /\ withheld' = TRUE /\ MainTo("closeCallback") /\ UNCHANGED disabled
    /\ UNCHANGED <<lines, seq, terminal, started, refs, published, sweep, beats, clean, done>>
(* Back under the mutex after the callback of Close.                         *)
Closing ==
    /\ Main("closing") /\ terminal' = FALSE /\ disabled' = TRUE /\ MainTo("sweep")
    /\ UNCHANGED <<lines, torn, file, seq, stopped, withheld, started, refs, published, sweep, beats, clean, done>>
(* Card.Close(clean): a clean end withdraws the card.                        *)
CardClose ==
    /\ Main("sweep") /\ MainTo("ended")
    /\ (clean /\ SweepCard) \/ (~clean /\ UNCHANGED <<published, sweep>>)
    /\ Skip /\ UNCHANGED <<terminal, started, refs, beats, clean, done>>

(* The process has ended; its goroutines end with it.                        *)
StreamNext ==
    /\ mpc # "ended"
    /\ \/ Started \/ Progress \/ ArtifactPublished \/ Tick \/ Heartbeat \/ HeartbeatStops
       \/ OnWithhold \/ Terminal \/ EndCallback \/ Close \/ Closing \/ CardClose

StreamSpec == StreamInit /\ [][StreamNext]_svars

-------------------------------------------------------------------------------
InCallback == mpc \in {"callback", "endCallback", "closeCallback"} \/ hpc = "callback"

(* A stream on disk is one a reader can follow, whatever ticks and failures  *)
(* meet: started comes first, numbers run without a gap, there is one        *)
(* terminal event at most and nothing after it, with every artifact          *)
(* published before it.  Only a withheld stream whose removal failed may end *)
(* in a torn line or without a terminal event once the emitter is done with  *)
(* it.                                                                       *)
StreamWellFormed ==
    /\ file # "gone" =>
        /\ seq = Len(lines)
        /\ \A i \in DOMAIN lines :
             /\ lines[i].seq = i - 1 /\ (lines[i].event = "started") = (i = 1)
             /\ lines[i].event \in Terminals => i = Len(lines) /\ lines[i].artifacts = refs
    /\ file \in {"open", "kept"} => ~torn
    /\ file = "kept" => (lines # <<>> /\ lines[Len(lines)].event \in Terminals)
    /\ file = "left" => withheld

(* The card never points at a withheld stream, removed or left behind, except *)
(* while the callback that withdraws it is being run or when that one        *)
(* attempt failed; a process that ends cleanly leaves no card, with the same *)
(* exception; and one that panics keeps its card, to be found by, unless its *)
(* stream was withheld.                                                      *)
CardHasStream ==
    /\ published /\ file \in Removal => InCallback \/ sweep = "failed"
    /\ mpc = "ended" /\ clean => ~published \/ sweep = "failed"
    /\ ~clean /\ ~withheld => published
===============================================================================
