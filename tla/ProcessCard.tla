----------------------------- MODULE ProcessCard -----------------------------
(* The run slot of a run id (internal/processrun/card.go): a directory in   *)
(* which at most one live process owns claim.json, publishes card.json and  *)
(* writes events.ndjson.  Several processes started with the same run id    *)
(* race for the slot; any of them may die between two file operations, and  *)
(* a later process takes the slot over under a kernel lock.                 *)
(*                                                                          *)
(* A process is its (pid, start time) identity and the claim token it mints.*)
(* Every action is one file operation of one process, or the reads of one   *)
(* decision.  Temporary files have names of their own and are left out, and *)
(* the event stream is at its default place inside the slot.                *)
EXTENDS Naturals, FiniteSets

CONSTANTS CardProcs,      \* the processes started with the same run id
          Attempts,       \* tries of claimRunSlot (12 in the code)
          MaxCrashes,     \* bound on deaths in the middle of the protocol
          MaxCardFaults   \* bound on failing file operations

Nobody == "nobody"      \* no process: a name that is free, a lock that is not held

ASSUME CardAssumption == /\ IsFiniteSet(CardProcs) /\ Nobody \notin CardProcs
                         /\ Attempts \in Nat \ {0} /\ MaxCrashes \in Nat /\ MaxCardFaults \in Nat

VARIABLES slotDir,    \* the run directory exists
          reclaim,    \* holder of the kernel lock on reclaim.lock
          claim,      \* claim.json: NoClaim, or owner, written and state
          stale,      \* owners of the quarantine names claim.stale.<token>
          taking,     \* owner of the diagnostic claim.taking
          card,       \* owner of card.json
          events,     \* owner of events.ndjson
          life,       \* of each process: "new", "alive" or "dead"
          cpc,        \* what it does next
          how,        \* how it came to create a claim: "fresh", "adopt", "takeover"
          old,        \* the stale owner it takes over from
          tries,      \* attempts made
          verdict,    \* what OpenCard returned: "none", "owned", "exists", "setup"
          met,        \* history: another process lived during its present attempt
          dropped,    \* history: an operation failed whose error the code drops, see Drop
          crashes, cardFaults
faults == <<cardFaults, dropped>>
cvars == <<slotDir, reclaim, claim, stale, taking, card, events, life, cpc, how, old, tries,
           verdict, met, crashes, faults>>

NoClaim == [owner |-> Nobody, written |-> FALSE, state |-> "none"]
LiveClaim(p) == [owner |-> p, written |-> TRUE, state |-> "live"]

(* identityLive: the process of this pid and start time still runs.          *)
identityLive(p) == p \in CardProcs /\ life[p] = "alive"
(* readClaimFile fails on a missing file and on one not yet written.         *)
Readable == claim.owner # Nobody /\ claim.written
(* readSlotOwner: the claim's identity, else the card's.                     *)
readSlotOwner == IF Readable THEN claim.owner ELSE card
stillOwnClaim(p) == Readable /\ claim.owner = p

CardInit ==
    /\ slotDir = FALSE /\ reclaim = Nobody /\ claim = NoClaim /\ stale = {} /\ taking = Nobody
    /\ card = Nobody /\ events = Nobody /\ crashes = 0 /\ cardFaults = 0 /\ dropped = FALSE
    /\ life = [p \in CardProcs |-> "new"] /\ cpc = [p \in CardProcs |-> "off"]
    /\ how = [p \in CardProcs |-> "fresh"] /\ old = [p \in CardProcs |-> Nobody]
    /\ met = [p \in CardProcs |-> FALSE]
    /\ tries = [p \in CardProcs |-> 0] /\ verdict = [p \in CardProcs |-> "none"]

At(p, where) == life[p] = "alive" /\ cpc[p] = where
Go(p, where) == cpc' = [cpc EXCEPT ![p] = where]
(* rl.Release, where the process holds the lock.                             *)
Unlock(p) == reclaim' = IF reclaim = p THEN Nobody ELSE reclaim
(* A file operation fails.  Drop is for the dropped errors a later process   *)
(* can feel: the claim, card or claim.taking of a dead owner is not removed, *)
(* a quarantined claim is not linked back, an owner cannot read its claim.   *)
Faulted == cardFaults < MaxCardFaults /\ cardFaults' = cardFaults + 1
Fail(p) == Faulted /\ UNCHANGED dropped
Drop(p) == Faulted /\ dropped' = TRUE

(* errClaimContention and a busy lock: sleep and try again, or give up.      *)
Contend(p) ==
    /\ Unlock(p)
    /\ tries' = [tries EXCEPT ![p] = @ + 1]
    /\ IF tries'[p] < Attempts
       THEN Go(p, "mkdir") /\ UNCHANGED verdict
       ELSE Go(p, "ended") /\ verdict' = [verdict EXCEPT ![p] = "exists"]
(* OpenCard returns without the slot.                                        *)
Return(p, v) == Unlock(p) /\ Go(p, "ended") /\ verdict' = [verdict EXCEPT ![p] = v] /\ UNCHANGED tries

fixed == <<crashes, life, met>>

Launch(p) ==
    /\ life[p] = "new"
    /\ life' = [life EXCEPT ![p] = "alive"] /\ Go(p, "mkdir")
    /\ met' = [q \in CardProcs |-> q # p]
    /\ UNCHANGED <<slotDir, reclaim, claim, stale, taking, card, events, how, old, tries, verdict, crashes, faults>>

(* os.Mkdir: the winner creates the claim at once, without the lock.         *)
Mkdir(p) ==
    /\ At(p, "mkdir")
    /\ met' = [met EXCEPT ![p] = \E q \in CardProcs \ {p} : identityLive(q)]
    /\ \/ slotDir /\ Go(p, "lock") /\ UNCHANGED <<slotDir, how, reclaim, tries, verdict, faults>>
       \/ ~slotDir /\ slotDir' = TRUE /\ Go(p, "create") /\ how' = [how EXCEPT ![p] = "fresh"] /\ UNCHANGED <<reclaim, tries, verdict, faults>>
       \/ Fail(p) /\ Return(p, "setup") /\ UNCHANGED <<slotDir, how>>
    /\ UNCHANGED <<claim, stale, taking, card, events, old, crashes, life>>

tryAcquireReclaimLock(p) ==
    /\ At(p, "lock")
    /\ \/ reclaim = Nobody /\ reclaim' = p /\ Go(p, "recover") /\ UNCHANGED <<tries, verdict, faults>>
       \/ reclaim # Nobody /\ Contend(p) /\ UNCHANGED faults
       \/ Fail(p) /\ Return(p, "setup")
    /\ UNCHANGED <<slotDir, claim, stale, taking, card, events, how, old, fixed>>

(* recoverOrphanTakeoverState: drop a dead claim.taking; then the second     *)
(* name of a dead claim (boundary 1), or link the claim back from the        *)
(* quarantine of a dead owner (boundary 2, whose name goes in a third step). *)
(* A removal or the link may fail, which stops nothing.                      *)
cleanDeadReclaimLeases(p) ==
    /\ At(p, "recover") /\ Go(p, "orphans")
    /\ \/ taking' = (IF identityLive(taking) THEN taking ELSE Nobody) /\ UNCHANGED faults
       \/ taking # Nobody /\ Fail(p) /\ UNCHANGED taking
    /\ UNCHANGED <<slotDir, reclaim, claim, stale, card, events, how, old, tries, verdict, fixed>>
Orphans == {q \in stale : ~identityLive(q)}
Recover(p) ==
    /\ At(p, "orphans")
    /\ \/ /\ Readable /\ ~identityLive(claim.owner)
          /\ (stale' = stale \ {claim.owner} /\ UNCHANGED faults) \/ (Fail(p) /\ UNCHANGED stale)
          /\ Go(p, "decide") /\ UNCHANGED <<claim, old>>
       \/ /\ claim = NoClaim /\ Orphans # {}
          /\ \E q \in Orphans : claim' = LiveClaim(q) /\ old' = [old EXCEPT ![p] = q]
          /\ Go(p, "unname") /\ UNCHANGED <<stale, faults>>
       \/ /\ claim = NoClaim /\ Orphans # {} /\ Drop(p)
          /\ Go(p, "decide") /\ UNCHANGED <<claim, stale, old>>
       \/ /\ ~(Readable /\ ~identityLive(claim.owner)) /\ ~(claim = NoClaim /\ Orphans # {})
          /\ Go(p, "decide") /\ UNCHANGED <<claim, stale, old, faults>>
    /\ UNCHANGED <<slotDir, reclaim, taking, card, events, how, tries, verdict, fixed>>

(* os.Remove(staleName) after the link of restoreClaimFromQuarantine.        *)
Unname(p) ==
    /\ At(p, "unname") /\ Go(p, "decide")
    /\ \/ stale' = stale \ {old[p]} /\ UNCHANGED faults
       \/ Fail(p) /\ UNCHANGED stale
    /\ UNCHANGED <<slotDir, reclaim, claim, taking, card, events, how, old, tries, verdict, fixed>>

(* Variant: the owner's liveness is not asked for.                           *)
DecideAnyway(p) ==
    /\ At(p, "decide")
    /\ how' = [how EXCEPT ![p] = IF readSlotOwner = Nobody THEN "adopt" ELSE "takeover"]
    /\ Go(p, IF readSlotOwner = Nobody THEN "create" ELSE "elect")
    /\ old' = [old EXCEPT ![p] = readSlotOwner]
    /\ UNCHANGED <<slotDir, reclaim, claim, stale, taking, card, events, tries, verdict, faults, fixed>>

(* A later call of recoverOrphanTakeoverState where the first one's link     *)
(* failed.                                                                   *)
Relinked(q) == claim = NoClaim /\ q \in Orphans /\ claim' = LiveClaim(q) /\ stale' \in {stale, stale \ {q}}

(* claimExistingUnderLock: a live owner refuses, a dead one is taken over    *)
(* from; without an identity the free name is claimed and residue is kept,   *)
(* unless the claim can be linked back after all.                            *)
Decide(p) ==
    /\ At(p, "decide")
    /\ how' = [how EXCEPT ![p] = IF readSlotOwner = Nobody THEN "adopt" ELSE "takeover"]
    /\ \/ identityLive(readSlotOwner) /\ Return(p, "exists") /\ UNCHANGED <<claim, stale, faults>>
       \/ /\ readSlotOwner # Nobody /\ ~identityLive(readSlotOwner)
          /\ Go(p, "observe") /\ UNCHANGED <<claim, stale, faults, reclaim, tries, verdict>>
       \/ /\ readSlotOwner = Nobody /\ claim = NoClaim
          /\ (Orphans = {} /\ UNCHANGED faults) \/ (Orphans # {} /\ Drop(p))
          /\ Go(p, "create") /\ UNCHANGED <<claim, stale, reclaim, tries, verdict>>
       \/ /\ readSlotOwner = Nobody /\ \E q \in CardProcs : Relinked(q)
          /\ Contend(p) /\ UNCHANGED faults
       \/ readSlotOwner = Nobody /\ claim # NoClaim /\ Contend(p) /\ UNCHANGED <<claim, stale, faults>>
       \/ Fail(p) /\ Return(p, "setup") /\ UNCHANGED <<claim, stale>>
    /\ UNCHANGED <<slotDir, taking, card, events, old, fixed>>

(* Variant: the claim read again is not asked for liveness.                  *)
ObserveStale(p) ==
    /\ At(p, "observe")
    /\ \/ ~Readable /\ Contend(p) /\ UNCHANGED old
       \/ Readable /\ old' = [old EXCEPT ![p] = claim.owner] /\ Go(p, "elect") /\ UNCHANGED <<reclaim, tries, verdict>>
    /\ UNCHANGED <<slotDir, claim, stale, taking, card, events, how, faults, fixed>>

(* staleTakeoverLocked reads the claim again, linked back first where it is  *)
(* missing; it must be readable and dead.                                    *)
Observe(p) ==
    /\ At(p, "observe")
    /\ \/ ~Readable /\ (Orphans = {} \/ claim # NoClaim) /\ Contend(p) /\ UNCHANGED <<claim, stale, old, faults>>
       \/ Drop(p) /\ claim = NoClaim /\ Orphans # {} /\ Contend(p) /\ UNCHANGED <<claim, stale, old>>
       \/ Readable /\ identityLive(claim.owner) /\ Return(p, "exists") /\ UNCHANGED <<claim, stale, old, faults>>
       \/ /\ Readable /\ ~identityLive(claim.owner) /\ UNCHANGED <<claim, stale>>
          /\ old' = [old EXCEPT ![p] = claim.owner] /\ Go(p, "elect") /\ UNCHANGED <<reclaim, tries, verdict, faults>>
       \/ /\ \E q \in CardProcs : Relinked(q) /\ old' = [old EXCEPT ![p] = q]
          /\ Go(p, "elect") /\ UNCHANGED <<reclaim, tries, verdict, faults>>
       \/ Fail(p) /\ Return(p, "setup") /\ UNCHANGED <<claim, stale, old>>
    /\ UNCHANGED <<slotDir, taking, card, events, how, fixed>>

(* electReclaimLease publishes claim.taking, or fails; one that cannot be    *)
(* removed is taken for another process at work.                             *)
electReclaimLease(p) ==
    /\ At(p, "elect")
    /\ \/ taking' = p /\ Go(p, "quarantine") /\ UNCHANGED <<reclaim, tries, verdict, faults>>
       \/ taking # Nobody /\ Drop(p) /\ Contend(p) /\ UNCHANGED taking
       \/ Fail(p) /\ taking' \in {Nobody, p} /\ Return(p, "setup")
    /\ UNCHANGED <<slotDir, claim, stale, card, events, how, old, fixed>>
(* The removal of this process's claim.taking, which may fail.               *)
releaseReclaimLease(p) == taking' \in {taking, IF taking = p THEN Nobody ELSE taking}

(* os.Link(claim.json, claim.stale.<token>), checked to be the same file.    *)
Quarantine(p) ==
    /\ At(p, "quarantine")
    /\ \/ /\ claim.owner = old[p]
          /\ stale' = stale \cup {old[p]} /\ Go(p, "unlink") /\ UNCHANGED <<reclaim, tries, verdict, taking, faults>>
       \/ claim.owner # old[p] /\ taking' = Nobody /\ Contend(p) /\ UNCHANGED <<stale, faults>>
       \/ Fail(p) /\ releaseReclaimLease(p) /\ Return(p, "setup") /\ UNCHANGED stale
    /\ UNCHANGED <<slotDir, claim, card, events, how, old, fixed>>

(* os.Remove(claim.json); where it fails and the quarantined name is there,  *)
(* the takeover goes on to an exclusive create that cannot succeed.          *)
Unlink(p) ==
    /\ At(p, "unlink") /\ Go(p, "create")
    /\ (claim' = NoClaim /\ UNCHANGED faults) \/ (Drop(p) /\ UNCHANGED claim)
    /\ UNCHANGED <<slotDir, reclaim, stale, taking, card, events, how, old, tries, verdict, fixed>>

(* The exclusive create of writeClaimExclusive.  One that made the directory *)
(* creates without the lock, and may come between another's unlink and create.*)
Create(p) ==
    /\ At(p, "create")
    /\ \/ claim = NoClaim /\ claim' = [owner |-> p, written |-> FALSE, state |-> "live"] /\ Go(p, "write")
          /\ UNCHANGED <<reclaim, tries, verdict, taking, faults>>
       \/ claim # NoClaim /\ Contend(p) /\ UNCHANGED <<claim, faults>>
          /\ taking' = IF taking = p THEN Nobody ELSE taking
       \/ claim # NoClaim /\ Contend(p) /\ Fail(p) /\ UNCHANGED <<claim, taking>>
    /\ UNCHANGED <<slotDir, stale, card, events, how, old, fixed>>

(* The write of the claim; one that fails removes the file, and a takeover   *)
(* then restores the quarantined claim.  Where the removal fails too the     *)
(* claim stays, whole or not, of a process that does not have the slot.      *)
Write(p) ==
    /\ At(p, "write")
    /\ \/ /\ claim' = LiveClaim(p) /\ UNCHANGED <<tries, verdict, faults>>
          /\ IF how[p] = "takeover" THEN Go(p, "clear") /\ UNCHANGED reclaim
                                    ELSE Go(p, "open") /\ Unlock(p)
       \/ /\ Fail(p) /\ claim' \in {NoClaim, claim, LiveClaim(p)}
          /\ IF how[p] = "takeover" THEN Go(p, "restore") /\ UNCHANGED <<reclaim, tries, verdict>>
                                    ELSE Return(p, "setup")
    /\ UNCHANGED <<slotDir, stale, taking, card, events, how, old, fixed>>

(* Variant: a failed takeover leaves only the quarantined name.              *)
RestoreNothing(p) ==
    /\ At(p, "restore")
    /\ stale' = stale \ {old[p]} /\ taking' = Nobody /\ Return(p, "setup")
    /\ UNCHANGED <<slotDir, claim, card, events, how, old, faults, fixed>>

(* restoreClaimFromQuarantine where the takeover could not write; the link   *)
(* or the removal of the second name may fail.                               *)
Restore(p) ==
    /\ At(p, "restore") /\ Return(p, "setup")
    /\ \/ /\ claim' = IF claim = NoClaim THEN LiveClaim(old[p]) ELSE claim
          /\ stale' = IF claim = NoClaim THEN stale \ {old[p]} ELSE stale
          /\ taking' = Nobody /\ UNCHANGED faults
       \/ /\ Fail(p) /\ UNCHANGED stale /\ releaseReclaimLease(p)
          /\ claim' \in {claim, IF claim = NoClaim THEN LiveClaim(old[p]) ELSE claim}
    /\ UNCHANGED <<slotDir, card, events, how, old, fixed>>

(* clearSlotOwnedResidue: the card first, then the stream, the quarantine    *)
(* names and claim.taking; then the lock is released.  What cannot be        *)
(* removed stays.                                                            *)
ClearCard(p) ==
    /\ At(p, "clear") /\ Go(p, "clearRest")
    /\ (card' = Nobody /\ UNCHANGED faults) \/ (card # Nobody /\ Drop(p) /\ UNCHANGED card)
    /\ UNCHANGED <<slotDir, reclaim, claim, stale, taking, events, how, old, tries, verdict, fixed>>
ClearRest(p) ==
    /\ At(p, "clearRest") /\ Unlock(p) /\ Go(p, "open")
    /\ \/ events' = Nobody /\ stale' = {} /\ taking' = Nobody /\ UNCHANGED faults
       \/ Fail(p) /\ events' \in {Nobody, events} /\ stale' \in {{}, stale} /\ taking' \in {Nobody, taking}
    /\ UNCHANGED <<slotDir, claim, card, how, old, tries, verdict, fixed>>

(* Open of the event stream: exclusive, and a stream that is there is not    *)
(* this run's.                                                               *)
OpenStream(p) ==
    /\ At(p, "open")
    /\ \/ events = Nobody /\ events' = p /\ Go(p, "publish") /\ UNCHANGED <<faults, verdict>>
       \/ events # Nobody /\ Go(p, "abandon") /\ verdict' = [verdict EXCEPT ![p] = "setup"] /\ UNCHANGED <<events, faults>>
       \/ events = Nobody /\ Fail(p) /\ Go(p, "abandon") /\ verdict' = [verdict EXCEPT ![p] = "setup"] /\ UNCHANGED events
    /\ UNCHANGED <<slotDir, reclaim, claim, stale, taking, card, how, old, tries, fixed>>

(* publish: own the claim, write and check the document, link it in place.   *)
(* A claim that cannot be read is taken for another's.                       *)
Publish(p) ==
    /\ At(p, "publish")
    /\ \/ /\ stillOwnClaim(p) /\ card = Nobody
          /\ card' = p /\ Go(p, "running") /\ verdict' = [verdict EXCEPT ![p] = "owned"] /\ UNCHANGED faults
       \/ /\ ~stillOwnClaim(p) \/ card # Nobody
          /\ Go(p, "abandon") /\ verdict' = [verdict EXCEPT ![p] = "exists"] /\ UNCHANGED <<card, faults>>
       \/ /\ stillOwnClaim(p) /\ Fail(p)
          /\ Go(p, "abandon") /\ verdict' = [verdict EXCEPT ![p] = "setup"] /\ UNCHANGED card
       \/ Drop(p) /\ Go(p, "abandon") /\ verdict' = [verdict EXCEPT ![p] = "exists"] /\ UNCHANGED card
    /\ UNCHANGED <<slotDir, reclaim, claim, stale, taking, events, how, old, tries, fixed>>

(* abandonSetup removes what this process created, the claim last; what      *)
(* cannot be removed stays.                                                  *)
Abandon(p) ==
    /\ At(p, "abandon") /\ Go(p, "unclaim")
    /\ \/ events' = (IF events = p THEN Nobody ELSE events) /\ UNCHANGED faults
       \/ Fail(p) /\ UNCHANGED events
    /\ UNCHANGED <<slotDir, reclaim, claim, stale, taking, card, how, old, tries, verdict, fixed>>
Unclaim(p) ==
    /\ At(p, "unclaim") /\ Go(p, "ended")
    /\ \/ claim' = (IF stillOwnClaim(p) THEN NoClaim ELSE claim) /\ UNCHANGED faults
       \/ Fail(p) /\ UNCHANGED claim
    /\ UNCHANGED <<slotDir, reclaim, stale, taking, card, events, how, old, tries, verdict, fixed>>

(* The stream is withheld: its file goes, if it can be removed, and the card *)
(* with it (OnWithhold).                                                     *)
Withhold(p) ==
    /\ At(p, "running") /\ Fail(p) /\ events' \in {Nobody, events} /\ Go(p, "sweep")
    /\ UNCHANGED <<slotDir, reclaim, claim, stale, taking, card, how, old, tries, verdict, fixed>>
(* Sweep: withdraw the card, then turn the claim into an exited tombstone.   *)
(* Either may fail, which is the end of it.                                  *)
Sweep(p) ==
    /\ \E from \in {"running", "sweep"} : At(p, from)
    /\ \/ card' = (IF stillOwnClaim(p) THEN Nobody ELSE card) /\ UNCHANGED faults
       \/ Fail(p) /\ UNCHANGED card
    /\ Go(p, IF stillOwnClaim(p) THEN "tombstone" ELSE "ended")
    /\ UNCHANGED <<slotDir, reclaim, claim, stale, taking, events, how, old, tries, verdict, fixed>>
writeClaimReplaceAtomically(p) ==
    /\ At(p, "tombstone") /\ Go(p, "ended")
    /\ \/ claim' = (IF stillOwnClaim(p) THEN [claim EXCEPT !.state = "exited"] ELSE claim) /\ UNCHANGED faults
       \/ Fail(p) /\ UNCHANGED claim
    /\ UNCHANGED <<slotDir, reclaim, stale, taking, card, events, how, old, tries, verdict, fixed>>

(* The end of the process; the kernel drops its lock.                        *)
Die(p) == life' = [life EXCEPT ![p] = "dead"] /\ Unlock(p)
CardExit(p) ==
    /\ At(p, "ended") /\ Die(p)
    /\ UNCHANGED <<slotDir, claim, stale, taking, card, events, cpc, how, old, tries, verdict, met, crashes, faults>>
CardCrash(p) ==
    /\ life[p] = "alive" /\ cpc[p] # "ended" /\ crashes < MaxCrashes
    /\ Die(p) /\ crashes' = crashes + 1
    /\ UNCHANGED <<slotDir, claim, stale, taking, card, events, cpc, how, old, tries, verdict, met, faults>>

OpenCard(p) ==
    \/ Mkdir(p) \/ tryAcquireReclaimLock(p) \/ cleanDeadReclaimLeases(p) \/ Recover(p) \/ Unname(p) \/ Decide(p) \/ Observe(p)
    \/ electReclaimLease(p) \/ Quarantine(p) \/ Unlink(p) \/ Create(p) \/ Write(p) \/ Restore(p)
    \/ ClearCard(p) \/ ClearRest(p) \/ OpenStream(p) \/ Publish(p) \/ Abandon(p) \/ Unclaim(p)

CardNext == \E p \in CardProcs :
    \/ Launch(p) \/ OpenCard(p) \/ Withhold(p) \/ Sweep(p) \/ writeClaimReplaceAtomically(p)
    \/ CardExit(p) \/ CardCrash(p)

CardSpec == CardInit /\ [][CardNext]_cvars

-------------------------------------------------------------------------------
(* The process has the slot: from its written claim to its end.              *)
Holds(p) == identityLive(p) /\ cpc[p] \in {"clear", "clearRest", "open", "publish", "running", "sweep", "tombstone"}

(* One live process at most has the slot; the claim on disk is its own and   *)
(* is readable, and while it runs the card and the stream are its own too,   *)
(* whatever deaths, takeovers and late creators came before (claimRunSlot).  *)
SlotExclusive ==
    \A p \in CardProcs : Holds(p) =>
        /\ stillOwnClaim(p)
        /\ \A q \in CardProcs \ {p} : ~Holds(q)
        /\ cpc[p] = "running" => card = p /\ events = p

(* The claim of a live holder, its card and its stream are changed by its    *)
(* own steps only: no recovery, takeover or abandoned setup of another       *)
(* process removes or replaces them.                                         *)
LiveFilesKept ==
    [][\A p \in CardProcs :
         (Holds(p) /\ cpc'[p] = cpc[p]) =>
            /\ claim' = claim
            /\ card = p => card' = p
            /\ events = p => events' = p]_cvars

(* An attempt at the slot fails as a collision only where another process    *)
(* lived during that attempt, where an owner left its claim unwritten (it    *)
(* died, or could neither write nor remove it), or where one of the dropped  *)
(* failures of Drop came before: every other remains of a death, at any step *)
(* of a takeover or a recovery, can be taken over at the first attempt.      *)
ExistsMeansLive ==
    [][\A p \in CardProcs :
         tries'[p] > tries[p] \/ (verdict[p] # "exists" /\ verdict'[p] = "exists") =>
            met[p] \/ dropped' \/ (claim.owner # Nobody /\ ~claim.written)]_cvars
===============================================================================
