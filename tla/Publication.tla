----------------------------- MODULE Publication -----------------------------
(***************************************************************************)
(* What a local aggregate output directory promises its readers            *)
(* (docs/extract-workflow.md, "Durable local commit"; implemented by       *)
(* cmd/sumpter/commands/durable_commit.go).  At most one generation is     *)
(* published by its manifest.  Once the run that wrote it has reported     *)
(* success the generation stays, through crashes and through later runs    *)
(* against the same directory.                                             *)
(***************************************************************************)
CONSTANTS Runs, Nobody

VARIABLES
    visible,    \* whose manifest.json a reader finds, or Nobody
    confirmed,  \* the runs that have reported a committed manifest
    promised    \* the runs that commit durably; never changes

pubVars == <<visible, confirmed, promised>>

PubInit == visible = Nobody /\ confirmed = {} /\ promised \subseteq Runs

(* manifest.json is renamed into place; it never replaces another.         *)
Publish(r) ==
    /\ visible = Nobody /\ confirmed = {}
    /\ visible' = r /\ UNCHANGED <<confirmed, promised>>

(* The run returns success for the manifest a reader sees.                 *)
Confirm(r) ==
    /\ visible = r
    /\ confirmed' = confirmed \cup {r} /\ UNCHANGED <<visible, promised>>

(* An unconfirmed manifest goes away: its run invalidates it, or a crash   *)
(* loses the rename.  A crash that loses the invalidation is a Publish.    *)
Withdraw ==
    /\ confirmed = {}
    /\ visible' = Nobody /\ UNCHANGED <<confirmed, promised>>

(* A crash may lose the manifest of a run that does not commit durably     *)
(* together with the withdrawal of an earlier one, which is found again.   *)
Resurface(r) ==
    /\ visible \in Runs \ promised /\ confirmed = {}
    /\ visible' = r /\ UNCHANGED <<confirmed, promised>>

PubNext == (\E r \in Runs : Publish(r) \/ Confirm(r) \/ Resurface(r)) \/ Withdraw

PubSpec == PubInit /\ [][PubNext]_pubVars
==============================================================================
