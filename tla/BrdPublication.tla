--------------------------- MODULE BrdPublication ---------------------------
(***************************************************************************)
(* What ingestion promises the reader of a BRD, without jobs, workers or    *)
(* crashes (docs/INGESTION.md, sections 2 and 3): its requirements appear   *)
(* once, whole, in a BRD that had none; from then on they change only when  *)
(* the one revision under review is applied, and only if that revision was  *)
(* compared against the requirements that are live; deleting the BRD takes  *)
(* everything.                                                              *)
(***************************************************************************)
EXTENDS Naturals

CONSTANT Brds

VARIABLES
    exists,        \* BRDs that exist
    version,       \* version of each BRD's live requirements, 0 for none
    open           \* the version each BRD's revision under review was compared with: {} or {v}

pvars == <<exists, version, open>>

Init ==
    /\ exists = {}
    /\ version = [b \in Brds |-> 0]
    /\ open = [b \in Brds |-> {}]

(* A BRD is created empty. *)
Create(b) ==
    /\ b \notin exists
    /\ exists' = exists \cup {b}
    /\ UNCHANGED <<version, open>>

(* A new BRD's requirements become visible at once. *)
Publish(b) ==
    /\ b \in exists /\ version[b] = 0
    /\ version' = [version EXCEPT ![b] = 1]
    /\ UNCHANGED <<exists, open>>

(* A new version is staged, or compared again, against what is live now. *)
Stage(b) ==
    /\ b \in exists
    /\ open' = [open EXCEPT ![b] = {version[b]}]
    /\ UNCHANGED <<exists, version>>

Apply(b) ==
    /\ b \in exists /\ open[b] = {version[b]}
    /\ version' = [version EXCEPT ![b] = @ + 1]
    /\ open' = [open EXCEPT ![b] = {}]
    /\ UNCHANGED exists

Discard(b) ==
    /\ open[b] # {}
    /\ open' = [open EXCEPT ![b] = {}]
    /\ UNCHANGED <<exists, version>>

Delete(b) ==
    /\ b \in exists
    /\ exists' = exists \ {b}
    /\ version' = [version EXCEPT ![b] = 0]
    /\ open' = [open EXCEPT ![b] = {}]

Next == \E b \in Brds :
    Create(b) \/ Publish(b) \/ Stage(b) \/ Apply(b) \/ Discard(b) \/ Delete(b)

Spec == Init /\ [][Next]_pvars
=============================================================================
