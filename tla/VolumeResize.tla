---------------------------- MODULE VolumeResize ----------------------------
(***************************************************************************)
(* The disks of an Instance: the sizes asked for, the claim templates of   *)
(* the StatefulSet, the volume claims and what the storage has provided.   *)
(* The templates of a StatefulSet cannot be changed, so the controller     *)
(* patches the claims, waits for the storage, deletes the StatefulSet and  *)
(* creates it again.  The operators are used by the main loop of the       *)
(* Instance controller, which decides when and commits the status.         *)
(***************************************************************************)
EXTENDS Naturals

CONSTANTS
    Disks,          \* names of the disks
    MaxSize,        \* bound on the sizes
    ConfigDisks,    \* the disks for which the Config gives a size
    ConfigSize,     \* that size
    DefaultSize,    \* the size of a disk nobody gives a size
    Expandable      \* the disks whose storage class allows expansion

ASSUME DisksAssumption ==
    /\ Disks # {} /\ ConfigDisks \subseteq Disks /\ Expandable \subseteq Disks
    /\ MaxSize \in Nat \ {0}
    /\ ConfigSize \in 1..MaxSize /\ DefaultSize \in 1..MaxSize

VARIABLES
    asked,      \* sizes of spec.disks; all 0 when there is no spec.disks
    template,   \* sizes in the claim templates of the StatefulSet
    claim,      \* sizes requested by the claims
    capacity    \* sizes provided

disks == <<asked, template, claim, capacity>>

Sizes == [Disks -> 1..MaxSize]

DisksTypeOK ==
    /\ asked \in [Disks -> 0..MaxSize]
    /\ template \in Sizes /\ claim \in Sizes /\ capacity \in Sizes

-----------------------------------------------------------------------------
\* The size of the Instance, of the Config, or the default.
FindDiskSize(d) ==
    CASE asked[d] # 0                         -> asked[d]
      [] asked[d] = 0 /\ d \in ConfigDisks    -> ConfigSize
      [] asked[d] = 0 /\ d \notin ConfigDisks -> DefaultSize

DisksListed == \E d \in Disks : asked[d] # 0

\* The claim templates of a StatefulSet that is built now.
NewPVCs == [d \in Disks |-> FindDiskSize(d)]

DisksInit ==
    /\ \E s \in {0, DefaultSize} : asked = [d \in Disks |-> s]
    /\ template = NewPVCs /\ claim = NewPVCs /\ capacity = NewPVCs

\* A disk counts as changed when the template of the StatefulSet differs.
FilterDiskWithSizeChanged == {d \in Disks : template[d] # NewPVCs[d]}

\* The claim has a storage class, and one that allows expansion.
CheckSinglePvc(d) == d \in Expandable

PvcsCanBeExpanded == \A d \in FilterDiskWithSizeChanged : CheckSinglePvc(d)

\* The API server refuses to make a claim smaller.
CanBePatched(ds) == \A d \in ds : claim[d] <= NewPVCs[d]

\* A claim is patched to its new size, if that is another one.
Patch(d) == IF CanBePatched({d}) THEN NewPVCs[d] ELSE claim[d]

\* resizePvcs patches the claims of the changed disks; after an error, of some.
resizePvcs(patched) ==
    /\ claim' = [d \in Disks |-> IF d \in patched THEN Patch(d) ELSE claim[d]]
    /\ UNCHANGED <<asked, template, capacity>>

AllResized_OfThoseRequested ==
    \A d \in FilterDiskWithSizeChanged : claim[d] = NewPVCs[d] => capacity[d] = NewPVCs[d]

\* resizePvcs finds all changed disks requested and provided in their new size.
AllResized ==
    \A d \in FilterDiskWithSizeChanged : claim[d] = NewPVCs[d] /\ capacity[d] = NewPVCs[d]

\* The StatefulSet is created again: its templates are the sizes of today.  Claims
\* that exist are kept as they are, missing ones are provisioned.
BuildStatefulSet(claimsExist) ==
    /\ template' = NewPVCs
    /\ IF claimsExist THEN UNCHANGED <<claim, capacity>>
                      ELSE claim' = NewPVCs /\ capacity' = NewPVCs
    /\ UNCHANGED asked

-----------------------------------------------------------------------------
\* The storage driver.
VolumeExpands(d) ==
    /\ capacity[d] < claim[d]
    /\ capacity' = [capacity EXCEPT ![d] = claim[d]]
    /\ UNCHANGED <<asked, template, claim>>

\* A user edits spec.disks of the Instance: another size.
DiskEdited(d, s) ==
    /\ s # FindDiskSize(d)
    /\ asked' = [asked EXCEPT ![d] = s]
    /\ UNCHANGED <<template, claim, capacity>>
=============================================================================
