---------------------------- MODULE EngineProofs ----------------------------
(* Proofs about Engine, for every value of its constants. *)
EXTENDS Engine, TLAPS

LEMMA StepOfType ==
    \A p \in DOMAIN StepOf : /\ StepOf[p] \in Steps
                             /\ StartPercent[StepOf[p]] \in 0..100
BY DEF StepOf, Steps, StartPercent

LEMMA StepDomain ==
    DOMAIN StepOf = {"partition", "format", "luksFormat", "luksOpen", "enroll", "dropKey",
                     "mkfs", "mountRoot", "mountBoot", "mountEfi", "copy", "deploy",
                     "hostname", "uuid", "bls", "trim", "finUmount", "finClose"}
BY DEF StepOf

LEMMA ErrorOfType == \A p \in DOMAIN StepOf : ErrorOf[p] \in Steps
BY StepOfType DEF ErrorOf, Steps

\* Interpolating k of m layers never leaves a band of width b.
LEMMA Interpolation ==
    ASSUME NEW b \in Nat, NEW m \in Nat, m # 0, NEW k \in Nat, k <= m
    PROVE  (b * k) \div m \in 0..b
<1> DEFINE q == (b * k) \div m
<1>1. b * k \in Nat /\ b * k <= b * m /\ b * m \in Nat
  OBVIOUS
<1>2. q \in Int /\ q * m <= b * k /\ b * k < (q + 1) * m
  BY <1>1
<1> HIDE DEF q
<1>3. q >= 0
  <2>1. CASE q + 1 <= 0
    <3>1. (q + 1) * m <= 0
      BY <1>2, <2>1
    <3>2. QED BY <1>1, <1>2, <3>1
  <2>2. QED BY <1>2, <2>1
<1>4. q <= b
  <2>1. CASE q >= b + 1
    <3>1. q * m >= (b + 1) * m
      BY <1>2, <2>1
    <3>2. (b + 1) * m = b * m + m
      OBVIOUS
    <3>3. QED BY <1>1, <1>2, <3>1, <3>2
  <2>2. QED BY <1>2, <2>1
<1>5. QED BY <1>2, <1>3, <1>4 DEF q

LEMMA CopyBand ==
    ASSUME NEW n \in Nat, NEW m \in Nat, m # 0
    PROVE  CopyBandStart + ((CopyBandEnd - CopyBandStart) * Smaller(n, m)) \div m
               \in CopyBandStart..CopyBandEnd
<1>1. Smaller(n, m) \in Nat /\ Smaller(n, m) <= m
  BY DEF Smaller
<1>2. (65 * Smaller(n, m)) \div m \in 0..65
  BY <1>1, Interpolation
<1>3. QED BY <1>2 DEF CopyBandStart, CopyBandEnd

-----------------------------------------------------------------------------
(* Type correctness.  Control is the part of TypeOK that Enter, Continue,  *)
(* Leave and CheckCancel change, Data the rest.                            *)

ControlOK == pc \in PCs /\ result \in Results /\ step \in Steps /\ percent \in 0..100

DataOK ==
    /\ spec \in [enc : Encs, plan : Plans] /\ cancel \in BOOLEAN
    /\ layers \in Nat /\ copied \in Nat
    /\ mounts \subseteq MountPoints
    /\ mapper \in BOOLEAN /\ holder \in BOOLEAN /\ detached \in BOOLEAN
    /\ gap \in BOOLEAN /\ hasEsp \in BOOLEAN /\ formatEsp \in BOOLEAN
    /\ hdr \in Nat /\ keys \subseteq {"passphrase", "throwaway", "tpm2"}
    /\ rootfs \in {"none", "btrfs", "deployed", "named"}
    /\ entries \subseteq Entries /\ kargs \in [Entries -> SUBSET Nat]
    /\ attempt \in Nat /\ faults \in Nat /\ crashes \in Nat

LEMMA TypeSplit == TypeOK <=> ControlOK /\ DataOK
BY DEF TypeOK, ControlOK, DataOK

LEMMA DataFrame == DataOK /\ UNCHANGED <<spec, cancel, blobs, host, disk, counters>> => DataOK'
BY DEF DataOK, blobs, host, disk, table, luksVol, boot, counters

LEMMA PCsType ==
    /\ DOMAIN StepOf \subseteq PCs
    /\ {"idle", "preUmount", "preClose", "tdUmount", "tdClose"} \subseteq PCs
BY DEF PCs, Teardown

LEMMA EnterType ==
    ASSUME ControlOK, NEW n \in DOMAIN StepOf, Enter(n)
    PROVE  ControlOK'
BY StepOfType, PCsType DEF ControlOK, Enter

LEMMA ContinueType ==
    ASSUME ControlOK, NEW n \in PCs, Continue(n)
    PROVE  ControlOK'
BY DEF ControlOK, Continue

LEMMA LeaveType ==
    ASSUME ControlOK, NEW o \in Results, Leave(o)
    PROVE  ControlOK'
BY PCsType DEF ControlOK, Leave

LEMMA CheckCancelType ==
    ASSUME ControlOK, NEW n \in DOMAIN StepOf, CheckCancel(n)
    PROVE  ControlOK'
BY EnterType, LeaveType DEF CheckCancel, Results

LEMMA KargsType ==
    ASSUME NEW es, DataOK
    PROVE  /\ [e \in Entries |-> IF e \in es THEN kargs[e] ELSE {}] \in [Entries -> SUBSET Nat]
           /\ [e \in Entries |-> IF e \in es THEN kargs[e] \cup {hdr} ELSE kargs[e]]
                  \in [Entries -> SUBSET Nat]
BY DEF DataOK

LEMMA UnmountAllType ==
    ASSUME DataOK, UnmountAll
    PROVE  mounts' \subseteq MountPoints /\ detached' \in BOOLEAN /\ mapper' \in BOOLEAN
           /\ holder' \in BOOLEAN
BY DEF DataOK, UnmountAll

LEMMA CloseMapperType ==
    ASSUME DataOK, CloseMapper
    PROVE  mounts' \subseteq MountPoints /\ detached' \in BOOLEAN /\ mapper' \in BOOLEAN
           /\ holder' \in BOOLEAN
BY DEF DataOK, CloseMapper

LEMMA RepartitionType ==
    ASSUME DataOK, Repartition
    PROVE  /\ gap' \in BOOLEAN /\ hasEsp' \in BOOLEAN /\ formatEsp' \in BOOLEAN
           /\ hdr' \in Nat /\ keys' \subseteq {"passphrase", "throwaway", "tpm2"}
           /\ rootfs' \in {"none", "btrfs", "deployed", "named"}
           /\ entries' \subseteq Entries /\ kargs' \in [Entries -> SUBSET Nat]
<1>1. gap' \in BOOLEAN /\ hasEsp' \in BOOLEAN /\ hdr' \in Nat /\ keys' = {} /\ rootfs' = "none"
  BY DEF Repartition, DataOK, NeedsGap
<1>2. formatEsp' \in BOOLEAN
  BY DEF Repartition, DataOK
<1>3. entries' \subseteq Entries
  BY DEF Repartition, DataOK
<1>4. kargs' \in [Entries -> SUBSET Nat]
  BY KargsType DEF Repartition
<1>5. QED BY <1>1, <1>2, <1>3, <1>4

\* Init and every action keep the types.
LEMMA InitType == Init => TypeOK
<1> SUFFICES ASSUME Init PROVE TypeOK
  OBVIOUS
<1>1. ControlOK
  BY PCsType DEF Init, ControlOK, Results, Steps
<1>2. DataOK
  BY DEF Init, DataOK, Entries, MountPoints
<1>3. QED BY <1>1, <1>2, TypeSplit

LEMMA NextType == TypeOK /\ [Next]_vars => TypeOK'
<1> SUFFICES ASSUME TypeOK, [Next]_vars PROVE TypeOK'
  OBVIOUS
<1>0. ControlOK /\ DataOK
  BY TypeSplit
<1> USE <1>0
<1>1. ASSUME PreflightUnmount PROVE TypeOK'
  <2>1. ControlOK'
    BY <1>1, ContinueType, PCsType DEF PreflightUnmount
  <2>2. DataOK'
    BY <1>1, UnmountAllType DEF PreflightUnmount, DataOK, blobs, disk, table, luksVol, boot, counters
  <2>3. QED BY <2>1, <2>2 DEF TypeOK, ControlOK, DataOK
<1>2. ASSUME PreflightClose PROVE TypeOK'
  <2>1. ControlOK'
    BY <1>2, CheckCancelType, StepDomain DEF PreflightClose
  <2>2. DataOK'
    BY <1>2, CloseMapperType DEF PreflightClose, DataOK, blobs, disk, table, luksVol, boot, counters
  <2>3. QED BY <2>1, <2>2 DEF TypeOK, ControlOK, DataOK
<1>3. ASSUME Partition PROVE TypeOK'
  <2>1. ControlOK'
    BY <1>3, CheckCancelType, StepDomain DEF Partition
  <2>2. DataOK'
    BY <1>3, RepartitionType DEF Partition, DataOK, blobs, host, counters
  <2>3. QED BY <2>1, <2>2 DEF TypeOK, ControlOK, DataOK
<1>4. ASSUME PartitionRefused PROVE TypeOK'
  <2>1. ControlOK'
    BY <1>4, LeaveType DEF PartitionRefused, Results, Steps
  <2>2. DataOK'
    BY <1>4, DataFrame DEF PartitionRefused
  <2>3. QED BY <2>1, <2>2 DEF TypeOK, ControlOK, DataOK
<1>5. ASSUME PartitionFailsLate PROVE TypeOK'
  <2>1. ControlOK'
    BY <1>5, LeaveType DEF PartitionFailsLate, Results, Steps
  <2>2. DataOK'
    BY <1>5, RepartitionType DEF PartitionFailsLate, DataOK, blobs, host
  <2>3. QED BY <2>1, <2>2 DEF TypeOK, ControlOK, DataOK
<1>6. ASSUME Format PROVE TypeOK'
  <2>1. ControlOK'
    BY <1>6, CheckCancelType, StepDomain DEF Format
  <2>2. DataOK'
    BY <1>6, KargsType DEF Format, DataOK, blobs, host, table, luksVol, counters
  <2>3. QED BY <2>1, <2>2 DEF TypeOK, ControlOK, DataOK
<1>7. ASSUME LuksFormat PROVE TypeOK'
  <2>1. ControlOK'
    BY <1>7, ContinueType, StepDomain, PCsType DEF LuksFormat
  <2>2. DataOK'
    BY <1>7 DEF LuksFormat, DataOK, FirstKey, blobs, host, table, boot, counters
  <2>3. QED BY <2>1, <2>2 DEF TypeOK, ControlOK, DataOK
<1>8. ASSUME LuksOpen PROVE TypeOK'
  <2>1. ControlOK'
    BY <1>8, CheckCancelType, ContinueType, PCsType, StepDomain DEF LuksOpen
  <2>2. DataOK'
    BY <1>8 DEF LuksOpen, DataOK, blobs, disk, table, luksVol, boot, counters
  <2>3. QED BY <2>1, <2>2 DEF TypeOK, ControlOK, DataOK
<1>9. ASSUME Tpm2Enroll PROVE TypeOK'
  <2>1. ControlOK'
    BY <1>9, CheckCancelType, ContinueType, PCsType, StepDomain DEF Tpm2Enroll
  <2>2. DataOK'
    BY <1>9 DEF Tpm2Enroll, DataOK, blobs, host, table, boot, counters
  <2>3. QED BY <2>1, <2>2 DEF TypeOK, ControlOK, DataOK
<1>10. ASSUME RemoveKeyslot PROVE TypeOK'
  <2>1. ControlOK'
    BY <1>10, CheckCancelType, StepDomain DEF RemoveKeyslot
  <2>2. DataOK'
    BY <1>10 DEF RemoveKeyslot, DataOK, blobs, host, table, boot, counters
  <2>3. QED BY <2>1, <2>2 DEF TypeOK, ControlOK, DataOK
<1>11. ASSUME Mkfs PROVE TypeOK'
  <2>1. ControlOK'
    BY <1>11, CheckCancelType, StepDomain DEF Mkfs
  <2>2. DataOK'
    BY <1>11 DEF Mkfs, DataOK, blobs, host, table, luksVol, boot, counters
  <2>3. QED BY <2>1, <2>2 DEF TypeOK, ControlOK, DataOK
<1>12. ASSUME MountRoot PROVE TypeOK'
  <2>1. ControlOK'
    BY <1>12, ContinueType, StepDomain, PCsType DEF MountRoot, Mount
  <2>2. DataOK'
    BY <1>12 DEF MountRoot, Mount, DataOK, MountPoints, blobs, disk, table, luksVol, boot, counters
  <2>3. QED BY <2>1, <2>2 DEF TypeOK, ControlOK, DataOK
<1>13. ASSUME MountBoot PROVE TypeOK'
  <2>1. ControlOK'
    BY <1>13, ContinueType, StepDomain, PCsType DEF MountBoot, Mount
  <2>2. DataOK'
    BY <1>13 DEF MountBoot, Mount, DataOK, MountPoints, blobs, disk, table, luksVol, boot, counters
  <2>3. QED BY <2>1, <2>2 DEF TypeOK, ControlOK, DataOK
<1>14. ASSUME MountEfi PROVE TypeOK'
  <2>1. ControlOK'
    BY <1>14, CheckCancelType, StepDomain DEF MountEfi, Mount
  <2>2. DataOK'
    BY <1>14 DEF MountEfi, Mount, DataOK, MountPoints, blobs, disk, table, luksVol, boot, counters
  <2>3. QED BY <2>1, <2>2 DEF TypeOK, ControlOK, DataOK
<1>15. ASSUME CopyDone PROVE TypeOK'
  <2>1. ControlOK'
    BY <1>15, StepDomain, PCsType DEF CopyDone, ControlOK, CopyBandEnd
  <2>2. DataOK'
    BY <1>15, DataFrame DEF CopyDone
  <2>3. QED BY <2>1, <2>2 DEF TypeOK, ControlOK, DataOK
<1>16. ASSUME CancelCopy PROVE TypeOK'
  <2>1. ControlOK'
    BY <1>16, LeaveType DEF CancelCopy, Results, Steps
  <2>2. DataOK'
    BY <1>16, DataFrame DEF CancelCopy
  <2>3. QED BY <2>1, <2>2 DEF TypeOK, ControlOK, DataOK
<1>17. ASSUME CancelDeploy PROVE TypeOK'
  <2>1. ControlOK'
    BY <1>17, LeaveType DEF CancelDeploy, Results, Steps
  <2>2. DataOK'
    BY <1>17 DEF CancelDeploy, DataOK, blobs, disk, table, luksVol, boot, counters
  <2>3. QED BY <2>1, <2>2 DEF TypeOK, ControlOK, DataOK
<1>18. ASSUME NEW e \in BootcDirs, Deploy(e) PROVE TypeOK'
  <2>1. ControlOK'
    BY <1>18, CheckCancelType, StepDomain DEF Deploy
  <2>2. e \in Entries
    BY BootcDirsAssumption DEF Entries
  <2>3. kargs' \in [Entries -> SUBSET Nat]
    BY <1>18 DEF Deploy, DataOK
  <2>4. DataOK'
    BY <1>18, <2>2, <2>3 DEF Deploy, DataOK, blobs, host, table, luksVol, counters
  <2>5. QED BY <2>1, <2>4 DEF TypeOK, ControlOK, DataOK
<1>19. ASSUME Hostname PROVE TypeOK'
  <2>1. ControlOK'
    BY <1>19, CheckCancelType, ContinueType, LeaveType, PCsType, StepDomain DEF Hostname, Results
  <2>2. DataOK'
    BY <1>19 DEF Hostname, DataOK, blobs, host, table, luksVol, boot, counters
  <2>3. QED BY <2>1, <2>2 DEF TypeOK, ControlOK, DataOK
<1>20. ASSUME ReadUuid PROVE TypeOK'
  <2>1. ControlOK'
    BY <1>20, EnterType, StepDomain DEF ReadUuid
  <2>2. DataOK'
    BY <1>20, DataFrame DEF ReadUuid
  <2>3. QED BY <2>1, <2>2 DEF TypeOK, ControlOK, DataOK
<1>21. ASSUME Bls PROVE TypeOK'
  <2>1. ControlOK'
    BY <1>21, CheckCancelType, StepDomain DEF Bls
  <2>2. DataOK'
    BY <1>21, KargsType DEF Bls, Inject, DataOK, blobs, host, table, luksVol, counters
  <2>3. QED BY <2>1, <2>2 DEF TypeOK, ControlOK, DataOK
<1>22. ASSUME Fstrim PROVE TypeOK'
  <2>1. ControlOK'
    BY <1>22, ContinueType, StepDomain, PCsType DEF Fstrim
  <2>2. DataOK'
    BY <1>22, DataFrame DEF Fstrim
  <2>3. QED BY <2>1, <2>2 DEF TypeOK, ControlOK, DataOK
<1>23. ASSUME FinalizeUnmount PROVE TypeOK'
  <2>1. ControlOK'
    BY <1>23, ContinueType, StepDomain, PCsType DEF FinalizeUnmount, Succeed, ControlOK, Results
  <2>2. DataOK'
    BY <1>23, UnmountAllType DEF FinalizeUnmount, DataOK, blobs, disk, table, luksVol, boot, counters
  <2>3. QED BY <2>1, <2>2 DEF TypeOK, ControlOK, DataOK
<1>24. ASSUME FinalizeClose PROVE TypeOK'
  <2>1. ControlOK'
    BY <1>24, PCsType DEF FinalizeClose, Succeed, ControlOK, Results
  <2>2. DataOK'
    BY <1>24, CloseMapperType DEF FinalizeClose, DataOK, blobs, disk, table, luksVol, boot, counters
  <2>3. QED BY <2>1, <2>2 DEF TypeOK, ControlOK, DataOK
<1>25. ASSUME TeardownUnmount PROVE TypeOK'
  <2>1. ControlOK'
    BY <1>25, ContinueType, PCsType DEF TeardownUnmount
  <2>2. DataOK'
    BY <1>25, UnmountAllType DEF TeardownUnmount, DataOK, blobs, disk, table, luksVol, boot, counters
  <2>3. QED BY <2>1, <2>2 DEF TypeOK, ControlOK, DataOK
<1>26. ASSUME TeardownClose PROVE TypeOK'
  <2>1. ControlOK'
    BY <1>26, ContinueType, PCsType DEF TeardownClose
  <2>2. DataOK'
    BY <1>26, CloseMapperType DEF TeardownClose, DataOK, blobs, disk, table, luksVol, boot, counters
  <2>3. QED BY <2>1, <2>2 DEF TypeOK, ControlOK, DataOK
<1>27. ASSUME NEW s \in [enc : Encs, plan : Plans], Start(s) PROVE TypeOK'
  <2>1. ControlOK'
    BY <1>27, PCsType DEF Start, ControlOK, Results, Steps
  <2>2. DataOK'
    <3>1. /\ attempt' = attempt + 1 /\ spec' = s /\ cancel' = FALSE
          /\ layers' = 0 /\ copied' = 0 /\ UNCHANGED <<host, disk, faults, crashes>>
      BY <1>27 DEF Start
    <3>2. spec' \in [enc : Encs, plan : Plans]
      BY <1>27, <3>1
    <3>3. cancel' \in BOOLEAN
      BY <3>1, Zenon
    <3>4. layers' \in Nat /\ copied' \in Nat
      BY <3>1
    <3>5. attempt' \in Nat
      BY <3>1 DEF DataOK
    <3>6. UNCHANGED <<host, disk, faults, crashes>>
      BY <3>1
    <3>7. QED BY <3>2, <3>3, <3>4, <3>5, <3>6 DEF DataOK, host, disk, table, luksVol, boot
  <2>3. QED BY <2>1, <2>2 DEF TypeOK, ControlOK, DataOK
<1>28. ASSUME Cancel PROVE TypeOK'
  <2>1. ControlOK'
    BY <1>28 DEF Cancel, ControlOK, control
  <2>2. DataOK'
    BY <1>28 DEF Cancel, DataOK, blobs, host, disk, table, luksVol, boot, counters
  <2>3. QED BY <2>1, <2>2 DEF TypeOK, ControlOK, DataOK
<1>29. ASSUME HolderExits PROVE TypeOK'
  <2>1. ControlOK'
    BY <1>29 DEF HolderExits, ControlOK, control
  <2>2. DataOK'
    BY <1>29 DEF HolderExits, DataOK, blobs, disk, table, luksVol, boot, counters
  <2>3. QED BY <2>1, <2>2 DEF TypeOK, ControlOK, DataOK
<1>30. ASSUME CommandFails PROVE TypeOK'
  <2>1. ControlOK'
    BY <1>30, LeaveType, ErrorOfType DEF CommandFails, Fallible, Results
  <2>2. hdr' \in Nat /\ keys' \subseteq {"passphrase", "throwaway", "tpm2"}
    BY <1>30 DEF CommandFails, DataOK, luksVol
  <2>3. entries' \subseteq Entries
    <3>1. entries' = entries \/ \E e \in BootcDirs : entries' = entries \cup {e}
      BY <1>30 DEF CommandFails
    <3>2. QED BY <3>1, BootcDirsAssumption DEF DataOK, Entries
  <2>4. kargs' \in [Entries -> SUBSET Nat]
    <3>1. CASE pc = "bls"
      <4>1. PICK es : Inject(es)
        BY <1>30, <3>1 DEF CommandFails
      <4>2. QED BY <4>1, KargsType DEF Inject
    <3>2. CASE pc # "bls"
      BY <1>30, <3>2 DEF CommandFails, DataOK
    <3>3. QED BY <3>1, <3>2
  <2>5. DataOK'
    BY <1>30, <2>2, <2>3, <2>4 DEF CommandFails, DataOK, blobs, host, table
  <2>6. QED BY <2>1, <2>5 DEF TypeOK, ControlOK, DataOK
<1>31. ASSUME Crash PROVE TypeOK'
  <2>1. ControlOK'
    BY <1>31, PCsType DEF Crash, ControlOK, Results
  <2>2. DataOK'
    BY <1>31 DEF Crash, DataOK, blobs, disk, table, luksVol, boot
  <2>3. QED BY <2>1, <2>2 DEF TypeOK, ControlOK, DataOK
<1>32. ASSUME BlobLine PROVE TypeOK'
  <2>1. percent' \in 0..100
    <3>1. CASE layers = 0
      BY <1>32, <3>1 DEF BlobLine, ControlOK
    <3>2. CASE layers # 0
      <4>1. copied' \in Nat /\ layers \in Nat
        BY <1>32 DEF BlobLine, DataOK
      <4>2. percent' \in CopyBandStart..CopyBandEnd
        BY <1>32, <3>2, <4>1, CopyBand DEF BlobLine
      <4>3. QED BY <4>2 DEF CopyBandStart, CopyBandEnd
    <3>3. QED BY <3>1, <3>2
  <2>2. ControlOK'
    BY <1>32, <2>1 DEF BlobLine, ControlOK
  <2>3. DataOK'
    BY <1>32 DEF BlobLine, DataOK, host, disk, table, luksVol, boot, counters
  <2>4. QED BY <2>2, <2>3 DEF TypeOK, ControlOK, DataOK
<1>33. ASSUME \E n \in LayerCounts : InspectLayers(n) PROVE TypeOK'
  <2>1. ControlOK'
    BY <1>33 DEF InspectLayers, ControlOK, control
  <2>2. DataOK'
    BY <1>33, LayersAssumption DEF InspectLayers, DataOK, host, disk, table, luksVol, boot, counters
  <2>3. QED BY <2>1, <2>2 DEF TypeOK, ControlOK, DataOK
<1>34. CASE UNCHANGED vars
  <2>1. ControlOK'
    BY <1>34 DEF vars, control, ControlOK
  <2>2. DataOK'
    BY <1>34 DEF vars, DataOK, blobs, host, disk, table, luksVol, boot, counters
  <2>3. QED BY <2>1, <2>2 DEF TypeOK, ControlOK, DataOK
<1>35. QED
  BY <1>1, <1>2, <1>3, <1>4, <1>5, <1>6, <1>7, <1>8, <1>9, <1>10, <1>11, <1>12, <1>13, <1>14, <1>15, <1>16, <1>17, <1>18, <1>19, <1>20, <1>21, <1>22, <1>23, <1>24, <1>25, <1>26, <1>27, <1>28, <1>29, <1>30, <1>31, <1>32, <1>33, <1>34
  DEF Next, EngineStep, Environment

\* The engine's state is well typed, for every set of plans and encryptions,
\* every answer of skopeo and every bound: in particular the percentage that
\* forward_with_progress computes stays within 0..100.
THEOREM TypeCorrect == Spec => []TypeOK
<1>1. Init => TypeOK
  BY InitType
<1>2. TypeOK /\ [Next]_vars => TypeOK'
  BY NextType
<1>3. QED BY <1>1, <1>2, PTL DEF Spec

-----------------------------------------------------------------------------
(* Who owns the disk.  PipelineOwnsDisk and NothingLeftMounted are not     *)
(* inductive: they need what is mounted at every await point, and that a   *)
(* tree is detached only while a killed bootc holds it.                    *)

Clean == mounts = {} /\ ~mapper /\ ~detached /\ ~holder

AllMounted == IF HasBoot THEN MountPoints ELSE {"root", "efi"}

LuksPCs == {"luksFormat", "luksOpen", "enroll", "dropKey", "uuid", "bls", "finClose"}

\* A detached tree has a holder, a holder has a tree.
Holding == (detached => holder) /\ (holder => detached \/ mounts # {})

\* install() has not returned anything before its teardown.
NoResultYet == pc \notin Teardown \cup {"idle"} => result = "none"

\* What is mounted at each await point.
MountsAt ==
    /\ pc \in {"preClose", "partition", "enroll", "dropKey", "mkfs", "mountRoot",
              "finClose", "tdClose"} => mounts = {}
    /\ pc = "mountBoot" => HasBoot /\ mounts = {"root"}
    /\ pc = "mountEfi" => mounts = IF HasBoot THEN {"root", "boot"} ELSE {"root"}
    /\ pc \in AfterMount \cup {"finUmount"} => mounts = AllMounted

\* Who has the devices open.
DevicesAt ==
    /\ pc \in BeforeOpen => Clean
    /\ pc \in LuksPCs => IsLuks
    /\ pc \in AfterOpen \cup {"finUmount", "finClose"} =>
          ~detached /\ ~holder /\ (mapper <=> spec.enc # "none")

\* What the outcome says about the host.
OutcomeAt ==
    /\ result = "ok" => Clean
    /\ Returned => mounts = {}

OwnInv == Holding /\ NoResultYet /\ MountsAt /\ DevicesAt /\ OutcomeAt

\* What a stage's last move does to pc and result.
LEMMA Flow ==
    /\ \A n : (Enter(n) \/ Continue(n)) => (pc' = n /\ result' = result)
    /\ \A o : Leave(o) => (pc' = "tdUmount" /\ result' = o)
    /\ \A n : CheckCancel(n) =>
          \/ (cancel /\ pc' = "tdUmount" /\ result' = "cancelled")
          \/ (~cancel /\ pc' = n /\ result' = result)
<1>1. \A n : (Enter(n) \/ Continue(n)) => (pc' = n /\ result' = result)
  BY DEF Enter, Continue
<1>2. \A o : Leave(o) => (pc' = "tdUmount" /\ result' = o)
  BY DEF Leave
<1>3. QED BY <1>1, <1>2 DEF CheckCancel

LEMMA OwnInit == Init => OwnInv
BY DEF Init, OwnInv, Holding, NoResultYet, MountsAt, DevicesAt, OutcomeAt, Clean, Returned,
       Teardown, LuksPCs, BeforeOpen, AfterOpen, AfterMount

LEMMA OwnNext == TypeOK /\ OwnInv /\ [Next]_vars => OwnInv'
<1> SUFFICES ASSUME TypeOK, OwnInv, [Next]_vars PROVE OwnInv'
  OBVIOUS
<1> USE DEF OwnInv, Holding, NoResultYet, MountsAt, DevicesAt, OutcomeAt, Clean, Returned,
        AllMounted, HasBoot, IsLuks, Teardown, LuksPCs, BeforeOpen, AfterOpen, AfterMount,
        MountPoints
<1>1. ASSUME PreflightUnmount PROVE OwnInv'
  BY <1>1, Flow DEF PreflightUnmount, UnmountAll, TypeOK, control, host
<1>2. ASSUME PreflightClose PROVE OwnInv'
  BY <1>2, Flow DEF PreflightClose, CloseMapper, TypeOK, control, host
<1>3. ASSUME Partition PROVE OwnInv'
  BY <1>3, Flow DEF Partition, PartitionOk, InUse, TypeOK, control, host
<1>4. ASSUME PartitionRefused PROVE OwnInv'
  BY <1>4, Flow DEF PartitionRefused, TypeOK, control, host
<1>5. ASSUME PartitionFailsLate PROVE OwnInv'
  BY <1>5, Flow DEF PartitionFailsLate, PartitionOk, InUse, TypeOK, control, host
<1>6. ASSUME Format PROVE OwnInv'
  BY <1>6, Flow DEF Format, TypeOK, control, host
<1>7. ASSUME LuksFormat PROVE OwnInv'
  BY <1>7, Flow DEF LuksFormat, TypeOK, control, host
<1>8. ASSUME LuksOpen PROVE OwnInv'
  BY <1>8, Flow DEF LuksOpen, TypeOK, control, host
<1>9. ASSUME Tpm2Enroll PROVE OwnInv'
  BY <1>9, Flow DEF Tpm2Enroll, TypeOK, control, host
<1>10. ASSUME RemoveKeyslot PROVE OwnInv'
  BY <1>10, Flow DEF RemoveKeyslot, TypeOK, control, host
<1>11. ASSUME Mkfs PROVE OwnInv'
  BY <1>11, Flow DEF Mkfs, TypeOK, control, host
<1>12. ASSUME MountRoot PROVE OwnInv'
  <2>1. mounts' = {"root"}
    BY <1>12 DEF MountRoot, Mount
  <2>2. QED BY <1>12, <2>1, Flow DEF MountRoot, Mount, TypeOK
<1>13. ASSUME MountBoot PROVE OwnInv'
  BY <1>13, Flow DEF MountBoot, Mount, TypeOK, control, host
<1>14. ASSUME MountEfi PROVE OwnInv'
  BY <1>14, Flow DEF MountEfi, Mount, TypeOK, control, host
<1>15. ASSUME CopyDone PROVE OwnInv'
  BY <1>15, Flow DEF CopyDone, TypeOK, control, host
<1>16. ASSUME CancelCopy PROVE OwnInv'
  BY <1>16, Flow DEF CancelCopy, TypeOK, control, host
<1>17. ASSUME CancelDeploy PROVE OwnInv'
  BY <1>17, Flow DEF CancelDeploy, TypeOK, control, host
<1>18. ASSUME NEW e \in BootcDirs, Deploy(e) PROVE OwnInv'
  BY <1>18, Flow DEF Deploy, TypeOK, control, host
<1>19. ASSUME Hostname PROVE OwnInv'
  BY <1>19, Flow DEF Hostname, TypeOK, control, host
<1>20. ASSUME ReadUuid PROVE OwnInv'
  BY <1>20, Flow DEF ReadUuid, TypeOK, control, host
<1>21. ASSUME Bls PROVE OwnInv'
  BY <1>21, Flow DEF Bls, TypeOK, control, host
<1>22. ASSUME Fstrim PROVE OwnInv'
  BY <1>22, Flow DEF Fstrim, TypeOK, control, host
<1>23. ASSUME FinalizeUnmount PROVE OwnInv'
  BY <1>23, Flow DEF FinalizeUnmount, UnmountAll, Succeed, TypeOK, control, host
<1>24. ASSUME FinalizeClose PROVE OwnInv'
  BY <1>24, Flow DEF FinalizeClose, CloseMapper, Succeed, TypeOK, control, host
<1>25. ASSUME TeardownUnmount PROVE OwnInv'
  BY <1>25, Flow DEF TeardownUnmount, UnmountAll, TypeOK, control, host
<1>26. ASSUME TeardownClose PROVE OwnInv'
  BY <1>26, Flow DEF TeardownClose, CloseMapper, TypeOK, control, host
<1>27. ASSUME NEW s \in [enc : Encs, plan : Plans], Start(s) PROVE OwnInv'
  BY <1>27, Flow DEF Start, TypeOK, control, host
<1>28. ASSUME Cancel PROVE OwnInv'
  BY <1>28, Flow DEF Cancel, TypeOK, control, host
<1>29. ASSUME HolderExits PROVE OwnInv'
  BY <1>29, Flow DEF HolderExits, TypeOK, control, host
<1>30. ASSUME CommandFails PROVE OwnInv'
  <2>1. pc \in DOMAIN StepOf /\ pc' = "tdUmount" /\ result' = ErrorOf[pc]
    BY <1>30, Flow DEF CommandFails, Fallible
  <2>2. result' # "ok"
    BY <2>1, ErrorOfType DEF Steps
  <2>3. UNCHANGED <<spec, host>> /\ pc \notin Teardown \cup {"idle"}
    BY <1>30, <2>1, StepDomain DEF CommandFails
  <2>4. QED BY <2>1, <2>2, <2>3 DEF host, TypeOK
<1>31. ASSUME Crash PROVE OwnInv'
  BY <1>31, Flow DEF Crash, TypeOK, control, host
<1>32. ASSUME BlobLine PROVE OwnInv'
  BY <1>32, Flow DEF BlobLine, TypeOK, control, host
<1>33. ASSUME NEW n \in LayerCounts, InspectLayers(n) PROVE OwnInv'
  BY <1>33, Flow DEF InspectLayers, TypeOK, control, host
<1>34. CASE UNCHANGED vars
  BY <1>34 DEF vars, control, host
<1>35. QED
  BY <1>1, <1>2, <1>3, <1>4, <1>5, <1>6, <1>7, <1>8, <1>9, <1>10, <1>11, <1>12, <1>13, <1>14, <1>15, <1>16, <1>17, <1>18, <1>19, <1>20, <1>21, <1>22, <1>23, <1>24, <1>25, <1>26, <1>27, <1>28, <1>29, <1>30, <1>31, <1>32, <1>33, <1>34
  DEF Next, EngineStep, Environment

LEMMA OwnInvariant == Spec => [](TypeOK /\ OwnInv)
<1>1. Init => TypeOK /\ OwnInv
  BY InitType, OwnInit
<1>2. (TypeOK /\ OwnInv) /\ [Next]_vars => (TypeOK /\ OwnInv)'
  BY NextType, OwnNext
<1>3. QED BY <1>1, <1>2, PTL DEF Spec

\* No attempt partitions, formats or deploys over what an earlier, cancelled
\* or killed, attempt still has mounted, open or held.
THEOREM OwnsDisk == Spec => []PipelineOwnsDisk
<1>1. TypeOK /\ OwnInv => PipelineOwnsDisk
  <2> SUFFICES ASSUME TypeOK, OwnInv PROVE PipelineOwnsDisk
    OBVIOUS
  <2> USE DEF OwnInv, MountsAt, DevicesAt, Clean, AllMounted
  <2>1. pc \in BeforeOpen => ~InUse /\ ~holder
    BY DEF InUse
  <2>2. pc \in AfterOpen => ~detached /\ ~holder /\ (mapper <=> spec.enc # "none")
    OBVIOUS
  <2>3. pc \in AfterMount => mounts = IF HasBoot THEN MountPoints ELSE {"root", "efi"}
    OBVIOUS
  <2>4. QED BY <2>1, <2>2, <2>3 DEF PipelineOwnsDisk
<1>2. QED BY <1>1, OwnInvariant, PTL

\* Whatever fails, is cancelled or is killed before it, an install() that
\* returns leaves nothing mounted, and one that succeeds leaves no device open.
THEOREM NothingMounted == Spec => []NothingLeftMounted
<1>1. OwnInv => NothingLeftMounted
  BY DEF OwnInv, OutcomeAt, Clean, NothingLeftMounted, InUse
<1>2. QED BY <1>1, OwnInvariant, PTL

-----------------------------------------------------------------------------
(* Cancellation.                                                           *)

\* No action announces another step while the token is cancelled, but ReadUuid
\* (and Start, which begins with a fresh token).
LEMMA CancelStep ==
    ASSUME [Next]_vars, cancel, cancel'
    PROVE  step' = step \/ pc = "uuid"
<1>0. \A n : Continue(n) \/ Leave(n) \/ CheckCancel(n) => step' = step
  BY DEF Continue, Leave, CheckCancel
<1> USE <1>0 DEF control
<1>1. CASE EngineStep
  <2>1. ASSUME FinalizeUnmount \/ FinalizeClose PROVE step' = step
    BY <2>1 DEF FinalizeUnmount, FinalizeClose, Succeed
  <2>2. ASSUME MountRoot \/ MountBoot \/ MountEfi PROVE step' = step
    BY <2>2 DEF MountRoot, MountBoot, MountEfi, Mount
  <2>3. ASSUME \/ PreflightUnmount \/ PreflightClose \/ Partition \/ PartitionRefused \/ Format
               \/ LuksFormat \/ LuksOpen \/ Tpm2Enroll \/ RemoveKeyslot \/ Mkfs
        PROVE  step' = step
    BY <2>3 DEF PreflightUnmount, PreflightClose, Partition, PartitionRefused, Format,
               LuksFormat, LuksOpen, Tpm2Enroll, RemoveKeyslot, Mkfs
  <2>4. ASSUME \/ CopyDone \/ CancelCopy \/ CancelDeploy \/ \E e \in BootcDirs : Deploy(e)
               \/ Hostname \/ Bls \/ Fstrim \/ TeardownUnmount \/ TeardownClose
        PROVE  step' = step
    BY <2>4 DEF CopyDone, CancelCopy, CancelDeploy, Deploy, Hostname, Bls, Fstrim,
               TeardownUnmount, TeardownClose
  <2>5. ReadUuid => pc = "uuid"
    BY DEF ReadUuid
  <2>6. QED BY <1>1, <2>1, <2>2, <2>3, <2>4, <2>5 DEF EngineStep
<1>2. CASE Environment
  <2>1. ~(\E s \in [enc : Encs, plan : Plans] : Start(s))
    BY DEF Start
  <2>2. ASSUME \/ Cancel \/ HolderExits \/ CommandFails \/ PartitionFailsLate \/ Crash
               \/ BlobLine \/ \E n \in LayerCounts : InspectLayers(n)
        PROVE  step' = step
    BY <2>2 DEF Cancel, HolderExits, CommandFails, PartitionFailsLate, Crash, BlobLine,
               InspectLayers
  <2>3. QED BY <1>2, <2>1, <2>2 DEF Environment
<1>3. CASE UNCHANGED vars
  BY <1>3 DEF vars
<1>4. QED BY <1>1, <1>2, <1>3 DEF Next

\* Once cancelled, the pipeline announces no further step (but bls, when the
\* token is cancelled while luksUUID runs), however its stages interleave with
\* Cancel.
THEOREM CancelStops == Spec => CancelStopsPipeline
<1>1. [Next]_vars => [cancel /\ cancel' /\ step' # step => pc = "uuid"]_vars
  BY CancelStep
<1>2. QED BY <1>1, PTL DEF Spec, CancelStopsPipeline

-----------------------------------------------------------------------------
(* What Ok(()) means.                                                      *)

\* bootc's entry is in the directory that bls.rs edits if bootc writes to the
\* ESP, or if the ESP is the attempt's own.
OwnEsp == BootcDirs = {"ours"} \/ Plans \cap {"free", "reuse", "create"} = {}

Before(p) == p \in {"format", "luksFormat", "luksOpen", "enroll", "dropKey", "mkfs",
                    "mountRoot", "mountBoot", "mountEfi", "copy", "deploy"}

KeysSet == {"mkfs", "mountRoot", "mountBoot", "mountEfi", "copy", "deploy", "hostname",
            "uuid", "bls", "trim", "finUmount", "finClose"}

HdrOk == hdr = IF spec.enc = "none" THEN 0 ELSE attempt

\* A boot entry of bootc in the directory that bls.rs edits.
Visible(e) == e \in entries /\ e \in BootcDirs /\ e \in EntriesDir

Kargs == IF spec.enc = "none" THEN {} ELSE {hdr}

\* An attempt that formats the ESP has no entries before bootc writes its own.
CleanEsp ==
    /\ pc \notin {"idle", "tdUmount", "tdClose"} => spec.plan # "malformed"
    /\ Before(pc) /\ spec.plan \in {"erase", "reformat"} => entries = {}

KeysAt ==
    /\ pc = "format" => hdr = 0 /\ keys = {}
    /\ pc \in {"luksOpen", "enroll"} => keys = {FirstKey}
    /\ pc = "enroll" => spec.enc # "passphrase"
    /\ pc = "dropKey" => spec.enc = "tpm2" /\ keys = {"throwaway", "tpm2"}
    /\ pc \in {"luksOpen", "enroll", "dropKey"} \cup KeysSet => HdrOk
    /\ pc \in KeysSet => keys = WantedKeys

EntryAt ==
    /\ pc \in {"hostname", "uuid", "bls"} => \E e \in Entries : Visible(e) /\ kargs[e] = {}
    /\ pc \in {"trim", "finUmount", "finClose"} =>
          \E e \in Entries : Visible(e) /\ kargs[e] = Kargs
    /\ pc \in {"uuid", "bls", "trim", "finUmount", "finClose"} => rootfs = "named"

Bootable ==
    /\ rootfs = "named" /\ keys = WantedKeys /\ HdrOk
    /\ \E e \in entries \cap BootcDirs : kargs[e] = Kargs

BootInv == CleanEsp /\ KeysAt /\ EntryAt /\ (result = "ok" => Bootable)

LEMMA BootInit == Init => BootInv
BY DEF Init, BootInv, CleanEsp, KeysAt, EntryAt, Bootable, Before, KeysSet

\* A step that leaves the disk alone, and goes nowhere but to the teardown,
\* keeps BootInv.
LEMMA BootFrame ==
    ASSUME BootInv, UNCHANGED <<spec, disk, attempt>>,
           pc' = pc \/ pc' \in Teardown \cup {"idle"},
           result' = result \/ result' # "ok"
    PROVE  BootInv'
<1>1. UNCHANGED <<spec, hdr, keys, rootfs, entries, kargs, attempt>>
  BY DEF disk, table, luksVol, boot
<1>2. Bootable => Bootable'
  BY <1>1 DEF Bootable, WantedKeys, HdrOk, Kargs
<1>3. CleanEsp'
  BY <1>1 DEF BootInv, CleanEsp, Before, Teardown
<1>4. KeysAt'
  BY <1>1 DEF BootInv, KeysAt, KeysSet, Teardown, FirstKey, HdrOk, WantedKeys
<1>5. EntryAt'
  BY <1>1 DEF BootInv, EntryAt, Teardown, Visible, EntriesDir, Kargs
<1>6. QED BY <1>2, <1>3, <1>4, <1>5 DEF BootInv

LEMMA BootNext ==
    ASSUME OwnEsp, TypeOK, OwnInv, BootInv, [Next]_vars
    PROVE  BootInv'
<1> USE DEF BootInv, CleanEsp, KeysAt, EntryAt, Bootable, Before, KeysSet, HdrOk, Kargs, Visible,
        EntriesDir, WantedKeys, IsLuks, HasBoot, Teardown
<1>0. NoResultYet
  BY DEF OwnInv
<1> USE <1>0 DEF NoResultYet
<1>1. ASSUME PreflightUnmount PROVE BootInv'
  BY <1>1, Flow DEF PreflightUnmount, UnmountAll, TypeOK, control, disk, table, luksVol, boot, counters
<1>2. ASSUME PreflightClose PROVE BootInv'
  BY <1>2, Flow DEF PreflightClose, CloseMapper, TypeOK, control, disk, table, luksVol, boot, counters
<1>3. ASSUME Partition PROVE BootInv'
  BY <1>3, Flow DEF Partition, Repartition, TypeOK, control, disk, table, luksVol, boot, counters
<1>4. ASSUME PartitionRefused PROVE BootInv'
  BY <1>4, Flow DEF PartitionRefused, TypeOK, control, disk, table, luksVol, boot, counters
<1>5. ASSUME PartitionFailsLate PROVE BootInv'
  BY <1>5, Flow DEF PartitionFailsLate, Repartition, TypeOK, control, disk, table, luksVol, boot, counters
<1>6. ASSUME Format PROVE BootInv'
  BY <1>6, Flow DEF Format, TypeOK, control, disk, table, luksVol, boot, counters
<1>7. ASSUME LuksFormat PROVE BootInv'
  <2>1. keys' = {FirstKey} /\ hdr' = attempt /\ pc' = "luksOpen" /\ result' = result
        /\ UNCHANGED <<spec, entries, attempt>> /\ pc = "luksFormat"
    BY <1>7, Flow DEF LuksFormat, boot, counters
  <2>2. spec.enc # "none"
    BY <2>1 DEF OwnInv, DevicesAt, LuksPCs
  <2>3. QED BY <2>1, <2>2 DEF FirstKey
<1>8. ASSUME LuksOpen PROVE BootInv'
  <2>1. UNCHANGED <<spec, hdr, keys, rootfs, entries, kargs, attempt>> /\ pc = "luksOpen"
    BY <1>8 DEF LuksOpen, disk, table, luksVol, boot, counters
  <2>2. \/ pc' = "tdUmount" /\ result' = "cancelled"
        \/ pc' = "mkfs" /\ spec.enc = "passphrase" /\ result' = result
        \/ pc' = "enroll" /\ spec.enc # "passphrase" /\ result' = result
    BY <1>8, Flow DEF LuksOpen
  <2>3. QED BY <2>1, <2>2 DEF FirstKey
<1>9. ASSUME Tpm2Enroll PROVE BootInv'
  <2>1. UNCHANGED <<spec, hdr, rootfs, entries, kargs, attempt>> /\ pc = "enroll"
        /\ keys' = keys \cup {"tpm2"}
    BY <1>9 DEF Tpm2Enroll, boot, counters
  <2>2. \/ pc' = "tdUmount" /\ result' = "cancelled"
        \/ pc' = "mkfs" /\ spec.enc = "tpm2passphrase" /\ result' = result
        \/ pc' = "dropKey" /\ spec.enc = "tpm2" /\ result' = result
    BY <1>9, Flow DEF Tpm2Enroll
  <2>3. QED BY <2>1, <2>2 DEF FirstKey
<1>10. ASSUME RemoveKeyslot PROVE BootInv'
  BY <1>10, Flow DEF RemoveKeyslot, TypeOK, control, disk, table, luksVol, boot, counters
<1>11. ASSUME Mkfs PROVE BootInv'
  BY <1>11, Flow DEF Mkfs, TypeOK, control, disk, table, luksVol, boot, counters
<1>12. ASSUME MountRoot PROVE BootInv'
  BY <1>12, Flow DEF MountRoot, Mount, TypeOK, control, disk, table, luksVol, boot, counters
<1>13. ASSUME MountBoot PROVE BootInv'
  BY <1>13, Flow DEF MountBoot, Mount, TypeOK, control, disk, table, luksVol, boot, counters
<1>14. ASSUME MountEfi PROVE BootInv'
  BY <1>14, Flow DEF MountEfi, Mount, TypeOK, control, disk, table, luksVol, boot, counters
<1>15. ASSUME CopyDone PROVE BootInv'
  BY <1>15, Flow DEF CopyDone, TypeOK, control, disk, table, luksVol, boot, counters
<1>16. ASSUME CancelCopy PROVE BootInv'
  BY <1>16, Flow DEF CancelCopy, TypeOK, control, disk, table, luksVol, boot, counters
<1>17. ASSUME CancelDeploy PROVE BootInv'
  BY <1>17, Flow DEF CancelDeploy, TypeOK, control, disk, table, luksVol, boot, counters
<1>18. ASSUME NEW e \in BootcDirs, Deploy(e) PROVE BootInv'
  <2>1. /\ pc = "deploy" /\ entries' = entries \cup {e}
        /\ kargs' = [kargs EXCEPT ![e] = {}]
        /\ UNCHANGED <<spec, hdr, keys, attempt>>
    BY <1>18 DEF Deploy, luksVol, counters
  <2>2. \/ pc' = "tdUmount" /\ result' = "cancelled"
        \/ pc' = "hostname" /\ result' = result
    BY <1>18, Flow DEF Deploy
  <2>3. CleanEsp' /\ KeysAt' /\ (result' = "ok" => Bootable')
    BY <2>1, <2>2
  <2>4. e \in Entries /\ kargs'[e] = {}
    BY <2>1, BootcDirsAssumption DEF Entries, TypeOK
  <2>5. e \in entries' /\ e \in BootcDirs
    BY <2>1
  <2>6. e \in EntriesDir'
    <3>1. CASE e = "ours"
      BY <2>5, <3>1 DEF EspEntries
    <3>2. CASE e # "ours"
      <4>1. e = "legacy" /\ Plans \cap {"free", "reuse", "create"} = {}
        BY <3>2, BootcDirsAssumption DEF OwnEsp
      <4>2. spec.plan \in {"erase", "reformat"}
        BY <2>1, <4>1, PlansAssumption DEF TypeOK, AllPlans
      <4>3. entries' = {"legacy"}
        BY <2>1, <4>1, <4>2
      <4>4. QED BY <4>1, <4>3 DEF EspEntries
    <3>3. QED BY <3>1, <3>2
  <2>7. EntryAt'
    BY <2>2, <2>4, <2>5, <2>6
  <2>8. QED BY <2>3, <2>7
<1>19. ASSUME Hostname PROVE BootInv'
  <2>1. UNCHANGED <<spec, hdr, keys, entries, kargs, attempt>> /\ rootfs' = "named"
        /\ pc = "hostname"
    BY <1>19 DEF Hostname, luksVol, boot, counters
  <2>2. \/ pc' = "tdUmount" /\ result' = "cancelled"
        \/ pc' = "uuid" /\ result' = result
        \/ pc' = "trim" /\ spec.enc = "none" /\ result' = result
    BY <1>19, Flow DEF Hostname
  <2>3. PICK e \in Entries : Visible(e) /\ kargs[e] = {}
    BY <2>1
  <2>4. Visible(e)' /\ kargs'[e] = {}
    BY <2>1, <2>3
  <2>5. EntryAt'
    BY <2>1, <2>2, <2>4
  <2>6. CleanEsp' /\ KeysAt' /\ (result' = "ok" => Bootable')
    BY <2>1, <2>2
  <2>7. QED BY <2>5, <2>6
<1>20. ASSUME ReadUuid PROVE BootInv'
  BY <1>20, Flow DEF ReadUuid, TypeOK, control, disk, table, luksVol, boot, counters
<1>21. ASSUME Bls PROVE BootInv'
  <2>1. UNCHANGED <<spec, hdr, keys, rootfs, entries, attempt>> /\ pc = "bls"
    BY <1>21 DEF Bls, luksVol, counters
  <2>2. \/ pc' = "tdUmount" /\ result' = "cancelled"
        \/ pc' = "trim" /\ result' = result
    BY <1>21, Flow DEF Bls
  <2>3. PICK e \in Entries : Visible(e) /\ kargs[e] = {}
    BY <2>1
  <2>4. kargs'[e] = {hdr}
    BY <1>21, <2>3 DEF Bls, Inject
  <2>5. spec.enc # "none"
    BY <2>1 DEF OwnInv, DevicesAt, LuksPCs
  <2>6. Visible(e)' /\ kargs'[e] = Kargs'
    BY <2>1, <2>3, <2>4, <2>5
  <2>7. EntryAt'
    BY <2>1, <2>2, <2>6
  <2>8. CleanEsp' /\ KeysAt' /\ (result' = "ok" => Bootable')
    BY <2>1, <2>2
  <2>9. QED BY <2>7, <2>8
<1>22. ASSUME Fstrim PROVE BootInv'
  BY <1>22, Flow DEF Fstrim, TypeOK, control, disk, table, luksVol, boot, counters
<1>23. ASSUME FinalizeUnmount PROVE BootInv'
  BY <1>23, Flow DEF FinalizeUnmount, UnmountAll, Succeed, TypeOK, control, disk, table, luksVol, boot, counters
<1>24. ASSUME FinalizeClose PROVE BootInv'
  BY <1>24, Flow DEF FinalizeClose, CloseMapper, Succeed, TypeOK, control, disk, table, luksVol, boot, counters
<1>25. ASSUME TeardownUnmount PROVE BootInv'
  BY <1>25, BootFrame, Flow DEF TeardownUnmount, Teardown, counters
<1>26. ASSUME TeardownClose PROVE BootInv'
  BY <1>26, BootFrame, Flow DEF TeardownClose, Teardown, counters
<1>27. ASSUME NEW s \in [enc : Encs, plan : Plans], Start(s) PROVE BootInv'
  BY <1>27, Flow DEF Start, TypeOK, control, disk, table, luksVol, boot, counters
<1>28. ASSUME Cancel PROVE BootInv'
  BY <1>28, BootFrame DEF Cancel, control, counters
<1>29. ASSUME HolderExits PROVE BootInv'
  BY <1>29, BootFrame DEF HolderExits, control, counters
<1>30. ASSUME CommandFails PROVE BootInv'
  <2>1. pc \in DOMAIN StepOf /\ pc' = "tdUmount" /\ result' = ErrorOf[pc]
    BY <1>30, Flow DEF CommandFails, Fallible
  <2>2. result' # "ok"
    BY <2>1, ErrorOfType DEF Steps
  <2>3. QED BY <2>1, <2>2
<1>31. ASSUME Crash PROVE BootInv'
  BY <1>31, Flow DEF Crash, TypeOK, control, disk, table, luksVol, boot, counters
<1>32. ASSUME BlobLine PROVE BootInv'
  BY <1>32, Flow DEF BlobLine, TypeOK, control, disk, table, luksVol, boot, counters
<1>33. ASSUME NEW n \in LayerCounts, InspectLayers(n) PROVE BootInv'
  BY <1>33, Flow DEF InspectLayers, TypeOK, control, disk, table, luksVol, boot, counters
<1>34. CASE UNCHANGED vars
  BY <1>34, BootFrame DEF vars, control, counters
<1>35. QED
  BY <1>1, <1>2, <1>3, <1>4, <1>5, <1>6, <1>7, <1>8, <1>9, <1>10, <1>11, <1>12, <1>13, <1>14, <1>15, <1>16, <1>17, <1>18, <1>19, <1>20, <1>21, <1>22, <1>23, <1>24, <1>25, <1>26, <1>27, <1>28, <1>29, <1>30, <1>31, <1>32, <1>33, <1>34
  DEF Next, EngineStep, Environment

\* If install() returns Ok, the system boots and unlocks: provided bootc writes
\* its entry to the ESP, or no plan keeps another system's ESP.  Without that
\* condition it does not hold (SuccessBoots in MCEngineLegacyShared).
THEOREM OkMeansBootable ==
    ASSUME OwnEsp
    PROVE  Spec => []SuccessBoots
<1>1. Init => TypeOK /\ OwnInv /\ BootInv
  BY InitType, OwnInit, BootInit
<1>2. (TypeOK /\ OwnInv /\ BootInv) /\ [Next]_vars => (TypeOK /\ OwnInv /\ BootInv)'
  BY NextType, OwnNext, BootNext
<1>3. BootInv => SuccessBoots
  <2> SUFFICES ASSUME BootInv, Returned, result = "ok"
               PROVE  /\ rootfs = "named"
                      /\ keys = WantedKeys
                      /\ entries \cap BootcDirs # {}
                      /\ \E e \in entries \cap BootcDirs :
                            kargs[e] = IF spec.enc = "none" THEN {} ELSE {hdr}
                      /\ hdr = IF spec.enc = "none" THEN 0 ELSE attempt
    BY DEF SuccessBoots
  <2>1. Bootable
    BY DEF BootInv
  <2>2. QED BY <2>1 DEF Bootable, HdrOk, Kargs
<1>4. QED BY <1>1, <1>2, <1>3, PTL DEF Spec

-----------------------------------------------------------------------------
(* Progress.                                                               *)

\* More copied layers never mean a smaller share.
LEMMA DivMonotone ==
    ASSUME NEW b \in Nat, NEW m \in Nat, m # 0, NEW j \in Nat, NEW k \in Nat, j <= k
    PROVE  (b * j) \div m <= (b * k) \div m
<1> DEFINE p == (b * j) \div m
           q == (b * k) \div m
<1>1. b * j \in Nat /\ b * k \in Nat /\ b * j <= b * k
  OBVIOUS
<1>2. p \in Int /\ p * m <= b * j
  BY <1>1
<1>3. q \in Int /\ b * k < (q + 1) * m
  BY <1>1
<1> HIDE DEF p, q
<1>4. p * m < (q + 1) * m
  BY <1>1, <1>2, <1>3
<1>5. CASE p >= q + 1
  <2>1. p * m >= (q + 1) * m
    BY <1>2, <1>3, <1>5
  <2>2. QED BY <1>2, <1>3, <1>4, <2>1
<1>6. QED BY <1>2, <1>3, <1>5 DEF p, q

\* What forward_with_progress has sent after c blob lines.
CopyPercent(c) ==
    CopyBandStart + ((CopyBandEnd - CopyBandStart) * Smaller(c, layers)) \div layers

\* At each await point, what has been sent is at most what is sent next.
PercentInv ==
    /\ pc \in {"preUmount", "preClose", "partition"} => percent <= 2
    /\ pc = "format" => percent <= 4
    /\ pc \in {"luksFormat", "luksOpen", "enroll", "dropKey"} => percent <= 6
    /\ pc = "mkfs" => percent <= 8
    /\ pc \in {"mountRoot", "mountBoot", "mountEfi"} => percent <= 9
    /\ pc = "copy" => percent <= 75
    /\ pc = "copy" /\ (layers = 0 \/ copied = 0) => percent <= CopyBandStart
    /\ pc = "copy" /\ layers # 0 => percent <= CopyPercent(copied)
    /\ pc = "deploy" => percent <= 75
    /\ pc \in {"hostname", "uuid"} => percent <= 90
    /\ pc = "bls" => percent <= 93

\* The baselines of the steps that follow another.
LEMMA Baselines ==
    /\ StartPercent[StepOf["partition"]] = 2 /\ StartPercent[StepOf["format"]] = 4
    /\ StartPercent[StepOf["luksFormat"]] = 6 /\ StartPercent[StepOf["mkfs"]] = 8
    /\ StartPercent[StepOf["mountRoot"]] = 9 /\ StartPercent[StepOf["copy"]] = 10
    /\ StartPercent[StepOf["hostname"]] = 90 /\ StartPercent[StepOf["bls"]] = 93
    /\ StartPercent[StepOf["trim"]] = 95
BY DEF StepOf, StartPercent

LEMMA FlowPercent ==
    /\ \A n : (Continue(n) \/ Leave(n)) => percent' = percent
    /\ \A n : Enter(n) => percent' = StartPercent[StepOf[n]]
    /\ \A n : CheckCancel(n) =>
          \/ (pc' = "tdUmount" /\ percent' = percent)
          \/ (pc' = n /\ percent' = StartPercent[StepOf[n]])
<1>1. \A n : (Continue(n) \/ Leave(n)) => percent' = percent
  BY DEF Continue, Leave
<1>2. \A n : Enter(n) => (pc' = n /\ percent' = StartPercent[StepOf[n]])
  BY DEF Enter
<1>3. \A o : Leave(o) => (pc' = "tdUmount" /\ percent' = percent)
  BY DEF Leave
<1>4. QED BY <1>1, <1>2, <1>3 DEF CheckCancel

LEMMA PercentNext ==
    ASSUME TypeOK, PercentInv, [Next]_vars
    PROVE  PercentInv' /\ (attempt' = attempt => percent' >= percent)
<1> DEFINE Goal == PercentInv' /\ (attempt' = attempt => percent' >= percent)
<1> USE DEF PercentInv, CopyBandStart, CopyBandEnd, IsLuks, HasBoot
<1>1. ASSUME PreflightUnmount PROVE Goal
  BY <1>1, Flow, FlowPercent, Baselines DEF PreflightUnmount, TypeOK, control, blobs, CopyPercent
<1>2. ASSUME PreflightClose PROVE Goal
  BY <1>2, Flow, FlowPercent, Baselines DEF PreflightClose, TypeOK, control, blobs, CopyPercent
<1>3. ASSUME Partition PROVE Goal
  BY <1>3, Flow, FlowPercent, Baselines DEF Partition, TypeOK, control, blobs, CopyPercent
<1>4. ASSUME PartitionRefused PROVE Goal
  BY <1>4, Flow, FlowPercent, Baselines DEF PartitionRefused, TypeOK, control, blobs, CopyPercent
<1>5. ASSUME PartitionFailsLate PROVE Goal
  BY <1>5, Flow, FlowPercent, Baselines DEF PartitionFailsLate, TypeOK, control, blobs, CopyPercent
<1>6. ASSUME Format PROVE Goal
  BY <1>6, Flow, FlowPercent, Baselines DEF Format, TypeOK, control, blobs, CopyPercent
<1>7. ASSUME LuksFormat PROVE Goal
  BY <1>7, Flow, FlowPercent, Baselines DEF LuksFormat, TypeOK, control, blobs, CopyPercent
<1>8. ASSUME LuksOpen PROVE Goal
  BY <1>8, Flow, FlowPercent, Baselines DEF LuksOpen, TypeOK, control, blobs, CopyPercent
<1>9. ASSUME Tpm2Enroll PROVE Goal
  BY <1>9, Flow, FlowPercent, Baselines DEF Tpm2Enroll, TypeOK, control, blobs, CopyPercent
<1>10. ASSUME RemoveKeyslot PROVE Goal
  BY <1>10, Flow, FlowPercent, Baselines DEF RemoveKeyslot, TypeOK, control, blobs, CopyPercent
<1>11. ASSUME Mkfs PROVE Goal
  BY <1>11, Flow, FlowPercent, Baselines DEF Mkfs, TypeOK, control, blobs, CopyPercent
<1>12. ASSUME MountRoot PROVE Goal
  BY <1>12, Flow, FlowPercent, Baselines DEF MountRoot, Mount, TypeOK, control, blobs, CopyPercent
<1>13. ASSUME MountBoot PROVE Goal
  BY <1>13, Flow, FlowPercent, Baselines DEF MountBoot, Mount, TypeOK, control, blobs, CopyPercent
<1>14. ASSUME MountEfi PROVE Goal
  <2>1. UNCHANGED <<layers, copied>> /\ layers \in Nat /\ copied \in Nat
        /\ percent \in Int /\ percent <= 9
    BY <1>14 DEF MountEfi, Mount, blobs, TypeOK
  <2>2. layers # 0 => CopyPercent(copied)' \in 10..75
    BY <2>1, CopyBand DEF CopyPercent
  <2>3. \/ pc' = "tdUmount" /\ percent' = percent
        \/ pc' = "copy" /\ percent' = 10
    BY <1>14, FlowPercent, Baselines DEF MountEfi, Mount
  <2>4. QED BY <2>1, <2>2, <2>3
<1>15. ASSUME CopyDone PROVE Goal
  BY <1>15, Flow, FlowPercent, Baselines DEF CopyDone, TypeOK, control, blobs, CopyPercent
<1>16. ASSUME CancelCopy PROVE Goal
  BY <1>16, Flow, FlowPercent, Baselines DEF CancelCopy, TypeOK, control, blobs, CopyPercent
<1>17. ASSUME CancelDeploy PROVE Goal
  BY <1>17, Flow, FlowPercent, Baselines DEF CancelDeploy, TypeOK, control, blobs, CopyPercent
<1>18. ASSUME NEW e \in BootcDirs, Deploy(e) PROVE Goal
  BY <1>18, Flow, FlowPercent, Baselines DEF Deploy, TypeOK, control, blobs, CopyPercent
<1>19. ASSUME Hostname PROVE Goal
  BY <1>19, Flow, FlowPercent, Baselines DEF Hostname, TypeOK, control, blobs, CopyPercent
<1>20. ASSUME ReadUuid PROVE Goal
  BY <1>20, Flow, FlowPercent, Baselines DEF ReadUuid, TypeOK, control, blobs, CopyPercent
<1>21. ASSUME Bls PROVE Goal
  BY <1>21, Flow, FlowPercent, Baselines DEF Bls, TypeOK, control, blobs, CopyPercent
<1>22. ASSUME Fstrim PROVE Goal
  BY <1>22, Flow, FlowPercent, Baselines DEF Fstrim, TypeOK, control, blobs, CopyPercent
<1>23. ASSUME FinalizeUnmount PROVE Goal
  BY <1>23, Flow, FlowPercent, Baselines DEF FinalizeUnmount, Succeed, TypeOK, control, blobs, CopyPercent
<1>24. ASSUME FinalizeClose PROVE Goal
  BY <1>24, Flow, FlowPercent, Baselines DEF FinalizeClose, Succeed, TypeOK, control, blobs, CopyPercent
<1>25. ASSUME TeardownUnmount PROVE Goal
  BY <1>25, Flow, FlowPercent, Baselines DEF TeardownUnmount, TypeOK, control, blobs, CopyPercent
<1>26. ASSUME TeardownClose PROVE Goal
  BY <1>26, Flow, FlowPercent, Baselines DEF TeardownClose, TypeOK, control, blobs, CopyPercent
<1>27. ASSUME NEW s \in [enc : Encs, plan : Plans], Start(s) PROVE Goal
  BY <1>27, Flow, FlowPercent, Baselines DEF Start, TypeOK, control, blobs, CopyPercent
<1>28. ASSUME Cancel PROVE Goal
  BY <1>28, Flow, FlowPercent, Baselines DEF Cancel, TypeOK, control, blobs, CopyPercent
<1>29. ASSUME HolderExits PROVE Goal
  BY <1>29, Flow, FlowPercent, Baselines DEF HolderExits, TypeOK, control, blobs, CopyPercent
<1>30. ASSUME CommandFails PROVE Goal
  BY <1>30, Flow, FlowPercent, Baselines DEF CommandFails, Fallible, TypeOK, control, blobs, CopyPercent
<1>31. ASSUME Crash PROVE Goal
  BY <1>31, Flow, FlowPercent, Baselines DEF Crash, TypeOK, control, blobs, CopyPercent
<1>32. ASSUME BlobLine PROVE Goal
  <2>1. pc = "copy" /\ copied' = copied + 1 /\ UNCHANGED <<pc, layers>>
        /\ copied \in Nat /\ layers \in Nat /\ percent \in Int
    BY <1>32 DEF BlobLine, TypeOK
  <2>2. CASE layers = 0
    BY <1>32, <2>1, <2>2 DEF BlobLine
  <2>3. CASE layers # 0
    <3>1. percent' = CopyPercent(copied + 1)
      BY <1>32, <2>1, <2>3 DEF BlobLine, CopyPercent
    <3>2. CopyPercent(copied + 1) \in 10..75
      BY <2>1, <2>3, CopyBand DEF CopyPercent
    <3>3. CopyPercent(copied) <= CopyPercent(copied + 1)
      <4>1. /\ Smaller(copied, layers) \in Nat /\ Smaller(copied + 1, layers) \in Nat
            /\ Smaller(copied, layers) <= Smaller(copied + 1, layers)
        BY <2>1 DEF Smaller
      <4>2. (65 * Smaller(copied, layers)) \div layers \in Int
            /\ (65 * Smaller(copied + 1, layers)) \div layers \in Int
        BY <2>1, <2>3, <4>1
      <4>3. (65 * Smaller(copied, layers)) \div layers
               <= (65 * Smaller(copied + 1, layers)) \div layers
        BY <2>1, <2>3, <4>1, DivMonotone
      <4>4. QED BY <4>2, <4>3 DEF CopyPercent
    <3>4. CopyPercent(copied) \in 10..75
      BY <2>1, <2>3, CopyBand DEF CopyPercent
    <3>5. percent <= CopyPercent(copied)
      BY <2>1, <2>3
    <3>6. percent' >= percent
      BY <2>1, <3>1, <3>2, <3>3, <3>4, <3>5
    <3>7. CopyPercent(copied)' = CopyPercent(copied + 1)
      BY <2>1 DEF CopyPercent
    <3>8. QED BY <2>1, <2>3, <3>1, <3>2, <3>6, <3>7
  <2>4. QED BY <2>2, <2>3
<1>33. ASSUME NEW n \in LayerCounts, InspectLayers(n) PROVE Goal
  <2>1. n \in Nat /\ n # 0 /\ layers' = n /\ copied' = 0 /\ copied = 0
        /\ UNCHANGED <<pc, percent>> /\ pc = "copy" /\ percent \in Int
    BY <1>33, LayersAssumption DEF InspectLayers, control, TypeOK
  <2>2. CopyPercent(copied)' \in 10..75
    BY <2>1, CopyBand DEF CopyPercent
  <2>3. QED BY <2>1, <2>2
<1>34. CASE UNCHANGED vars
  BY <1>34 DEF vars, control, blobs, counters, TypeOK, CopyPercent
<1>35. QED
  BY <1>1, <1>2, <1>3, <1>4, <1>5, <1>6, <1>7, <1>8, <1>9, <1>10, <1>11, <1>12, <1>13, <1>14, <1>15, <1>16, <1>17, <1>18, <1>19, <1>20, <1>21, <1>22, <1>23, <1>24, <1>25, <1>26, <1>27, <1>28, <1>29, <1>30, <1>31, <1>32, <1>33, <1>34
  DEF Next, EngineStep, Environment

\* The percentage the window shows never goes back within an install, for any
\* number of layers, any number of blob lines skopeo prints, and whether or not
\* it could be asked for the total.
THEOREM PercentMonotonic == Spec => ProgressMonotonic
<1>1. Init => TypeOK /\ PercentInv
  BY InitType DEF Init, PercentInv
<1>2. (TypeOK /\ PercentInv) /\ [Next]_vars
         => /\ (TypeOK /\ PercentInv)'
            /\ [attempt' = attempt => percent' >= percent]_vars
  BY NextType, PercentNext
<1>3. QED BY <1>1, <1>2, PTL DEF Spec, ProgressMonotonic

-----------------------------------------------------------------------------
(* A retry succeeds: the safety half.  That the engine keeps moving is     *)
(* RetrySucceeds, which TLC checks under fairness.                         *)

\* An attempt that can still succeed: not cancelled, no bootc of an earlier one is
\* dying, what its plan asks for is there until it partitions, and by then the disk
\* is free.  At its end it has.
OnTrack ==
    /\ ~cancel /\ ~holder
    /\ result = IF pc \in Teardown \cup {"idle"} THEN "ok" ELSE "none"
    /\ pc \in {"preUmount", "preClose", "partition"} => (NeedsGap => gap)
    /\ pc = "partition" => ~InUse

StaysOnTrack == [][OnTrack => OnTrack' \/ cancel' \/ counters' # counters]_vars

\* Past the partition step only what `result` and `cancel` say matters.
LEMMA TrackAt ==
    ASSUME ~cancel', ~holder', result' = result, result = "none",
           pc' \notin Teardown \cup {"idle", "preUmount", "preClose", "partition"}
    PROVE  OnTrack'
BY DEF OnTrack

\* A stage after the partition step, when nothing is cancelled.
LEMMA TrackGoesOn ==
    ASSUME OnTrack, pc \notin Teardown \cup {"idle"}, ~cancel', ~holder',
           NEW n \in DOMAIN StepOf \ {"partition"}, Enter(n) \/ Continue(n) \/ CheckCancel(n)
    PROVE  OnTrack'
<1>1. n \notin Teardown \cup {"idle", "preUmount", "preClose", "partition"}
  BY StepDomain DEF Teardown
<1>2. pc' = n /\ result' = result /\ result = "none"
  BY Flow DEF OnTrack
<1>3. QED BY <1>1, <1>2, TrackAt

LEMMA TrackNext ==
    ASSUME TypeOK, OwnInv, OnTrack, [Next]_vars, ~cancel', counters' = counters
    PROVE  OnTrack'
<1> USE DEF counters
<1>0. /\ TypeOK /\ Holding /\ NoResultYet /\ MountsAt /\ DevicesAt
      /\ ~cancel /\ ~holder /\ ~detached
      /\ result = IF pc \in Teardown \cup {"idle"} THEN "ok" ELSE "none"
  BY DEF OwnInv, Holding, OnTrack
<1>1. CASE PreflightUnmount
  <2>1. pc = "preUmount" /\ pc' = "preClose" /\ result' = result /\ UNCHANGED <<gap, spec, holder>>
    BY <1>1, Flow DEF PreflightUnmount, UnmountAll, disk, table
  <2>2. QED BY <2>1 DEF OnTrack, Teardown, NeedsGap
<1>2. CASE PreflightClose
  <2>1. pc = "preClose" /\ pc' = "partition" /\ result' = result
        /\ UNCHANGED <<gap, spec, holder, mounts, detached>>
    BY <1>0, <1>2, Flow DEF PreflightClose, CloseMapper, disk, table
  <2>2. mounts = {} /\ mapper' = FALSE
    BY <1>0, <1>2, <2>1 DEF PreflightClose, CloseMapper, MountsAt
  <2>3. ~InUse'
    BY <1>0, <2>1, <2>2 DEF InUse
  <2>4. QED BY <2>1, <2>3 DEF OnTrack, Teardown, NeedsGap
<1>3. CASE Partition
  BY <1>0, <1>3, TrackGoesOn, StepDomain DEF Partition, host, Teardown
<1>4. CASE PartitionRefused
  BY <1>4 DEF PartitionRefused, PartitionOk, OnTrack
<1>5. CASE Format \/ LuksFormat \/ LuksOpen \/ Tpm2Enroll \/ RemoveKeyslot
  BY <1>0, <1>5, TrackGoesOn, StepDomain
  DEF Format, LuksFormat, LuksOpen, Tpm2Enroll, RemoveKeyslot, host, Teardown
<1>6. CASE Mkfs \/ MountRoot \/ MountBoot \/ MountEfi
  BY <1>0, <1>6, TrackGoesOn, StepDomain
  DEF Mkfs, MountRoot, MountBoot, MountEfi, Mount, host, Teardown
<1>7. CASE CopyDone
  <2>1. pc = "copy" /\ pc' = "deploy" /\ result' = result /\ holder' = holder
    BY <1>7 DEF CopyDone, host
  <2>2. QED BY <1>0, <2>1, TrackAt DEF Teardown
<1>8. ~CancelCopy /\ ~CancelDeploy /\ ~HolderExits
  BY <1>0 DEF CancelCopy, CancelDeploy, HolderExits
<1>9. CASE \E entry \in BootcDirs : Deploy(entry)
  BY <1>0, <1>9, TrackGoesOn, StepDomain DEF Deploy, host, Teardown
<1>10. CASE Hostname \/ ReadUuid \/ Bls \/ Fstrim
  BY <1>0, <1>10, TrackGoesOn, StepDomain
  DEF Hostname, ReadUuid, Bls, Fstrim, host, Teardown
<1>11. CASE FinalizeUnmount
  <2>1. holder' = holder /\ pc = "finUmount"
    BY <1>11 DEF FinalizeUnmount, UnmountAll
  <2>2. CASE IsLuks
    BY <1>0, <1>11, <2>1, <2>2, TrackGoesOn, StepDomain DEF FinalizeUnmount, Teardown
  <2>3. CASE ~IsLuks
    BY <1>0, <1>11, <2>1, <2>3 DEF FinalizeUnmount, Succeed, OnTrack, Teardown
  <2>4. QED BY <2>2, <2>3
<1>12. CASE FinalizeClose
  BY <1>0, <1>12 DEF FinalizeClose, CloseMapper, Succeed, OnTrack, Teardown
<1>13. CASE TeardownUnmount \/ TeardownClose
  <2>1. pc \in Teardown /\ pc' \in {"tdClose", "idle"} /\ result' = result /\ holder' = holder
    BY <1>13, Flow DEF TeardownUnmount, TeardownClose, UnmountAll, CloseMapper, Teardown
  <2>2. QED BY <1>0, <2>1 DEF OnTrack, Teardown
<1>14. ASSUME \/ \E s \in [enc : Encs, plan : Plans] : Start(s)
              \/ CommandFails \/ PartitionFailsLate \/ Crash
       PROVE  FALSE
  <2>1. attempt' # attempt \/ faults' # faults \/ crashes' # crashes
    BY <1>0, <1>14 DEF Start, CommandFails, PartitionFailsLate, Crash, TypeOK
  <2>2. QED BY <2>1
<1>15. ~Cancel
  BY DEF Cancel
<1>16. CASE BlobLine \/ (\E n \in LayerCounts : InspectLayers(n)) \/ UNCHANGED vars
  <2>1. UNCHANGED <<pc, result, holder, spec, gap, mounts, mapper, detached>>
    BY <1>16 DEF BlobLine, InspectLayers, vars, control, host, disk, table
  <2>2. QED BY <2>1 DEF OnTrack, NeedsGap, InUse
<1>17. QED
  BY <1>1, <1>2, <1>3, <1>4, <1>5, <1>6, <1>7, <1>8, <1>9, <1>10, <1>11, <1>12, <1>13,
     <1>14, <1>15, <1>16
  DEF Next, EngineStep, Environment

\* Whatever earlier attempts left mounted, open or detached: an attempt that begins
\* when no killed bootc is left and its plan's gap, if it needs one, is there, is on
\* track; nothing but the user, a failing command or the death of the process takes
\* it off; and on track it can only end with Ok.  No step of the engine itself fails a
\* retry.
THEOREM RetriesStayOnTrack ==
    Spec => /\ [](pc = "preUmount" /\ ~cancel /\ ~holder /\ (NeedsGap => gap) => OnTrack)
            /\ [](OnTrack /\ pc = "idle" => result = "ok")
            /\ StaysOnTrack
<1>1. TypeOK /\ OwnInv
         => (pc = "preUmount" /\ ~cancel /\ ~holder /\ (NeedsGap => gap) => OnTrack)
  BY DEF OwnInv, NoResultYet, OnTrack, Teardown
<1>2. OnTrack /\ pc = "idle" => result = "ok"
  BY DEF OnTrack
<1>3. TypeOK /\ OwnInv /\ [Next]_vars
         => [OnTrack => OnTrack' \/ cancel' \/ counters' # counters]_vars
  BY TrackNext
<1>4. QED BY <1>1, <1>2, <1>3, OwnInvariant, PTL DEF Spec, StaysOnTrack

-----------------------------------------------------------------------------
(* The refinement of InstallTask.                                          *)

WorkPCs == {"preUmount", "preClose", "partition", "format", "luksFormat", "luksOpen",
            "enroll", "dropKey", "mkfs", "mountRoot", "mountBoot", "mountEfi", "copy",
            "deploy", "hostname", "uuid", "bls"}

\* The teardown knows what install() will return.
Decided == pc \in Teardown => result \notin {"none", "crashed", "invalid"}

TaskVars == <<Phase, cancel, Outcome>>

LEMMA PhaseAt ==
    /\ pc \in WorkPCs => Phase = "working" /\ Outcome = "none"
    /\ pc \in FinalizePCs => Phase = "finishing" /\ Outcome = "none"
    /\ pc \in Teardown /\ result # "ok" => Phase = "working" /\ Outcome = "none"
    /\ pc \in Teardown /\ result = "ok" => Phase = "finishing" /\ Outcome = "none"
    /\ pc = "idle" => Phase = "idle"
    /\ pc = "idle" /\ result \in {"none", "crashed"} => Outcome = "none"
    /\ pc = "idle" /\ result = "ok" => Outcome = "ok"
    /\ pc = "idle" /\ result \notin {"none", "crashed", "ok"} => Outcome = "error"
BY DEF Phase, Outcome, WorkPCs, FinalizePCs, Teardown

\* A stage that goes on to another, or to the teardown with an error, is a
\* stuttering step of the task.
LEMMA StaysWorking ==
    ASSUME pc \in WorkPCs, cancel' = cancel,
           \/ pc' \in WorkPCs
           \/ pc' = "tdUmount" /\ result' \in {"cancelled"} \cup Steps
    PROVE  UNCHANGED TaskVars /\ Decided'
<1>1. result' \in {"cancelled"} \cup Steps => result' \notin {"ok", "none", "crashed", "invalid"}
  BY DEF Steps
<1>2. Phase = "working" /\ Outcome = "none"
  BY PhaseAt
<1>3. Phase' = "working" /\ Outcome' = "none"
  BY <1>1 DEF Phase, Outcome, WorkPCs, FinalizePCs, Teardown
<1>4. Decided'
  BY <1>1 DEF Decided, Teardown, WorkPCs
<1>5. QED BY <1>2, <1>3, <1>4 DEF TaskVars

LEMMA TaskStep ==
    ASSUME TypeOK, NoResultYet, Decided, [Next]_vars
    PROVE  (Task!Next \/ UNCHANGED TaskVars) /\ Decided'
<1> DEFINE Goal == (Task!Next \/ UNCHANGED TaskVars) /\ Decided'
<1>1. ASSUME PreflightUnmount PROVE Goal
  BY <1>1, Flow, StaysWorking DEF PreflightUnmount, WorkPCs, Steps, IsLuks, HasBoot
<1>2. ASSUME PreflightClose PROVE Goal
  BY <1>2, Flow, StaysWorking DEF PreflightClose, WorkPCs, Steps, IsLuks, HasBoot
<1>3. ASSUME Partition PROVE Goal
  BY <1>3, Flow, StaysWorking DEF Partition, WorkPCs, Steps, IsLuks, HasBoot
<1>4. ASSUME PartitionRefused PROVE Goal
  BY <1>4, Flow, StaysWorking DEF PartitionRefused, WorkPCs, Steps, IsLuks, HasBoot
<1>5. ASSUME PartitionFailsLate PROVE Goal
  BY <1>5, Flow, StaysWorking DEF PartitionFailsLate, WorkPCs, Steps, IsLuks, HasBoot
<1>6. ASSUME Format PROVE Goal
  BY <1>6, Flow, StaysWorking DEF Format, WorkPCs, Steps, IsLuks, HasBoot
<1>7. ASSUME LuksFormat PROVE Goal
  BY <1>7, Flow, StaysWorking DEF LuksFormat, WorkPCs, Steps, IsLuks, HasBoot
<1>8. ASSUME LuksOpen PROVE Goal
  BY <1>8, Flow, StaysWorking DEF LuksOpen, WorkPCs, Steps, IsLuks, HasBoot
<1>9. ASSUME Tpm2Enroll PROVE Goal
  BY <1>9, Flow, StaysWorking DEF Tpm2Enroll, WorkPCs, Steps, IsLuks, HasBoot
<1>10. ASSUME RemoveKeyslot PROVE Goal
  BY <1>10, Flow, StaysWorking DEF RemoveKeyslot, WorkPCs, Steps, IsLuks, HasBoot
<1>11. ASSUME Mkfs PROVE Goal
  BY <1>11, Flow, StaysWorking DEF Mkfs, WorkPCs, Steps, IsLuks, HasBoot
<1>12. ASSUME MountRoot PROVE Goal
  BY <1>12, Flow, StaysWorking DEF MountRoot, Mount, WorkPCs, Steps, IsLuks, HasBoot
<1>13. ASSUME MountBoot PROVE Goal
  BY <1>13, Flow, StaysWorking DEF MountBoot, Mount, WorkPCs, Steps, IsLuks, HasBoot
<1>14. ASSUME MountEfi PROVE Goal
  BY <1>14, Flow, StaysWorking DEF MountEfi, Mount, WorkPCs, Steps, IsLuks, HasBoot
<1>15. ASSUME CopyDone PROVE Goal
  BY <1>15, Flow, StaysWorking DEF CopyDone, WorkPCs, Steps, IsLuks, HasBoot
<1>16. ASSUME CancelCopy PROVE Goal
  BY <1>16, Flow, StaysWorking DEF CancelCopy, WorkPCs, Steps, IsLuks, HasBoot
<1>17. ASSUME CancelDeploy PROVE Goal
  BY <1>17, Flow, StaysWorking DEF CancelDeploy, WorkPCs, Steps, IsLuks, HasBoot
<1>18. ASSUME NEW e \in BootcDirs, Deploy(e) PROVE Goal
  BY <1>18, Flow, StaysWorking DEF Deploy, WorkPCs, Steps, IsLuks, HasBoot
<1>19. ASSUME ReadUuid PROVE Goal
  BY <1>19, Flow, StaysWorking DEF ReadUuid, WorkPCs, Steps, IsLuks, HasBoot
<1>20. ASSUME Hostname PROVE Goal
  <2>1. pc = "hostname" /\ cancel' = cancel
    BY <1>20 DEF Hostname
  <2>2. CASE pc' = "tdUmount" /\ result' = "cancelled"
    BY <2>1, <2>2, StaysWorking DEF WorkPCs
  <2>3. CASE pc' = "uuid"
    BY <2>1, <2>3, StaysWorking DEF WorkPCs
  <2>4. CASE pc' = "trim" /\ ~cancel
    <3>1. Phase = "working" /\ Outcome = "none"
      BY <2>1, PhaseAt DEF WorkPCs
    <3>2. Phase' = "finishing" /\ Outcome' = "none"
      BY <2>4 DEF Phase, Outcome, FinalizePCs
    <3>3. Decided'
      BY <2>4 DEF Decided, Teardown
    <3>4. QED BY <2>1, <2>4, <3>1, <3>2, <3>3 DEF Task!Next, Task!Commit
  <2>5. QED BY <1>20, <2>2, <2>3, <2>4, Flow DEF Hostname
<1>21. ASSUME Bls PROVE Goal
  <2>1. pc = "bls" /\ cancel' = cancel
    BY <1>21 DEF Bls
  <2>2. CASE pc' = "tdUmount" /\ result' = "cancelled"
    BY <2>1, <2>2, StaysWorking DEF WorkPCs
  <2>3. CASE pc' = "uuid"
    BY <2>1, <2>3, StaysWorking DEF WorkPCs
  <2>4. CASE pc' = "trim" /\ ~cancel
    <3>1. Phase = "working" /\ Outcome = "none"
      BY <2>1, PhaseAt DEF WorkPCs
    <3>2. Phase' = "finishing" /\ Outcome' = "none"
      BY <2>4 DEF Phase, Outcome, FinalizePCs
    <3>3. Decided'
      BY <2>4 DEF Decided, Teardown
    <3>4. QED BY <2>1, <2>4, <3>1, <3>2, <3>3 DEF Task!Next, Task!Commit
  <2>5. QED BY <1>21, <2>2, <2>3, <2>4, Flow DEF Bls
<1>22. ASSUME Fstrim PROVE Goal
  <2>1. pc = "trim" /\ pc' = "finUmount" /\ cancel' = cancel /\ result' = result
    BY <1>22, Flow DEF Fstrim
  <2>2. QED BY <2>1 DEF TaskVars, Phase, Outcome, FinalizePCs, Decided, Teardown
<1>23. ASSUME FinalizeUnmount \/ FinalizeClose PROVE Goal
  <2>1. pc \in {"finUmount", "finClose"} /\ cancel' = cancel
        /\ (pc' = "finClose" \/ (pc' = "tdUmount" /\ result' = "ok"))
    BY <1>23, Flow DEF FinalizeUnmount, FinalizeClose, Succeed
  <2>2. QED BY <2>1 DEF TaskVars, Phase, Outcome, FinalizePCs, Decided, Teardown
<1>24. ASSUME TeardownUnmount \/ TeardownClose PROVE Goal
  <2>1. pc \in Teardown /\ cancel' = cancel /\ result' = result
        /\ pc' \in {"tdClose", "idle"}
    BY <1>24, Flow DEF TeardownUnmount, TeardownClose, Teardown, IsLuks
  <2>2. Decided'
    BY <2>1 DEF Decided, Teardown
  <2>3. CASE pc' = "tdClose"
    BY <2>1, <2>2, <2>3 DEF TaskVars, Phase, Outcome, FinalizePCs, Teardown
  <2>4. CASE pc' = "idle" /\ result = "ok"
    <3>1. Phase = "finishing" /\ Phase' = "idle" /\ Outcome' = "ok"
      BY <2>1, <2>4 DEF Phase, Outcome, FinalizePCs, Teardown
    <3>2. QED BY <2>1, <2>2, <3>1 DEF Task!Next, Task!Succeed
  <2>5. CASE pc' = "idle" /\ result # "ok"
    <3>1. Phase = "working" /\ Phase' = "idle" /\ Outcome' = "error"
      BY <2>1, <2>5 DEF Phase, Outcome, FinalizePCs, Teardown, Decided
    <3>2. QED BY <2>1, <2>2, <3>1 DEF Task!Next, Task!Fail
  <2>6. QED BY <2>1, <2>3, <2>4, <2>5
<1>25. ASSUME NEW s \in [enc : Encs, plan : Plans], Start(s) PROVE Goal
  <2>1. pc = "idle" /\ cancel' = FALSE
        /\ ((pc' = "idle" /\ result' = "invalid") \/ pc' = "preUmount")
    BY <1>25 DEF Start
  <2>2. Decided'
    BY <2>1 DEF Decided, Teardown
  <2>3. CASE pc' = "idle" /\ result' = "invalid"
    <3>1. Phase = "idle" /\ Phase' = "idle" /\ Outcome' = "error"
      BY <2>1, <2>3 DEF Phase, Outcome
    <3>2. QED BY <2>1, <2>2, <3>1 DEF Task!Next, Task!Refuse
  <2>4. CASE pc' = "preUmount"
    <3>1. Phase = "idle" /\ Phase' = "working" /\ Outcome' = "none"
      BY <2>1, <2>4 DEF Phase, Outcome, FinalizePCs, Teardown
    <3>2. QED BY <2>1, <2>2, <3>1 DEF Task!Next, Task!Begin
  <2>5. QED BY <2>1, <2>3, <2>4
<1>26. ASSUME Cancel PROVE Goal
  <2>1. UNCHANGED <<Phase, Outcome>> /\ cancel' = TRUE
    BY <1>26 DEF Cancel, control, Phase, Outcome
  <2>2. Decided'
    BY <1>26 DEF Cancel, control, Decided
  <2>3. QED BY <2>1, <2>2 DEF Task!Next, Task!Cancel
<1>27. ASSUME HolderExits \/ BlobLine \/ \E n \in LayerCounts : InspectLayers(n) PROVE Goal
  BY <1>27 DEF HolderExits, BlobLine, InspectLayers, control, TaskVars, Phase, Outcome, Decided
<1>28. ASSUME CommandFails PROVE Goal
  <2>1. pc \in Fallible /\ pc' = "tdUmount" /\ result' = ErrorOf[pc] /\ cancel' = cancel
    BY <1>28, Flow DEF CommandFails
  <2>2. result' \in Steps
    BY <2>1, ErrorOfType DEF Fallible
  <2>3. pc \in WorkPCs
    BY <2>1, StepDomain DEF Fallible, WorkPCs
  <2>4. QED BY <2>1, <2>2, <2>3, StaysWorking
<1>29. ASSUME Crash PROVE Goal
  <2>1. pc # "idle" /\ pc' = "idle" /\ result' = "crashed" /\ cancel' = cancel
    BY <1>29 DEF Crash
  <2>2. Phase # "idle" /\ Phase' = "idle" /\ Outcome' = "none"
    BY <2>1 DEF Phase, Outcome
  <2>3. Decided'
    BY <2>1 DEF Decided, Teardown
  <2>4. QED BY <2>1, <2>2, <2>3 DEF Task!Next, Task!Die
<1>30. CASE UNCHANGED vars
  BY <1>30 DEF vars, control, TaskVars, Phase, Outcome, Decided
<1>31. QED
  BY <1>1, <1>2, <1>3, <1>4, <1>5, <1>6, <1>7, <1>8, <1>9, <1>10, <1>11, <1>12, <1>13, <1>14, <1>15, <1>16, <1>17, <1>18, <1>19, <1>20, <1>21, <1>22, <1>23, <1>24, <1>25, <1>26, <1>27, <1>28, <1>29, <1>30
  DEF Next, EngineStep, Environment

\* install() implements InstallTask: no cancellation that comes before finalize
\* is answered with Ok, and after it only the death of the process keeps the
\* attempt from succeeding.
THEOREM ImplementsTask == Spec => KeepsPromise
<1>1. Init => Task!Init /\ Decided
  <2> SUFFICES ASSUME Init PROVE Task!Init /\ Decided
    OBVIOUS
  <2>1. Phase = "idle" /\ Outcome = "none" /\ cancel = FALSE
    BY DEF Init, Phase, Outcome
  <2>2. Decided
    BY DEF Init, Decided, Teardown
  <2>3. QED BY <2>1, <2>2 DEF Task!Init
<1>2. TypeOK /\ OwnInv /\ Decided /\ [Next]_vars => [Task!Next]_TaskVars /\ Decided'
  BY TaskStep DEF OwnInv
<1>3. TaskVars = Task!taskVars
  BY DEF TaskVars, Task!taskVars
<1>4. TypeOK /\ OwnInv /\ Decided /\ [Next]_vars => [Task!Next]_(Task!taskVars) /\ Decided'
  BY <1>2, <1>3 DEF TaskVars, Task!taskVars
<1>5. QED BY <1>1, <1>4, OwnInvariant, PTL DEF Spec, KeepsPromise, Task!Spec

=============================================================================
