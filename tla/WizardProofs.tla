---------------------------- MODULE WizardProofs ----------------------------
(***************************************************************************)
(* Proofs about Wizard.tla, for any devices, lists, catalogs and rescans:  *)
(* its type invariant, the properties of the layout, of the Install button *)
(* and of the spec that is sent.                                           *)
(***************************************************************************)
EXTENDS Wizard, TLAPS

-----------------------------------------------------------------------------
(* Lists of disks.                                                         *)

LEMMA ListTyped ==
    ASSUME NEW list \in Lists
    PROVE  /\ Len(list) \in 0..MaxDisks
           /\ DOMAIN list = 1..Len(list)
           /\ \A i \in DOMAIN list : list[i] \in Disks
<1>1. PICK n \in 0..MaxDisks : list \in [1..n -> Disks]
    BY DEF Lists
<1>2. n \in Nat
    BY <1>1, WizardAssumption
<1>3. list \in Seq(Disks) /\ Len(list) = n
    BY <1>1, <1>2
<1> QED BY <1>1, <1>3

\* A position is of a disk exactly when the list reaches it.
LEMMA AtTyped ==
    ASSUME NEW list \in Lists, NEW i \in Nat
    PROVE  /\ At(list, i) \in Disks \cup {NoDisk}
           /\ At(list, i) # NoDisk <=> i \in DOMAIN list
           /\ PathOf(At(list, i)) \in Paths \cup {NoDisk}
           /\ PathOf(At(list, i)) # NoDisk <=> i \in DOMAIN list
<1>1. CASE i \in DOMAIN list
    <2>1. At(list, i) = list[i] /\ list[i] \in Disks /\ list[i] # NoDisk
        BY <1>1, ListTyped, WizardAssumption DEF At
    <2>2. PathOf(At(list, i)) = list[i].path /\ list[i].path \in Paths
        BY <2>1 DEF PathOf, Paths
    <2> QED BY <1>1, <2>1, <2>2, WizardAssumption
<1>2. CASE i \notin DOMAIN list
    BY <1>2 DEF At, PathOf
<1> QED BY <1>1, <1>2

LEMMA EmptyList == <<>> \in Lists
<1>1. <<>> \in [1..0 -> Disks] /\ 0 \in 0..MaxDisks
    BY WizardAssumption
<1> QED BY <1>1 DEF Lists

-----------------------------------------------------------------------------
(* The inductive invariant.  TypeOK and LayoutIsOfDisk say nothing of how  *)
(* the confirm page was reached, nor of what the history remembers.        *)

\* The layout is of the selected disk as the last probe reported it: not of another
\* disk, and not of what the disk was before a rescan.
LayoutIsOfDisk == layout.disk \in {NoDisk, Selected}

\* A layout that is there is of a disk.
ValidHasDisk == layout.valid => layout.disk # NoDisk

\* What the user chose is what the position names, until a list moves it.
ChoiceKept ==
    /\ disk # 0 => chosen # NoDisk
    /\ ~moved => chosen = PathOf(Selected)

\* What the Continue buttons have let through.
Reached ==
    /\ page \in {"layout", "encryption", "confirm"} => disk # 0
    /\ page = "confirm" => EncryptionContinue
    /\ page \in {"encryption", "confirm"} /\ mode = "custom" /\ ~rescanned => layout.valid

\* Beyond the image page an image is selected, or it was skipped without one.
ImageReached ==
    /\ page # "welcome" /\ catalog = "loading" => skipped
    /\ catalog = "loaded" /\ images = 1 => image = 1
    /\ page \in {"wifi", "disk", "layout", "encryption", "confirm"} =>
          image \in 1..images \/ skipped \/ (catalog = "loaded" /\ images = 0)

\* Free space was offered because a root fits.
GapKept == mode = "free" /\ ~carried => Selected # NoDisk /\ Selected.gap = "fits"

Ready == ImageReached /\ GapKept

Inv == TypeOK /\ LayoutIsOfDisk /\ ValidHasDisk /\ ChoiceKept /\ Reached /\ Ready

LEMMA InitInv == Init => Inv
<1> SUFFICES ASSUME Init
             PROVE  Inv
    OBVIOUS
<1>1. TypeOK
    <2>1. /\ disks \in Lists /\ disk \in 0..MaxDisks
          /\ refreshes \in 0..MaxRefreshes /\ probes \in 0..refreshes + 1
          /\ images \in 0..MaxImages /\ image \in 0..images
        BY EmptyList, WizardAssumption DEF Init
    <2>2. layout \in [disk : Disks \cup {NoDisk}, valid : BOOLEAN]
        BY DEF Init, NoLayout
    <2> QED BY <2>1, <2>2 DEF Init, TypeOK, Pages, Modes, Choices
<1>2. Selected = NoDisk
    BY DEF Init, Selected, At
<1>3. LayoutIsOfDisk /\ ValidHasDisk
    BY DEF Init, LayoutIsOfDisk, ValidHasDisk, NoLayout
<1>4. ChoiceKept /\ Reached
    BY <1>2 DEF Init, ChoiceKept, Reached, PathOf
<1>5. Ready
    BY DEF Init, Ready, ImageReached, GapKept
<1> QED BY <1>1, <1>3, <1>4, <1>5 DEF Inv

-----------------------------------------------------------------------------
(* What arrives.                                                           *)

LEMMA CatalogLoadedInv ==
    ASSUME Inv, CatalogLoaded
    PROVE  Inv'
<1> USE DEF Inv, CatalogLoaded, history
<1>1. images' \in 0..MaxImages /\ image' \in 0..images'
    BY WizardAssumption
<1>2. TypeOK'
    BY <1>1 DEF TypeOK
<1>3. LayoutIsOfDisk' /\ ValidHasDisk' /\ ChoiceKept' /\ Reached'
    BY DEF LayoutIsOfDisk, ValidHasDisk, ChoiceKept, Reached, Selected, EncryptionContinue
<1>4. Ready'
    <2>1. page # "welcome" => skipped'
        BY DEF Ready, ImageReached
    <2>2. images' = 1 => image' = 1
        OBVIOUS
    <2> QED BY <2>1, <2>2 DEF Ready, ImageReached, GapKept, Selected
<1> QED BY <1>2, <1>3, <1>4

LEMMA DisksLoadedInv ==
    ASSUME Inv, DisksLoaded
    PROVE  Inv'
<1>1. PICK list \in Lists :
          /\ disks' = list
          /\ disk' = IF Len(list) = 1 THEN 1 ELSE disk
          /\ layout' = NoLayout
          /\ Arrived(list)
    BY DEF DisksLoaded
<1>2. TypeOK
    BY DEF Inv
<1>3. disk \in Nat /\ disk' \in 0..MaxDisks /\ Len(list) \in 0..MaxDisks /\ MaxDisks \in Nat
    <2>1. Len(list) \in 0..MaxDisks /\ MaxDisks \in Nat
        BY ListTyped, WizardAssumption
    <2>2. disk \in 0..MaxDisks
        BY <1>2 DEF TypeOK
    <2> QED BY <1>1, <2>1, <2>2
<1>4. Selected' = At(list, disk')
    BY <1>1 DEF Selected
<1>5. PathOf(At(list, disk')) \in Paths \cup {NoDisk}
    BY <1>3, AtTyped
<1>6. DOMAIN list = 1..Len(list)
    BY ListTyped
<1>7. layout' = NoLayout /\ NoLayout \in [disk : Disks \cup {NoDisk}, valid : BOOLEAN]
    BY <1>1 DEF NoLayout
<1>8. TypeOK'
    <2>1. probes' \in 0..refreshes' + 1
        BY <1>1, <1>2, WizardAssumption DEF DisksLoaded, Arrived, TypeOK
    <2>2. chosen' \in Paths \cup {NoDisk} /\ moved' \in BOOLEAN /\ rescanned' \in BOOLEAN
          /\ carried' \in BOOLEAN
        BY <1>1, <1>2, <1>5 DEF Arrived, TypeOK
    <2> QED BY <1>1, <1>2, <1>3, <1>7, <2>1, <2>2 DEF Arrived, TypeOK
<1>9. LayoutIsOfDisk' /\ ValidHasDisk'
    BY <1>7 DEF LayoutIsOfDisk, ValidHasDisk, NoLayout
<1>10. ChoiceKept'
    <2>1. CASE disk = 0
        <3>1. chosen' = PathOf(At(list, disk'))
            BY <1>1, <2>1 DEF Arrived
        <3>2. disk' # 0 => disk' \in DOMAIN list
            BY <1>1, <1>6, <2>1
        <3> QED BY <1>3, <1>4, <3>1, <3>2, AtTyped DEF ChoiceKept
    <2>2. CASE disk # 0
        <3>1. chosen' = chosen /\ chosen # NoDisk
            BY <1>1, <2>2 DEF Arrived, Inv, ChoiceKept
        <3>2. ASSUME ~moved'
              PROVE  chosen' = PathOf(Selected')
            <4>1. PathOf(At(list, disk)) = chosen
                BY <1>1, <3>2 DEF Arrived
            <4>2. disk \in DOMAIN list
                BY <1>3, <3>1, <4>1, AtTyped
            <4>3. disk' = disk
                BY <1>1, <1>3, <1>6, <4>2
            <4> QED BY <1>4, <3>1, <4>1, <4>3
        <3> QED BY <3>1, <3>2 DEF ChoiceKept
    <2> QED BY <2>1, <2>2
<1>11. Reached'
    BY <1>1 DEF Arrived, Inv, Reached, EncryptionContinue
<1>12. Ready'
    BY <1>1 DEF Arrived, Inv, Ready, ImageReached, GapKept
<1> QED BY <1>8, <1>9, <1>10, <1>11, <1>12 DEF Inv

LEMMA OthersArriveInv ==
    ASSUME Inv, DisksFailed \/ WifiOnlineProbed
    PROVE  Inv'
<1> USE DEF Inv
<1>1. TypeOK'
    <2>1. probes' \in 0..refreshes' + 1
        BY WizardAssumption DEF DisksFailed, WifiOnlineProbed, TypeOK
    <2> QED BY <2>1 DEF DisksFailed, WifiOnlineProbed, TypeOK, choices, history
<1>2. LayoutIsOfDisk' /\ ValidHasDisk' /\ ChoiceKept' /\ Reached' /\ Ready'
    BY DEF DisksFailed, WifiOnlineProbed, choices, history, LayoutIsOfDisk,
           ValidHasDisk, ChoiceKept, Reached, Selected, EncryptionContinue,
           Ready, ImageReached, GapKept
<1> QED BY <1>1, <1>2

-----------------------------------------------------------------------------
(* The pages.                                                              *)

LEMMA ImageSelectedInv ==
    ASSUME Inv, NEW i \in 1..MaxImages, ImageSelected(i)
    PROVE  Inv'
<1> USE DEF Inv, ImageSelected, loads, history
<1>1. image' \in 0..images'
    BY WizardAssumption DEF TypeOK
<1>2. TypeOK'
    BY <1>1 DEF TypeOK
<1>3. LayoutIsOfDisk' /\ ValidHasDisk' /\ ChoiceKept' /\ Reached'
    BY DEF LayoutIsOfDisk, ValidHasDisk, ChoiceKept, Reached, Selected, EncryptionContinue
<1>4. Ready'
    BY DEF Ready, ImageReached, GapKept, Selected, TypeOK
<1> QED BY <1>2, <1>3, <1>4

LEMMA RefreshDisksInv ==
    ASSUME Inv, RefreshDisks
    PROVE  Inv'
<1> USE DEF Inv, RefreshDisks, choices, history
<1>1. refreshes' \in 0..MaxRefreshes /\ probes' \in 0..refreshes' + 1
    BY WizardAssumption DEF TypeOK
<1>2. TypeOK'
    BY <1>1 DEF TypeOK
<1>3. LayoutIsOfDisk' /\ ValidHasDisk' /\ ChoiceKept' /\ Reached'
    BY DEF LayoutIsOfDisk, ValidHasDisk, ChoiceKept, Reached, Selected, EncryptionContinue
<1>4. Ready'
    BY DEF Ready, ImageReached, GapKept, Selected, TypeOK
<1> QED BY <1>2, <1>3, <1>4

LEMMA DiskSelectedInv ==
    ASSUME Inv, NEW i \in 1..MaxDisks, DiskSelected(i)
    PROVE  Inv'
<1>1. TypeOK /\ disks' = disks /\ disk' = i /\ i \in DOMAIN disks /\ page' = page /\ page = "disk"
    BY DEF Inv, DiskSelected
<1>2. disks \in Lists /\ i \in Nat /\ i \in 0..MaxDisks /\ i # 0
    BY <1>1, WizardAssumption DEF TypeOK
<1>3. disks[i] \in Disks /\ disks[i] # NoDisk
    BY <1>1, <1>2, ListTyped, WizardAssumption
<1>4. Selected' = disks[i] /\ chosen' = disks[i].path /\ moved' = FALSE
    BY <1>1 DEF DiskSelected, Selected, At
<1>5. disks[i].path \in Paths /\ disks[i].path # NoDisk
    BY <1>3, WizardAssumption DEF Paths
<1>6. layout' \in {layout, NoLayout}
    BY DEF DiskSelected
<1>7. NoLayout \in [disk : Disks \cup {NoDisk}, valid : BOOLEAN]
    BY DEF NoLayout
<1>8. TypeOK'
    BY <1>1, <1>2, <1>4, <1>5, <1>6, <1>7 DEF DiskSelected, TypeOK, loads
<1>9. LayoutIsOfDisk' /\ ValidHasDisk'
    <2>1. CASE layout' = NoLayout
        BY <2>1 DEF LayoutIsOfDisk, ValidHasDisk, NoLayout
    <2>2. CASE layout' = layout /\ disk = i
        BY <1>1, <2>2 DEF Inv, LayoutIsOfDisk, ValidHasDisk, Selected
    <2> QED BY <2>1, <2>2 DEF DiskSelected
<1>10. ChoiceKept'
    BY <1>3, <1>4, <1>5 DEF ChoiceKept, PathOf
<1>11. Reached'
    BY <1>1 DEF Reached
<1>12. Ready'
    <2>1. ImageReached'
        BY <1>1 DEF DiskSelected, loads, Inv, Ready, ImageReached
    <2>2. mode' = mode /\ (mode = "free" /\ ~carried' => ~carried /\ disk = i)
        BY DEF DiskSelected
    <2>3. disk = i => Selected' = Selected
        BY <1>1 DEF Selected
    <2> QED BY <2>1, <2>2, <2>3 DEF Inv, Ready, GapKept
<1> QED BY <1>8, <1>9, <1>10, <1>11, <1>12 DEF Inv

LEMMA PartitionModeSelectedInv ==
    ASSUME Inv, NEW m \in Modes, PartitionModeSelected(m)
    PROVE  Inv'
<1> USE DEF Inv, PartitionModeSelected, loads, history
<1>1. TypeOK'
    BY DEF TypeOK
<1>2. page' = "disk"
    BY DEF Offered
<1>3. LayoutIsOfDisk' /\ ValidHasDisk' /\ ChoiceKept' /\ Reached'
    BY <1>2 DEF LayoutIsOfDisk, ValidHasDisk, ChoiceKept, Reached, Selected
<1>4. Ready'
    BY DEF Ready, ImageReached, GapKept, Selected, Offered
<1> QED BY <1>1, <1>3, <1>4

LEMMA LayoutEditedInv ==
    ASSUME Inv, LayoutEdited
    PROVE  Inv'
<1> USE DEF Inv, LayoutEdited, loads, history
<1>1. /\ layout' \in [disk : Disks \cup {NoDisk}, valid : BOOLEAN]
      /\ layout'.disk = layout.disk /\ layout.disk # NoDisk
    BY DEF TypeOK
<1>2. TypeOK'
    BY <1>1 DEF TypeOK
<1>3. page' = "layout"
    OBVIOUS
<1>4. LayoutIsOfDisk' /\ ValidHasDisk' /\ ChoiceKept' /\ Reached'
    BY <1>1, <1>3 DEF LayoutIsOfDisk, ValidHasDisk, ChoiceKept, Reached, Selected
<1>5. Ready'
    BY DEF Ready, ImageReached, GapKept, Selected
<1> QED BY <1>2, <1>4, <1>5

\* Leaving the encryption page forward is what makes the passphrase count.
LEMMA EncryptionChosenInv ==
    ASSUME Inv, (\E c \in Choices : EncryptionSelected(c)) \/ PassphraseChanged
    PROVE  Inv'
<1> USE DEF Inv, EncryptionSelected, PassphraseChanged, loads, history
<1>1. passphrase \in BOOLEAN /\ encryption \in Choices
    BY DEF TypeOK
<1>2. passphrase' \in BOOLEAN /\ encryption' \in Choices
    BY <1>1
<1>3. TypeOK'
    BY <1>2 DEF TypeOK
<1>4. page' = "encryption"
    OBVIOUS
<1>5. LayoutIsOfDisk' /\ ValidHasDisk' /\ ChoiceKept' /\ Reached'
    BY <1>4 DEF LayoutIsOfDisk, ValidHasDisk, ChoiceKept, Reached, Selected
<1>6. Ready'
    BY DEF Ready, ImageReached, GapKept, Selected
<1> QED BY <1>3, <1>5, <1>6

-----------------------------------------------------------------------------
(* From page to page.                                                      *)

LEMMA GoNextInv ==
    ASSUME Inv, GoNext
    PROVE  Inv'
<1>1. TypeOK
    BY DEF Inv
<1>2. /\ disks' = disks /\ disk' = disk /\ mode' = mode
      /\ encryption' = encryption /\ passphrase' = passphrase
      /\ chosen' = chosen /\ moved' = moved /\ carried' = carried
      /\ UNCHANGED loads /\ image' = image
      /\ skipped' = IF page = "welcome" THEN catalog = "loading" ELSE skipped
      /\ page' = NextPage /\ rescanned' = (rescanned /\ page # "disk")
    BY DEF GoNext
<1>3. Selected' = Selected
    BY <1>2 DEF Selected
<1>4. Selected \in Disks \cup {NoDisk}
    BY <1>1, WizardAssumption, AtTyped DEF TypeOK, Selected
<1>5. page' \in Pages
    BY <1>2 DEF GoNext, Continue, NextPage, AfterImage, Pages
<1>6. layout' = layout \/ \E valid \in BOOLEAN : layout' = [disk |-> Selected, valid |-> valid]
    BY DEF GoNext, OnPageEntered
<1>7. layout' = layout \/ (page' = "layout" /\ Selected # NoDisk)
    BY DEF GoNext, OnPageEntered
<1>8. TypeOK'
    <2>1. layout' \in [disk : Disks \cup {NoDisk}, valid : BOOLEAN]
        BY <1>1, <1>4, <1>6 DEF TypeOK
    <2>2. skipped' \in BOOLEAN /\ rescanned' \in BOOLEAN
        BY <1>1, <1>2 DEF TypeOK
    <2> QED BY <1>1, <1>2, <1>5, <2>1, <2>2 DEF TypeOK, GoNext, loads
<1>9. LayoutIsOfDisk' /\ ValidHasDisk'
    BY <1>3, <1>6, <1>7 DEF Inv, LayoutIsOfDisk, ValidHasDisk
<1>10. ChoiceKept'
    BY <1>2, <1>3 DEF Inv, ChoiceKept
<1>11. Reached'
    <2>1. CASE page \in {"welcome", "image"}
        BY <1>2, <2>1 DEF NextPage, AfterImage, Reached
    <2>2. CASE page = "disk"
        BY <1>2, <1>7, <2>2 DEF GoNext, Continue, DiskContinue, NextPage, Reached
    <2>3. CASE page = "layout"
        BY <1>2, <1>7, <2>3 DEF GoNext, Continue, LayoutContinue, NextPage, Reached, Inv
    <2>4. CASE page = "encryption"
        <3>1. page' = "confirm" /\ layout' = layout /\ rescanned' = rescanned
            BY <1>2, <1>7, <2>4 DEF NextPage, Inv, TypeOK
        <3>2. EncryptionContinue'
            BY <1>2, <2>4 DEF GoNext, Continue, EncryptionContinue, NeedsPassphrase
        <3>3. disk # 0 /\ (mode = "custom" /\ ~rescanned => layout.valid)
            BY <2>4 DEF Inv, Reached
        <3> QED BY <1>2, <3>1, <3>2, <3>3 DEF Reached
    <2> QED BY <2>1, <2>2, <2>3, <2>4 DEF GoNext, Continue
<1>12. Ready'
    <2>1. GapKept'
        BY <1>2, <1>3 DEF Inv, Ready, GapKept
    <2>2. /\ catalog \in {"loading", "loaded"} /\ images \in Nat /\ image \in 0..images
          /\ UNCHANGED <<catalog, images, image>>
        BY <1>1, <1>2, WizardAssumption DEF TypeOK, loads
    <2>3. CASE page = "welcome"
        <3>1. images = 0 \/ images = 1 \/ page' = "image"
            BY <1>2, <2>2, <2>3 DEF NextPage
        <3>2. (catalog = "loading" => skipped') /\ (catalog = "loaded" /\ images = 1 => image = 1)
            BY <1>2, <2>3 DEF Inv, Ready, ImageReached
        <3> QED BY <2>1, <2>2, <3>1, <3>2 DEF Ready, ImageReached
    <2>4. CASE page = "image"
        <3>1. image \in 1..images
            BY <2>2, <2>4 DEF GoNext, Continue, ImageContinue
        <3> QED BY <1>2, <2>1, <2>2, <2>4, <3>1 DEF Inv, Ready, ImageReached
    <2>5. CASE page \in {"disk", "layout", "encryption"}
        BY <1>2, <2>1, <2>2, <2>5 DEF Inv, Ready, ImageReached
    <2> QED BY <2>3, <2>4, <2>5 DEF GoNext, Continue
<1> QED BY <1>8, <1>9, <1>10, <1>11, <1>12 DEF Inv

LEMMA StepAsideInv ==
    ASSUME Inv, WifiSkip \/ GoBack
    PROVE  Inv'
<1> USE DEF WifiSkip, GoBack, loads, choices, history
<1>1. UNCHANGED <<loads, disks, choices, sent, history>>
    OBVIOUS
<1>2. /\ page' \in Pages \ {"confirm"}
      /\ page' \in {"layout", "encryption"} => page \in {"layout", "encryption", "confirm"}
      /\ page' = "encryption" => page = "confirm"
    BY DEF BackPage, Pages
<1>3. TypeOK'
    BY <1>1, <1>2 DEF Inv, TypeOK
<1>4. LayoutIsOfDisk' /\ ValidHasDisk' /\ ChoiceKept'
    BY <1>1 DEF Inv, LayoutIsOfDisk, ValidHasDisk, ChoiceKept, Selected
<1>5. Reached'
    BY <1>1, <1>2 DEF Inv, Reached
<1>6. Ready'
    <2>1. /\ page # "welcome"
          /\ page' \in {"wifi", "disk", "layout", "encryption", "confirm"} =>
                page \in {"wifi", "disk", "layout", "encryption", "confirm"}
        BY DEF BackPage
    <2> QED BY <1>1, <2>1 DEF Inv, Ready, ImageReached, GapKept, Selected
<1> QED BY <1>3, <1>4, <1>5, <1>6 DEF Inv

LEMMA StartInstallInv ==
    ASSUME Inv, StartInstall
    PROVE  Inv'
<1> USE DEF loads, choices, history
<1>1. UNCHANGED <<loads, disks, choices, history>> /\ page' \in {"confirm", "progress"}
      /\ page = "confirm"
    BY DEF StartInstall
<1>2. TypeOK'
    BY <1>1 DEF Inv, TypeOK, Pages
<1>3. LayoutIsOfDisk' /\ ValidHasDisk' /\ ChoiceKept' /\ Reached'
    BY <1>1 DEF Inv, LayoutIsOfDisk, ValidHasDisk, ChoiceKept, Reached, Selected,
                EncryptionContinue
<1>4. Ready'
    BY <1>1 DEF Inv, Ready, ImageReached, GapKept, Selected
<1> QED BY <1>2, <1>3, <1>4 DEF Inv

-----------------------------------------------------------------------------
(* The invariant holds, and what follows from it.                          *)

LEMMA NextInv ==
    ASSUME Inv, [Next]_vars
    PROVE  Inv'
<1>1. CASE Load
    BY <1>1, CatalogLoadedInv, DisksLoadedInv, OthersArriveInv DEF Load
<1>2. CASE Choose
    BY <1>2, ImageSelectedInv, DiskSelectedInv, PartitionModeSelectedInv,
       EncryptionChosenInv, LayoutEditedInv, RefreshDisksInv DEF Choose
<1>3. CASE Navigate
    BY <1>3, GoNextInv, StepAsideInv, StartInstallInv DEF Navigate
<1>4. CASE UNCHANGED vars
    BY <1>4 DEF vars, loads, choices, history, Inv, TypeOK, LayoutIsOfDisk, ValidHasDisk,
                ChoiceKept, Reached, Selected, EncryptionContinue, Ready, ImageReached,
                GapKept
<1> QED BY <1>1, <1>2, <1>3, <1>4 DEF Next

LEMMA SpecInv == Spec => []Inv
<1> QED BY InitInv, NextInv, PTL DEF Spec

\* The wizard's state is well typed: the selected image is in the catalog, whenever
\* the catalog arrives, and no rescan is lost (app.rs).
THEOREM WizardTypeCorrect == Spec => []TypeOK
<1>1. Inv => TypeOK
    BY DEF Inv
<1> QED BY <1>1, SpecInv, PTL

\* The custom layout is of the selected disk as the last probe reported it
\* (DisksLoaded, DiskSelected and on_page_entered in app.rs).
THEOREM LayoutFollowsDisk == Spec => []LayoutIsOfDisk
<1>1. Inv => LayoutIsOfDisk
    BY DEF Inv
<1> QED BY <1>1, SpecInv, PTL

\* On the confirm page everything that build_install_spec in app.rs needs is there: the
\* passphrase always, the image unless the image page was skipped without one, the disk
\* unless a list came without it, its gap unless it was selected for another disk or
\* list, the layout unless a list came later.
THEOREM InstallIsReady == Spec => []InstallReady
<1>1. Inv => InstallReady
    <2> SUFFICES ASSUME Inv, page = "confirm"
                 PROVE  /\ EncryptionContinue
                        /\ image \in 1..images \/ skipped \/ (catalog = "loaded" /\ images = 0)
                        /\ Selected # NoDisk \/ moved
                        /\ mode = "free" => PlanComplete \/ carried
                        /\ mode = "custom" => PlanComplete \/ rescanned
        BY DEF InstallReady
    <2>1. EncryptionContinue /\ disk # 0 /\ (mode = "custom" /\ ~rescanned => layout.valid)
        BY DEF Inv, Reached
    <2>2. image \in 1..images \/ skipped \/ (catalog = "loaded" /\ images = 0)
        BY DEF Inv, Ready, ImageReached
    <2>3. Selected # NoDisk \/ moved
        BY <2>1 DEF Inv, ChoiceKept, PathOf
    <2>4. mode = "free" /\ ~carried => Selected # NoDisk /\ Selected.gap = "fits"
        BY DEF Inv, Ready, GapKept
    <2> QED BY <2>1, <2>2, <2>3, <2>4 DEF PlanComplete
<1> QED BY <1>1, SpecInv, PTL

\* A spec is sent only with a plan for the disk it names as last probed, and with
\* the passphrase its encryption needs (build_plan, build_install_spec in app.rs).
THEOREM PlansMatchDisks == Spec => PlanIsForDisk
<1>1. ASSUME Inv, [Next]_vars, sent' # sent
      PROVE  /\ sent'.disk = Selected.path
             /\ sent'.plan.disk \in {NoDisk, Selected}
             /\ sent'.plan.mode = "erase" <=> sent'.plan.disk = NoDisk
             /\ NeedsPassphrase(sent'.encryption) => sent'.passphrase
    <2>1. StartInstall
        BY <1>1 DEF Next, vars, Load, CatalogLoaded, DisksLoaded, Arrived, DisksFailed,
              WifiOnlineProbed, Choose, ImageSelected, DiskSelected, PartitionModeSelected,
              EncryptionSelected, LayoutEdited, PassphraseChanged, RefreshDisks, Navigate,
              GoNext, WifiSkip, GoBack
    <2>2. SpecComplete /\ sent' = BuildInstallSpec /\ page = "confirm"
        BY <1>1, <2>1 DEF StartInstall
    <2>3. mode \in Modes /\ layout.disk \in {NoDisk, Selected}
          /\ (layout.valid => layout.disk # NoDisk)
          /\ (NeedsPassphrase(encryption) => passphrase)
        BY <1>1, <2>2 DEF Inv, TypeOK, LayoutIsOfDisk, ValidHasDisk, Reached, EncryptionContinue
    <2>4. Selected # NoDisk /\ (mode = "custom" => layout.valid)
        BY <2>2 DEF SpecComplete, PlanComplete
    <2>5. /\ sent'.disk = Selected.path /\ sent'.plan = BuildPlan
          /\ sent'.encryption = encryption
          /\ sent'.passphrase = (NeedsPassphrase(encryption) /\ passphrase)
        BY <2>2 DEF BuildInstallSpec
    <2>6. /\ BuildPlan.mode = mode
          /\ mode = "erase" => BuildPlan.disk = NoDisk
          /\ mode = "free" => BuildPlan.disk = Selected
          /\ mode = "custom" => BuildPlan.disk = layout.disk
        BY DEF BuildPlan
    <2>7. sent'.plan.disk \in {NoDisk, Selected}
          /\ (sent'.plan.mode = "erase" <=> sent'.plan.disk = NoDisk)
        BY <2>3, <2>4, <2>5, <2>6 DEF Modes
    <2> QED BY <2>3, <2>5, <2>7
<1>2. Inv /\ [Next]_vars => [sent' # sent =>
          /\ sent'.disk = Selected.path
          /\ sent'.plan.disk \in {NoDisk, Selected}
          /\ sent'.plan.mode = "erase" <=> sent'.plan.disk = NoDisk
          /\ NeedsPassphrase(sent'.encryption) => sent'.passphrase]_vars
    BY <1>1
<1> QED BY <1>2, SpecInv, PTL DEF Spec, PlanIsForDisk

\* What is sent is the disk the user chose, as long as no list of disks has since
\* had another in its place (DisksLoaded in app.rs keeps the position).
THEOREM ChoiceIsSent == Spec => SentIsChosen
<1>1. ASSUME Inv, [Next]_vars, sent' # sent
      PROVE  moved \/ sent'.disk = chosen
    <2>1. StartInstall
        BY <1>1 DEF Next, vars, Load, CatalogLoaded, DisksLoaded, Arrived, DisksFailed,
              WifiOnlineProbed, Choose, ImageSelected, DiskSelected, PartitionModeSelected,
              EncryptionSelected, LayoutEdited, PassphraseChanged, RefreshDisks, Navigate,
              GoNext, WifiSkip, GoBack
    <2>2. Selected # NoDisk /\ sent'.disk = Selected.path
        BY <1>1, <2>1 DEF StartInstall, SpecComplete, BuildInstallSpec
    <2> QED BY <1>1, <2>2 DEF Inv, ChoiceKept, PathOf
<1>2. Inv /\ [Next]_vars => [sent' # sent => moved \/ sent'.disk = chosen]_vars
    BY <1>1
<1> QED BY <1>2, SpecInv, PTL DEF Spec, SentIsChosen

=============================================================================
