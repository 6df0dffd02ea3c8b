------------------------------- MODULE Wizard -------------------------------
(***************************************************************************)
(* The wizard: app.rs from init to StartInstall, with the buttons and the  *)
(* choices that each page's view offers.  The image catalog, the disk list *)
(* and the online probe arrive whenever they are ready, whatever page is   *)
(* shown, and the disk list is replaced by every rescan.                   *)
(*                                                                         *)
(* Images and disks are chosen by position; 0 is none.  A layout is its    *)
(* snapshot of the disk and whether it is valid (Layout has the rest).     *)
(***************************************************************************)
EXTENDS Integers, Sequences

CONSTANTS
    Disks,        \* what probes can report: path, gap (its largest gap, in Gaps)
    MaxDisks,     \* bound: disks in a list
    MaxImages,    \* bound: images in the catalog
    MaxRefreshes, \* bound: rescans asked for
    Experimental, \* COSMONAUT_EXPERIMENTAL_LAYOUT
    NoDisk

\* No gap, one too small for a root (ROOT_MIN_BYTES), and one that fits.
Gaps == {"none", "small", "fits"}
Paths == {d.path : d \in Disks}

ASSUME WizardAssumption ==
    /\ \A d \in Disks : d = [path |-> d.path, gap |-> d.gap] /\ d.gap \in Gaps
    /\ MaxDisks \in Nat /\ MaxImages \in Nat /\ MaxRefreshes \in Nat
    /\ Experimental \in BOOLEAN
    /\ NoDisk \notin Disks /\ NoDisk \notin Paths

\* A probe lists each device once.
Lists == {l \in UNION {[1..n -> Disks] : n \in 0..MaxDisks} :
            \A i, j \in DOMAIN l : l[i].path = l[j].path => i = j}

Modes == {"erase", "free", "custom"}
Choices == {"none", "passphrase", "tpm2", "tpm2Passphrase"}
Pages == {"welcome", "image", "wifi", "disk", "layout", "encryption", "confirm", "progress"}

VARIABLES
    page,
    catalog,    \* "loading" or "loaded"
    images,     \* how many the catalog has
    image,      \* image_idx
    online,     \* wifi_online: "unknown", "online", "offline"
    disks,
    disk,       \* disk_idx
    probes,     \* probe_with_fallback calls that have not returned
    refreshes,  \* counter of its bound
    mode,
    layout,     \* [disk, valid]
    encryption,
    passphrase, \* whether one is typed
    sent        \* the spec given to start_install, or NoSpec

VARIABLES  \* history
    chosen,     \* path of the disk the user clicked, or that was the only one
    moved,      \* a list has since had something else in its place
    rescanned,  \* a list has arrived since the disk page was left
    skipped,    \* the welcome page was last left while the catalog was loading
    carried     \* the disk or the list has changed since free space was selected

loads == <<catalog, images, online, probes, refreshes>>
choices == <<image, disk, mode, layout, encryption, passphrase>>
history == <<chosen, moved, rescanned, skipped, carried>>
vars == <<page, loads, disks, choices, sent, history>>

NoLayout == [disk |-> NoDisk, valid |-> FALSE]
NoSpec == [disk |-> NoDisk]

NeedsPassphrase(choice) == choice \in {"passphrase", "tpm2Passphrase"}

\* disks.get(i)
At(list, i) == IF i \in DOMAIN list THEN list[i] ELSE NoDisk
PathOf(d) == IF d = NoDisk THEN NoDisk ELSE d.path
Selected == At(disks, disk)

-----------------------------------------------------------------------------
Init ==
    /\ page = "welcome"
    /\ catalog = "loading" /\ images = 0 /\ image = 0
    /\ online = "unknown"
    /\ disks = <<>> /\ disk = 0 /\ probes = 1 /\ refreshes = 0
    /\ mode = "erase" /\ layout = NoLayout
    /\ encryption = "none" /\ passphrase = FALSE
    /\ sent = NoSpec
    /\ chosen = NoDisk /\ moved = FALSE /\ rescanned = FALSE
    /\ skipped = FALSE /\ carried = FALSE

-----------------------------------------------------------------------------
(* What arrives.                                                           *)

\* mutant: the default is a position among more than the catalog's leaves
CatalogLoadedAnyDefault ==
    /\ catalog = "loading" /\ catalog' = "loaded"
    /\ \E n, default \in 0..MaxImages :
          /\ images' = n
          /\ image' = IF n = 1 THEN 1 ELSE default
    /\ UNCHANGED <<page, online, probes, refreshes, disks, disk, mode, layout,
                   encryption, passphrase, sent, history>>

\* The only image, or the default one, which need not be in the catalog.  No
\* catalog, and one that cannot be read, are the same as an empty one.
CatalogLoaded ==
    /\ catalog = "loading" /\ catalog' = "loaded"
    /\ \E n \in 0..MaxImages : \E default \in 0..n :
          /\ images' = n
          /\ image' = IF n = 1 THEN 1 ELSE default
    /\ UNCHANGED <<page, online, probes, refreshes, disks, disk, mode, layout,
                   encryption, passphrase, sent, history>>

\* The history of a list's arrival.
Arrived(list) ==
    /\ chosen' = IF disk = 0 THEN PathOf(At(list, disk')) ELSE chosen
    /\ moved' = (moved \/ PathOf(At(list, disk)) # chosen)
    /\ rescanned' = TRUE /\ carried' = (mode = "free")
    /\ UNCHANGED <<page, catalog, images, online, refreshes, image, mode, encryption,
                   passphrase, sent, skipped>>

\* mutant: the layout outlives the list it was made for
DisksLoadedKeepingLayout ==
    /\ probes > 0 /\ probes' = probes - 1
    /\ \E list \in Lists :
          /\ disks' = list
          /\ disk' = IF Len(list) = 1 THEN 1 ELSE disk
          /\ layout' = layout
          /\ Arrived(list)

\* mutant: every list selects its first disk
DisksLoadedSelecting ==
    /\ probes > 0 /\ probes' = probes - 1
    /\ \E list \in Lists :
          /\ disks' = list
          /\ disk' = IF list # <<>> THEN 1 ELSE disk
          /\ layout' = NoLayout
          /\ Arrived(list)

\* The list is replaced, the position kept.
DisksLoaded ==
    /\ probes > 0 /\ probes' = probes - 1
    /\ \E list \in Lists :
          /\ disks' = list
          /\ disk' = IF Len(list) = 1 THEN 1 ELSE disk
          /\ layout' = NoLayout
          /\ Arrived(list)

DisksFailed ==
    /\ probes > 0 /\ probes' = probes - 1
    /\ UNCHANGED <<page, catalog, images, online, refreshes, disks, choices, sent, history>>

\* A probe that fails counts as offline.
WifiOnlineProbed ==
    /\ online = "unknown" /\ online' \in {"online", "offline"}
    /\ UNCHANGED <<page, catalog, images, probes, refreshes, disks, choices, sent, history>>

-----------------------------------------------------------------------------
(* The pages.                                                              *)

ImageSelected(i) ==
    /\ page = "image" /\ i \in 1..images
    /\ image' = i
    /\ UNCHANGED <<page, loads, disks, disk, mode, layout, encryption, passphrase,
                   sent, history>>

RefreshDisks ==
    /\ page = "disk" /\ refreshes < MaxRefreshes
    /\ probes' = probes + 1 /\ refreshes' = refreshes + 1
    /\ UNCHANGED <<page, catalog, images, online, disks, choices, sent, history>>

DiskSelected(i) ==
    /\ page = "disk" /\ i \in DOMAIN disks
    /\ disk' = i
    /\ layout' = IF disk # i THEN NoLayout ELSE layout
    /\ chosen' = disks[i].path /\ moved' = FALSE
    /\ carried' = (mode = "free" /\ (carried \/ disk # i))
    /\ UNCHANGED <<page, loads, disks, image, mode, encryption, passphrase, sent,
                   rescanned, skipped>>

\* Free space is offered when a root fits in the selected disk's largest gap.
Offered(m) ==
    /\ page = "disk" /\ disks # <<>> /\ Experimental
    /\ m = "free" => Selected # NoDisk /\ Selected.gap = "fits"

PartitionModeSelected(m) ==
    /\ Offered(m)
    /\ mode' = m /\ carried' = FALSE
    /\ UNCHANGED <<page, loads, disks, image, disk, layout, encryption, passphrase,
                   sent, chosen, moved, rescanned, skipped>>

\* Any edit of the custom layout.
LayoutEdited ==
    /\ page = "layout" /\ layout.disk # NoDisk
    /\ \E valid \in BOOLEAN : layout' = [layout EXCEPT !.valid = valid]
    /\ UNCHANGED <<page, loads, disks, image, disk, mode, encryption, passphrase,
                   sent, history>>

EncryptionSelected(choice) ==
    /\ page = "encryption"
    /\ encryption' = choice
    /\ passphrase' = (passphrase /\ NeedsPassphrase(choice))
    /\ UNCHANGED <<page, loads, disks, image, disk, mode, layout, sent, history>>

PassphraseChanged ==
    /\ page = "encryption" /\ NeedsPassphrase(encryption)
    /\ passphrase' \in BOOLEAN
    /\ UNCHANGED <<page, loads, disks, image, disk, mode, layout, encryption, sent,
                   history>>

-----------------------------------------------------------------------------
(* From page to page.                                                      *)

AfterImage == IF online = "online" THEN "disk" ELSE "wifi"

NextPage ==
    CASE page = "welcome" -> IF images <= 1 THEN AfterImage ELSE "image"
      [] page = "image" -> AfterImage
      [] page = "disk" -> IF mode = "custom" THEN "layout" ELSE "encryption"
      [] page = "layout" -> "encryption"
      [] page = "encryption" -> "confirm"

BackPage ==
    CASE page = "image" -> "welcome"
      [] page = "wifi" -> "image"
      [] page = "disk" -> "wifi"
      [] page = "layout" -> "disk"
      [] page = "encryption" -> IF mode = "custom" THEN "layout" ELSE "disk"
      [] page = "confirm" -> "encryption"

\* Whether the page's Continue button can be pressed.
ImageContinue == images > 0 /\ image # 0
\* mutant: a selection is not needed
DiskContinueAlways == disks # <<>>
DiskContinue == disks # <<>> /\ disk # 0
LayoutContinue == layout.disk # NoDisk /\ layout.valid
EncryptionContinue == NeedsPassphrase(encryption) => passphrase

Continue ==
    \/ page = "welcome"
    \/ page = "image" /\ ImageContinue
    \/ page = "disk" /\ DiskContinue
    \/ page = "layout" /\ LayoutContinue
    \/ page = "encryption" /\ EncryptionContinue

\* The layout is made anew when it is of another device, or of none.
OnPageEntered ==
    IF page' = "layout" /\ Selected # NoDisk /\ PathOf(layout.disk) # Selected.path
    THEN \E valid \in BOOLEAN : layout' = [disk |-> Selected, valid |-> valid]
    ELSE UNCHANGED layout

GoNext ==
    /\ Continue
    /\ page' = NextPage
    /\ OnPageEntered
    /\ rescanned' = (rescanned /\ page # "disk")
    /\ skipped' = IF page = "welcome" THEN catalog = "loading" ELSE skipped
    /\ UNCHANGED <<loads, disks, image, disk, mode, encryption, passphrase, sent,
                   chosen, moved, carried>>

WifiSkip ==
    /\ page = "wifi"
    /\ page' = "disk"
    /\ UNCHANGED <<loads, disks, choices, sent, history>>

GoBack ==
    /\ page \in {"image", "wifi", "disk", "layout", "encryption", "confirm"}
    /\ page' = BackPage
    /\ UNCHANGED <<loads, disks, choices, sent, history>>

-----------------------------------------------------------------------------
(* Confirm.                                                                *)

\* build_plan gives none without a gap, or without a valid layout.
PlanComplete ==
    /\ mode = "free" => Selected # NoDisk /\ Selected.gap # "none"
    /\ mode = "custom" => layout.valid

BuildPlan ==
    [mode |-> mode,
     disk |-> CASE mode = "erase" -> NoDisk
                [] mode = "free" -> Selected
                [] mode = "custom" -> layout.disk]

SpecComplete == image \in 1..images /\ Selected # NoDisk /\ PlanComplete

BuildInstallSpec ==
    [image |-> image, disk |-> Selected.path,
     encryption |-> encryption, passphrase |-> NeedsPassphrase(encryption) /\ passphrase,
     plan |-> BuildPlan]

\* Without a complete spec the button does nothing.
StartInstall ==
    /\ page = "confirm"
    /\ IF SpecComplete THEN sent' = BuildInstallSpec /\ page' = "progress"
       ELSE UNCHANGED <<sent, page>>
    /\ UNCHANGED <<loads, disks, choices, history>>

-----------------------------------------------------------------------------
Load == CatalogLoaded \/ DisksLoaded \/ DisksFailed \/ WifiOnlineProbed

Choose ==
    \/ \E i \in 1..MaxImages : ImageSelected(i)
    \/ \E i \in 1..MaxDisks : DiskSelected(i)
    \/ \E m \in Modes : PartitionModeSelected(m)
    \/ \E c \in Choices : EncryptionSelected(c)
    \/ LayoutEdited \/ PassphraseChanged \/ RefreshDisks

Navigate == GoNext \/ WifiSkip \/ GoBack \/ StartInstall

\* Session goes on from the progress page.
Next == page # "progress" /\ (Load \/ Choose \/ Navigate)

Spec == Init /\ [][Next]_vars

-----------------------------------------------------------------------------
(* Properties.                                                             *)

TypeOK ==
    /\ page \in Pages
    /\ catalog \in {"loading", "loaded"} /\ images \in 0..MaxImages /\ image \in 0..images
    /\ online \in {"unknown", "online", "offline"}
    /\ disks \in Lists /\ disk \in 0..MaxDisks
    /\ refreshes \in 0..MaxRefreshes /\ probes \in 0..refreshes + 1
    /\ mode \in Modes
    /\ layout \in [disk : Disks \cup {NoDisk}, valid : BOOLEAN]
    /\ encryption \in Choices /\ passphrase \in BOOLEAN
    /\ chosen \in Paths \cup {NoDisk} /\ moved \in BOOLEAN /\ rescanned \in BOOLEAN
    /\ skipped \in BOOLEAN /\ carried \in BOOLEAN

\* An install that is started has a plan made for the very disk it names, as last
\* probed, and a passphrase if its encryption needs one, whatever the user did on
\* the way and whatever arrived meanwhile.
PlanIsForDisk ==
    [][sent' # sent =>
          /\ sent'.disk = Selected.path
          /\ sent'.plan.disk \in {NoDisk, Selected}
          /\ sent'.plan.mode = "erase" <=> sent'.plan.disk = NoDisk
          /\ NeedsPassphrase(sent'.encryption) => sent'.passphrase]_vars

\* It is the disk the user chose, as long as no list has had another in its place.
SentIsChosen == [][sent' # sent => moved \/ sent'.disk = chosen]_vars

\* On the confirm page Install works (SpecComplete), whatever the user did on the way
\* and whatever arrived meanwhile.  Each thing it needs is there, with these exceptions:
\*  - the passphrase: none;
\*  - an image: the welcome page was left while the catalog was loading, or the catalog
\*    has no image or could not be read; next_page skips the image page in both cases
\*    (app.rs:758), where "exactly one leaf" is to be skipped (app.rs:752);
\*  - the selected disk: a list has come without it in its place;
\*  - its gap: the disk or the list has changed since free space was selected;
\*  - a valid layout: a list has come since the disk page was left.
InstallReady ==
    page = "confirm" =>
        /\ EncryptionContinue
        /\ image \in 1..images \/ skipped \/ (catalog = "loaded" /\ images = 0)
        /\ Selected # NoDisk \/ moved
        /\ mode = "free" => PlanComplete \/ carried
        /\ mode = "custom" => PlanComplete \/ rescanned

\* "Clicking Install will erase the chosen disk" (confirm.rs).
ChosenDiskSent == [][sent' # sent => sent'.disk = chosen]_vars

=============================================================================
