------------------------------- MODULE Engine -------------------------------
(***************************************************************************)
(* cosmonaut_engine::install(): the pipeline that partitions, formats,     *)
(* encrypts, mounts and deploys the target disk, its cancellation points,  *)
(* its teardown, and what a later attempt finds on the machine.            *)
(*                                                                         *)
(* One attempt runs at a time (Daemon.tla shows why).  Attempts follow     *)
(* one another on the same host: a crash of the daemon leaves mounts and   *)
(* the LUKS mapper behind, and a killed `bootc install` may still be dying *)
(* (holder) while the teardown unmounts.                                   *)
(*                                                                         *)
(* The tools (umount, cryptsetup, sfdisk, mkfs, bootc) are external: each  *)
(* command is one action that succeeds with its effect, or is failed by    *)
(* CommandFails.                                                           *)
(***************************************************************************)
EXTENDS Integers, FiniteSets

CONSTANTS
    Encs,         \* encryption kinds a spec may ask for
    Plans,        \* partition plans a spec may ask for
    BootcDirs,    \* where bootc writes its entry: "ours" (ESP), "legacy" (/boot)
    LayerCounts,  \* what `skopeo inspect` may answer; 0 stands for None
    MaxBlobLines, \* bound: "Copying blob" lines skopeo prints
    MaxAttempts,  \* bound: install() calls
    MaxFaults,    \* bound: commands that fail, over all attempts
    MaxCrashes    \* bound: deaths of the daemon process

AllEncs == {"none", "passphrase", "tpm2", "tpm2passphrase"}

\* "free": FreeSpace.  Custom plans by what they do: "reuse" and "reformat"
\* take existing partitions (UseAsRoot, UseAsEsp keeping or formatting it),
\* "create" appends a root next to a kept ESP.  "malformed" stands for every
\* spec that validate_spec rejects.
AllPlans == {"erase", "free", "reuse", "reformat", "create", "malformed"}

ASSUME EncsAssumption == Encs \subseteq AllEncs
ASSUME PlansAssumption == Plans \subseteq AllPlans
ASSUME BootcDirsAssumption == BootcDirs \subseteq {"ours", "legacy"} /\ BootcDirs # {}
ASSUME LayersAssumption == LayerCounts \subseteq Nat /\ MaxBlobLines \in Nat
ASSUME BoundsAssumption ==
    MaxAttempts \in Nat /\ MaxFaults \in Nat /\ MaxCrashes \in Nat

VARIABLES
    pc,        \* the await point the engine is at; "idle" outside install()
    spec,      \* [enc, plan] of the current or last attempt
    cancel,    \* the CancellationToken has been cancelled
    result,    \* what install() returned, "none" while it runs
    step,      \* the last Step announced by StepChanged
    percent,   \* the last Progress percentage sent
    layers,    \* layer total known to the copy's forwarder (0: None)
    copied,    \* "Copying blob" lines counted so far
    mounts,    \* which of root, boot, efi are mounted below TARGET_ROOT
    mapper,    \* /dev/mapper/cosmonaut-root is open
    holder,    \* a killed bootc still has files open below the target
    detached,  \* a lazily unmounted tree is kept alive by the holder
    gap,       \* the requested free space is still free
    hasEsp,    \* the disk has an EFI system partition
    formatEsp, \* PartitionSet.format_esp
    hdr,       \* UUID in the root partition's LUKS header (0: no header)
    keys,      \* its key slots
    rootfs,    \* how far the root file system has got
    entries,   \* boot loader entries present
    kargs,     \* per entry, the UUIDs of its rd.luks.name=<UUID>=root kargs
    attempt, faults, crashes   \* counters of the bounds

control == <<pc, result, step, percent>>
blobs == <<layers, copied>>
host == <<mounts, mapper, holder, detached>>
table == <<gap, hasEsp, formatEsp>>
luksVol == <<hdr, keys>>
boot == <<entries, kargs>>
disk == <<table, luksVol, rootfs, boot>>
counters == <<attempt, faults, crashes>>
vars == <<control, spec, cancel, blobs, host, disk, counters>>

-----------------------------------------------------------------------------
MountPoints == {"root", "boot", "efi"}

\* "theirs" and "ours" are on the ESP (another system's entries, bootc's);
\* "legacy" is bootc's entry when it writes to /boot/loader/entries.
Entries == {"theirs", "ours", "legacy"}
EspEntries == {"theirs", "ours"}

Steps == {"partition", "format", "luks", "mkfs", "mount", "bootc",
          "hostname", "bls", "finalize"}

\* mutant: a later step's baseline below the end of the copy band
StartPercentLow ==
    [partition |-> 2, format |-> 4, luks |-> 6, mkfs |-> 8, mount |-> 9,
     bootc |-> 10, hostname |-> 70, bls |-> 93, finalize |-> 95]

\* Step::start_percent.
StartPercent ==
    [partition |-> 2, format |-> 4, luks |-> 6, mkfs |-> 8, mount |-> 9,
     bootc |-> 10, hostname |-> 90, bls |-> 93, finalize |-> 95]

CopyBandStart == 10
CopyBandEnd == 75

\* The step whose announcement precedes each await point (luksUUID is read
\* before the bls step is announced).
StepOf ==
    [partition |-> "partition", format |-> "format",
     luksFormat |-> "luks", luksOpen |-> "luks", enroll |-> "luks",
     dropKey |-> "luks", mkfs |-> "mkfs", mountRoot |-> "mount",
     mountBoot |-> "mount", mountEfi |-> "mount", copy |-> "bootc",
     deploy |-> "bootc", hostname |-> "hostname", uuid |-> "hostname",
     bls |-> "bls", trim |-> "finalize", finUmount |-> "finalize",
     finClose |-> "finalize"]

\* The EngineError variant a failing command maps to.
ErrorOf == [StepOf EXCEPT !["uuid"] = "luks"]

\* finalize::run swallows every failure, so it has no failing command.
Fallible == DOMAIN StepOf \ {"trim", "finUmount", "finClose"}
Teardown == {"tdUmount", "tdClose"}
PCs == DOMAIN StepOf \cup Teardown \cup {"idle", "preUmount", "preClose"}
Results == {"none", "ok", "cancelled", "invalid", "crashed"} \cup Steps

IsLuks == spec.enc # "none"
HasBoot == spec.plan = "erase"

\* The kernel refuses to rewrite a disk one of whose devices is claimed.
InUse == mounts # {} \/ mapper \/ detached

Init ==
    /\ pc = "idle" /\ result = "none" /\ step = "partition" /\ percent = 0
    /\ spec \in [enc : Encs, plan : Plans]
    /\ cancel = FALSE /\ layers = 0 /\ copied = 0
    /\ mounts = {} /\ mapper = FALSE /\ holder = FALSE /\ detached = FALSE
    /\ gap = TRUE /\ hasEsp \in BOOLEAN /\ formatEsp = FALSE
    /\ hdr = 0 /\ keys = {} /\ rootfs = "none"
    /\ entries \in {{}, IF hasEsp THEN {"theirs"} ELSE {}}
    /\ kargs = [e \in Entries |-> {}]
    /\ attempt = 0 /\ faults = 0 /\ crashes = 0

-----------------------------------------------------------------------------
(* Control.  Every stage ends in one of these.                             *)

\* emit_step: StepChanged, then Progress at the step's baseline.
Enter(next) ==
    /\ pc' = next
    /\ step' = StepOf[next]
    /\ percent' = StartPercent[StepOf[next]]
    /\ UNCHANGED result

\* The next await point of the same step.
Continue(next) ==
    /\ pc' = next
    /\ UNCHANGED <<result, step, percent>>

\* run_pipeline returns; install() goes on to its teardown.
Leave(outcome) ==
    /\ pc' = "tdUmount"
    /\ result' = outcome
    /\ UNCHANGED <<step, percent>>

\* check_cancel!(), then the next step.
CheckCancel(next) ==
    \/ cancel /\ Leave("cancelled")
    \/ ~cancel /\ Enter(next)

-----------------------------------------------------------------------------
(* Best-effort clean-up, used by preflight, finalize and teardown.         *)

\* mutant: no lazy fall-back
UnmountBusy ==
    /\ mounts' = IF holder THEN mounts ELSE {}
    /\ UNCHANGED <<detached, mapper, holder>>

\* mount::unmount_all: umount -R, then umount -Rl.  While the holder has
\* files open the first is refused and the second only detaches the tree.
\* Every failure is swallowed (mount.rs:62-70); of the tools it is assumed that
\* umount -Rl does not fail, and luksClose only while something uses the mapper.
UnmountAll ==
    /\ mounts' = {}
    /\ detached' = (detached \/ (holder /\ mounts # {}))
    /\ UNCHANGED <<mapper, holder>>

\* luks::close: refused while the mapper is in use, and always Ok (luks.rs:61-65).
CloseMapper ==
    /\ mapper' = (mapper /\ (mounts # {} \/ detached))
    /\ UNCHANGED <<mounts, holder, detached>>

-----------------------------------------------------------------------------
(* The call.                                                               *)

\* install(): a spec that validate_spec rejects returns at once, without
\* preflight or teardown.
Start(s) ==
    /\ pc = "idle" /\ attempt < MaxAttempts
    /\ attempt' = attempt + 1
    /\ spec' = s
    /\ cancel' = FALSE /\ layers' = 0 /\ copied' = 0
    /\ step' = "partition" /\ percent' = 0
    /\ \/ s.plan = "malformed" /\ result' = "invalid" /\ pc' = "idle"
       \/ s.plan # "malformed" /\ result' = "none" /\ pc' = "preUmount"
    /\ UNCHANGED <<host, disk, faults, crashes>>

\* The caller cancels the token; the engine only polls it.
Cancel ==
    /\ pc # "idle" /\ ~cancel
    /\ cancel' = TRUE
    /\ UNCHANGED <<control, spec, blobs, host, disk, counters>>

PreflightUnmount ==
    /\ pc = "preUmount" /\ UnmountAll /\ Continue("preClose")
    /\ UNCHANGED <<spec, cancel, blobs, disk, counters>>

\* mutant: preflight closes the mapper only for a LUKS spec, as teardown does
PreflightCloseIfLuks ==
    /\ pc = "preClose"
    /\ IF IsLuks THEN CloseMapper ELSE UNCHANGED host
    /\ CheckCancel("partition")
    /\ UNCHANGED <<spec, cancel, blobs, disk, counters>>

\* Whatever the new spec's encryption is, then udevadm settle.
PreflightClose ==
    /\ pc = "preClose" /\ CloseMapper /\ CheckCancel("partition")
    /\ UNCHANGED <<spec, cancel, blobs, disk, counters>>

-----------------------------------------------------------------------------
(* Partition and format.                                                   *)

NeedsGap == spec.plan \in {"free", "create"}

\* What partition::run does to the disk once its checks have passed.
Repartition ==
    /\ gap' = (gap /\ ~NeedsGap /\ spec.plan # "erase")
    /\ hasEsp' = TRUE
    /\ formatEsp' = CASE spec.plan \in {"erase", "reformat"} -> TRUE
                      [] spec.plan = "free" -> ~hasEsp
                      [] OTHER -> FALSE
    /\ hdr' = 0 /\ keys' = {} /\ rootfs' = "none"
    /\ entries' = IF spec.plan \in {"erase", "reformat"} THEN {}
                  ELSE entries \ {"legacy"}
    /\ kargs' = [e \in Entries |-> IF e \in entries' THEN kargs[e] ELSE {}]

\* mutant: --force, to get past "device or resource busy" on a retry
PartitionForced == NeedsGap => gap

PartitionOk == ~InUse /\ (NeedsGap => gap)

Partition ==
    /\ pc = "partition" /\ PartitionOk
    /\ Repartition /\ CheckCancel("format")
    /\ UNCHANGED <<spec, cancel, blobs, host, counters>>

\* A disk that is busy, or a gap that is no longer free.
PartitionRefused ==
    /\ pc = "partition" /\ ~PartitionOk
    /\ Leave("partition")
    /\ UNCHANGED <<spec, cancel, blobs, host, disk, counters>>

\* A command after the table was written fails (settle, re-probe, --part-type).
PartitionFailsLate ==
    /\ pc = "partition" /\ PartitionOk /\ faults < MaxFaults
    /\ faults' = faults + 1
    /\ Repartition /\ Leave("partition")
    /\ UNCHANGED <<spec, cancel, blobs, host, attempt, crashes>>

Format ==
    /\ pc = "format"
    /\ entries' = entries \ ((IF formatEsp THEN EspEntries ELSE {})
                             \cup (IF HasBoot THEN {"legacy"} ELSE {}))
    /\ kargs' = [e \in Entries |-> IF e \in entries' THEN kargs[e] ELSE {}]
    /\ CheckCancel(IF IsLuks THEN "luksFormat" ELSE "mkfs")
    /\ UNCHANGED <<spec, cancel, blobs, host, table, luksVol, rootfs, counters>>

-----------------------------------------------------------------------------
(* luks::open.  Each luksFormat writes a new UUID: the attempt's number.   *)

FirstKey == IF spec.enc = "tpm2" THEN "throwaway" ELSE "passphrase"

LuksFormat ==
    /\ pc = "luksFormat"
    /\ hdr' = attempt /\ keys' = {FirstKey}
    /\ Continue("luksOpen")
    /\ UNCHANGED <<spec, cancel, blobs, host, table, rootfs, boot, counters>>

LuksOpen ==
    /\ pc = "luksOpen"
    /\ mapper' = TRUE
    /\ \/ spec.enc = "passphrase" /\ CheckCancel("mkfs")
       \/ spec.enc # "passphrase" /\ Continue("enroll")
    /\ UNCHANGED <<spec, cancel, blobs, mounts, holder, detached, disk, counters>>

\* mutant: the throwaway passphrase is never removed
Tpm2EnrollOnly ==
    /\ pc = "enroll"
    /\ keys' = keys \cup {"tpm2"}
    /\ CheckCancel("mkfs")
    /\ UNCHANGED <<spec, cancel, blobs, host, table, hdr, rootfs, boot, counters>>

Tpm2Enroll ==
    /\ pc = "enroll"
    /\ keys' = keys \cup {"tpm2"}
    /\ \/ spec.enc = "tpm2passphrase" /\ CheckCancel("mkfs")
       \/ spec.enc = "tpm2" /\ Continue("dropKey")
    /\ UNCHANGED <<spec, cancel, blobs, host, table, hdr, rootfs, boot, counters>>

RemoveKeyslot ==
    /\ pc = "dropKey"
    /\ keys' = keys \ {"throwaway"}
    /\ CheckCancel("mkfs")
    /\ UNCHANGED <<spec, cancel, blobs, host, table, hdr, rootfs, boot, counters>>

-----------------------------------------------------------------------------
(* mkfs and mount.                                                         *)

\* mutant: no check_cancel!() after mkfs
MkfsUnchecked ==
    /\ pc = "mkfs"
    /\ rootfs' = "btrfs"
    /\ Enter("mountRoot")
    /\ UNCHANGED <<spec, cancel, blobs, host, table, luksVol, boot, counters>>

Mkfs ==
    /\ pc = "mkfs"
    /\ rootfs' = "btrfs"
    /\ CheckCancel("mountRoot")
    /\ UNCHANGED <<spec, cancel, blobs, host, table, luksVol, boot, counters>>

Mount(point, after) ==
    /\ mounts' = mounts \cup {point}
    /\ after
    /\ UNCHANGED <<spec, cancel, blobs, mapper, holder, detached, disk, counters>>

MountRoot ==
    /\ pc = "mountRoot"
    /\ Mount("root", Continue(IF HasBoot THEN "mountBoot" ELSE "mountEfi"))

MountBoot == pc = "mountBoot" /\ Mount("boot", Continue("mountEfi"))

MountEfi == pc = "mountEfi" /\ Mount("efi", CheckCancel("copy"))

-----------------------------------------------------------------------------
(* bootc::run.  Both selects are biased: a cancelled token wins.           *)

\* mutant: skopeo prints more blob lines than the manifest has layers
Uncapped(a, b) == a

Smaller(a, b) == IF a < b THEN a ELSE b

\* layer_count, once, before the copy starts.
InspectLayers(n) ==
    /\ pc = "copy" /\ layers = 0 /\ copied = 0
    /\ n # 0 /\ layers' = n
    /\ UNCHANGED <<control, spec, cancel, copied, host, disk, counters>>

\* forward_with_progress sees a blob line: Progress only if the total is known.
BlobLine ==
    /\ pc = "copy" /\ copied < MaxBlobLines
    /\ copied' = copied + 1
    /\ percent' = IF layers = 0 THEN percent
                  ELSE CopyBandStart + ((CopyBandEnd - CopyBandStart)
                                        * Smaller(copied', layers)) \div layers
    /\ UNCHANGED <<pc, result, step, spec, cancel, layers, host, disk, counters>>

CopyDone ==
    /\ pc = "copy" /\ ~cancel
    /\ pc' = "deploy" /\ percent' = CopyBandEnd
    /\ UNCHANGED <<result, step, spec, cancel, blobs, host, disk, counters>>

\* bootc writes the deployment and replaces its own boot entry.
Deploy(entry) ==
    /\ pc = "deploy" /\ ~cancel
    /\ rootfs' = "deployed"
    /\ entries' = entries \cup {entry}
    /\ kargs' = [kargs EXCEPT ![entry] = {}]
    /\ CheckCancel("hostname")
    /\ UNCHANGED <<spec, cancel, blobs, host, table, luksVol, counters>>

\* mutant: the cancel arm goes round the biased select again
CancelCopyLoops ==
    /\ pc = "copy" /\ cancel
    /\ UNCHANGED vars

CancelCopy ==
    /\ pc = "copy" /\ cancel
    /\ Leave("bootc")
    /\ UNCHANGED <<spec, cancel, blobs, host, disk, counters>>

\* Dropping the future kills bootc (kill_on_drop) and does not wait for it.
CancelDeploy ==
    /\ pc = "deploy" /\ cancel
    /\ holder' \in BOOLEAN
    /\ Leave("bootc")
    /\ UNCHANGED <<spec, cancel, blobs, mounts, mapper, detached, disk, counters>>

HolderExits ==
    /\ holder
    /\ holder' = FALSE /\ detached' = FALSE
    /\ UNCHANGED <<control, spec, cancel, blobs, mounts, mapper, disk, counters>>

-----------------------------------------------------------------------------
(* hostname, bls, finalize, teardown.                                      *)

Hostname ==
    /\ pc = "hostname"
    /\ rootfs' = "named"
    /\ IF IsLuks THEN \/ cancel /\ Leave("cancelled")
                      \/ ~cancel /\ Continue("uuid")
                 ELSE CheckCancel("trim")
    /\ UNCHANGED <<spec, cancel, blobs, host, table, luksVol, boot, counters>>

ReadUuid ==
    /\ pc = "uuid" /\ Enter("bls")
    /\ UNCHANGED <<spec, cancel, blobs, host, disk, counters>>

\* The directory bls::inject_luks_uuid walks: the ESP's if it exists.
EntriesDir == IF entries \cap EspEntries # {} THEN entries \cap EspEntries
              ELSE entries \cap {"legacy"}

Inject(es) ==
    kargs' = [e \in Entries |-> IF e \in es THEN kargs[e] \cup {hdr} ELSE kargs[e]]

\* mutant: no check_cancel!() between bls and finalize
BlsUnchecked ==
    /\ pc = "bls"
    /\ Inject(EntriesDir)
    /\ Enter("trim")
    /\ UNCHANGED <<spec, cancel, blobs, host, table, luksVol, rootfs, entries, counters>>

Bls ==
    /\ pc = "bls"
    /\ Inject(EntriesDir)
    /\ CheckCancel("trim")
    /\ UNCHANGED <<spec, cancel, blobs, host, table, luksVol, rootfs, entries, counters>>

\* fstrim: a failure is logged and ignored.
Fstrim ==
    /\ pc = "trim" /\ Continue("finUmount")
    /\ UNCHANGED <<spec, cancel, blobs, host, disk, counters>>

Succeed ==
    /\ pc' = "tdUmount" /\ result' = "ok"
    /\ UNCHANGED <<step, percent>>

FinalizeUnmount ==
    /\ pc = "finUmount" /\ UnmountAll
    /\ IF IsLuks THEN Continue("finClose") ELSE Succeed
    /\ UNCHANGED <<spec, cancel, blobs, disk, counters>>

FinalizeClose ==
    /\ pc = "finClose" /\ CloseMapper /\ Succeed
    /\ UNCHANGED <<spec, cancel, blobs, disk, counters>>

TeardownUnmount ==
    /\ pc = "tdUmount" /\ UnmountAll
    /\ Continue(IF IsLuks THEN "tdClose" ELSE "idle")
    /\ UNCHANGED <<spec, cancel, blobs, disk, counters>>

TeardownClose ==
    /\ pc = "tdClose" /\ CloseMapper /\ Continue("idle")
    /\ UNCHANGED <<spec, cancel, blobs, disk, counters>>

-----------------------------------------------------------------------------
(* Failures.                                                               *)

\* A command exits non-zero, or the code rejects what it finds; `?` maps the
\* error to the step's variant.  What the failed command leaves is partial:
\* a destroyed LUKS header, an entry bootc has or has not written yet, some
\* of the boot entries edited.
CommandFails ==
    /\ pc \in Fallible /\ faults < MaxFaults
    /\ pc \in {"copy", "deploy"} => ~cancel
    /\ faults' = faults + 1
    /\ Leave(ErrorOf[pc])
    /\ IF pc = "luksFormat" THEN hdr' = 0 /\ keys' = {} ELSE UNCHANGED luksVol
    /\ entries' \in IF pc = "deploy"
                    THEN {entries} \cup {entries \cup {e} : e \in BootcDirs}
                    ELSE {entries}
    /\ IF pc = "bls" THEN \E es \in SUBSET EntriesDir : Inject(es)
                     ELSE UNCHANGED kargs
    /\ UNCHANGED <<spec, cancel, blobs, host, table, rootfs, attempt, crashes>>

\* The daemon process dies: SIGTERM, SIGINT, idle exit, a crash.  No teardown;
\* mounts and mapper stay, a running bootc is killed with it.
Crash ==
    /\ pc # "idle" /\ crashes < MaxCrashes
    /\ crashes' = crashes + 1
    /\ pc' = "idle" /\ result' = "crashed"
    /\ holder' \in IF pc = "deploy" THEN BOOLEAN ELSE {holder}
    /\ UNCHANGED <<step, percent, spec, cancel, blobs, mounts, mapper, detached,
                   disk, attempt, faults>>

-----------------------------------------------------------------------------
\* The steps of the engine itself: what its task does when it is polled.
EngineStep ==
    \/ PreflightUnmount \/ PreflightClose
    \/ Partition \/ PartitionRefused \/ Format
    \/ LuksFormat \/ LuksOpen \/ Tpm2Enroll \/ RemoveKeyslot
    \/ Mkfs \/ MountRoot \/ MountBoot \/ MountEfi
    \/ CopyDone \/ CancelCopy \/ CancelDeploy
    \/ \E entry \in BootcDirs : Deploy(entry)
    \/ Hostname \/ ReadUuid \/ Bls
    \/ Fstrim \/ FinalizeUnmount \/ FinalizeClose
    \/ TeardownUnmount \/ TeardownClose

Environment ==
    \/ \E s \in [enc : Encs, plan : Plans] : Start(s)
    \/ Cancel \/ HolderExits \/ CommandFails \/ PartitionFailsLate \/ Crash
    \/ BlobLine
    \/ \E n \in LayerCounts : InspectLayers(n)

Next == EngineStep \/ Environment

Spec == Init /\ [][Next]_vars

\* Every command terminates and the runtime polls the engine's task, so the
\* engine keeps taking steps; a killed process dies.
FairSpec == Spec /\ WF_vars(EngineStep) /\ WF_vars(HolderExits)

-----------------------------------------------------------------------------
(* Properties.                                                             *)

TypeOK ==
    /\ pc \in PCs /\ result \in Results /\ step \in Steps
    /\ percent \in 0..100
    /\ spec \in [enc : Encs, plan : Plans]
    /\ cancel \in BOOLEAN
    /\ layers \in Nat /\ copied \in Nat
    /\ mounts \subseteq MountPoints
    /\ mapper \in BOOLEAN /\ holder \in BOOLEAN /\ detached \in BOOLEAN
    /\ gap \in BOOLEAN /\ hasEsp \in BOOLEAN /\ formatEsp \in BOOLEAN
    /\ hdr \in Nat /\ keys \subseteq {"passphrase", "throwaway", "tpm2"}
    /\ rootfs \in {"none", "btrfs", "deployed", "named"}
    /\ entries \subseteq Entries
    /\ kargs \in [Entries -> SUBSET Nat]
    /\ attempt \in Nat /\ faults \in Nat /\ crashes \in Nat

Returned == pc = "idle" /\ result \notin {"none", "crashed", "invalid"}

BeforeOpen == {"format", "luksFormat", "luksOpen"}
AfterOpen == {"enroll", "dropKey", "mkfs", "mountRoot", "mountBoot", "mountEfi",
              "copy", "deploy", "hostname", "uuid", "bls", "trim"}
AfterMount == {"copy", "deploy", "hostname", "uuid", "bls", "trim"}

\* From the format step on, every claim on the disk's devices is this
\* attempt's own: nothing of an earlier cancelled or killed attempt is still
\* mounted, detached or held, the mapper is open exactly if this attempt
\* opened it, and what bootc deploys into is the complete target tree.
PipelineOwnsDisk ==
    /\ pc \in BeforeOpen => ~InUse /\ ~holder
    /\ pc \in AfterOpen => /\ ~detached /\ ~holder
                           /\ mapper <=> spec.enc # "none"
    /\ pc \in AfterMount => mounts = IF HasBoot THEN MountPoints ELSE {"root", "efi"}

\* install() returns with nothing mounted, whatever the outcome ("Nothing has
\* been left mounted", pages/done.rs), and a successful one leaves neither an
\* open mapper nor a tree that is only lazily unmounted.
NothingLeftMounted ==
    Returned => /\ mounts = {}
                /\ result = "ok" => ~InUse /\ ~holder

WantedKeys ==
    CASE spec.enc = "passphrase" -> {"passphrase"}
      [] spec.enc = "tpm2" -> {"tpm2"}
      [] spec.enc = "tpm2passphrase" -> {"passphrase", "tpm2"}
      [] OTHER -> {}

\* Ok(()) means a system that boots and unlocks: the named deployment, with
\* the key slots the user asked for and no other, and bootc's boot entry
\* naming the UUID of the header that is on the disk now, not one of an
\* earlier attempt.
SuccessBoots ==
    Returned /\ result = "ok" =>
        /\ rootfs = "named"
        /\ keys = WantedKeys
        /\ entries \cap BootcDirs # {}
        /\ \E e \in entries \cap BootcDirs :
              kargs[e] = IF spec.enc = "none" THEN {} ELSE {hdr}
        /\ hdr = IF spec.enc = "none" THEN 0 ELSE attempt

\* Once the token is cancelled no further step starts.  The one exception is
\* in the code: luksUUID is awaited between a check and the bls step.
CancelStopsPipeline ==
    [][cancel /\ cancel' /\ step' # step => pc = "uuid"]_vars

\* The percentage never goes back within an install (Event::Progress,
\* "Monotonic per install"), whatever skopeo prints.
ProgressMonotonic == [][attempt' = attempt => percent' >= percent]_vars

\* Every install() returns, cancelled, failed or done.
EveryAttemptReturns == (pc # "idle") ~> (pc = "idle")

Undisturbed == faults = MaxFaults /\ crashes = MaxCrashes /\ ~holder

\* Preflight makes a retry robust: whatever earlier attempts left mounted or
\* open, an attempt nothing disturbs succeeds, if what its plan asks for is
\* still there (a free-space plan's gap is not, once an attempt has filled it).
RetrySucceeds ==
    (pc = "preUmount" /\ Undisturbed /\ (NeedsGap => gap))
        ~> (result = "ok" \/ cancel)

-----------------------------------------------------------------------------
(* Refinement.                                                             *)

FinalizePCs == {"trim", "finUmount", "finClose"}

\* An attempt has committed once finalize is announced; its teardown goes on
\* in the phase its outcome was decided in.
Phase ==
    IF pc = "idle" THEN "idle"
    ELSE IF pc \in FinalizePCs \/ (pc \in Teardown /\ result = "ok") THEN "finishing"
    ELSE "working"

Outcome ==
    IF pc # "idle" \/ result \in {"none", "crashed"} THEN "none"
    ELSE IF result = "ok" THEN "ok" ELSE "error"

Task == INSTANCE InstallTask WITH phase <- Phase, cancelled <- cancel, outcome <- Outcome

\* install() keeps the promise the service relies on: a cancellation that
\* arrives before finalize is announced is never answered with Ok, and after
\* that nothing but the death of the process stops the attempt from
\* succeeding.
KeepsPromise == Task!Spec

=============================================================================
