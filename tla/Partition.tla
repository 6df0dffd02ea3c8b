----------------------------- MODULE Partition -----------------------------
(***************************************************************************)
(* partition::run(): one plan realized on one disk.  validate_spec checks  *)
(* the plan's shape; erase_disk, free_space and custom then alternate      *)
(* probes, checks and sfdisk calls.  The plan is a request made against    *)
(* some earlier state of the disk, so it may name anything.                *)
(*                                                                         *)
(* Offsets and sizes are in small units; Sector, Align, EspBytes, RootMin  *)
(* keep their relations to one another, and u64 its wrap-around.           *)
(* sfdisk and wipefs are external: they do what they are asked or refuse.  *)
(***************************************************************************)
EXTENDS Integers, FiniteSets, Sequences

CONSTANTS
    Numbers,      \* partition numbers, that is, slots of the table
    Sector, Align, \* sector_size, ALIGNMENT_BYTES
    First, End,   \* the usable range: firstlba, lastlba + 1, in bytes
    EspBytes, BootBytes, RootMin,
    Width,        \* 2^64
    Labels,       \* labels the table may have; only "gpt" is accepted
    Tables,       \* partition tables the disk may have
    Plans,        \* requests: see AllPlans
    MaxFaults     \* bound: commands that fail

Bytes == 0..(Width - 1)

\* What a plan can say.  A device is the number of its partition, or 0 for a
\* path that is not below the disk's.
Devices == {0} \cup Numbers
Fill == -1   \* CreateRoot's size_bytes: None

ActionKinds == {"delete", "useRoot", "useEsp", "createRoot", "createEsp"}
Actions == [do : ActionKinds, dev : Devices, format : BOOLEAN,
            start : Bytes, size : Bytes \cup {Fill}]
AllPlans == [mode : {"erase", "free", "custom"}, start : Bytes, size : Bytes,
             actions : Seq(Actions)]

\* A partition: its place, its type GUID, whether lsblk shows a mount point,
\* and whether what it holds is someone's data.
Parts == [start : Bytes, size : Bytes, type : {"esp", "root", "other"},
          mounted : BOOLEAN, data : BOOLEAN]

ASSUME NumbersAssumption ==
    Numbers \subseteq Nat \ {0} /\ IsFiniteSet(Numbers) /\ 1..3 \subseteq Numbers
ASSUME UnitsAssumption ==
    /\ Sector \in Nat \ {0} /\ Align \in Nat \ {0} /\ Align % Sector = 0
    /\ EspBytes \in Nat \ {0} /\ BootBytes \in Nat \ {0} /\ RootMin \in Nat
    /\ EspBytes % Sector = 0 /\ BootBytes % Sector = 0 /\ RootMin % Sector = 0
    /\ EspBytes <= RootMin
    /\ First \in Nat /\ End \in Nat /\ Width \in Nat
    /\ First < End /\ End + RootMin <= Width /\ End % Sector = 0
\* Whatever is on the disk when the call begins counts as somebody's data.
\* Partitions end within the usable range, the disk's when sfdisk reports none.
ASSUME TablesAssumption ==
    \A t \in Tables :
        /\ DOMAIN t \subseteq Numbers /\ t \in [DOMAIN t -> Parts]
        /\ \A n \in DOMAIN t : /\ t[n].start % Sector = 0
                               /\ t[n].size % Sector = 0 /\ t[n].size > 0
                               /\ t[n].start + t[n].size <= End
                               /\ t[n].data
ASSUME RequestsAssumption == Plans \subseteq AllPlans
ASSUME FaultsAssumption == MaxFaults \in Nat

VARIABLES
    pc,        \* where run() is; "ready" before, "returned" after
    plan,
    result,    \* "none", "ok", "invalid", "refused" by a check, "failed" command
    label,     \* the partition table's
    table,     \* number -> partition
    orig,      \* the table when the call began
    index,     \* the action the last loop of custom() looks at
    esp, root, \* the PartitionSet's devices, 0 while unset
    formatEsp, \* its format_esp
    faults

outcome == <<esp, root, formatEsp>>
vars == <<pc, plan, result, label, table, orig, index, outcome, faults>>

-----------------------------------------------------------------------------
(* probe.rs: the free gaps of a table.                                     *)

EndOf(p) == p.start + p.size

AlignDown(v) == (v \div Align) * Align
AlignUp(v) == AlignDown(v + Align - 1)

\* mutant: the usable region ends before its last sector
LastSector == End - Sector

\* lastlba is inclusive.
UsableEnd == End

Highest(S) == CHOOSE x \in S : \A y \in S : y <= x

\* compute_gaps sorts the spans and keeps the highest end seen so far, since
\* spans may be nested (MBR).
Before(p, q) == p.start < q.start \/ (p.start = q.start /\ p.size < q.size)
CursorAt(t, ps) == Highest({First} \cup {EndOf(p) : p \in ps})
Spans(t) == {t[n] : n \in DOMAIN t}

RawGaps(t) ==
    {<<CursorAt(t, {q \in Spans(t) : Before(q, p)}), p.start>> : p \in Spans(t)}
    \cup {<<CursorAt(t, Spans(t)), UsableEnd>>}

\* push_gap shrinks a gap to aligned bounds.
Gaps(t) ==
    {g \in {[start |-> AlignUp(r[1]), end |-> AlignDown(r[2])] :
              r \in {x \in RawGaps(t) : x[2] > x[1]}} :
       g.end > g.start}

\* u64 arithmetic of a release build.
Add(a, b) == (a + b) % Width
Sub(a, b) == (a - b) % Width

\* The range check of free_space and custom.
IsFree(t, start, size) ==
    \E g \in Gaps(t) : start >= g.start /\ Add(start, size) <= g.end

-----------------------------------------------------------------------------
(* lib.rs: validate_spec.                                                  *)

Indices(p, kinds) == {i \in DOMAIN p.actions : p.actions[i].do \in kinds}
References(p) == Indices(p, {"delete", "useRoot", "useEsp"})
Referenced(p) == {p.actions[i].dev : i \in References(p)}

\* mutant: devices may be referenced twice
ValidateShape(p) ==
    CASE p.mode = "erase" -> TRUE
      [] p.mode = "free" -> p.size >= RootMin
      [] OTHER ->
         /\ Cardinality(Indices(p, {"useRoot", "createRoot"})) = 1
         /\ Cardinality(Indices(p, {"useEsp", "createEsp"})) = 1
         /\ \A i \in Indices(p, {"createRoot"}) :
               p.actions[i].size = Fill \/ p.actions[i].size >= RootMin
         /\ 0 \notin Referenced(p)

\* mutant: a plan without an ESP passes
ValidateAtMost(p) ==
    CASE p.mode = "erase" -> TRUE
      [] p.mode = "free" -> p.size >= RootMin
      [] OTHER ->
         /\ Cardinality(Indices(p, {"useRoot", "createRoot"})) = 1
         /\ Cardinality(Indices(p, {"useEsp", "createEsp"})) <= 1
         /\ \A i \in Indices(p, {"createRoot"}) :
               p.actions[i].size = Fill \/ p.actions[i].size >= RootMin
         /\ \A i, j \in References(p) :
               p.actions[i].dev = p.actions[j].dev => i = j
         /\ 0 \notin Referenced(p)

Validate(p) ==
    CASE p.mode = "erase" -> TRUE
      [] p.mode = "free" -> p.size >= RootMin
      [] OTHER ->
         /\ Cardinality(Indices(p, {"useRoot", "createRoot"})) = 1
         /\ Cardinality(Indices(p, {"useEsp", "createEsp"})) = 1
         /\ \A i \in Indices(p, {"createRoot"}) :
               p.actions[i].size = Fill \/ p.actions[i].size >= RootMin
         /\ \A i, j \in References(p) :
               p.actions[i].dev = p.actions[j].dev => i = j
         /\ 0 \notin Referenced(p)

-----------------------------------------------------------------------------
(* sfdisk and wipefs.                                                      *)

Created(start, size, type) ==
    [start |-> start, size |-> size, type |-> type, mounted |-> FALSE, data |-> FALSE]

\* A script line gives whole sectors.
Sectors(bytes) == (bytes \div Sector) * Sector
Line(start, size, type) == Created(Sectors(start), Sectors(size), type)

Disjoint(p, q) == EndOf(p) <= q.start \/ EndOf(q) <= p.start
InUse == \E n \in DOMAIN table : table[n].mounted

\* sfdisk --append takes a script that fits, on a disk not in use whose table
\* has a free slot for every line.
Fits(lines) ==
    /\ ~InUse
    /\ Cardinality(lines) <= Cardinality(Numbers \ DOMAIN table)
    /\ \A p \in lines : p.size > 0 /\ p.start >= First /\ EndOf(p) <= End
    /\ \A p \in lines : \A n \in DOMAIN table : Disjoint(p, table[n])
    /\ \A p, q \in lines : p # q => Disjoint(p, q)

\* It numbers the new partitions with slots that are unused.
AppendLines(lines, slot) ==
    /\ \A p, q \in lines : slot[p] = slot[q] => p = q
    /\ table' = [n \in DOMAIN table \cup {slot[p] : p \in lines} |->
                   IF n \in DOMAIN table THEN table[n]
                   ELSE CHOOSE p \in lines : slot[p] = n]

PartitionAt(start) == {n \in DOMAIN table : table[n].start = start}

-----------------------------------------------------------------------------
(* How a stage ends.                                                       *)

GoTo(next) == pc' = next /\ UNCHANGED result

Return(r) == pc' = "returned" /\ result' = r

\* bail!
Refuse ==
    /\ Return("refused")
    /\ UNCHANGED <<table, label, index, outcome>>

-----------------------------------------------------------------------------
Init ==
    /\ pc = "ready" /\ result = "none" /\ faults = 0
    /\ plan \in Plans
    /\ label \in Labels
    /\ table \in Tables /\ orig = table
    /\ index = 1
    /\ esp = 0 /\ root = 0 /\ formatEsp = TRUE

Start ==
    /\ pc = "ready"
    /\ IF Validate(plan) THEN GoTo(plan.mode) ELSE Return("invalid")
    /\ UNCHANGED <<plan, label, table, orig, index, outcome, faults>>

\* wipefs opens the disk exclusively, then sfdisk writes three partitions.
EraseRoot == AlignUp(First) + EspBytes + BootBytes

Erase ==
    /\ pc = "erase" /\ ~InUse
    /\ EraseRoot < AlignDown(End)
    /\ label' = "gpt"
    /\ table' = [n \in 1..3 |->
         CASE n = 1 -> Created(AlignUp(First), EspBytes, "esp")
           [] n = 2 -> Created(AlignUp(First) + EspBytes, BootBytes, "other")
           [] OTHER -> Created(EraseRoot, AlignDown(End) - EraseRoot, "other")]
    /\ GoTo("stamp")
    /\ UNCHANGED <<plan, orig, index, outcome, faults>>

\* The root partition's type GUID; devices by the naming convention.
StampErased ==
    /\ pc = "stamp"
    /\ table' = [table EXCEPT ![3].type = "root"]
    /\ esp' = 1 /\ root' = 3 /\ formatEsp' = TRUE
    /\ Return("ok")
    /\ UNCHANGED <<plan, label, orig, index, faults>>

-----------------------------------------------------------------------------
(* free_space.                                                             *)

Esps == {n \in DOMAIN table : table[n].type = "esp"}

\* The first one; partitions are sorted by start.
FirstEsps == {n \in Esps : \A m \in Esps : table[n].start <= table[m].start}

FreeRootStart == IF Esps = {} THEN plan.start + EspBytes ELSE plan.start
FreeRootSize == Sub(Add(plan.start, plan.size), FreeRootStart)
FreeLines ==
    {Line(FreeRootStart, FreeRootSize, "root")}
    \cup (IF Esps = {} THEN {Line(plan.start, EspBytes, "esp")} ELSE {})

FreePlanOk ==
    /\ label = "gpt"
    /\ IsFree(table, plan.start, plan.size)
    /\ FreeRootSize >= RootMin

RefuseFree ==
    /\ pc = "free" /\ ~FreePlanOk
    /\ Refuse
    /\ UNCHANGED <<plan, orig, faults>>

\* An existing ESP is chosen before the append, and kept as it is.
AppendFree ==
    /\ pc = "free" /\ FreePlanOk /\ Fits(FreeLines)
    /\ \E slot \in [FreeLines -> Numbers \ DOMAIN table] : AppendLines(FreeLines, slot)
    /\ formatEsp' = (Esps = {})
    /\ esp' \in IF Esps = {} THEN {0} ELSE FirstEsps
    /\ GoTo("resolveFree")
    /\ UNCHANGED <<plan, label, orig, index, root, faults>>

\* Re-probe, and find the new partitions by their start.
ResolveFree ==
    /\ pc = "resolveFree"
    /\ LET rootStart == IF formatEsp THEN plan.start + EspBytes ELSE plan.start IN
       \/ /\ PartitionAt(rootStart) # {}
          /\ formatEsp => PartitionAt(plan.start) # {}
          /\ root' \in PartitionAt(rootStart)
          /\ esp' \in IF formatEsp THEN PartitionAt(plan.start) ELSE {esp}
          /\ Return("ok")
          /\ UNCHANGED <<table, label, index, formatEsp>>
       \/ /\ PartitionAt(rootStart) = {} \/ (formatEsp /\ PartitionAt(plan.start) = {})
          /\ Refuse
    /\ UNCHANGED <<plan, orig, faults>>

-----------------------------------------------------------------------------
(* custom.                                                                 *)

Deleted == {plan.actions[i].dev : i \in Indices(plan, {"delete"})}

\* mutant: a mounted partition may be deleted
DeletesExist ==
    /\ label = "gpt"
    /\ \A n \in Deleted : n \in DOMAIN table

\* 1. Deletes, all in one sfdisk call, after each has been looked up.
DeletesOk ==
    /\ label = "gpt"
    /\ \A n \in Deleted : n \in DOMAIN table /\ ~table[n].mounted

RefuseDeletes ==
    /\ pc = "custom" /\ ~DeletesOk
    /\ Refuse
    /\ UNCHANGED <<plan, orig, faults>>

\* mutant: sfdisk is given positions in the probe's list, not numbers
Position(n) == Cardinality({m \in DOMAIN table : table[m].start <= table[n].start})
DeleteByPosition ==
    /\ pc = "custom" /\ DeletesOk
    /\ table' = [n \in DOMAIN table \ {Position(m) : m \in Deleted} |-> table[n]]
    /\ GoTo("create")
    /\ UNCHANGED <<plan, label, orig, index, outcome, faults>>

DeletePartitions ==
    /\ pc = "custom" /\ DeletesOk
    /\ table' = [n \in DOMAIN table \ Deleted |-> table[n]]
    /\ GoTo("create")
    /\ UNCHANGED <<plan, label, orig, index, outcome, faults>>

\* 2. Creates, against the gaps there are after the deletes.
GapsAt(start) == {g \in Gaps(table) : start >= g.start /\ start < g.end}
RootSize(a) ==
    IF a.size # Fill THEN a.size
    ELSE (CHOOSE g \in GapsAt(a.start) : TRUE).end - a.start

CreateOk(a) ==
    IF a.do = "createRoot"
    THEN /\ a.size = Fill => GapsAt(a.start) # {}
         /\ RootSize(a) >= RootMin /\ IsFree(table, a.start, RootSize(a))
    ELSE IsFree(table, a.start, EspBytes)

LineOf(a) ==
    IF a.do = "createRoot" THEN Line(a.start, RootSize(a), "root")
    ELSE Line(a.start, EspBytes, "esp")

Creates == {plan.actions[i] : i \in Indices(plan, {"createRoot", "createEsp"})}
CreateLines == {LineOf(a) : a \in Creates}

RefuseCreates ==
    /\ pc = "create" /\ ~(\A a \in Creates : CreateOk(a))
    /\ Refuse
    /\ UNCHANGED <<plan, orig, faults>>

AppendCustom ==
    /\ pc = "create" /\ \A a \in Creates : CreateOk(a)
    /\ IF Creates = {} THEN UNCHANGED table
       ELSE /\ Fits(CreateLines)
            /\ \E slot \in [CreateLines -> Numbers \ DOMAIN table] :
                  AppendLines(CreateLines, slot)
    /\ GoTo("resolve")
    /\ UNCHANGED <<plan, label, orig, index, outcome, faults>>

\* 3. Re-probe; the created partitions by their start.
CreatedAt(kind) == {a \in Creates : a.do = kind}
FoundAt(kind) == UNION {PartitionAt(a.start) : a \in CreatedAt(kind)}

ResolveCreated ==
    /\ pc = "resolve"
    /\ \/ /\ \A a \in Creates : PartitionAt(a.start) # {}
          /\ root' \in IF CreatedAt("createRoot") = {} THEN {0} ELSE FoundAt("createRoot")
          /\ esp' \in IF CreatedAt("createEsp") = {} THEN {0} ELSE FoundAt("createEsp")
          /\ GoTo("use")
          /\ UNCHANGED <<table, label, index, formatEsp>>
       \/ /\ \E a \in Creates : PartitionAt(a.start) = {}
          /\ Refuse
    /\ UNCHANGED <<plan, orig, faults>>

\* The loop over the reused partitions.
Action == plan.actions[index]
AtUse(kind) == pc = "use" /\ index \in DOMAIN plan.actions /\ Action.do = kind

SkipAction ==
    /\ pc = "use" /\ index \in DOMAIN plan.actions
    /\ Action.do \notin {"useRoot", "useEsp"}
    /\ index' = index + 1
    /\ UNCHANGED <<pc, result, plan, label, table, orig, outcome, faults>>

RootUsable ==
    /\ Action.dev \in DOMAIN table
    /\ ~table[Action.dev].mounted /\ table[Action.dev].size >= RootMin

EspUsable ==
    /\ Action.dev \in DOMAIN table
    /\ ~table[Action.dev].mounted

RefuseUse ==
    /\ (AtUse("useRoot") /\ ~RootUsable) \/ (AtUse("useEsp") /\ ~EspUsable)
    /\ Refuse
    /\ UNCHANGED <<plan, orig, faults>>

\* Stamp the type, wipe, take.
UseAsRoot ==
    /\ AtUse("useRoot") /\ RootUsable
    /\ table' = [table EXCEPT ![Action.dev].type = "root", ![Action.dev].data = FALSE]
    /\ root' = Action.dev
    /\ index' = index + 1
    /\ UNCHANGED <<pc, result, plan, label, orig, esp, formatEsp, faults>>

UseAsEsp ==
    /\ AtUse("useEsp") /\ EspUsable
    /\ table' = [table EXCEPT ![Action.dev].type = "esp",
                              ![Action.dev].data = @ /\ ~Action.format]
    /\ esp' = Action.dev /\ formatEsp' = Action.format
    /\ index' = index + 1
    /\ UNCHANGED <<pc, result, plan, label, orig, root, faults>>

Finish ==
    /\ pc = "use" /\ index \notin DOMAIN plan.actions
    /\ Return("ok")
    /\ UNCHANGED <<plan, label, table, orig, index, outcome, faults>>

-----------------------------------------------------------------------------
(* Failures.                                                               *)

\* sfdisk or wipefs will not do what the checks let through: a disk in use, a
\* disk too small, a full table, ranges that overlap or do not fit.
CommandRefuses ==
    /\ \/ pc = "erase" /\ (InUse \/ EraseRoot >= AlignDown(End))
       \/ pc = "free" /\ FreePlanOk /\ ~Fits(FreeLines)
       \/ /\ pc = "create" /\ Creates # {}
          /\ \A a \in Creates : CreateOk(a)
          /\ ~Fits(CreateLines)
    /\ Return("failed")
    /\ UNCHANGED <<plan, label, table, orig, index, outcome, faults>>

\* What a failed command leaves of the table.
FailsLeaving ==
    \/ UNCHANGED table
    \/ /\ AtUse("useRoot") /\ RootUsable
       /\ table' = [table EXCEPT ![Action.dev].type = "root"]
    \/ /\ AtUse("useEsp") /\ EspUsable
       /\ table' = [table EXCEPT ![Action.dev].type = "esp"]

\* A command fails.  After wipefs an erased disk has no table; between the two
\* commands of a reused partition its type is stamped.
CommandFails ==
    /\ faults < MaxFaults
    /\ pc \in {"erase", "stamp", "free", "resolveFree", "custom", "create",
               "resolve", "use"}
    /\ faults' = faults + 1
    /\ Return("failed")
    /\ \/ pc = "erase" /\ ~InUse /\ label' = "none" /\ table' = <<>>
       \/ UNCHANGED label /\ FailsLeaving
    /\ UNCHANGED <<plan, orig, index, outcome>>

Next ==
    \/ Start \/ Erase \/ StampErased
    \/ RefuseFree \/ AppendFree \/ ResolveFree
    \/ RefuseDeletes \/ DeletePartitions \/ RefuseCreates \/ AppendCustom
    \/ ResolveCreated \/ SkipAction \/ RefuseUse \/ UseAsRoot \/ UseAsEsp \/ Finish
    \/ CommandRefuses \/ CommandFails

Spec == Init /\ [][Next]_vars

-----------------------------------------------------------------------------
(* Properties.                                                             *)

PCs == {"ready", "erase", "stamp", "free", "resolveFree", "custom", "create",
        "resolve", "use", "returned"}

Typed ==
    /\ pc \in PCs /\ plan \in AllPlans
    /\ result \in {"none", "ok", "invalid", "refused", "failed"}
    /\ label \in Labels \cup {"gpt", "none"}
    /\ DOMAIN table \subseteq Numbers /\ table \in [DOMAIN table -> Parts]
    /\ DOMAIN orig \subseteq Numbers /\ orig \in [DOMAIN orig -> Parts]
    /\ index \in 1..(Len(plan.actions) + 1)
    /\ esp \in Devices /\ root \in Devices
    /\ formatEsp \in BOOLEAN
    /\ faults \in 0..MaxFaults

\* The PartitionSet's two devices are set by the time it is returned.
SetComplete == result = "ok" => 0 \notin {esp, root}

TypeOK == Typed /\ SetComplete

Overwritten == {plan.actions[i].dev :
                  i \in {j \in References(plan) :
                           plan.actions[j].do # "useEsp" \/ plan.actions[j].format}}

\* Whatever happens, and wherever it stops: "Partitions without an action are
\* left alone" (lib.rs on Custom), "existing partitions are not touched"
\* (FreeSpace), and an ESP that is kept keeps its contents and its place.
OthersLeftAlone ==
    plan.mode # "erase" =>
        /\ \A n \in DOMAIN orig : plan.mode = "free" \/ n \notin Referenced(plan) =>
              n \in DOMAIN table /\ table[n] = orig[n]
        /\ \A n \in DOMAIN orig : plan.mode = "custom" /\ n \notin Overwritten =>
              /\ n \in DOMAIN table /\ table[n].data = orig[n].data
              /\ table[n].start = orig[n].start /\ table[n].size = orig[n].size

\* A partition that was mounted when the call began is never deleted, wiped,
\* retyped or overwritten, in any mode.
MountedKept ==
    \A n \in DOMAIN orig : orig[n].mounted => n \in DOMAIN table /\ table[n] = orig[n]

\* What the later steps are handed: two different partitions that exist, of the
\* right types; a root that holds nothing and is big enough; an ESP that will be
\* formatted exactly if nobody's data is on it.  For plans whose partitions
\* exist; what becomes of the others is StalePlanTouchesNothing's.
SetIsSound ==
    result = "ok" /\ (plan.mode = "custom" => Referenced(plan) \subseteq DOMAIN orig) =>
        /\ root # esp /\ root \in DOMAIN table /\ esp \in DOMAIN table
        /\ table[root].type = "root" /\ table[esp].type = "esp"
        /\ ~table[root].data /\ ~table[root].mounted
        /\ plan.mode # "erase" => table[root].size >= RootMin
        /\ formatEsp <=> ~table[esp].data

\* "Non-erase modes re-probe the disk and re-validate the plan against reality before
\* touching anything" (partition.rs:16-18), "Referenced partitions must exist on this
\* disk, now" (:212): a plan that names a partition that is gone changes nothing.
StalePlanTouchesNothing ==
    plan.mode = "custom" /\ ~(Referenced(plan) \subseteq DOMAIN orig) => table = orig

\* The gaps the probe reports are the maximal aligned ranges of free space.
AlignedPoints == {AlignUp(First) + i * Align : i \in 0..((End - First) \div Align)}
FreeUnit(t, a) ==
    /\ a >= First /\ a + Align <= End
    /\ \A n \in DOMAIN t : EndOf(t[n]) <= a \/ a + Align <= t[n].start
FreeRange(t, a, b) ==
    /\ a < b
    /\ \A u \in AlignedPoints : a <= u /\ u < b => FreeUnit(t, u)

GapsExact ==
    Gaps(table) =
        {g \in [start : AlignedPoints, end : AlignedPoints] :
            /\ FreeRange(table, g.start, g.end)
            /\ ~FreeUnit(table, g.start - Align) /\ ~FreeUnit(table, g.end)}

=============================================================================
