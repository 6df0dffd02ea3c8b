------------------------------- MODULE Layout -------------------------------
(***************************************************************************)
(* pages/layout.rs, the custom-layout page, in front of the engine that    *)
(* realizes what the page submits (Partition, which this extends).  The    *)
(* page works on a snapshot of the disk: every selection edits it, the     *)
(* plan is computed from the edits, and the engine runs the plan on the    *)
(* disk as it is then.                                                     *)
(*                                                                         *)
(* A row is the number of its partition, gap_idx the gap itself.  Sizes    *)
(* are in the units of Partition; a typed size counts Gib.                 *)
(***************************************************************************)
EXTENDS Partition, Functions

CONSTANTS
    Gib,        \* 1 GiB in bytes
    TypedSizes, \* what the size field can hold; 0 is the empty field, or zero
    MaxChanges  \* bound: how often somebody else rewrites the partition table

NoPlan == [mode |-> "custom", start |-> 0, size |-> 0, actions |-> <<>>]

ASSUME PageAssumption ==
    /\ Gib \in Nat \ {0} /\ Gib % Sector = 0 /\ TypedSizes \subseteq Nat /\ 0 \in TypedSizes
    /\ MaxChanges \in Nat
    /\ Plans = {NoPlan}   \* the engine's plan is the one that is submitted

VARIABLES
    disk,  \* the snapshot the page was built for
    roles, \* row -> what the user chose for it
    gap,   \* the gap the new root goes to, or NoGap
    rootSizeGib,
    changes

page == <<disk, roles, gap, rootSizeGib>>
pageVars == <<vars, page, changes>>

NoGap == [start |-> 0, end |-> 0]

Roles == {"leave", "root", "espKeep", "espFormat", "delete"}
EspRoles == {"espKeep", "espFormat"}

\* The page can be edited until its plan has been submitted.
Editing == plan = NoPlan

-----------------------------------------------------------------------------
(* What the selections mean.                                               *)

GapBytes(g) == g.end - g.start

\* The type GUID of an ESP is GPT's.
DefaultRoles(t) ==
    [n \in DOMAIN t |-> IF t[n].type = "esp" /\ label = "gpt" THEN "espKeep" ELSE "leave"]

\* The last of the largest gaps, if a root fits there.
Largest(t) == {g \in Gaps(t) : \A h \in Gaps(t) :
                 GapBytes(h) < GapBytes(g)
                 \/ (GapBytes(h) = GapBytes(g) /\ h.start <= g.start)}
DefaultGap(t) ==
    LET fits == {g \in Largest(t) : GapBytes(g) >= RootMin}
    IN IF fits = {} THEN NoGap ELSE CHOOSE g \in fits : TRUE

Having(kinds) == {n \in DOMAIN roles : roles[n] \in kinds}
EspRows == Having(EspRoles)
RootRows == Having({"root"})

\* An ESP is carved out of the gap when no row is to be one.
EspAuto == EspRows = {}
Carved == IF EspAuto THEN EspBytes ELSE 0

\* u64: a gap smaller than the ESP wraps.
Capacity == (GapBytes(gap) - Carved) % Width
\* mutant: what was typed is not limited to the gap
RequestedUnlimited == IF rootSizeGib > 0 THEN rootSizeGib * Gib ELSE Capacity

RequestedRoot ==
    IF rootSizeGib > 0 /\ rootSizeGib * Gib < Capacity THEN rootSizeGib * Gib ELSE Capacity

RootStart == gap.start + Carved

ValidGap ==
    /\ GapBytes(gap) >= RootMin + Carved
    /\ RequestedRoot >= RootMin

Valid ==
    /\ (RootRows = {}) # (gap = NoGap)
    /\ \A n \in RootRows : disk[n].size >= RootMin
    /\ EspAuto => gap # NoGap
    /\ gap # NoGap => ValidGap
    /\ \A n \in DOMAIN roles : roles[n] # "leave" => ~disk[n].mounted

-----------------------------------------------------------------------------
(* to_actions: the rows in disk order, then what is created in the gap.    *)

Chosen == {n \in DOMAIN disk : roles[n] # "leave"}
InDiskOrder(rows) ==
    \A i, j \in DOMAIN rows : i < j => disk[rows[i]].start <= disk[rows[j]].start

Act(do, dev, format, start, bytes) ==
    [do |-> do, dev |-> dev, format |-> format, start |-> start, size |-> bytes]

\* mutant: an ESP that is to be kept is formatted
RowActionFormatting(n) ==
    CASE roles[n] = "root" -> Act("useRoot", n, FALSE, 0, 0)
      [] roles[n] = "delete" -> Act("delete", n, FALSE, 0, 0)
      [] OTHER -> Act("useEsp", n, TRUE, 0, 0)

RowAction(n) ==
    CASE roles[n] = "root" -> Act("useRoot", n, FALSE, 0, 0)
      [] roles[n] = "delete" -> Act("delete", n, FALSE, 0, 0)
      [] OTHER -> Act("useEsp", n, roles[n] = "espFormat", 0, 0)

RowActions(rows) == [i \in DOMAIN rows |-> RowAction(rows[i])]

GapActions ==
    IF gap = NoGap THEN <<>>
    ELSE (IF EspAuto THEN <<Act("createEsp", 0, FALSE, gap.start, 0)>> ELSE <<>>)
         \o <<Act("createRoot", 0, FALSE, RootStart, RequestedRoot)>>

ToActions(rows) == RowActions(rows) \o GapActions

\* planned_segments: the "after" bar, without the free space.
Segment(start, bytes, role) == [start |-> start, size |-> bytes, role |-> role]

SegmentRole(role) ==
    CASE role = "root" -> "root"
      [] role \in EspRoles -> "esp"
      [] OTHER -> "existing"

\* mutant: deleted partitions are still drawn
SegmentsWithDeleted ==
    {Segment(disk[n].start, disk[n].size, SegmentRole(roles[n])) : n \in DOMAIN disk}
    \cup (IF gap = NoGap THEN {} ELSE {Segment(RootStart, RequestedRoot, "root")})
    \cup (IF gap = NoGap \/ ~EspAuto THEN {} ELSE {Segment(gap.start, EspBytes, "esp")})

PlannedSegments ==
    {Segment(disk[n].start, disk[n].size, SegmentRole(roles[n])) :
        n \in DOMAIN disk \ Having({"delete"})}
    \cup (IF gap = NoGap THEN {} ELSE {Segment(RootStart, RequestedRoot, "root")})
    \cup (IF gap = NoGap \/ ~EspAuto THEN {} ELSE {Segment(gap.start, EspBytes, "esp")})

-----------------------------------------------------------------------------
ResetFor(t) ==
    /\ disk' = t
    /\ roles' = DefaultRoles(t)
    /\ gap' = DefaultGap(t)
    /\ rootSizeGib' = 0

PageInit ==
    /\ Init
    /\ changes = 0
    /\ disk = table /\ roles = DefaultRoles(table) /\ gap = DefaultGap(table)
    /\ rootSizeGib = 0

\* The page is entered after a rescan.
Enter ==
    /\ Editing /\ disk # table
    /\ ResetFor(table)
    /\ UNCHANGED <<vars, changes>>

\* "picking a role clears the same role elsewhere"
Kin(role) == IF role \in EspRoles THEN EspRoles
             ELSE IF role = "root" THEN {"root"} ELSE {}

RoleSelected(row, role) ==
    /\ Editing
    /\ roles' = [n \in DOMAIN roles |->
                   IF n = row THEN role
                   ELSE IF roles[n] \in Kin(role) THEN "leave" ELSE roles[n]]
    /\ gap' = IF role = "root" THEN NoGap ELSE gap
    /\ UNCHANGED <<vars, disk, rootSizeGib, changes>>

GapSelected(g) ==
    /\ Editing
    /\ gap' = g
    /\ roles' = [n \in DOMAIN roles |->
                   IF g # NoGap /\ roles[n] = "root" THEN "leave" ELSE roles[n]]
    /\ UNCHANGED <<vars, disk, rootSizeGib, changes>>

\* The field is there while a gap is chosen.
RootSizeChanged(gib) ==
    /\ Editing /\ gap # NoGap
    /\ rootSizeGib' = gib
    /\ UNCHANGED <<vars, disk, roles, gap, changes>>

\* Continue, and so on to StartInstall: only with a valid layout.
Submit ==
    /\ Editing /\ Valid
    /\ \E rows \in Bijection(1..Cardinality(Chosen), Chosen) :
          /\ InDiskOrder(rows)
          /\ plan' = [NoPlan EXCEPT !.actions = ToActions(rows)]
    /\ UNCHANGED <<pc, result, label, table, orig, index, outcome, faults, page, changes>>

\* Somebody else repartitions the disk.
DiskChanges ==
    /\ pc = "ready" /\ changes < MaxChanges
    /\ changes' = changes + 1
    /\ table' \in Tables /\ orig' = table'
    /\ UNCHANGED <<pc, plan, result, label, index, outcome, faults, page>>

EngineStep ==
    /\ ~Editing
    /\ Next
    /\ UNCHANGED <<page, changes>>

Edit ==
    \/ \E row \in DOMAIN roles, role \in Roles : RoleSelected(row, role)
    \/ \E g \in Gaps(disk) \cup {NoGap} : GapSelected(g)
    \/ \E gib \in TypedSizes : RootSizeChanged(gib)

PageNext == Enter \/ Edit \/ Submit \/ DiskChanges \/ EngineStep

PageSpec == PageInit /\ [][PageNext]_pageVars

-----------------------------------------------------------------------------
(* Properties.                                                             *)

\* The page and the engine agree: a layout the page calls valid, on a disk that
\* has not changed since, is carried out.  The page looks neither at the label nor at
\* the free slots of the table, and sfdisk leaves a disk alone that is in use; these
\* are excluded here.  So is a second ESP: the handlers keep "Single-root / single-ESP
\* invariants" (layout.rs:127), but by default every ESP the disk has is reused; the page
\* calls that valid and the engine refuses it.
ValidIsCarriedOut ==
    result # "none" /\ faults = 0 /\ disk = orig /\ label = "gpt"
    /\ Cardinality(Numbers \ DOMAIN disk) >= 2
    /\ Cardinality(EspRows) <= 1 /\ (\A n \in DOMAIN disk : ~disk[n].mounted)
        => result = "ok"

\* What the preview shows is what the disk looks like afterwards: the same
\* places, the same sizes, the root and the ESP where they were drawn.
PreviewTrue ==
    result = "ok" /\ disk = orig =>
        PlannedSegments =
            {Segment(table[n].start, table[n].size,
                     CASE n = root -> "root" [] n = esp -> "esp" [] OTHER -> "existing") :
               n \in DOMAIN table}

\* "Partitions marked "Leave alone" are not touched", even when the disk changed
\* behind the page, and however far the engine got; and the ESP that is kept
\* keeps its contents.
LeftAlone ==
    ~Editing =>
        \A n \in DOMAIN orig :
            LET role == IF n \in DOMAIN roles THEN roles[n] ELSE "leave" IN
            /\ role = "leave" => n \in DOMAIN table /\ table[n] = orig[n]
            /\ role = "espKeep" => n \in DOMAIN table /\ table[n].data = orig[n].data

=============================================================================
