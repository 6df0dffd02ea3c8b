---------------------------- MODULE LayoutProofs ----------------------------
(***************************************************************************)
(* Proofs about Layout.tla.  The plan that is submitted says of each row   *)
(* what its role says, and creates in the gap.  So what the page leaves    *)
(* alone stays as it is, on whatever disk the plan is carried out; what it *)
(* drew is what a successful install leaves; and on the disk it showed,    *)
(* the engine refuses nothing that the page calls valid.                   *)
(***************************************************************************)
EXTENDS Layout, GapProofs

-----------------------------------------------------------------------------
(* The page's state.                                                       *)

PageTyped ==
    /\ disk \in Tables
    /\ roles \in [DOMAIN disk -> Roles]
    /\ gap \in Gaps(disk) \cup {NoGap}
    /\ rootSizeGib \in TypedSizes

\* Until the engine starts it is in its first state, on a table as it was found.
Waiting ==
    /\ Editing => pc = "ready"
    /\ pc = "ready" => table = orig /\ orig \in Tables

\* What is being carried out is what the page shows, and calls valid.
Submitted ==
    ~Editing =>
        /\ Valid
        /\ \E rows \in Bijection(1..Cardinality(Chosen), Chosen) :
              InDiskOrder(rows) /\ plan = [NoPlan EXCEPT !.actions = ToActions(rows)]

PageInv == PageTyped /\ Waiting /\ Submitted

LEMMA TablesContained ==
    ASSUME NEW t \in Tables
    PROVE  Contained(t)
<1> SUFFICES ASSUME NEW n \in DOMAIN t
             PROVE  /\ t[n].start \in Int /\ t[n].size \in Int
                    /\ t[n].size > 0 /\ EndOf(t[n]) <= End
    BY DEF Contained
<1>1. t[n] \in Parts /\ t[n].size > 0 /\ t[n].start + t[n].size <= End
    BY TablesAssumption
<1>2. t[n].start \in Bytes /\ t[n].size \in Bytes
    BY <1>1 DEF Parts
<1> QED BY <1>1, <1>2, BytesAreIntegers DEF EndOf

-----------------------------------------------------------------------------
(* The plan.                                                               *)

LEMMA RowsAre ==
    ASSUME NEW rows \in Bijection(1..Cardinality(Chosen), Chosen), PageTyped
    PROVE  /\ Cardinality(Chosen) \in Nat
           /\ rows \in [1..Cardinality(Chosen) -> Chosen]
           /\ \A i, j \in 1..Cardinality(Chosen) : rows[i] = rows[j] => i = j
           /\ \A n \in Chosen : \E i \in 1..Cardinality(Chosen) : rows[i] = n
<1>1. DOMAIN disk \subseteq Numbers
    BY TablesAssumption DEF PageTyped
<1>2. IsFiniteSet(Chosen)
    BY <1>1, NumbersAssumption, FS_Subset DEF Chosen
<1>3. Cardinality(Chosen) \in Nat
    BY <1>2, FS_CardinalityType
<1>4. /\ rows \in [1..Cardinality(Chosen) -> Chosen]
      /\ \A i, j \in 1..Cardinality(Chosen) : rows[i] = rows[j] => i = j
      /\ \A n \in Chosen : \E i \in 1..Cardinality(Chosen) : rows[i] = n
    BY DEF Bijection, Injection, Surjection, IsInjective
<1> QED BY <1>3, <1>4

\* What to_actions gives, action by action.
LEMMA ActionsAre ==
    ASSUME NEW rows \in Bijection(1..Cardinality(Chosen), Chosen), PageTyped
    PROVE  /\ RowActions(rows) \in Seq({RowAction(n) : n \in Chosen})
           /\ Len(RowActions(rows)) = Cardinality(Chosen)
           /\ \A i \in 1..Cardinality(Chosen) : RowActions(rows)[i] = RowAction(rows[i])
<1>1. Cardinality(Chosen) \in Nat /\ rows \in [1..Cardinality(Chosen) -> Chosen]
    BY RowsAre
<1>2. RowActions(rows) = [i \in 1..Cardinality(Chosen) |-> RowAction(rows[i])]
    BY <1>1 DEF RowActions
<1>3. \A i \in 1..Cardinality(Chosen) : RowAction(rows[i]) \in {RowAction(n) : n \in Chosen}
    BY <1>1
<1> QED BY <1>1, <1>2, <1>3

LEMMA BytesOfPage ==
    /\ 0 \in Bytes /\ Width > 0 /\ Width \in Int
    /\ \A x \in Int : x >= 0 /\ x < Width => x \in Bytes
    /\ \A x \in Int : x % Width \in Bytes
BY UnitsAssumption DEF Bytes

LEMMA RowActionTyped ==
    ASSUME PageTyped, NEW n \in Chosen
    PROVE  RowAction(n) \in Actions
<1>1. n \in Devices /\ 0 \in Bytes
    BY TablesAssumption, BytesOfPage DEF PageTyped, Chosen, Devices
<1> QED BY <1>1 DEF RowAction, Act, Actions, ActionKinds

\* The numbers of a gap that is chosen.
LEMMA ChosenGap ==
    ASSUME PageTyped, gap # NoGap
    PROVE  /\ gap \in Gaps(disk) /\ Aligned(gap.start) /\ Aligned(gap.end)
           /\ gap.start \in Int /\ gap.end \in Int /\ GapBytes(gap) \in Int
           /\ First <= gap.start /\ gap.start < gap.end /\ gap.end <= End
           /\ \A n \in DOMAIN disk : EndOf(disk[n]) <= gap.start \/ gap.end <= disk[n].start
<1>1. gap \in Gaps(disk) /\ Contained(disk)
    BY TablesContained DEF PageTyped
<1> QED BY <1>1, GapBounds DEF Aligned, GapBytes

\* A valid layout's new partitions are within its gap, and nothing wraps.
LEMMA RootInGap ==
    ASSUME PageTyped, Valid, gap # NoGap
    PROVE  /\ Carved \in Int /\ Carved >= 0 /\ Carved = (IF EspAuto THEN EspBytes ELSE 0)
           /\ Capacity = GapBytes(gap) - Carved
           /\ RequestedRoot \in Int /\ RootMin <= RequestedRoot
           /\ RootStart \in Int /\ RootStart = gap.start + Carved
           /\ RootStart + RequestedRoot <= gap.end
           /\ RootStart \in Bytes /\ gap.start \in Bytes /\ RequestedRoot \in Bytes
<1>1. /\ EspBytes \in Int /\ EspBytes > 0 /\ RootMin \in Int /\ EspBytes <= RootMin
      /\ First \in Int /\ First >= 0 /\ End \in Int /\ Width \in Int
      /\ End + RootMin <= Width
    BY UnitsAssumption
<1>2. Carved \in Int /\ Carved >= 0 /\ Carved = (IF EspAuto THEN EspBytes ELSE 0)
    BY <1>1 DEF Carved
<1>3. PICK a \in Int, b \in Int : /\ a = gap.start /\ b = gap.end
                                  /\ First <= a /\ a < b /\ b <= End
    BY ChosenGap
<1>4. GapBytes(gap) >= RootMin + Carved /\ RequestedRoot >= RootMin /\ GapBytes(gap) = b - a
    BY <1>3 DEF Valid, ValidGap, GapBytes
<1>5. PICK x \in Int : x = b - a - Carved
    <2>1. b - a - Carved \in Int
        BY <1>2
    <2> QED BY <2>1
<1>6. 0 <= x /\ x < Width
    BY <1>1, <1>2, <1>3, <1>4, <1>5
<1>7. Capacity = x
    <2>1. Capacity = x % Width
        BY <1>4, <1>5 DEF Capacity
    <2> QED BY <1>1, <1>6, <2>1
<1>8. RequestedRoot \in Int /\ RequestedRoot <= x
    <2>1. rootSizeGib * Gib \in Int
        BY PageAssumption DEF PageTyped
    <2> QED BY <1>5, <1>7, <2>1 DEF RequestedRoot
<1>9. RootStart = a + Carved
    BY <1>3 DEF RootStart
<1>10. /\ a \in Bytes /\ a + Carved \in Bytes /\ RequestedRoot \in Bytes
    <2>1. a >= 0 /\ a < Width /\ a + Carved >= 0 /\ a + Carved < Width
        BY <1>1, <1>2, <1>3, <1>4
    <2>2. RequestedRoot >= 0 /\ RequestedRoot < Width
        BY <1>1, <1>4, <1>6, <1>8
    <2> QED BY <1>2, <1>8, <2>1, <2>2, BytesOfPage
<1> QED BY <1>2, <1>3, <1>4, <1>5, <1>7, <1>8, <1>9, <1>10

LEMMA GapActionsTyped ==
    ASSUME PageTyped, Valid
    PROVE  GapActions \in Seq(Actions)
<1>1. CASE gap = NoGap
    BY <1>1 DEF GapActions
<1>2. CASE gap # NoGap
    <2>1. RootStart \in Bytes /\ gap.start \in Bytes /\ RequestedRoot \in Bytes /\ 0 \in Bytes
        BY <1>2, RootInGap, BytesOfPage
    <2>2. /\ Act("createEsp", 0, FALSE, gap.start, 0) \in Actions
          /\ Act("createRoot", 0, FALSE, RootStart, RequestedRoot) \in Actions
        BY <2>1 DEF Act, Actions, ActionKinds, Devices
    <2>3. PICK e \in Actions, r \in Actions :
             /\ e = Act("createEsp", 0, FALSE, gap.start, 0)
             /\ r = Act("createRoot", 0, FALSE, RootStart, RequestedRoot)
        BY <2>2
    <2>4. GapActions = IF EspAuto THEN <<e>> \o <<r>> ELSE <<>> \o <<r>>
        BY <1>2, <2>3 DEF GapActions
    <2>5. <<e>> \o <<r>> \in Seq(Actions) /\ <<>> \o <<r>> \in Seq(Actions)
        OBVIOUS
    <2> QED BY <2>4, <2>5
<1> QED BY <1>1, <1>2

LEMMA PlanTyped ==
    ASSUME PageTyped, Valid, NEW rows \in Bijection(1..Cardinality(Chosen), Chosen)
    PROVE  [NoPlan EXCEPT !.actions = ToActions(rows)] \in AllPlans
<1>1. RowActions(rows) \in Seq({RowAction(n) : n \in Chosen})
    BY ActionsAre
<1>2. RowActions(rows) \in Seq(Actions)
    BY <1>1, RowActionTyped
<1>3. ToActions(rows) \in Seq(Actions)
    BY <1>2, GapActionsTyped DEF ToActions
<1> QED BY <1>3, BytesOfPage DEF NoPlan, AllPlans

-----------------------------------------------------------------------------
(* The steps of page and engine.                                           *)

LEMMA SamePage ==
    ASSUME UNCHANGED page
    PROVE  /\ PageTyped' <=> PageTyped
           /\ Valid' <=> Valid
           /\ Chosen' = Chosen
           /\ \A rows : /\ InDiskOrder(rows)' <=> InDiskOrder(rows)
                        /\ ToActions(rows)' = ToActions(rows)
<1>1. disk' = disk /\ roles' = roles /\ gap' = gap /\ rootSizeGib' = rootSizeGib
    BY DEF page
<1>2. /\ EspRows' = EspRows /\ RootRows' = RootRows /\ (EspAuto' <=> EspAuto)
      /\ Carved' = Carved
    BY <1>1 DEF EspRows, RootRows, Having, EspAuto, Carved
<1>3. Capacity' = Capacity /\ RequestedRoot' = RequestedRoot /\ RootStart' = RootStart
    BY <1>1, <1>2 DEF Capacity, RequestedRoot, RootStart
<1>4. Valid' <=> Valid
    BY <1>1, <1>2, <1>3 DEF Valid, ValidGap
<1>5. GapActions' = GapActions
    BY <1>1, <1>2, <1>3 DEF GapActions
<1>6. \A rows : RowActions(rows)' = RowActions(rows)
    BY <1>1 DEF RowActions, RowAction
<1>7. \A rows : ToActions(rows)' = ToActions(rows)
    BY <1>5, <1>6 DEF ToActions
<1> QED BY <1>1, <1>4, <1>7 DEF PageTyped, Chosen, InDiskOrder

LEMMA SubmissionStays ==
    ASSUME UNCHANGED <<page, plan>>, Submitted
    PROVE  Submitted'
<1>1. Valid' <=> Valid
    BY SamePage
<1>2. Chosen' = Chosen
    BY SamePage
<1>3. \A rows : (InDiskOrder(rows)' <=> InDiskOrder(rows)) /\ ToActions(rows)' = ToActions(rows)
    BY SamePage
<1>4. plan' = plan
    OBVIOUS
<1> QED BY <1>1, <1>2, <1>3, <1>4 DEF Submitted, Editing

\* run() keeps its plan, and does not begin again.
LEMMA EngineKeeps ==
    ASSUME Typed, Next
    PROVE  plan' = plan /\ orig' = orig /\ pc # "returned" /\ pc' # "ready"
<1> USE DEF GoTo, Return, Refuse
<1>1. CASE Start
    BY <1>1 DEF Start, Typed, AllPlans
<1>2. CASE Erase \/ StampErased \/ RefuseFree \/ AppendFree \/ ResolveFree
    BY <1>2 DEF Erase, StampErased, RefuseFree, AppendFree, ResolveFree
<1>3. CASE RefuseDeletes \/ DeletePartitions \/ RefuseCreates \/ AppendCustom \/ ResolveCreated
    BY <1>3 DEF RefuseDeletes, DeletePartitions, RefuseCreates, AppendCustom, ResolveCreated
<1>4. CASE SkipAction \/ RefuseUse \/ UseAsRoot \/ UseAsEsp \/ Finish
    BY <1>4 DEF SkipAction, RefuseUse, UseAsRoot, UseAsEsp, Finish, AtUse
<1>5. CASE CommandRefuses \/ CommandFails
    BY <1>5 DEF CommandRefuses, CommandFails
<1> QED BY <1>1, <1>2, <1>3, <1>4, <1>5 DEF Next

LEMMA PlanInvNext ==
    ASSUME PlanInv, [Next]_vars
    PROVE  PlanInv'
BY PartitionTypeNext, StagedNext, ResolvedNext, SetCompleteNext, KeptNext DEF PlanInv

\* Before it begins, PlanInv says that the plan is one and the table is as found.
LEMMA ReadyPlanInv ==
    ASSUME PlanInv, pc = "ready",
           UNCHANGED <<pc, result, label, index, esp, root, formatEsp, faults>>,
           plan' \in AllPlans, table' = orig',
           DOMAIN table' \subseteq Numbers, table' \in [DOMAIN table' -> Parts]
    PROVE  PlanInv'
<1>1. index = 1 /\ result = "none" /\ plan'.actions \in Seq(Actions)
    BY DEF PlanInv, Resolved, Staged, AllPlans
<1>2. Typed'
    BY <1>1 DEF PlanInv, Typed
<1>3. Staged' /\ Resolved' /\ SetComplete' /\ Untouched'
    BY <1>1 DEF Staged, Resolved, SetComplete, Untouched
<1>4. Kept'
    BY DEF Kept, OthersLeftAlone, MountedKept
<1> QED BY <1>2, <1>3, <1>4 DEF PlanInv

LEMMA PageInvInit ==
    ASSUME PageInit
    PROVE  PlanInv /\ PageInv
<1>1. Init /\ plan = NoPlan /\ table \in Tables
    BY PageAssumption DEF PageInit, Init
<1>2. PlanInv
    BY <1>1, PlanInvInit
<1>3. PageTyped
    BY <1>1, PageAssumption DEF PageInit, PageTyped, DefaultRoles, DefaultGap, Largest, Roles
<1>4. Waiting /\ Submitted
    BY <1>1 DEF Init, Waiting, Submitted, Editing
<1> QED BY <1>2, <1>3, <1>4 DEF PageInv

\* The edits.
LEMMA EditTyped ==
    ASSUME PlanInv, PageInv, Enter \/ Edit
    PROVE  PageTyped' /\ Editing /\ UNCHANGED vars
<1>1. CASE Enter
    <2>1. Editing /\ table \in Tables /\ UNCHANGED vars /\ disk' = table
          /\ roles' = DefaultRoles(table) /\ gap' = DefaultGap(table) /\ rootSizeGib' = 0
        BY <1>1 DEF Enter, ResetFor, PageInv, Waiting
    <2>2. DefaultRoles(table) \in [DOMAIN table -> Roles]
        BY DEF DefaultRoles, Roles
    <2>3. DefaultGap(table) \in Gaps(table) \cup {NoGap}
        BY DEF DefaultGap, Largest
    <2> QED BY <2>1, <2>2, <2>3, PageAssumption DEF PageTyped
<1>2. ASSUME NEW row \in DOMAIN roles, NEW role \in Roles, RoleSelected(row, role)
      PROVE  PageTyped' /\ Editing /\ UNCHANGED vars
    <2>1. roles' \in [DOMAIN disk -> Roles]
        BY <1>2 DEF RoleSelected, PageInv, PageTyped, Roles
    <2> QED BY <1>2, <2>1 DEF RoleSelected, PageInv, PageTyped
<1>3. ASSUME NEW g \in Gaps(disk) \cup {NoGap}, GapSelected(g)
      PROVE  PageTyped' /\ Editing /\ UNCHANGED vars
    <2>1. roles' \in [DOMAIN disk -> Roles]
        BY <1>3 DEF GapSelected, PageInv, PageTyped, Roles
    <2> QED BY <1>3, <2>1 DEF GapSelected, PageInv, PageTyped
<1>4. ASSUME NEW gib \in TypedSizes, RootSizeChanged(gib)
      PROVE  PageTyped' /\ Editing /\ UNCHANGED vars
    BY <1>4 DEF RootSizeChanged, PageInv, PageTyped
<1> QED BY <1>1, <1>2, <1>3, <1>4 DEF Edit

LEMMA PageInvNext ==
    ASSUME PlanInv, PageInv, [PageNext]_pageVars
    PROVE  PlanInv' /\ PageInv'
<1>1. CASE UNCHANGED pageVars
    <2>1. UNCHANGED vars /\ UNCHANGED page
        BY <1>1 DEF pageVars
    <2>2. PlanInv'
        BY <2>1, PlanInvNext
    <2>3. UNCHANGED <<plan, pc, table, orig>>
        BY <2>1 DEF vars
    <2>4. PageTyped' /\ Waiting' /\ Submitted'
        BY <2>1, <2>3, SamePage, SubmissionStays DEF PageInv, Waiting, Editing
    <2> QED BY <2>2, <2>4 DEF PageInv
<1>2. CASE Enter \/ Edit
    <2>1. PageTyped' /\ Editing /\ UNCHANGED vars
        BY <1>2, EditTyped
    <2>2. PlanInv'
        BY <2>1, PlanInvNext
    <2>3. UNCHANGED <<plan, pc, table, orig>>
        BY <2>1 DEF vars
    <2> QED BY <2>1, <2>2, <2>3 DEF PageInv, Waiting, Submitted, Editing
<1>3. CASE Submit
    <2>1. /\ UNCHANGED <<pc, result, label, table, orig, index, esp, root, formatEsp, faults, page>>
          /\ Valid /\ pc = "ready" /\ table = orig /\ orig \in Tables /\ PageTyped
        BY <1>3 DEF Submit, outcome, PageInv, Waiting
    <2>2. PICK rows \in Bijection(1..Cardinality(Chosen), Chosen) :
             InDiskOrder(rows) /\ plan' = [NoPlan EXCEPT !.actions = ToActions(rows)]
        BY <1>3 DEF Submit
    <2>3. plan' \in AllPlans
        BY <2>1, <2>2, PlanTyped
    <2>4. PlanInv'
        BY <2>1, <2>3, TablesAssumption, ReadyPlanInv
    <2>5. PageTyped' /\ Valid' /\ Chosen' = Chosen
          /\ InDiskOrder(rows)' /\ ToActions(rows)' = ToActions(rows)
        BY <2>1, <2>2, SamePage
    <2>6. Submitted'
        BY <2>2, <2>5 DEF Submitted
    <2> QED BY <2>1, <2>4, <2>5, <2>6 DEF PageInv, Waiting
<1>4. CASE DiskChanges
    <2>1. /\ UNCHANGED <<pc, plan, result, label, index, esp, root, formatEsp, faults, page>>
          /\ pc = "ready" /\ table' = orig' /\ orig' \in Tables
        BY <1>4 DEF DiskChanges, outcome
    <2>2. plan' \in AllPlans
        BY <2>1 DEF PlanInv, Typed
    <2>3. PlanInv'
        BY <2>1, <2>2, TablesAssumption, ReadyPlanInv
    <2>4. PageTyped' /\ Submitted'
        BY <2>1, SamePage, SubmissionStays DEF PageInv
    <2> QED BY <2>1, <2>3, <2>4 DEF PageInv, Waiting
<1>5. CASE EngineStep
    <2>1. ~Editing /\ Next /\ UNCHANGED page
        BY <1>5 DEF EngineStep
    <2>2. PlanInv' /\ plan' = plan /\ pc' # "ready"
        BY <2>1, PlanInvNext, EngineKeeps DEF PlanInv
    <2>3. PageTyped' /\ Submitted'
        BY <2>1, <2>2, SamePage, SubmissionStays DEF PageInv
    <2> QED BY <2>1, <2>2, <2>3 DEF PageInv, Waiting, Editing
<1> QED BY <1>1, <1>2, <1>3, <1>4, <1>5 DEF PageNext

THEOREM PageInvHolds == PageSpec => [](PlanInv /\ PageInv)
BY PageInvInit, PageInvNext, PTL DEF PageSpec

-----------------------------------------------------------------------------
(* What a submitted plan says.                                             *)

EspAct == Act("createEsp", 0, FALSE, gap.start, 0)
RootAct == Act("createRoot", 0, FALSE, RootStart, RequestedRoot)

LEMMA GapActionsAre ==
    /\ \E S : GapActions \in Seq(S)
    /\ Len(GapActions) = IF gap = NoGap THEN 0 ELSE IF EspAuto THEN 2 ELSE 1
    /\ gap # NoGap => GapActions[Len(GapActions)] = RootAct
    /\ gap # NoGap /\ EspAuto => GapActions[1] = EspAct
<1>1. PICK e, r : e = EspAct /\ r = RootAct
    OBVIOUS
<1>2. GapActions = IF gap = NoGap THEN <<>> ELSE (IF EspAuto THEN <<e>> ELSE <<>>) \o <<r>>
    BY <1>1, Zenon DEF GapActions, EspAct, RootAct
<1>3. PICK S : e \in S /\ r \in S
    <2>1. e \in {e, r} /\ r \in {e, r}
        OBVIOUS
    <2> QED BY <2>1
<1>4. <<e>> \in Seq(S) /\ <<r>> \in Seq(S) /\ <<>> \in Seq(S)
    BY <1>3
<1>5. /\ <<e>> \o <<r>> \in Seq(S) /\ Len(<<e>> \o <<r>>) = 2
      /\ (<<e>> \o <<r>>)[1] = e /\ (<<e>> \o <<r>>)[2] = r
    BY <1>4
<1>6. <<>> \o <<r>> \in Seq(S) /\ Len(<<>> \o <<r>>) = 1 /\ (<<>> \o <<r>>)[1] = r
    BY <1>4
<1>7. CASE gap = NoGap
    BY <1>2, <1>4, <1>7
<1>8. CASE gap # NoGap /\ EspAuto
    <2>1. GapActions = <<e>> \o <<r>>
        BY <1>2, <1>8, Zenon
    <2> QED BY <1>1, <1>5, <1>8, <2>1
<1>9. CASE gap # NoGap /\ ~EspAuto
    <2>1. GapActions = <<>> \o <<r>>
        BY <1>2, <1>9, Zenon
    <2> QED BY <1>1, <1>6, <1>9, <2>1
<1> QED BY <1>7, <1>8, <1>9

LEMMA RowActionIs ==
    ASSUME PageTyped, NEW n \in Chosen
    PROVE  /\ n \in DOMAIN disk /\ roles[n] \in Roles \ {"leave"}
           /\ RowAction(n).dev = n
           /\ RowAction(n).do = CASE roles[n] = "root" -> "useRoot"
                                  [] roles[n] = "delete" -> "delete"
                                  [] OTHER -> "useEsp"
           /\ RowAction(n).format = (roles[n] = "espFormat")
BY DEF PageTyped, Chosen, Roles, RowAction, Act

LEMMA GapActIs ==
    /\ EspAct.do = "createEsp" /\ EspAct.start = gap.start /\ EspAct.size = 0
    /\ RootAct.do = "createRoot" /\ RootAct.start = RootStart
    /\ RootAct.size = RequestedRoot
BY DEF EspAct, RootAct, Act

\* The rows first, each once, then what is created: k rows and g others.
Reads(k, g, rows) ==
    /\ DOMAIN plan.actions = 1..(k + g) /\ k \in Nat
    /\ rows \in [1..k -> Chosen]
    /\ \A i, j \in 1..k : rows[i] = rows[j] => i = j
    /\ \A n \in Chosen : \E i \in 1..k : rows[i] = n
    /\ \A i \in 1..k : plan.actions[i] = RowAction(rows[i])
    /\ g = IF gap = NoGap THEN 0 ELSE IF EspAuto THEN 2 ELSE 1
    /\ g # 0 => plan.actions[k + g] = RootAct
    /\ g = 2 => plan.actions[k + 1] = EspAct

LEMMA PlanReads ==
    ASSUME PageTyped, Submitted, ~Editing
    PROVE  /\ plan.mode = "custom"
           /\ \E k, g, rows : Reads(k, g, rows)
<1>1. PICK rows \in Bijection(1..Cardinality(Chosen), Chosen) :
         plan = [NoPlan EXCEPT !.actions = ToActions(rows)]
    BY DEF Submitted
<1>2. plan.mode = "custom" /\ plan.actions = RowActions(rows) \o GapActions
    BY <1>1 DEF NoPlan, ToActions
<1>3. PICK k \in Nat : k = Cardinality(Chosen)
    BY RowsAre
<1>4. PICK g \in 0..2 : g = IF gap = NoGap THEN 0 ELSE IF EspAuto THEN 2 ELSE 1
    OBVIOUS
<1>5. PICK S : RowActions(rows) \in Seq(S)
    BY ActionsAre
<1>6. PICK T : GapActions \in Seq(T)
    BY GapActionsAre
<1>7. Len(RowActions(rows)) = k /\ Len(GapActions) = g
    BY <1>3, <1>4, ActionsAre, GapActionsAre
<1>8. /\ DOMAIN plan.actions = 1..(k + g)
      /\ \A i \in 1..k : plan.actions[i] = RowActions(rows)[i]
      /\ \A i \in 1..g : plan.actions[k + i] = GapActions[i]
    BY <1>2, <1>5, <1>6, <1>7
<1>9. \A i \in 1..k : plan.actions[i] = RowAction(rows[i])
    BY <1>3, <1>8, ActionsAre
<1>10. /\ g # 0 => plan.actions[k + g] = RootAct
       /\ g = 2 => plan.actions[k + 1] = EspAct
    BY <1>4, <1>7, <1>8, GapActionsAre
<1>11. Reads(k, g, rows)
    BY <1>3, <1>4, <1>8, <1>9, <1>10, RowsAre DEF Reads
<1> QED BY <1>2, <1>11

\* An action is a row's or one of the gap's.
LEMMA ReadsAll ==
    ASSUME PageTyped, NEW k, NEW g, NEW rows, Reads(k, g, rows), NEW i \in DOMAIN plan.actions
    PROVE  \/ i \in 1..k /\ rows[i] \in Chosen /\ plan.actions[i] = RowAction(rows[i])
           \/ i = k + g /\ gap # NoGap /\ plan.actions[i] = RootAct
           \/ i = k + 1 /\ gap # NoGap /\ EspAuto /\ plan.actions[i] = EspAct
<1>1. i \in 1..(k + g) /\ k \in Nat /\ g \in 0..2
    BY DEF Reads
<1>2. CASE i \in 1..k
    BY <1>2 DEF Reads
<1>3. CASE i \notin 1..k
    <2>1. g # 0 /\ (i = k + g \/ (i = k + 1 /\ g = 2))
        BY <1>1, <1>3
    <2> QED BY <2>1 DEF Reads
<1> QED BY <1>2, <1>3

\* The plan says of each row what its role says, and creates in the gap.
PlanSays ==
    /\ plan.mode = "custom"
    /\ \A i \in DOMAIN plan.actions :
          \/ \E n \in Chosen : plan.actions[i] = RowAction(n)
          \/ gap # NoGap /\ plan.actions[i] = RootAct
          \/ gap # NoGap /\ EspAuto /\ plan.actions[i] = EspAct
    /\ \A n \in Chosen : \E i \in DOMAIN plan.actions : plan.actions[i] = RowAction(n)
    /\ gap # NoGap => \E i \in DOMAIN plan.actions : plan.actions[i] = RootAct
    /\ gap # NoGap /\ EspAuto => \E i \in DOMAIN plan.actions : plan.actions[i] = EspAct

LEMMA PlanIsSaid ==
    ASSUME PageTyped, Submitted, ~Editing
    PROVE  PlanSays
<1>1. PICK k, g, rows : Reads(k, g, rows)
    BY PlanReads
<1>2. \A i \in DOMAIN plan.actions :
          \/ \E n \in Chosen : plan.actions[i] = RowAction(n)
          \/ gap # NoGap /\ plan.actions[i] = RootAct
          \/ gap # NoGap /\ EspAuto /\ plan.actions[i] = EspAct
    BY <1>1, ReadsAll
<1>3. ASSUME NEW n \in Chosen
      PROVE  \E i \in DOMAIN plan.actions : plan.actions[i] = RowAction(n)
    <2>1. PICK i \in 1..k : rows[i] = n
        BY <1>1 DEF Reads
    <2>2. i \in DOMAIN plan.actions
        BY <1>1 DEF Reads
    <2> QED BY <1>1, <2>1, <2>2 DEF Reads
<1>4. gap # NoGap => \E i \in DOMAIN plan.actions : plan.actions[i] = RootAct
    <2> SUFFICES ASSUME gap # NoGap
                 PROVE  k + g \in DOMAIN plan.actions /\ plan.actions[k + g] = RootAct
        OBVIOUS
    <2> QED BY <1>1 DEF Reads
<1>5. gap # NoGap /\ EspAuto => \E i \in DOMAIN plan.actions : plan.actions[i] = EspAct
    <2> SUFFICES ASSUME gap # NoGap, EspAuto
                 PROVE  k + 1 \in DOMAIN plan.actions /\ plan.actions[k + 1] = EspAct
        OBVIOUS
    <2> QED BY <1>1 DEF Reads
<1> QED BY <1>2, <1>3, <1>4, <1>5, PlanReads DEF PlanSays

\* In the engine's terms.
LEMMA PlanNames ==
    ASSUME PageTyped, PlanSays
    PROVE  /\ Referenced(plan) \subseteq Chosen
           /\ Deleted = Having({"delete"})
           /\ Creates = IF gap = NoGap THEN {} ELSE IF EspAuto THEN {RootAct, EspAct}
                        ELSE {RootAct}
           /\ \A n \in Overwritten : roles[n] # "espKeep"
<1>1. ASSUME NEW i \in References(plan)
      PROVE  \E n \in Chosen : plan.actions[i] = RowAction(n)
    <2>1. i \in DOMAIN plan.actions /\ plan.actions[i].do \in {"delete", "useRoot", "useEsp"}
        BY DEF References, Indices
    <2> QED BY <2>1, GapActIs DEF PlanSays
<1>2. Referenced(plan) \subseteq Chosen
    BY <1>1, RowActionIs DEF Referenced
<1>3. Deleted = Having({"delete"})
    <2>1. ASSUME NEW n \in Deleted
          PROVE  n \in Having({"delete"})
        <3>1. PICK i \in References(plan) : plan.actions[i].dev = n /\ plan.actions[i].do = "delete"
            BY DEF Deleted, References, Indices
        <3>2. PICK m \in Chosen : plan.actions[i] = RowAction(m)
            BY <1>1
        <3> QED BY <3>1, <3>2, RowActionIs DEF Having, PageTyped
    <2>2. ASSUME NEW n \in Having({"delete"})
          PROVE  n \in Deleted
        <3>1. n \in Chosen /\ roles[n] = "delete"
            BY DEF Having, Chosen, PageTyped
        <3>2. PICK i \in DOMAIN plan.actions : plan.actions[i] = RowAction(n)
            BY <3>1 DEF PlanSays
        <3>3. plan.actions[i].do = "delete" /\ plan.actions[i].dev = n
            BY <3>1, <3>2, RowActionIs
        <3> QED BY <3>3 DEF Deleted, Indices
    <2> QED BY <2>1, <2>2
<1>4. Creates = IF gap = NoGap THEN {} ELSE IF EspAuto THEN {RootAct, EspAct} ELSE {RootAct}
    <2>1. ASSUME NEW a \in Creates
          PROVE  gap # NoGap /\ (a = RootAct \/ (EspAuto /\ a = EspAct))
        <3>1. PICK i \in DOMAIN plan.actions :
                 a = plan.actions[i] /\ plan.actions[i].do \in {"createRoot", "createEsp"}
            BY DEF Creates, Indices
        <3>2. \A n \in Chosen : plan.actions[i] # RowAction(n)
            BY <3>1, RowActionIs
        <3> QED BY <3>1, <3>2 DEF PlanSays
    <2>2. gap # NoGap => RootAct \in Creates
        BY GapActIs DEF PlanSays, Creates, Indices
    <2>3. gap # NoGap /\ EspAuto => EspAct \in Creates
        BY GapActIs DEF PlanSays, Creates, Indices
    <2> QED BY <2>1, <2>2, <2>3
<1>5. ASSUME NEW n \in Overwritten
      PROVE  roles[n] # "espKeep"
    <2>1. PICK i \in References(plan) :
             n = plan.actions[i].dev /\ (plan.actions[i].do # "useEsp" \/ plan.actions[i].format)
        BY DEF Overwritten
    <2>2. PICK m \in Chosen : plan.actions[i] = RowAction(m)
        BY <1>1
    <2>3. n = m
        BY <2>1, <2>2, RowActionIs
    <2> QED BY <2>1, <2>2, <2>3, RowActionIs
<1> QED BY <1>2, <1>3, <1>4, <1>5

\* "Partitions marked "Leave alone" are not touched", nor is the data of an ESP
\* that is kept: on any disk, whatever happened to it between the page's snapshot
\* and the install, and however far the engine got.
THEOREM LeftAloneStays == PageSpec => []LeftAlone
<1>1. ASSUME PlanInv, PageInv
      PROVE  LeftAlone
    <2> SUFFICES ASSUME ~Editing, NEW n \in DOMAIN orig,
                        NEW role, role = IF n \in DOMAIN roles THEN roles[n] ELSE "leave"
                 PROVE  /\ role = "leave" => n \in DOMAIN table /\ table[n] = orig[n]
                        /\ role = "espKeep" =>
                              n \in DOMAIN table /\ table[n].data = orig[n].data
        BY DEF LeftAlone
    <2>1. /\ plan.mode = "custom" /\ Referenced(plan) \subseteq Chosen
          /\ \A m \in Overwritten : roles[m] # "espKeep"
        BY <1>1, PlanIsSaid, PlanNames DEF PageInv, PlanSays
    <2>2. Overwritten \subseteq Referenced(plan)
        BY DEF Overwritten, Referenced
    <2>3. \A m \in Chosen : m \in DOMAIN roles /\ roles[m] # "leave"
        BY <1>1 DEF Chosen, PageInv, PageTyped
    <2>4. OthersLeftAlone
        BY <1>1 DEF PlanInv, Kept
    <2>5. CASE role = "leave"
        BY <2>1, <2>3, <2>4, <2>5 DEF OthersLeftAlone
    <2>6. CASE role = "espKeep"
        BY <2>1, <2>2, <2>3, <2>4, <2>6 DEF OthersLeftAlone
    <2> QED BY <2>5, <2>6
<1> QED BY <1>1, PageInvHolds, PTL

-----------------------------------------------------------------------------
(* Sizes in whole sectors.                                                 *)

Whole(x) == x \in Int /\ x % Sector = 0

LEMMA WholeTimes ==
    ASSUME NEW x, Whole(x)
    PROVE  \E i \in Int : x = i * Sector
<1>1. Sector \in Int /\ Sector > 0
    BY UnitsAssumption
<1>2. x \div Sector \in Int /\ x = (x \div Sector) * Sector
    BY <1>1, Division DEF Whole
<1> QED BY <1>2

LEMMA TimesWhole ==
    ASSUME NEW i \in Int
    PROVE  Whole(i * Sector)
<1>1. Sector \in Int /\ Sector > 0
    BY UnitsAssumption
<1> QED BY <1>1, SMTT(60) DEF Whole

LEMMA WholeSum ==
    ASSUME NEW x, NEW y, Whole(x), Whole(y)
    PROVE  Whole(x + y) /\ Whole(x - y)
<1>1. Sector \in Int
    BY UnitsAssumption
<1>2. PICK i \in Int, j \in Int : x = i * Sector /\ y = j * Sector
    BY WholeTimes
<1>3. x + y = (i + j) * Sector /\ x - y = (i - j) * Sector
    BY <1>1, <1>2
<1> QED BY <1>3, TimesWhole

LEMMA WholeProduct ==
    ASSUME NEW m \in Int, NEW y, Whole(y)
    PROVE  Whole(m * y)
<1>1. Sector \in Int
    BY UnitsAssumption
<1>2. PICK j \in Int : y = j * Sector
    BY WholeTimes
<1>3. m * y = (m * j) * Sector /\ m * j \in Int
    BY <1>1, <1>2
<1> QED BY <1>3, TimesWhole

LEMMA AlignedWhole ==
    ASSUME NEW x, Aligned(x)
    PROVE  Whole(x)
<1>1. Whole(Align)
    BY UnitsAssumption DEF Whole
<1>2. PICK i \in Int : x = i * Align
    BY AlignedTimes
<1> QED BY <1>1, <1>2, WholeProduct

\* What a valid layout asks for survives the rounding to sectors.
LEMMA AskedExactly ==
    ASSUME PageTyped, Valid, gap # NoGap
    PROVE  /\ Asked(RootAct) = Created(RootStart, RequestedRoot, "root")
           /\ Asked(EspAct) = Created(gap.start, EspBytes, "esp")
<1>1. Whole(gap.start) /\ Whole(gap.end)
    BY ChosenGap, AlignedWhole
<1>2. Whole(EspBytes) /\ Whole(0) /\ Whole(Gib)
    BY UnitsAssumption, PageAssumption DEF Whole
<1>3. Whole(Carved)
    BY <1>2 DEF Carved
<1>4. Whole(RootStart)
    BY <1>1, <1>3, WholeSum DEF RootStart
<1>5. Whole(Capacity)
    BY <1>1, <1>3, WholeSum, RootInGap DEF GapBytes
<1>6. Whole(RequestedRoot)
    <2>1. rootSizeGib \in Int
        BY PageAssumption DEF PageTyped
    <2>2. Whole(rootSizeGib * Gib)
        BY <1>2, <2>1, WholeProduct
    <2> QED BY <1>5, <2>2 DEF RequestedRoot
<1>7. \A x : Whole(x) => Sectors(x) = x
    BY SectorsWhole DEF Whole
<1> QED BY <1>1, <1>2, <1>4, <1>6, <1>7, GapActIs DEF Asked, Line

-----------------------------------------------------------------------------
(* The engine's invariants, under the page.                                *)

PageSound == PlanInv /\ PageInv /\ SetInv /\ RealInv

LEMMA ReadyIsSound ==
    ASSUME Staged', pc' = "ready", formatEsp', orig' \in Tables
    PROVE  SetInv' /\ RealInv'
<1>1. result' = "none"
    BY DEF Staged
<1>2. Found'
    BY TablesAssumption DEF Found, Parts
<1>3. SetInv'
    BY <1>1, <1>2 DEF SetInv, Formatting, Erased, FreeFound, CreatesFound, UsedSoFar, SetIsSound
<1>4. RealInv'
    BY <1>1, NothingRealized
<1> QED BY <1>3, <1>4

LEMMA PageSoundNext ==
    ASSUME PageSound, [PageNext]_pageVars
    PROVE  PageSound'
<1>1. PlanInv' /\ PageInv'
    BY PageInvNext DEF PageSound
<1>2. CASE [Next]_vars
    BY <1>1, <1>2, SetInvNext, RealInvNext DEF PageSound
<1>3. CASE Submit \/ DiskChanges
    <2>1. UNCHANGED <<pc, formatEsp>> /\ pc = "ready" /\ orig' \in Tables
        BY <1>3 DEF Submit, DiskChanges, PageSound, PageInv, Waiting, outcome
    <2>2. formatEsp'
        BY <2>1 DEF PageSound, SetInv, Formatting
    <2>3. SetInv' /\ RealInv'
        BY <1>1, <2>1, <2>2, ReadyIsSound DEF PlanInv
    <2> QED BY <1>1, <2>3 DEF PageSound
<1>4. CASE Enter \/ Edit
    BY <1>2, <1>4, EditTyped DEF PageSound
<1>5. CASE EngineStep \/ UNCHANGED pageVars
    BY <1>2, <1>5 DEF EngineStep, pageVars
<1> QED BY <1>3, <1>4, <1>5 DEF PageNext

THEOREM PageSoundHolds == PageSpec => []PageSound
<1>1. PageInit => PageSound
    BY PageInvInit, SetInvInit, RealInvInit DEF PageSound, PageInit
<1> QED BY <1>1, PageSoundNext, PTL DEF PageSpec

-----------------------------------------------------------------------------
(* The preview.                                                            *)

\* The plan that was submitted names partitions of the page's disk, and asks for
\* definite sizes.
LEMMA SubmittedConcrete ==
    ASSUME PageTyped, Submitted, ~Editing, disk = orig
    PROVE  Valid /\ PlanSays /\ Concrete /\ Staying = DOMAIN disk \ Having({"delete"})
<1>1. Valid /\ PlanSays
    BY PlanIsSaid DEF Submitted
<1>2. Existing
    BY <1>1, PlanNames DEF Existing, Chosen
<1>3. \A a \in Creates : a.size # Fill
    <2>1. gap # NoGap => RequestedRoot # Fill
        <3>1. Fill = -1 /\ RootMin \in Nat
            BY UnitsAssumption DEF Fill
        <3> QED BY <1>1, <3>1, RootInGap
    <2>2. 0 # Fill
        BY DEF Fill
    <2> QED BY <1>1, <2>1, <2>2, PlanNames, GapActIs
<1> QED BY <1>1, <1>2, <1>3, PlanNames DEF Concrete, PlanSays, Staying

LEMMA ValidatedHasBoth ==
    ASSUME plan.mode = "custom", Validate(plan)
    PROVE  /\ \E i \in DOMAIN plan.actions : plan.actions[i].do \in {"useRoot", "createRoot"}
           /\ \E i \in DOMAIN plan.actions : plan.actions[i].do \in {"useEsp", "createEsp"}
<1>1. /\ Cardinality(Indices(plan, {"useRoot", "createRoot"})) = 1
      /\ Cardinality(Indices(plan, {"useEsp", "createEsp"})) = 1
    BY DEF Validate
<1>2. /\ Indices(plan, {"useRoot", "createRoot"}) # {}
      /\ Indices(plan, {"useEsp", "createEsp"}) # {}
    BY <1>1, FS_EmptySet
<1> QED BY <1>2 DEF Indices

\* Of the rows that stay, the root is the one with that role, and so is the ESP.
LEMMA RowsHanded ==
    ASSUME PageTyped, PlanSays, Validate(plan), disk = orig,
           \A i \in DOMAIN plan.actions : Handed(i) /\ i < index,
           NEW n \in Staying, Staying = DOMAIN disk \ Having({"delete"})
    PROVE  /\ n = root <=> roles[n] = "root"
           /\ n = esp <=> roles[n] \in EspRoles
<1>1. n \in DOMAIN disk /\ roles[n] \in Roles \ {"delete"} /\ n \notin New
    BY DEF Having, PageTyped, New
<1>2. ASSUME roles[n] # "leave"
      PROVE  /\ roles[n] = "root" => n = root
             /\ roles[n] \in EspRoles => n = esp
    <2>1. n \in Chosen
        BY <1>1, <1>2 DEF Chosen
    <2>2. PICK i \in DOMAIN plan.actions : plan.actions[i] = RowAction(n)
        BY <2>1 DEF PlanSays
    <2>3. /\ plan.actions[i].dev = n
          /\ roles[n] = "root" => plan.actions[i].do = "useRoot"
          /\ roles[n] \in EspRoles => plan.actions[i].do = "useEsp"
        BY <2>1, <2>2, RowActionIs DEF EspRoles
    <2> QED BY <2>3 DEF Handed
<1>3. ASSUME n = root
      PROVE  roles[n] = "root"
    <2>1. PICK i \in DOMAIN plan.actions : plan.actions[i].do \in {"useRoot", "createRoot"}
        BY ValidatedHasBoth DEF PlanSays
    <2>2. plan.actions[i].do = "useRoot" /\ plan.actions[i].dev = n
        BY <1>1, <1>3, <2>1 DEF Handed
    <2>3. PICK m \in Chosen : plan.actions[i] = RowAction(m)
        BY <2>2, GapActIs DEF PlanSays
    <2> QED BY <2>2, <2>3, RowActionIs
<1>4. ASSUME n = esp
      PROVE  roles[n] \in EspRoles
    <2>1. PICK i \in DOMAIN plan.actions : plan.actions[i].do \in {"useEsp", "createEsp"}
        BY ValidatedHasBoth DEF PlanSays
    <2>2. plan.actions[i].do = "useEsp" /\ plan.actions[i].dev = n
        BY <1>1, <1>4, <2>1 DEF Handed
    <2>3. PICK m \in Chosen : plan.actions[i] = RowAction(m)
        BY <2>2, GapActIs DEF PlanSays
    <2>4. m = n /\ roles[n] \in Roles \ {"leave", "root", "delete"}
        BY <2>2, <2>3, RowActionIs
    <2> QED BY <2>4 DEF Roles, EspRoles
<1> QED BY <1>2, <1>3, <1>4 DEF EspRoles

\* What is new is the root and the ESP that were to be created.
LEMMA GapHanded ==
    ASSUME PageTyped, PlanSays, AsAsked, \A i \in DOMAIN plan.actions : Handed(i)
    PROVE  /\ gap # NoGap => root \in New /\ table[root] = Asked(RootAct)
           /\ gap # NoGap /\ EspAuto => esp \in New /\ table[esp] = Asked(EspAct)
           /\ \A n \in New : gap # NoGap /\ (n = root \/ (EspAuto /\ n = esp))
<1>1. gap # NoGap => root \in New /\ table[root] = Asked(RootAct)
    <2> SUFFICES ASSUME gap # NoGap
                 PROVE  root \in New /\ table[root] = Asked(RootAct)
        OBVIOUS
    <2>1. PICK i \in DOMAIN plan.actions : plan.actions[i] = RootAct
        BY DEF PlanSays
    <2> QED BY <2>1, GapActIs DEF Handed
<1>2. gap # NoGap /\ EspAuto => esp \in New /\ table[esp] = Asked(EspAct)
    <2> SUFFICES ASSUME gap # NoGap, EspAuto
                 PROVE  esp \in New /\ table[esp] = Asked(EspAct)
        OBVIOUS
    <2>1. PICK i \in DOMAIN plan.actions : plan.actions[i] = EspAct
        BY DEF PlanSays
    <2> QED BY <2>1, GapActIs DEF Handed
<1>3. ASSUME NEW n \in New
      PROVE  gap # NoGap /\ (n = root \/ (EspAuto /\ n = esp))
    <2>1. PICK a \in Creates : table[n] = Asked(a)
        BY DEF AsAsked, AskedLines
    <2>2. gap # NoGap /\ (a = RootAct \/ (EspAuto /\ a = EspAct))
        BY PlanNames
    <2> QED BY <1>1, <1>2, <2>1, <2>2 DEF AsAsked
<1> QED BY <1>1, <1>2, <1>3

LEMMA PreviewFollows ==
    ASSUME PageSound
    PROVE  PreviewTrue
<1> SUFFICES ASSUME result = "ok", disk = orig
             PROVE  PlannedSegments =
                      {Segment(table[n].start, table[n].size,
                         CASE n = root -> "root" [] n = esp -> "esp" [] OTHER -> "existing") :
                         n \in DOMAIN table}
    BY DEF PreviewTrue
<1> DEFINE Drawn(n) == Segment(disk[n].start, disk[n].size, SegmentRole(roles[n]))
           Shown(n) == Segment(table[n].start, table[n].size,
                         CASE n = root -> "root" [] n = esp -> "esp" [] OTHER -> "existing")
           NewRoot == Segment(RootStart, RequestedRoot, "root")
           NewEsp == Segment(gap.start, EspBytes, "esp")
<1>1. ~Editing /\ PageTyped /\ Submitted
    BY DEF PageSound, PlanInv, Staged, PageInv, Waiting
<1>2. Valid /\ PlanSays /\ Concrete /\ Staying = DOMAIN disk \ Having({"delete"})
    BY <1>1, SubmittedConcrete
<1>3. AsAsked /\ Validate(plan) /\ \A i \in DOMAIN plan.actions : Handed(i) /\ i < index
    BY <1>2 DEF PageSound, RealInv, Realized, AllHanded, Ended, Concrete
<1>4. root # esp
    BY <1>2 DEF PageSound, SetInv, SetIsSound, Concrete, Existing
<1>5. ASSUME NEW n \in Staying
      PROVE  n \in DOMAIN table /\ Shown(n) = Drawn(n)
    <2>1. n \in DOMAIN table /\ table[n].start = disk[n].start /\ table[n].size = disk[n].size
        BY <1>3 DEF AsAsked, InPlace
    <2>2. (n = root <=> roles[n] = "root") /\ (n = esp <=> roles[n] \in EspRoles)
        BY <1>1, <1>2, <1>3, RowsHanded
    <2>3. SegmentRole(roles[n]) =
             CASE n = root -> "root" [] n = esp -> "esp" [] OTHER -> "existing"
        BY <1>4, <2>2 DEF SegmentRole, EspRoles
    <2> QED BY <2>1, <2>3
<1>6. gap # NoGap => root \in New /\ Shown(root) = NewRoot
    <2> SUFFICES ASSUME gap # NoGap
                 PROVE  root \in New /\ Shown(root) = NewRoot
        OBVIOUS
    <2>1. root \in New /\ table[root] = Created(RootStart, RequestedRoot, "root")
        BY <1>1, <1>2, <1>3, GapHanded, AskedExactly
    <2> QED BY <1>4, <2>1 DEF Created
<1>7. gap # NoGap /\ EspAuto => esp \in New /\ Shown(esp) = NewEsp
    <2> SUFFICES ASSUME gap # NoGap, EspAuto
                 PROVE  esp \in New /\ Shown(esp) = NewEsp
        OBVIOUS
    <2>1. esp \in New /\ table[esp] = Created(gap.start, EspBytes, "esp")
        BY <1>1, <1>2, <1>3, GapHanded, AskedExactly
    <2> QED BY <1>4, <2>1 DEF Created
<1>8. \A n \in New : gap # NoGap /\ (n = root \/ (EspAuto /\ n = esp))
    BY <1>1, <1>2, <1>3, GapHanded
<1>9. New \subseteq DOMAIN table /\ DOMAIN table \subseteq Staying \cup New
    BY DEF New
<1>10. PlannedSegments = {Drawn(n) : n \in Staying}
                         \cup (IF gap = NoGap THEN {} ELSE {NewRoot})
                         \cup (IF gap = NoGap \/ ~EspAuto THEN {} ELSE {NewEsp})
    BY <1>2 DEF PlannedSegments
<1> HIDE DEF Drawn, Shown, NewRoot, NewEsp
<1>11. PlannedSegments = {Shown(n) : n \in DOMAIN table}
    <2>1. ASSUME NEW g \in PlannedSegments
          PROVE  \E n \in DOMAIN table : g = Shown(n)
        <3>1. \/ \E n \in Staying : g = Drawn(n)
              \/ gap # NoGap /\ g = NewRoot
              \/ gap # NoGap /\ EspAuto /\ g = NewEsp
            BY <1>10
        <3> QED BY <1>5, <1>6, <1>7, <1>9, <3>1
    <2>2. ASSUME NEW n \in DOMAIN table
          PROVE  Shown(n) \in PlannedSegments
        <3>1. CASE n \in Staying
            BY <1>5, <1>10, <3>1
        <3>2. CASE n \in New
            BY <1>6, <1>7, <1>8, <1>10, <3>2
        <3> QED BY <1>9, <3>1, <3>2
    <2> QED BY <2>1, <2>2
<1> QED BY <1>11 DEF Shown

\* The bar that the page draws is the disk after a successful install: the same
\* places and sizes, the root and the ESP where they were drawn, and nothing else;
\* for any disk, any edits of the page and any numbering by sfdisk.
THEOREM PreviewIsTrue == PageSpec => []PreviewTrue
BY PageSoundHolds, PreviewFollows, PTL

-----------------------------------------------------------------------------
(* The selections: at most one row is the root.                            *)

OneRoot == \A m, n \in RootRows : m = n

LEMMA OneRootNext ==
    ASSUME PageSound, OneRoot, [PageNext]_pageVars
    PROVE  OneRoot'
<1> USE DEF OneRoot, RootRows, Having
<1>1. DOMAIN roles = DOMAIN disk
    BY DEF PageSound, PageInv, PageTyped
<1>2. CASE Enter
    BY <1>2 DEF Enter, ResetFor, DefaultRoles
<1>3. ASSUME NEW row \in DOMAIN roles, NEW role \in Roles, RoleSelected(row, role)
      PROVE  OneRoot'
    <2>1. roles' = [n \in DOMAIN roles |->
                      IF n = row THEN role
                      ELSE IF roles[n] \in Kin(role) THEN "leave" ELSE roles[n]]
        BY <1>3 DEF RoleSelected
    <2>2. CASE role = "root"
        <3>1. \A n \in DOMAIN roles' : roles'[n] = "root" => n = row
            BY <2>1, <2>2 DEF Kin, EspRoles
        <3> QED BY <3>1
    <2>3. CASE role # "root"
        <3>1. DOMAIN roles' = DOMAIN roles
              /\ \A n \in DOMAIN roles' : roles'[n] = "root" => roles[n] = "root"
            BY <2>1, <2>3
        <3> QED BY <3>1
    <2> QED BY <2>2, <2>3
<1>4. ASSUME NEW g, GapSelected(g)
      PROVE  OneRoot'
    <2>1. DOMAIN roles' = DOMAIN roles
          /\ \A n \in DOMAIN roles' : roles'[n] = "root" => roles[n] = "root"
        BY <1>4 DEF GapSelected
    <2> QED BY <2>1
<1>5. CASE roles' = roles
    BY <1>5
<1>6. CASE Edit
    BY <1>3, <1>4, <1>5, <1>6 DEF Edit, RootSizeChanged
<1>7. CASE Submit \/ DiskChanges \/ EngineStep \/ UNCHANGED pageVars
    BY <1>5, <1>7 DEF Submit, DiskChanges, EngineStep, pageVars, page
<1> QED BY <1>2, <1>6, <1>7 DEF PageNext

-----------------------------------------------------------------------------
(* A valid layout is carried out: its plan is validated ...                *)

LEMMA FewIsOne ==
    ASSUME NEW S, IsFiniteSet(S), Cardinality(S) <= 1, NEW m \in S, NEW n \in S
    PROVE  m = n
<1>1. IsFiniteSet(S \ {m}) /\ Cardinality(S \ {m}) = Cardinality(S) - 1
    BY FS_RemoveElement
<1>2. Cardinality(S) \in Nat /\ Cardinality(S \ {m}) \in Nat
    BY <1>1, FS_CardinalityType
<1>3. Cardinality(S \ {m}) = 0
    BY <1>1, <1>2
<1>4. S \ {m} = {}
    BY <1>1, <1>3, FS_EmptySet
<1> QED BY <1>4

LEMMA OneIndex ==
    ASSUME NEW kinds, NEW i \in DOMAIN plan.actions, plan.actions[i].do \in kinds,
           \A j \in DOMAIN plan.actions : plan.actions[j].do \in kinds => j = i
    PROVE  Cardinality(Indices(plan, kinds)) = 1
<1>1. Indices(plan, kinds) = {i}
    BY DEF Indices
<1> QED BY <1>1, FS_Singleton

LEMMA SubmittedIsValidated ==
    ASSUME PageTyped, OneRoot, Submitted, ~Editing, Cardinality(EspRows) <= 1
    PROVE  Validate(plan)
<1>1. Valid /\ plan.mode = "custom"
    BY PlanReads DEF Submitted
<1>2. PICK k, g, rows : Reads(k, g, rows)
    BY PlanReads
<1>3. /\ k \in Nat /\ g \in 0..2 /\ DOMAIN plan.actions = 1..(k + g)
      /\ g = IF gap = NoGap THEN 0 ELSE IF EspAuto THEN 2 ELSE 1
    BY <1>2 DEF Reads
<1>4. ASSUME NEW n \in Chosen
      PROVE  \E i \in 1..k : /\ rows[i] = n /\ i \in DOMAIN plan.actions
                             /\ plan.actions[i] = RowAction(n)
    BY <1>2, <1>3 DEF Reads
<1>5. Cardinality(Indices(plan, {"useRoot", "createRoot"})) = 1
    <2> DEFINE kinds == {"useRoot", "createRoot"}
    <2>1. ASSUME NEW j \in DOMAIN plan.actions, plan.actions[j].do \in kinds
          PROVE  \/ j \in 1..k /\ rows[j] \in RootRows
                 \/ j = k + g /\ gap # NoGap
        <3>1. CASE j \in 1..k /\ rows[j] \in Chosen /\ plan.actions[j] = RowAction(rows[j])
            BY <2>1, <3>1, RowActionIs DEF RootRows, Having, PageTyped
        <3>2. CASE gap # NoGap /\ j = k + g
            BY <3>2
        <3>3. CASE plan.actions[j] = EspAct
            BY <2>1, <3>3, GapActIs
        <3> QED BY <1>2, <3>1, <3>2, <3>3, ReadsAll
    <2>2. CASE gap # NoGap
        <3>1. RootRows = {} /\ k + g \in DOMAIN plan.actions
              /\ plan.actions[k + g].do \in kinds
            BY <1>1, <1>2, <1>3, <2>2, GapActIs DEF Valid, Reads
        <3>2. \A j \in DOMAIN plan.actions : plan.actions[j].do \in kinds => j = k + g
            BY <2>1, <3>1
        <3> HIDE DEF kinds
        <3>3. Cardinality(Indices(plan, kinds)) = 1
            BY <3>1, <3>2, OneIndex
        <3> QED BY <3>3 DEF kinds
    <2>3. CASE gap = NoGap
        <3>1. PICK n \in RootRows : n \in Chosen /\ roles[n] = "root"
            BY <1>1, <2>3 DEF Valid, RootRows, Having, Chosen, PageTyped
        <3>2. PICK i \in 1..k : /\ rows[i] = n /\ i \in DOMAIN plan.actions
                                /\ plan.actions[i] = RowAction(n)
            BY <1>4, <3>1
        <3>3. plan.actions[i].do \in kinds
            BY <3>1, <3>2, RowActionIs
        <3>4. \A j \in DOMAIN plan.actions : plan.actions[j].do \in kinds => j = i
            BY <1>2, <2>1, <2>3, <3>1, <3>2 DEF OneRoot, Reads
        <3> HIDE DEF kinds
        <3>5. Cardinality(Indices(plan, kinds)) = 1
            BY <3>2, <3>3, <3>4, OneIndex
        <3> QED BY <3>5 DEF kinds
    <2> QED BY <2>2, <2>3
<1>6. Cardinality(Indices(plan, {"useEsp", "createEsp"})) = 1
    <2> DEFINE kinds == {"useEsp", "createEsp"}
    <2>1. ASSUME NEW j \in DOMAIN plan.actions, plan.actions[j].do \in kinds
          PROVE  \/ j \in 1..k /\ rows[j] \in EspRows
                 \/ j = k + 1 /\ gap # NoGap /\ EspAuto
        <3>1. CASE j \in 1..k /\ rows[j] \in Chosen /\ plan.actions[j] = RowAction(rows[j])
            BY <2>1, <3>1, RowActionIs DEF EspRows, EspRoles, Having, PageTyped, Roles
        <3>2. CASE gap # NoGap /\ EspAuto /\ j = k + 1
            BY <3>2
        <3>3. CASE plan.actions[j] = RootAct
            BY <2>1, <3>3, GapActIs
        <3> QED BY <1>2, <3>1, <3>2, <3>3, ReadsAll
    <2>2. CASE EspAuto
        <3>1. EspRows = {} /\ g = 2 /\ k + 1 \in DOMAIN plan.actions
              /\ plan.actions[k + 1].do \in kinds
            BY <1>1, <1>2, <1>3, <2>2, GapActIs DEF Valid, Reads, EspAuto
        <3>2. \A j \in DOMAIN plan.actions : plan.actions[j].do \in kinds => j = k + 1
            BY <2>1, <3>1
        <3> HIDE DEF kinds
        <3>3. Cardinality(Indices(plan, kinds)) = 1
            BY <3>1, <3>2, OneIndex
        <3> QED BY <3>3 DEF kinds
    <2>3. CASE ~EspAuto
        <3>1. PICK n \in EspRows : n \in Chosen /\ roles[n] \in EspRoles
            BY <2>3 DEF EspAuto, EspRows, EspRoles, Having, Chosen, PageTyped
        <3>2. \A m \in EspRows : m = n
            <4>1. EspRows \subseteq Numbers
                BY TablesAssumption DEF EspRows, Having, PageTyped
            <4>2. IsFiniteSet(EspRows)
                BY <4>1, NumbersAssumption, FS_Subset
            <4> QED BY <4>2, FewIsOne
        <3>3. PICK i \in 1..k : /\ rows[i] = n /\ i \in DOMAIN plan.actions
                                /\ plan.actions[i] = RowAction(n)
            BY <1>4, <3>1
        <3>4. plan.actions[i].do \in kinds
            BY <3>1, <3>3, RowActionIs DEF EspRoles
        <3>5. \A j \in DOMAIN plan.actions : plan.actions[j].do \in kinds => j = i
            BY <1>2, <2>1, <2>3, <3>2, <3>3 DEF Reads
        <3> HIDE DEF kinds
        <3>6. Cardinality(Indices(plan, kinds)) = 1
            BY <3>3, <3>4, <3>5, OneIndex
        <3> QED BY <3>6 DEF kinds
    <2> QED BY <2>2, <2>3
<1>7. ASSUME NEW i \in Indices(plan, {"createRoot"})
      PROVE  plan.actions[i].size = Fill \/ plan.actions[i].size >= RootMin
    <2>1. i \in DOMAIN plan.actions /\ plan.actions[i].do = "createRoot"
        BY DEF Indices
    <2>2. gap # NoGap /\ plan.actions[i] = RootAct
        BY <1>2, <2>1, ReadsAll, RowActionIs, GapActIs
    <2> QED BY <1>1, <2>2, GapActIs, RootInGap
<1>8. ASSUME NEW i \in References(plan)
      PROVE  i \in 1..k /\ rows[i] \in Chosen /\ plan.actions[i] = RowAction(rows[i])
    <2>1. i \in DOMAIN plan.actions /\ plan.actions[i].do \in {"delete", "useRoot", "useEsp"}
        BY DEF References, Indices
    <2> QED BY <1>2, <2>1, ReadsAll, GapActIs
<1>9. \A i, j \in References(plan) : plan.actions[i].dev = plan.actions[j].dev => i = j
    BY <1>2, <1>8, RowActionIs DEF Reads
<1>10. 0 \notin Referenced(plan)
    <2>1. Chosen \subseteq Numbers /\ 0 \notin Numbers
        BY TablesAssumption, NumbersAssumption DEF PageTyped, Chosen
    <2> QED BY <1>8, <2>1, RowActionIs DEF Referenced
<1> QED BY <1>1, <1>5, <1>6, <1>7, <1>9, <1>10 DEF Validate

-----------------------------------------------------------------------------
(* ... passes the checks against the disk, and fits.                       *)

\* Free space between aligned bounds is within one gap.
LEMMA ClearIsInGap ==
    ASSUME NEW t, Contained(t), NEW a, NEW b, Aligned(a), Aligned(b), a < b, Clear(t, a, b)
    PROVE  \E g \in Gaps(t) : g.start \in Int /\ g.end \in Int /\ g.start <= a /\ b <= g.end
<1>1. a \in Int /\ b \in Int
    BY DEF Aligned
<1>2. PICK r \in RawGaps(t) : r[1] \in Int /\ r[2] \in Int /\ r[1] <= a /\ b <= r[2]
    BY <1>1, HoleAround
<1>3. PICK lo \in Int, hi \in Int : lo = r[1] /\ hi = r[2]
    BY <1>2
<1>4. Align \in Int /\ Align > 0
    BY UnitsAssumption
<1>5. PICK s \in Int, e \in Int : s = AlignUp(lo) /\ e = AlignDown(hi)
    BY AlignUpIs, AlignDownIs DEF Aligned
<1>6. s <= a
    <2> SUFFICES ASSUME a < s
                 PROVE  FALSE
        BY <1>1
    <2>1. Aligned(s) /\ s < lo + Align
        BY <1>5, AlignUpIs
    <2>2. a + Align <= s
        BY <2>1, AlignedApart
    <2> QED BY <1>1, <1>2, <1>3, <1>4, <2>1, <2>2
<1>7. b <= e
    <2> SUFFICES ASSUME e < b
                 PROVE  FALSE
        BY <1>1
    <2>1. Aligned(e) /\ hi < e + Align
        BY <1>5, AlignDownIs
    <2>2. e + Align <= b
        BY <2>1, AlignedApart
    <2> QED BY <1>1, <1>2, <1>3, <1>4, <2>1, <2>2
<1>8. r[2] > r[1] /\ e > s
    BY <1>1, <1>2, <1>3, <1>6, <1>7
<1>9. [start |-> s, end |-> e] \in Gaps(t)
    BY <1>2, <1>3, <1>5, <1>8 DEF Gaps
<1> QED BY <1>6, <1>7, <1>9

\* The gap the page chose is free on a table with some of the disk's partitions.
LEMMA GapStaysFree ==
    ASSUME PageTyped, Valid, gap # NoGap,
           DOMAIN table \subseteq DOMAIN disk, \A n \in DOMAIN table : table[n] = disk[n]
    PROVE  /\ Clear(table, gap.start, gap.end)
           /\ \A x, y \in Int : gap.start <= x /\ x + y <= gap.end /\ 0 <= y =>
                 IsFree(table, x, y)
<1>1. /\ Aligned(gap.start) /\ Aligned(gap.end) /\ gap.start < gap.end
      /\ First <= gap.start /\ gap.end <= End
      /\ \A n \in DOMAIN disk : EndOf(disk[n]) <= gap.start \/ gap.end <= disk[n].start
    BY ChosenGap
<1>2. Clear(table, gap.start, gap.end)
    BY <1>1 DEF Clear
<1>3. Contained(table)
    BY TablesContained DEF Contained, PageTyped
<1>4. PICK g \in Gaps(table) : /\ g.start \in Int /\ g.end \in Int
                               /\ g.start <= gap.start /\ gap.end <= g.end
    BY <1>1, <1>2, <1>3, ClearIsInGap
<1>5. ASSUME NEW x \in Int, NEW y \in Int, gap.start <= x, x + y <= gap.end, 0 <= y
      PROVE  IsFree(table, x, y)
    <2>1. /\ gap.start \in Int /\ gap.end \in Int /\ First \in Int /\ First >= 0
          /\ End \in Int /\ Width \in Int /\ RootMin \in Int /\ EspBytes \in Int
          /\ EspBytes > 0 /\ EspBytes <= RootMin /\ End + RootMin <= Width
        BY <1>1, UnitsAssumption DEF Aligned
    <2>2. x + y >= 0 /\ x + y < Width
        BY <1>1, <1>5, <2>1
    <2>3. Add(x, y) = x + y
        BY <2>1, <2>2 DEF Add
    <2>4. x >= g.start /\ Add(x, y) <= g.end
        BY <1>4, <1>5, <2>1, <2>3
    <2> QED BY <2>4 DEF IsFree
<1> QED BY <1>2, <1>5

\* The places of what is created: the ESP, if there is one, in front of the root.
LEMMA GapPlaces ==
    ASSUME PageTyped, Valid, gap # NoGap
    PROVE  /\ gap.start \in Int /\ RootStart \in Int /\ RequestedRoot \in Int
           /\ EspBytes \in Int /\ gap.end \in Int
           /\ gap.start <= RootStart /\ RequestedRoot > 0 /\ EspBytes > 0
           /\ RootStart + RequestedRoot <= gap.end
           /\ First <= gap.start /\ gap.end <= End
           /\ EspAuto => gap.start + EspBytes = RootStart
<1>1. EspBytes \in Int /\ EspBytes > 0 /\ RootMin \in Int /\ EspBytes <= RootMin
    BY UnitsAssumption
<1> QED BY <1>1, ChosenGap, RootInGap

LEMMA CreatesPass ==
    ASSUME PageTyped, Valid, PlanSays,
           DOMAIN table \subseteq DOMAIN disk, \A n \in DOMAIN table : table[n] = disk[n],
           NEW a \in Creates
    PROVE  CreateOk(a)
<1>1. gap # NoGap /\ (a = RootAct \/ (EspAuto /\ a = EspAct))
    BY PlanNames
<1>2. \A x, y \in Int : gap.start <= x /\ x + y <= gap.end /\ 0 <= y => IsFree(table, x, y)
    BY <1>1, GapStaysFree
<1>3. CASE a = RootAct
    <2>1. a.do = "createRoot" /\ a.start = RootStart /\ a.size = RequestedRoot
        BY <1>3, GapActIs
    <2>2. RequestedRoot \in Int /\ RequestedRoot >= RootMin /\ RequestedRoot # Fill
        <3>1. Fill = -1 /\ RootMin \in Nat
            BY UnitsAssumption DEF Fill
        <3> QED BY <1>1, <3>1, RootInGap
    <2>3. RootSize(a) = RequestedRoot
        BY <2>1, <2>2 DEF RootSize
    <2>4. IsFree(table, RootStart, RequestedRoot)
        BY <1>1, <1>2, GapPlaces
    <2> QED BY <2>1, <2>2, <2>3, <2>4 DEF CreateOk
<1>4. CASE EspAuto /\ a = EspAct
    <2>1. a.do = "createEsp" /\ a.start = gap.start
        BY <1>4, GapActIs
    <2>2. gap.start + EspBytes <= gap.end
        BY <1>1, <1>4, GapPlaces
    <2>3. IsFree(table, gap.start, EspBytes)
        BY <1>1, <1>2, <2>2, GapPlaces
    <2> QED BY <2>1, <2>3 DEF CreateOk
<1> QED BY <1>1, <1>3, <1>4

\* A set with no elements but two has two at most.
LEMMA PairAtMost ==
    ASSUME NEW x, NEW y, NEW S \in SUBSET {x, y}
    PROVE  Cardinality(S) \in 0..2
<1>1. IsFiniteSet({x}) /\ Cardinality({x}) = 1
    BY FS_Singleton
<1>2. {x} \cup {y} = {x, y}
    OBVIOUS
<1>3. IsFiniteSet({x, y}) /\ Cardinality({x, y}) \in {1, 2}
    BY <1>1, <1>2, FS_AddElement
<1>4. IsFiniteSet(S) /\ Cardinality(S) <= Cardinality({x, y})
    BY <1>3, FS_Subset
<1>5. Cardinality(S) \in Nat
    BY <1>4, FS_CardinalityType
<1> QED BY <1>3, <1>4, <1>5

LEMMA CreatesFit ==
    ASSUME PageTyped, Valid, PlanSays, Concrete,
           DOMAIN table \subseteq DOMAIN disk, \A n \in DOMAIN table : table[n] = disk[n],
           \A n \in DOMAIN disk : ~disk[n].mounted,
           Cardinality(Numbers \ DOMAIN disk) >= 2
    PROVE  Fits(CreateLines)
<1>1. ASSUME NEW p \in CreateLines
      PROVE  /\ gap # NoGap
             /\ \/ p.start = RootStart /\ p.size = RequestedRoot
                   /\ p = Asked(RootAct)
                \/ EspAuto /\ p.start = gap.start /\ p.size = EspBytes
                   /\ p = Asked(EspAct)
    <2>1. PICK a \in Creates : p = Asked(a)
        BY AskedIsLine DEF AskedLines
    <2>2. gap # NoGap /\ (a = RootAct \/ (EspAuto /\ a = EspAct))
        BY PlanNames
    <2>3. /\ Asked(RootAct).start = RootStart /\ Asked(RootAct).size = RequestedRoot
          /\ Asked(EspAct).start = gap.start /\ Asked(EspAct).size = EspBytes
        BY <2>2, AskedExactly DEF Created
    <2> QED BY <2>1, <2>2, <2>3
<1>2. ~InUse
    BY DEF InUse
<1>3. ASSUME NEW p \in CreateLines
      PROVE  /\ p.start \in Int /\ p.size \in Int /\ p.size > 0
             /\ gap.start <= p.start /\ EndOf(p) <= gap.end
             /\ p.start >= First /\ EndOf(p) <= End
    <2>1. First \in Int /\ End \in Int
        BY UnitsAssumption
    <2> QED BY <1>1, <2>1, GapPlaces DEF EndOf
<1>4. ASSUME NEW p \in CreateLines, NEW n \in DOMAIN table
      PROVE  Disjoint(p, table[n])
    <2>1. gap # NoGap
        BY <1>1
    <2>2. EndOf(table[n]) <= gap.start \/ gap.end <= table[n].start
        BY <2>1, GapStaysFree DEF Clear
    <2>3. EndOf(table[n]) \in Int /\ table[n].start \in Int /\ EndOf(p) \in Int
          /\ gap.start \in Int /\ gap.end \in Int
        BY <1>3, <2>1, TablesContained, GapPlaces DEF Contained, PageTyped, EndOf
    <2> QED BY <1>3, <2>2, <2>3 DEF Disjoint
<1>5. ASSUME NEW p \in CreateLines, NEW q \in CreateLines, p # q
      PROVE  Disjoint(p, q)
    <2>1. gap # NoGap /\ EspAuto
        BY <1>1, <1>5
    <2>2. gap.start + EspBytes = RootStart /\ gap.start \in Int /\ EspBytes \in Int
        BY <2>1, GapPlaces
    <2>3. CASE p = Asked(RootAct) /\ q.start = gap.start /\ q.size = EspBytes
        BY <1>1, <1>5, <2>2, <2>3, AskedExactly, <2>1 DEF Disjoint, EndOf, Created
    <2>4. CASE q = Asked(RootAct) /\ p.start = gap.start /\ p.size = EspBytes
        BY <1>1, <1>5, <2>2, <2>4, AskedExactly, <2>1 DEF Disjoint, EndOf, Created
    <2> QED BY <1>1, <1>5, <2>3, <2>4
<1>6. Cardinality(CreateLines) <= Cardinality(Numbers \ DOMAIN table)
    <2>1. CreateLines \subseteq {Asked(RootAct), Asked(EspAct)}
        BY <1>1
    <2>2. IsFiniteSet(Numbers \ DOMAIN table)
        BY FS_Subset, NumbersAssumption
    <2>3. Numbers \ DOMAIN disk \subseteq Numbers \ DOMAIN table
        OBVIOUS
    <2>4. /\ Cardinality(Numbers \ DOMAIN disk) <= Cardinality(Numbers \ DOMAIN table)
          /\ Cardinality(Numbers \ DOMAIN disk) \in Nat
          /\ Cardinality(Numbers \ DOMAIN table) \in Nat
        BY <2>2, <2>3, FS_Subset, FS_CardinalityType
    <2>5. Cardinality(CreateLines) \in 0..2
        BY <2>1, PairAtMost
    <2> QED BY <2>4, <2>5
<1> QED BY <1>2, <1>3, <1>4, <1>5, <1>6 DEF Fits

-----------------------------------------------------------------------------
(* ... and is carried out to the end.                                      *)

\* The disk is the one the page showed, accepted by the engine, and not in use, with
\* slots for a root and an ESP; no command has failed, and there is one ESP at most.
Carrying ==
    /\ faults = 0 /\ disk = orig /\ label = "gpt" /\ Cardinality(EspRows) <= 1
    /\ Cardinality(Numbers \ DOMAIN disk) >= 2
    /\ \A n \in DOMAIN disk : ~disk[n].mounted

CarriedOut == Carrying => result \in {"none", "ok"}

LEMMA EngineCarries ==
    ASSUME PageSound, OneRoot, ~Editing, Carrying, Next, faults' = 0, result = "none"
    PROVE  result' \in {"none", "ok"}
<1> USE DEF GoTo, Return, Refuse, outcome
<1>1. PageTyped /\ Submitted /\ disk = orig
    BY DEF PageSound, PageInv, Carrying
<1>2. Valid /\ PlanSays /\ Concrete /\ Staying = DOMAIN disk \ Having({"delete"})
    BY <1>1, SubmittedConcrete
<1>3. Validate(plan) /\ plan.mode = "custom"
    BY <1>1, <1>2, SubmittedIsValidated DEF Carrying, PlanSays
<1>4. pc = "create" =>
         DOMAIN table \subseteq DOMAIN disk /\ \A n \in DOMAIN table : table[n] = disk[n]
    BY <1>1 DEF PageSound, SetInv, Found
<1>5. CASE Start
    BY <1>3, <1>5 DEF Start
<1>6. CASE Erase \/ StampErased \/ RefuseFree \/ AppendFree \/ ResolveFree
    <2>1. pc \in {"erase", "stamp", "free", "resolveFree"}
        BY <1>6 DEF Erase, StampErased, RefuseFree, AppendFree, ResolveFree
    <2> QED BY <1>3, <2>1 DEF PageSound, PlanInv, Staged
<1>7. CASE RefuseDeletes
    <2>1. table = disk /\ label = "gpt"
        BY <1>1, <1>7 DEF RefuseDeletes, PageSound, PlanInv, Untouched, Carrying
    <2>2. Deleted \subseteq DOMAIN disk
        BY <1>1, <1>2, PlanNames DEF Having, PageTyped
    <2>3. DeletesOk
        BY <2>1, <2>2 DEF DeletesOk, Carrying
    <2> QED BY <1>7, <2>3 DEF RefuseDeletes
<1>8. CASE RefuseCreates
    <2>1. \A a \in Creates : CreateOk(a)
        BY <1>1, <1>2, <1>4, <1>8, CreatesPass DEF RefuseCreates
    <2> QED BY <1>8, <2>1 DEF RefuseCreates
<1>9. CASE CommandRefuses
    <2>1. pc \in {"erase", "free"} => FALSE
        BY <1>3 DEF PageSound, PlanInv, Staged
    <2>2. pc = "create" /\ ~Fits(CreateLines)
        BY <1>9, <2>1 DEF CommandRefuses
    <2>3. Fits(CreateLines)
        BY <1>1, <1>2, <1>4, <2>2, CreatesFit DEF Carrying
    <2> QED BY <2>2, <2>3
<1>10. CASE ResolveCreated
    <2>1. pc = "resolve" /\ AsAsked
        BY <1>2, <1>10 DEF ResolveCreated, PageSound, RealInv, Realized
    <2>2. ASSUME NEW a \in Creates
          PROVE  PartitionAt(a.start) # {}
        <3>1. gap # NoGap /\ (a = RootAct \/ (EspAuto /\ a = EspAct))
            BY <1>1, <1>2, PlanNames
        <3>2. Asked(a).start = a.start
            BY <1>1, <1>2, <3>1, AskedExactly, GapActIs DEF Created
        <3>3. PICK n \in New : table[n] = Asked(a)
            BY <2>1 DEF AsAsked, AskedLines
        <3> QED BY <3>2, <3>3 DEF PartitionAt, New
    <2> QED BY <1>10, <2>2 DEF ResolveCreated
<1>11. CASE RefuseUse
    <2>1. /\ pc = "use" /\ index \in DOMAIN plan.actions
          /\ Action.do \in {"useRoot", "useEsp"}
          /\ \/ Action.do = "useRoot" /\ ~RootUsable
             \/ Action.do = "useEsp" /\ ~EspUsable
        BY <1>11 DEF RefuseUse, AtUse
    <2>2. AsAsked
        BY <1>2, <2>1 DEF PageSound, RealInv, Realized
    <2>3. PICK n \in Staying : n = Action.dev
        BY <1>2, <2>1, ReusedIsStaying DEF PageSound
    <2>4. /\ n \in DOMAIN table /\ ~table[n].mounted /\ n \in DOMAIN disk
          /\ table[n].size = disk[n].size
        BY <1>1, <1>2, <2>2, <2>3 DEF AsAsked, InPlace, Carrying
    <2>5. EspUsable
        BY <2>3, <2>4 DEF EspUsable
    <2>6. Action.do = "useRoot" => disk[n].size >= RootMin
        <3> SUFFICES ASSUME Action.do = "useRoot"
                     PROVE  disk[n].size >= RootMin
            OBVIOUS
        <3>1. PICK m \in Chosen : Action = RowAction(m)
            BY <1>2, <2>1, GapActIs DEF PlanSays, Action
        <3>2. m = n /\ roles[n] = "root"
            BY <1>1, <2>3, <3>1, RowActionIs
        <3>3. n \in RootRows
            BY <1>1, <2>4, <3>2 DEF RootRows, Having, PageTyped
        <3> QED BY <1>2, <3>3 DEF Valid
    <2>7. Action.do = "useRoot" => RootUsable
        BY <2>3, <2>4, <2>6 DEF RootUsable
    <2> QED BY <2>1, <2>5, <2>7
<1>12. CASE CommandFails
    <2>1. faults' = faults + 1
        BY <1>12 DEF CommandFails
    <2> QED BY <2>1 DEF Carrying
<1>13. CASE DeletePartitions \/ AppendCustom \/ SkipAction \/ UseAsRoot \/ UseAsEsp \/ Finish
    BY <1>13 DEF DeletePartitions, AppendCustom, SkipAction, UseAsRoot, UseAsEsp, Finish
<1> QED
    BY <1>5, <1>6, <1>7, <1>8, <1>9, <1>10, <1>11, <1>12, <1>13 DEF Next

LEMMA CarriedOutNext ==
    ASSUME PageSound, OneRoot, CarriedOut, [PageNext]_pageVars
    PROVE  CarriedOut'
<1>1. CASE EngineStep
    <2> SUFFICES ASSUME Carrying'
                 PROVE  result' \in {"none", "ok"}
        BY DEF CarriedOut
    <2>1. ~Editing /\ Next /\ UNCHANGED page /\ Typed /\ pc # "returned" /\ UNCHANGED <<plan, orig>>
        BY <1>1, EngineKeeps DEF EngineStep, PageSound, PlanInv
    <2>2. plan.mode = "custom" /\ result = "none"
        BY <2>1, PlanReads DEF PageSound, PageInv, PlanInv, Staged
    <2>3. faults = 0 /\ faults' = 0 /\ label = "gpt"
        <3>1. faults' = 0 /\ label' = "gpt" /\ faults \in Nat
            BY <2>1 DEF Carrying, Typed
        <3>2. CASE CommandFails
            BY <3>1, <3>2 DEF CommandFails
        <3>3. CASE Erase
            BY <2>2, <3>3 DEF Erase, PageSound, PlanInv, Staged
        <3>4. CASE ~CommandFails /\ ~Erase
            <4>1. UNCHANGED <<faults, label>>
                BY <2>1, <3>4 DEF Next, Start, StampErased, RefuseFree, AppendFree, ResolveFree,
                    RefuseDeletes, DeletePartitions, RefuseCreates, AppendCustom,
                    ResolveCreated, SkipAction, RefuseUse, UseAsRoot, UseAsEsp, Finish,
                    CommandRefuses, Refuse
            <4> QED BY <3>1, <4>1
        <3> QED BY <3>2, <3>3, <3>4
    <2>4. Carrying
        BY <2>1, <2>3 DEF Carrying, page, EspRows, Having
    <2> QED BY <2>1, <2>2, <2>3, <2>4, EngineCarries
<1>2. CASE Enter \/ Edit \/ Submit \/ DiskChanges
    <2>1. result' = result /\ pc = "ready"
        BY <1>2, EditTyped DEF Submit, DiskChanges, PageSound, PageInv, Waiting, vars
    <2> QED BY <2>1 DEF CarriedOut, PageSound, PlanInv, Staged
<1>3. CASE UNCHANGED pageVars
    BY <1>3 DEF CarriedOut, Carrying, pageVars, vars, page, EspRows, Having
<1> QED BY <1>1, <1>2, <1>3 DEF PageNext

\* A layout that the page calls valid is carried out: on the disk that the page
\* showed, if sfdisk works and the disk has a GPT and is not in use, the engine
\* refuses nothing and ends with Ok, for any disk and any edits that leave one ESP
\* at most.
THEOREM ValidLayoutsAreCarriedOut == PageSpec => []ValidIsCarriedOut
<1>1. PageInit => OneRoot /\ CarriedOut
    BY DEF PageInit, Init, DefaultRoles, OneRoot, RootRows, Having, CarriedOut
<1>2. PageSound /\ OneRoot /\ CarriedOut /\ [PageNext]_pageVars => OneRoot' /\ CarriedOut'
    BY OneRootNext, CarriedOutNext
<1>3. CarriedOut => ValidIsCarriedOut
    BY DEF CarriedOut, Carrying, ValidIsCarriedOut
<1> QED BY <1>1, <1>2, <1>3, PageSoundHolds, PTL DEF PageSpec

=============================================================================
