-------------------------- MODULE PartitionProofs --------------------------
(***************************************************************************)
(* Proofs about Partition.tla: its type invariant; that no plan, on any    *)
(* table, touches what it does not name or what is mounted, wherever it is *)
(* refused or fails; and that the PartitionSet that run() returns is sound *)
(* for any plan whose partitions exist: what is found by its start is what *)
(* was created there, what is reused is not what was created, and sizes    *)
(* survive the rounding to sectors.                                        *)
(***************************************************************************)
EXTENDS Partition, FiniteSetTheorems, TLAPS

-----------------------------------------------------------------------------
(* What sfdisk --append does to the table.                                 *)

RawLines == [start : Int, size : Int, type : {"esp", "root"},
             mounted : {FALSE}, data : {FALSE}]

\* A script line is typed as soon as its numbers are.
LEMMA LineTyped ==
    ASSUME NEW start \in Int, NEW size \in Int, NEW type \in {"esp", "root"}
    PROVE  Line(start, size, type) \in RawLines
BY UnitsAssumption DEF Line, Created, Sectors, RawLines

\* Lines that fit become partitions.
LEMMA FittingLines ==
    ASSUME NEW lines \in SUBSET RawLines, Fits(lines)
    PROVE  lines \subseteq Parts
<1> SUFFICES ASSUME NEW p \in lines
             PROVE  p \in Parts
    OBVIOUS
<1>1. p \in RawLines
    OBVIOUS
<1>2. p.size > 0 /\ p.start >= First /\ EndOf(p) <= End
    BY DEF Fits
<1>3. First >= 0 /\ First \in Int /\ End \in Int /\ Width \in Int /\ End < Width
    BY UnitsAssumption
<1>4. p.start \in Bytes /\ p.size \in Bytes
    BY <1>1, <1>2, <1>3 DEF EndOf, RawLines, Bytes
<1>5. p = [start |-> p.start, size |-> p.size, type |-> p.type,
           mounted |-> p.mounted, data |-> p.data]
    BY <1>1 DEF RawLines
<1>6. p.type \in {"esp", "root", "other"} /\ p.mounted \in BOOLEAN /\ p.data \in BOOLEAN
    BY <1>1 DEF RawLines
<1> QED BY <1>4, <1>5, <1>6 DEF Parts

\* The partitions there were stay, the others are lines of the script.
LEMMA AppendEffect ==
    ASSUME NEW lines, NEW slot \in [lines -> Numbers \ DOMAIN table],
           AppendLines(lines, slot)
    PROVE  /\ DOMAIN table \subseteq DOMAIN table'
           /\ \A n \in DOMAIN table : table'[n] = table[n]
           /\ \A n \in DOMAIN table' \ DOMAIN table :
                 /\ n \in Numbers
                 /\ table'[n] \in lines /\ slot[table'[n]] = n
           /\ table' \in [DOMAIN table' -> {table[n] : n \in DOMAIN table} \cup lines]
<1> DEFINE new == {slot[p] : p \in lines}
<1>1. DOMAIN table' = DOMAIN table \cup new
    BY DEF AppendLines
<1>2. \A n \in DOMAIN table : table'[n] = table[n]
    BY DEF AppendLines
<1>3. ASSUME NEW n \in DOMAIN table' \ DOMAIN table
      PROVE  n \in Numbers /\ table'[n] \in lines /\ slot[table'[n]] = n
    <2>1. n \in new
        BY <1>1, <1>3
    <2>2. PICK p \in lines : slot[p] = n
        BY <2>1
    <2>3. table'[n] = CHOOSE q \in lines : slot[q] = n
        BY <1>3, <2>1 DEF AppendLines
    <2>4. table'[n] \in lines /\ slot[table'[n]] = n
        BY <2>2, <2>3
    <2>5. n \in Numbers
        BY <2>2
    <2> QED BY <2>4, <2>5
<1>4. table' = [n \in DOMAIN table' |-> table'[n]]
    BY <1>1 DEF AppendLines
<1>5. table' \in [DOMAIN table' -> {table[n] : n \in DOMAIN table} \cup lines]
    BY <1>2, <1>3, <1>4
<1> QED BY <1>1, <1>2, <1>3, <1>5

-----------------------------------------------------------------------------
(* The scripts of free_space and custom.                                   *)

LEMMA BytesAreIntegers == Bytes \subseteq Int
BY DEF Bytes

LEMMA ModuloTyped == \A x \in Int : x % Width \in Int
BY UnitsAssumption

LEMMA FreeLinesTyped ==
    ASSUME Typed
    PROVE  FreeLines \subseteq RawLines
<1>1. plan.start \in Int /\ plan.size \in Int /\ EspBytes \in Int
    BY UnitsAssumption, BytesAreIntegers DEF Typed, AllPlans
<1>2. FreeRootStart \in Int
    BY <1>1 DEF FreeRootStart
<1>3. Add(plan.start, plan.size) \in Int
    BY <1>1, ModuloTyped DEF Add
<1>4. FreeRootSize \in Int
    BY <1>2, <1>3, ModuloTyped DEF FreeRootSize, Sub
<1>5. Line(FreeRootStart, FreeRootSize, "root") \in RawLines
    BY <1>2, <1>4, LineTyped
<1>6. Line(plan.start, EspBytes, "esp") \in RawLines
    BY <1>1, LineTyped
<1> QED BY <1>5, <1>6 DEF FreeLines

LEMMA GapsTyped ==
    ASSUME Typed, NEW g \in Gaps(table)
    PROVE  g.end \in Int
<1>1. PICK r \in RawGaps(table) : g.end = AlignDown(r[2])
    BY DEF Gaps
<1>2. r[2] = UsableEnd \/ \E p \in Spans(table) : r[2] = p.start
    <2>1. CASE r = <<CursorAt(table, Spans(table)), UsableEnd>>
        BY <2>1
    <2>2. ASSUME NEW p \in Spans(table),
                 r = <<CursorAt(table, {q \in Spans(table) : Before(q, p)}), p.start>>
          PROVE  r[2] = p.start
        BY <2>2
    <2>3. \/ r = <<CursorAt(table, Spans(table)), UsableEnd>>
          \/ \E p \in Spans(table) :
                r = <<CursorAt(table, {q \in Spans(table) : Before(q, p)}), p.start>>
        BY <1>1, Zenon DEF RawGaps
    <2> QED BY <2>1, <2>2, <2>3
<1>3. \A p \in Spans(table) : p.start \in Int
    BY BytesAreIntegers DEF Spans, Typed, Parts
<1>4. r[2] \in Int
    BY <1>2, <1>3, UnitsAssumption DEF UsableEnd
<1> QED BY <1>1, <1>4, UnitsAssumption DEF AlignDown

LEMMA CreatesAreActions ==
    ASSUME Typed
    PROVE  Creates \subseteq Actions
<1>1. plan.actions \in Seq(Actions)
    BY DEF Typed, AllPlans
<1>2. \A i \in DOMAIN plan.actions : plan.actions[i] \in Actions
    BY <1>1
<1> QED BY <1>2 DEF Creates, Indices

\* The size of a root, if it is all there is of a gap.
LEMMA RootSizeTyped ==
    ASSUME Typed, NEW a \in Actions, a.do = "createRoot", CreateOk(a)
    PROVE  RootSize(a) \in Int
<1>1. a.start \in Bytes /\ a.size \in Bytes \cup {Fill}
    BY DEF Actions
<1>2. CASE a.size # Fill
    <2>1. a.size \in Int
        BY <1>1, <1>2, BytesAreIntegers
    <2> QED BY <1>2, <2>1 DEF RootSize
<1>3. CASE a.size = Fill
    <2>1. GapsAt(a.start) # {}
        BY <1>3 DEF CreateOk
    <2>2. (CHOOSE g \in GapsAt(a.start) : TRUE) \in Gaps(table)
        BY <2>1 DEF GapsAt
    <2>3. (CHOOSE g \in GapsAt(a.start) : TRUE).end \in Int
        BY <2>2, GapsTyped
    <2>4. a.start \in Int
        BY <1>1, BytesAreIntegers
    <2> QED BY <1>3, <2>3, <2>4 DEF RootSize
<1> QED BY <1>2, <1>3

LEMMA CreateLinesTyped ==
    ASSUME Typed, \A a \in Creates : CreateOk(a)
    PROVE  CreateLines \subseteq RawLines
<1> SUFFICES ASSUME NEW a \in Creates
             PROVE  LineOf(a) \in RawLines
    BY DEF CreateLines
<1>1. a \in Actions
    BY CreatesAreActions
<1>2. a.start \in Int /\ EspBytes \in Int
    <2>1. a.start \in Bytes
        BY <1>1 DEF Actions
    <2>2. a.start \in Int
        BY <2>1, BytesAreIntegers
    <2>3. EspBytes \in Int
        BY UnitsAssumption
    <2> QED BY <2>2, <2>3
<1>3. CASE a.do = "createRoot"
    BY <1>1, <1>2, <1>3, RootSizeTyped, LineTyped DEF LineOf
<1>4. CASE a.do # "createRoot"
    BY <1>2, <1>4, LineTyped DEF LineOf
<1> QED BY <1>3, <1>4

\* Both appends: the table stays a table.
LEMMA AppendTyped ==
    ASSUME Typed, NEW lines \in SUBSET RawLines, Fits(lines),
           NEW slot \in [lines -> Numbers \ DOMAIN table], AppendLines(lines, slot)
    PROVE  DOMAIN table' \subseteq Numbers /\ table' \in [DOMAIN table' -> Parts]
<1>1. lines \subseteq Parts
    BY FittingLines
<1>2. \A n \in DOMAIN table : table[n] \in Parts /\ n \in Numbers
    BY DEF Typed
<1>3. \A n \in DOMAIN table' : n \in Numbers /\ table'[n] \in Parts
    BY <1>1, <1>2, AppendEffect
<1>4. table' \in [DOMAIN table' -> {table[n] : n \in DOMAIN table} \cup lines]
    BY AppendEffect
<1> QED BY <1>3, <1>4

-----------------------------------------------------------------------------
(* Type correctness.                                                       *)

\* A reused partition: its type stamped, and its data kept or wiped.
LEMMA RestampTyped ==
    ASSUME Typed, NEW n, n \in DOMAIN table, NEW t \in {"esp", "root"},
           NEW d \in BOOLEAN, 
           table' = [table EXCEPT ![n].type = t, ![n].data = d]
    PROVE  /\ DOMAIN table' = DOMAIN table
           /\ table' \in [DOMAIN table -> Parts]
BY DEF Typed, Parts

LEMMA StampTyped ==
    ASSUME Typed, NEW n, n \in DOMAIN table, NEW t \in {"esp", "root"},
           table' = [table EXCEPT ![n].type = t]
    PROVE  /\ DOMAIN table' = DOMAIN table
           /\ table' \in [DOMAIN table -> Parts]
BY DEF Typed, Parts

\* The action under the loop's index is one of the plan's.
LEMMA ActionTyped ==
    ASSUME Typed, index \in DOMAIN plan.actions
    PROVE  /\ Action \in Actions
           /\ index + 1 \in 1..(Len(plan.actions) + 1)
<1>1. plan.actions \in Seq(Actions)
    BY DEF Typed, AllPlans
<1>2. DOMAIN plan.actions = 1..Len(plan.actions) /\ Len(plan.actions) \in Nat
    BY <1>1
<1> QED BY <1>1, <1>2 DEF Action

LEMMA ErasedTyped ==
    ASSUME EraseRoot < AlignDown(End)
    PROVE  /\ Created(AlignUp(First), EspBytes, "esp") \in Parts
           /\ Created(AlignUp(First) + EspBytes, BootBytes, "other") \in Parts
           /\ Created(EraseRoot, AlignDown(End) - EraseRoot, "other") \in Parts
<1> DEFINE a == (First + Align - 1) \div Align
           b == End \div Align
<1>1. Align \in Int /\ Align > 0 /\ First \in Nat /\ End \in Nat /\ End < Width
      /\ EspBytes \in Nat /\ EspBytes > 0 /\ BootBytes \in Nat /\ Width \in Int
    BY UnitsAssumption
<1>2. a \in Int /\ b \in Int
    BY <1>1
<1>3. a >= 0 /\ a * Align >= First
    BY <1>1, SMTT(20)
<1>4. b * Align <= End
    BY <1>1
<1>5. AlignUp(First) = a * Align /\ AlignDown(End) = b * Align
    BY DEF AlignUp, AlignDown
<1>6. AlignUp(First) \in Int /\ AlignUp(First) >= First /\ AlignDown(End) \in Int
      /\ AlignDown(End) <= End
    BY <1>1, <1>2, <1>3, <1>4, <1>5
<1> HIDE DEF a, b
<1>7. /\ AlignUp(First) \in Bytes /\ EspBytes \in Bytes
      /\ AlignUp(First) + EspBytes \in Bytes /\ BootBytes \in Bytes
      /\ EraseRoot \in Bytes /\ AlignDown(End) - EraseRoot \in Bytes
    BY <1>1, <1>6 DEF EraseRoot, Bytes
<1> QED BY <1>7 DEF Created, Parts

LEMMA PartitionTypeInit == Init => Typed
<1> SUFFICES ASSUME Init
             PROVE  Typed
    OBVIOUS
<1>1. plan \in AllPlans
    BY RequestsAssumption DEF Init
<1>2. plan.actions \in Seq(Actions)
    BY <1>1 DEF AllPlans
<1>3. index \in 1..(Len(plan.actions) + 1)
    BY <1>2 DEF Init
<1>4. /\ DOMAIN table \subseteq Numbers /\ table \in [DOMAIN table -> Parts]
      /\ DOMAIN orig \subseteq Numbers /\ orig \in [DOMAIN orig -> Parts]
    BY TablesAssumption DEF Init
<1> QED BY <1>1, <1>3, <1>4, FaultsAssumption DEF Init, Typed, PCs, Devices

LEMMA PartitionTypeNext ==
    ASSUME Typed, [Next]_vars
    PROVE  Typed'
<1> USE DEF GoTo, Return, Refuse, outcome, PCs
<1> DEFINE TableOK == DOMAIN table \subseteq Numbers /\ table \in [DOMAIN table -> Parts]
<1>0. TableOK
    BY DEF Typed
<1>1. CASE UNCHANGED vars
    BY <1>1 DEF Typed, vars
<1>2. CASE Start
    BY <1>2 DEF Typed, Start, AllPlans
<1>3. CASE Erase
    <2>1. DOMAIN table' = 1..3
        BY <1>3 DEF Erase
    <2>2. \A n \in 1..3 : table'[n] \in Parts
        BY <1>3, ErasedTyped DEF Erase
    <2>3. table' = [n \in 1..3 |-> table'[n]]
        BY <1>3 DEF Erase
    <2>4. table' \in [DOMAIN table' -> Parts]
        BY <2>1, <2>2, <2>3
    <2>5. DOMAIN table' \subseteq Numbers
        BY <2>1, NumbersAssumption
    <2> QED BY <1>3, <2>4, <2>5 DEF Typed, Erase
<1>4. CASE StampErased
    <2>1. DOMAIN table' \subseteq Numbers /\ table' \in [DOMAIN table' -> Parts]
        BY <1>4 DEF Typed, StampErased, Parts
    <2>2. 1 \in Devices \ {0} /\ 3 \in Devices \ {0}
        BY NumbersAssumption DEF Devices
    <2> QED BY <1>4, <2>1, <2>2 DEF Typed, StampErased
<1>5. CASE RefuseFree \/ RefuseDeletes \/ RefuseCreates \/ RefuseUse
    BY <1>5 DEF Typed, RefuseFree, RefuseDeletes, RefuseCreates, RefuseUse
<1>6. CASE AppendFree
    <2>1. DOMAIN table' \subseteq Numbers /\ table' \in [DOMAIN table' -> Parts]
        BY <1>6, FreeLinesTyped, AppendTyped DEF AppendFree
    <2>2. esp' \in Devices /\ formatEsp' \in BOOLEAN
        BY <1>6 DEF AppendFree, FirstEsps, Esps, Devices, Typed
    <2> QED BY <1>6, <2>1, <2>2 DEF Typed, AppendFree
<1>7. CASE ResolveFree
    <2>1. CASE Refuse
        BY <1>7, <2>1 DEF Typed, ResolveFree
    <2>2. CASE ~Refuse
        <3>1. root' \in Numbers /\ esp' \in Devices
            BY <1>7, <2>2 DEF Typed, ResolveFree, PartitionAt, Devices
        <3> QED BY <1>7, <2>2, <3>1 DEF Typed, ResolveFree, Devices
    <2> QED BY <2>1, <2>2
<1>8. CASE DeletePartitions
    <2>1. DOMAIN table' \subseteq Numbers /\ table' \in [DOMAIN table' -> Parts]
        BY <1>8 DEF Typed, DeletePartitions
    <2> QED BY <1>8, <2>1 DEF Typed, DeletePartitions
<1>9. CASE AppendCustom
    <2>1. DOMAIN table' \subseteq Numbers /\ table' \in [DOMAIN table' -> Parts]
        <3>1. CASE Creates = {}
            BY <1>0, <1>9, <3>1 DEF AppendCustom
        <3>2. CASE Creates # {}
            BY <1>9, <3>2, CreateLinesTyped, AppendTyped DEF AppendCustom
        <3> QED BY <3>1, <3>2
    <2> QED BY <1>9, <2>1 DEF Typed, AppendCustom
<1>10. CASE ResolveCreated
    <2>1. CASE Refuse
        BY <1>10, <2>1 DEF Typed, ResolveCreated
    <2>2. CASE ~Refuse
        <3>1. root' \in Devices /\ esp' \in Devices
            BY <1>10, <2>2 DEF Typed, ResolveCreated, FoundAt, PartitionAt, Devices
        <3> QED BY <1>10, <2>2, <3>1 DEF Typed, ResolveCreated
    <2> QED BY <2>1, <2>2
<1>11. CASE SkipAction
    BY <1>11, ActionTyped DEF Typed, SkipAction
<1>12. CASE UseAsRoot
    <2>1. Action \in Actions /\ index + 1 \in 1..(Len(plan.actions) + 1)
        BY <1>12, ActionTyped DEF UseAsRoot, AtUse
    <2>2. DOMAIN table' = DOMAIN table /\ table' \in [DOMAIN table -> Parts]
        BY <1>12, RestampTyped DEF UseAsRoot, RootUsable
    <2>3. root' \in Devices
        BY <1>12, <2>1 DEF UseAsRoot, Actions
    <2> QED BY <1>0, <1>12, <2>1, <2>2, <2>3 DEF Typed, UseAsRoot
<1>13. CASE UseAsEsp
    <2>1. Action \in Actions /\ index + 1 \in 1..(Len(plan.actions) + 1)
        BY <1>13, ActionTyped DEF UseAsEsp, AtUse
    <2>2. DOMAIN table' = DOMAIN table /\ table' \in [DOMAIN table -> Parts]
        <3> DEFINE d == table[Action.dev].data /\ ~Action.format
        <3>1. d \in BOOLEAN
            OBVIOUS
        <3>2. table' = [table EXCEPT ![Action.dev].type = "esp", ![Action.dev].data = d]
            BY <1>13 DEF UseAsEsp
        <3>3. Action.dev \in DOMAIN table
            BY <1>13 DEF UseAsEsp, EspUsable
        <3> HIDE DEF d
        <3> QED BY <3>1, <3>2, <3>3, RestampTyped
    <2>3. esp' \in Devices /\ formatEsp' \in BOOLEAN
        BY <1>13, <2>1 DEF UseAsEsp, Actions
    <2> QED BY <1>0, <1>13, <2>1, <2>2, <2>3 DEF Typed, UseAsEsp
<1>14. CASE Finish
    BY <1>14 DEF Typed, Finish
<1>15. CASE CommandRefuses
    BY <1>15 DEF Typed, CommandRefuses
<1>16. CASE CommandFails
    <2>1. DOMAIN table' \subseteq Numbers /\ table' \in [DOMAIN table' -> Parts]
        <3>1. CASE table' = <<>>
            BY <3>1
        <3>2. CASE UNCHANGED table
            BY <1>0, <3>2
        <3>3. CASE AtUse("useRoot") /\ RootUsable
                   /\ table' = [table EXCEPT ![Action.dev].type = "root"]
            BY <1>0, <3>3, StampTyped DEF RootUsable
        <3>4. CASE AtUse("useEsp") /\ EspUsable
                   /\ table' = [table EXCEPT ![Action.dev].type = "esp"]
            BY <1>0, <3>4, StampTyped DEF EspUsable
        <3> QED BY <1>16, <3>1, <3>2, <3>3, <3>4 DEF CommandFails, FailsLeaving
    <2>2. label' \in {label, "none"} /\ faults' \in 0..MaxFaults
        BY <1>16, FaultsAssumption DEF CommandFails, Typed
    <2> QED BY <1>16, <2>1, <2>2 DEF Typed, CommandFails
<1> QED
    BY <1>1, <1>2, <1>3, <1>4, <1>5, <1>6, <1>7, <1>8, <1>9, <1>10, <1>11, <1>12,
       <1>13, <1>14, <1>15, <1>16 DEF Next

-----------------------------------------------------------------------------
(* Where run() is, given the plan it follows.                              *)

\* Each stage belongs to one mode; a plan that is followed has been validated,
\* and there is no result before the return.
Staged ==
    /\ pc \in {"erase", "stamp"} => plan.mode = "erase"
    /\ pc \in {"free", "resolveFree"} => plan.mode = "free"
    /\ pc \in {"custom", "create", "resolve", "use"} => plan.mode = "custom" /\ Validate(plan)
    /\ pc # "returned" => result = "none"

LEMMA StagedNext ==
    ASSUME Typed, Staged, [Next]_vars
    PROVE  Staged'
<1> USE DEF Staged, GoTo, Return, Refuse
<1>1. CASE UNCHANGED vars
    <2>1. plan' = plan /\ pc' = pc /\ result' = result
        BY <1>1 DEF vars
    <2> QED BY <2>1
<1>2. CASE Start
    <2>1. plan.mode \in {"erase", "free", "custom"}
        BY DEF Typed, AllPlans
    <2> QED BY <1>2, <2>1 DEF Start
<1>3. CASE Erase \/ StampErased \/ RefuseFree \/ AppendFree \/ ResolveFree
    BY <1>3 DEF Erase, StampErased, RefuseFree, AppendFree, ResolveFree
<1>4. CASE RefuseDeletes \/ DeletePartitions \/ RefuseCreates \/ AppendCustom \/ ResolveCreated
    BY <1>4 DEF RefuseDeletes, DeletePartitions, RefuseCreates, AppendCustom, ResolveCreated
<1>5. CASE SkipAction \/ RefuseUse \/ UseAsRoot \/ UseAsEsp \/ Finish
    BY <1>5 DEF SkipAction, RefuseUse, UseAsRoot, UseAsEsp, Finish, AtUse
<1>6. CASE CommandRefuses \/ CommandFails
    BY <1>6 DEF CommandRefuses, CommandFails
<1> QED BY <1>1, <1>2, <1>3, <1>4, <1>5, <1>6 DEF Next

-----------------------------------------------------------------------------
(* The devices of the PartitionSet.                                        *)

\* What has been resolved or reused so far is set: the created partitions
\* before the loop, the reused ones as the loop passes them.
Resolved ==
    /\ pc \notin {"use", "returned"} => index = 1
    /\ pc = "resolveFree" => formatEsp \/ esp # 0
    /\ pc = "use" => \A i \in DOMAIN plan.actions :
          /\ plan.actions[i].do = "createRoot" => root # 0
          /\ plan.actions[i].do = "createEsp" => esp # 0
          /\ plan.actions[i].do = "useRoot" /\ i < index => root # 0
          /\ plan.actions[i].do = "useEsp" /\ i < index => esp # 0

LEMMA OneOfEach ==
    ASSUME Typed, Staged, pc = "use"
    PROVE  /\ \E i \in DOMAIN plan.actions : plan.actions[i].do \in {"useRoot", "createRoot"}
           /\ \E i \in DOMAIN plan.actions : plan.actions[i].do \in {"useEsp", "createEsp"}
<1>1. /\ Cardinality(Indices(plan, {"useRoot", "createRoot"})) = 1
      /\ Cardinality(Indices(plan, {"useEsp", "createEsp"})) = 1
    BY DEF Staged, Validate
<1>2. /\ Indices(plan, {"useRoot", "createRoot"}) # {}
      /\ Indices(plan, {"useEsp", "createEsp"}) # {}
    BY <1>1, FS_EmptySet
<1> QED BY <1>2 DEF Indices

\* A partition of the table has a number other than 0.
LEMMA TableNumbers ==
    ASSUME Typed
    PROVE  0 \notin DOMAIN table
BY NumbersAssumption DEF Typed

LEMMA ResolvedNext ==
    ASSUME Typed, Staged, Resolved, [Next]_vars
    PROVE  Resolved'
<1> USE DEF GoTo, Return, Refuse, outcome
<1>1. CASE UNCHANGED vars
    BY <1>1 DEF vars, Resolved
<1>2. CASE Start \/ Erase \/ StampErased \/ RefuseFree \/ ResolveFree
    BY <1>2 DEF Start, Erase, StampErased, RefuseFree, ResolveFree, Resolved, Typed,
                AllPlans
<1>3. CASE AppendFree
    BY <1>3, TableNumbers DEF AppendFree, FirstEsps, Esps, Resolved
<1>4. CASE RefuseDeletes \/ DeletePartitions \/ RefuseCreates \/ AppendCustom
    BY <1>4 DEF RefuseDeletes, DeletePartitions, RefuseCreates, AppendCustom, Resolved
<1>5. CASE ResolveCreated
    <2>1. CASE pc' = "use"
        <3>1. plan' = plan /\ index' = index
            BY <1>5, <2>1 DEF ResolveCreated
        <3>2. 0 \notin FoundAt("createRoot") \cup FoundAt("createEsp")
            BY TableNumbers DEF FoundAt, PartitionAt
        <3>3. index = 1
            BY <1>5 DEF ResolveCreated, Resolved
        <3>4. ASSUME NEW i \in DOMAIN plan.actions
              PROVE  /\ plan.actions[i].do = "createRoot" => root' # 0
                     /\ plan.actions[i].do = "createEsp" => esp' # 0
                     /\ ~(i < 1)
            <4>1. i \in Nat \ {0}
                BY DEF Typed, AllPlans
            <4>2. /\ plan.actions[i].do = "createRoot" => CreatedAt("createRoot") # {}
                  /\ plan.actions[i].do = "createEsp" => CreatedAt("createEsp") # {}
                BY DEF CreatedAt, Creates, Indices
            <4>3. /\ CreatedAt("createRoot") # {} => root' # 0
                  /\ CreatedAt("createEsp") # {} => esp' # 0
                BY <1>5, <2>1, <3>2 DEF ResolveCreated
            <4> QED BY <4>1, <4>2, <4>3
        <3> QED BY <2>1, <3>1, <3>3, <3>4 DEF Resolved
    <2>2. CASE pc' # "use"
        <3>1. pc' = "returned"
            BY <1>5, <2>2 DEF ResolveCreated
        <3> QED BY <3>1 DEF Resolved
    <2> QED BY <2>1, <2>2
<1>6. CASE SkipAction \/ UseAsRoot \/ UseAsEsp
    <2>1. pc = "use" /\ pc' = "use" /\ plan' = plan /\ index' = index + 1
        BY <1>6 DEF SkipAction, UseAsRoot, UseAsEsp, AtUse
    <2>2. \A i \in DOMAIN plan.actions : i < index + 1 => i < index \/ i = index
        BY DEF Typed, AllPlans
    <2>3. CASE SkipAction
        BY <2>1, <2>2, <2>3 DEF SkipAction, Resolved, Action
    <2>4. CASE UseAsRoot
        <3>1. root' # 0 /\ esp' = esp /\ Action.do = "useRoot"
            BY <2>4, TableNumbers DEF UseAsRoot, RootUsable, AtUse
        <3> QED BY <2>1, <2>2, <3>1 DEF Resolved, Action
    <2>5. CASE UseAsEsp
        <3>1. esp' # 0 /\ root' = root /\ Action.do = "useEsp"
            BY <2>5, TableNumbers DEF UseAsEsp, EspUsable, AtUse
        <3> QED BY <2>1, <2>2, <3>1 DEF Resolved, Action
    <2> QED BY <1>6, <2>3, <2>4, <2>5
<1>7. CASE RefuseUse \/ Finish \/ CommandRefuses \/ CommandFails
    BY <1>7 DEF RefuseUse, Finish, CommandRefuses, CommandFails, Resolved
<1> QED
    BY <1>1, <1>2, <1>3, <1>4, <1>5, <1>6, <1>7 DEF Next

LEMMA SetCompleteNext ==
    ASSUME Typed, Staged, Resolved, SetComplete, [Next]_vars
    PROVE  SetComplete'
<1> USE DEF GoTo, Return, Refuse, outcome, SetComplete
<1>1. CASE UNCHANGED vars
    BY <1>1 DEF vars
<1>2. CASE Start \/ Erase \/ RefuseFree \/ AppendFree \/ RefuseDeletes
           \/ DeletePartitions \/ RefuseCreates \/ AppendCustom
    BY <1>2 DEF Start, Erase, RefuseFree, AppendFree, RefuseDeletes,
                DeletePartitions, RefuseCreates, AppendCustom, Staged
<1>3. CASE StampErased
    BY <1>3 DEF StampErased
<1>4. CASE ResolveFree
    <2>1. \A start : 0 \notin PartitionAt(start)
        BY TableNumbers DEF PartitionAt
    <2> QED BY <1>4, <2>1 DEF ResolveFree, Resolved
<1>5. CASE ResolveCreated \/ SkipAction \/ RefuseUse \/ UseAsRoot \/ UseAsEsp
           \/ CommandRefuses \/ CommandFails
    BY <1>5 DEF ResolveCreated, SkipAction, RefuseUse, UseAsRoot, UseAsEsp, AtUse,
                CommandRefuses, CommandFails, Staged
<1>6. CASE Finish
    <2>1. \A i \in DOMAIN plan.actions : i < index
        BY <1>6 DEF Finish, Typed, AllPlans
    <2>2. esp # 0 /\ root # 0
        BY <1>6, <2>1, OneOfEach DEF Finish, Resolved
    <2> QED BY <1>6, <2>2 DEF Finish
<1> QED BY <1>1, <1>2, <1>3, <1>4, <1>5, <1>6 DEF Next

-----------------------------------------------------------------------------
(* What is not named is left alone, what is mounted stays.                 *)

\* The table is the one the call found until the first command; once the disk
\* is erased, nothing on it was mounted.
Untouched ==
    /\ pc \in {"ready", "erase", "free", "custom"} => table = orig
    /\ pc = "stamp" => \A n \in DOMAIN orig : ~orig[n].mounted

Kept == OthersLeftAlone /\ MountedKept

\* A step that leaves the partitions there are, whatever it adds.
LEMMA GrowthKeeps ==
    ASSUME Kept, UNCHANGED <<plan, orig>>,
           \A n \in DOMAIN table : n \in DOMAIN table' /\ table'[n] = table[n]
    PROVE  Kept'
<1>1. MountedKept'
    BY DEF Kept, MountedKept
<1>2. OthersLeftAlone'
    BY DEF Kept, OthersLeftAlone, Referenced, References, Overwritten, Indices
<1> QED BY <1>1, <1>2 DEF Kept

\* A reused partition is named, was not mounted, and loses its data only to an
\* action that overwrites it.
LEMMA ReuseKeeps ==
    ASSUME Typed, Staged, Kept, UNCHANGED <<plan, orig>>, pc = "use",
           index \in DOMAIN plan.actions, Action.do \in {"useRoot", "useEsp"},
           Action.dev \in DOMAIN table, ~table[Action.dev].mounted,
           DOMAIN table' = DOMAIN table,
           \A n \in DOMAIN table : n # Action.dev => table'[n] = table[n],
           /\ table'[Action.dev].start = table[Action.dev].start
           /\ table'[Action.dev].size = table[Action.dev].size,
           \/ table'[Action.dev].data = table[Action.dev].data
           \/ Action.do = "useRoot" \/ Action.format
    PROVE  Kept'
<1>1. plan.mode = "custom"
    BY DEF Staged
<1>2. Action.dev \in Referenced(plan)
    BY DEF Action, Referenced, References, Indices
<1>3. \/ Action.dev \in Overwritten
      \/ table'[Action.dev].data = table[Action.dev].data
    BY DEF Action, Overwritten, References, Indices
<1>4. MountedKept'
    BY DEF Kept, MountedKept
<1>5. Referenced(plan)' = Referenced(plan) /\ Overwritten' = Overwritten
    BY DEF Referenced, References, Overwritten, Indices
<1>6. OthersLeftAlone'
    BY <1>1, <1>2, <1>3, <1>5 DEF Kept, OthersLeftAlone
<1> QED BY <1>4, <1>6 DEF Kept

LEMMA KeptNext ==
    ASSUME Typed, Staged, Untouched, Kept, [Next]_vars
    PROVE  Untouched' /\ Kept'
<1> USE DEF GoTo, Return, Refuse
<1>1. CASE UNCHANGED <<table, plan, orig>> /\ pc' \notin {"ready", "erase", "free", "custom", "stamp"}
    BY <1>1, GrowthKeeps DEF Untouched
<1>2. CASE UNCHANGED vars
    BY <1>2, GrowthKeeps DEF Untouched, vars
<1>3. CASE Start
    <2>1. Kept'
        BY <1>3, GrowthKeeps DEF Start
    <2>2. table = orig /\ table' = orig' /\ pc' # "stamp"
        BY <1>3 DEF Start, Untouched, Typed, AllPlans
    <2> QED BY <2>1, <2>2 DEF Untouched
<1>4. CASE Erase
    <2>1. \A n \in DOMAIN orig : ~orig[n].mounted
        BY <1>4 DEF Erase, InUse, Untouched
    <2>2. Untouched'
        BY <1>4, <2>1 DEF Erase, Untouched
    <2>3. Kept'
        BY <1>4, <2>1 DEF Erase, Staged, Kept, OthersLeftAlone, MountedKept
    <2> QED BY <2>2, <2>3
<1>5. CASE StampErased
    BY <1>5 DEF StampErased, Untouched, Staged, Kept, OthersLeftAlone, MountedKept
<1>6. CASE AppendFree
    BY <1>6, AppendEffect, GrowthKeeps DEF AppendFree, Untouched
<1>7. CASE DeletePartitions
    <2>1. Deleted \subseteq Referenced(plan) /\ Deleted \subseteq Overwritten
        BY DEF Deleted, Referenced, References, Overwritten, Indices
    <2>2. /\ plan' = plan /\ orig' = orig /\ table = orig /\ plan.mode = "custom"
          /\ pc' = "create" /\ table' = [n \in DOMAIN table \ Deleted |-> table[n]]
          /\ \A n \in Deleted : ~table[n].mounted
        BY <1>7 DEF DeletePartitions, DeletesOk, Untouched, Staged
    <2>3. MountedKept'
        BY <2>2 DEF MountedKept
    <2>4. Referenced(plan)' = Referenced(plan) /\ Overwritten' = Overwritten
        BY <2>2 DEF Referenced, References, Overwritten, Indices
    <2>5. OthersLeftAlone'
        BY <2>1, <2>2, <2>4 DEF OthersLeftAlone
    <2> QED BY <2>2, <2>3, <2>5 DEF Untouched, Kept
<1>8. CASE AppendCustom
    <2>1. \A n \in DOMAIN table : n \in DOMAIN table' /\ table'[n] = table[n]
        BY <1>8, AppendEffect DEF AppendCustom
    <2> QED BY <1>8, <2>1, GrowthKeeps DEF AppendCustom, Untouched
<1>9. CASE UseAsRoot
    BY <1>9, ReuseKeeps DEF UseAsRoot, AtUse, RootUsable, Untouched, Typed, Parts
<1>10. CASE UseAsEsp
    BY <1>10, ReuseKeeps DEF UseAsEsp, AtUse, EspUsable, Untouched, Typed, Parts
<1>11. CASE CommandFails
    <2>1. Untouched' /\ plan' = plan /\ orig' = orig
        BY <1>11 DEF CommandFails, Untouched
    <2>2. CASE pc = "erase" /\ ~InUse
        BY <2>1, <2>2 DEF InUse, Untouched, Staged, Kept, OthersLeftAlone, MountedKept
    <2>3. CASE UNCHANGED table
        BY <2>1, <2>3, GrowthKeeps
    <2>4. CASE AtUse("useRoot") /\ RootUsable
               /\ table' = [table EXCEPT ![Action.dev].type = "root"]
        BY <2>1, <2>4, ReuseKeeps DEF AtUse, RootUsable, Typed, Parts
    <2>5. CASE AtUse("useEsp") /\ EspUsable
               /\ table' = [table EXCEPT ![Action.dev].type = "esp"]
        BY <2>1, <2>5, ReuseKeeps DEF AtUse, EspUsable, Typed, Parts
    <2> QED BY <1>11, <2>1, <2>2, <2>3, <2>4, <2>5 DEF CommandFails, FailsLeaving
<1>12. CASE RefuseFree \/ ResolveFree \/ RefuseDeletes \/ RefuseCreates \/ ResolveCreated
    BY <1>1, <1>12 DEF RefuseFree, ResolveFree, RefuseDeletes, RefuseCreates, ResolveCreated
<1>13. CASE SkipAction \/ RefuseUse \/ Finish \/ CommandRefuses
    BY <1>1, <1>13 DEF SkipAction, RefuseUse, Finish, CommandRefuses, AtUse
<1> QED
    BY <1>2, <1>3, <1>4, <1>5, <1>6, <1>7, <1>8, <1>9, <1>10, <1>11, <1>12, <1>13 DEF Next

-----------------------------------------------------------------------------
(* The theorems on what a plan may touch.                                  *)

PlanInv == Typed /\ Staged /\ Resolved /\ SetComplete /\ Untouched /\ Kept

LEMMA PlanInvInit == Init => PlanInv
<1> SUFFICES ASSUME Init
             PROVE  PlanInv
    OBVIOUS
<1>1. Typed
    BY PartitionTypeInit
<1>2. Staged /\ Resolved /\ SetComplete /\ Untouched
    BY DEF Init, Staged, Resolved, SetComplete, Untouched
<1>3. Kept
    BY DEF Init, Kept, OthersLeftAlone, MountedKept
<1> QED BY <1>1, <1>2, <1>3 DEF PlanInv

\* The inductive invariant holds in every reachable state.
THEOREM PlanInvHolds == Spec => []PlanInv
<1>1. PlanInv /\ [Next]_vars => PlanInv'
    BY PartitionTypeNext, StagedNext, ResolvedNext, SetCompleteNext, KeptNext DEF PlanInv
<1> QED BY PlanInvInit, <1>1, PTL DEF Spec

\* The state is well typed, for every disk, plan and request, and Ok comes with
\* both devices set (run() returns a PartitionSet without a hole).
THEOREM PlanTypeCorrect == Spec => []TypeOK
<1>1. PlanInv => TypeOK
    BY DEF PlanInv, TypeOK
<1> QED BY PlanInvHolds, <1>1, PTL

\* No plan changes a partition it does not name, or the data of one it only
\* reuses as ESP, on any path through free_space and custom, refused and failed
\* ones included.
THEOREM OthersStay == Spec => []OthersLeftAlone
<1>1. PlanInv => OthersLeftAlone
    BY DEF PlanInv, Kept
<1> QED BY PlanInvHolds, <1>1, PTL

\* Nor does any plan change a partition that was mounted when run() began.
THEOREM MountedStay == Spec => []MountedKept
<1>1. PlanInv => MountedKept
    BY DEF PlanInv, Kept
<1> QED BY PlanInvHolds, <1>1, PTL

-----------------------------------------------------------------------------
(* Rounding to whole sectors.                                              *)

LEMMA Division ==
    ASSUME NEW x \in Int, NEW d \in Int, d > 0
    PROVE  /\ x \div d \in Int /\ (x \div d) * d \in Int
           /\ (x \div d) * d <= x /\ x < (x \div d) * d + d
           /\ ((x \div d) * d) % d = 0
           /\ x % d = 0 => (x \div d) * d = x
<1>1. x \div d \in Int
    OBVIOUS
<1>2. (x \div d) * d <= x /\ x < (x \div d) * d + d
    BY SMTT(60)
<1>3. x % d = 0 => (x \div d) * d = x
    BY SMTT(60)
<1>4. (x \div d) * d \in Int
    BY <1>1
<1>5. \A q \in Int : (q * d) % d = 0
    BY SMTT(60)
<1> QED BY <1>1, <1>2, <1>3, <1>4, <1>5

LEMMA SectorsWhole ==
    ASSUME NEW x \in Int
    PROVE  /\ Sectors(x) \in Int /\ Sectors(x) % Sector = 0
           /\ x % Sector = 0 => Sectors(x) = x
<1>1. Sector \in Int /\ Sector > 0
    BY UnitsAssumption
<1> QED BY <1>1, Division DEF Sectors

\* A size that is enough is still enough in whole sectors.
LEMMA SectorsEnough ==
    ASSUME NEW x \in Int, NEW m \in Int, m % Sector = 0, x >= m
    PROVE  Sectors(x) >= m
<1>1. Sector \in Int /\ Sector > 0
    BY UnitsAssumption
<1> DEFINE q == x \div Sector
           k == m \div Sector
<1>2. q \in Int /\ k \in Int
    BY <1>1, Division
<1>3. m = k * Sector /\ x < q * Sector + Sector
    BY <1>1, Division
<1>4. Sectors(x) = q * Sector
    BY DEF Sectors
<1> HIDE DEF q, k
<1>5. q >= k
    <2> SUFFICES ASSUME q + 1 <= k
                 PROVE  FALSE
        BY <1>2
    <2>1. (q + 1) * Sector <= k * Sector
        BY <1>1, <1>2
    <2>2. (q + 1) * Sector = q * Sector + Sector
        BY <1>1, <1>2
    <2> QED BY <1>1, <1>2, <1>3, <2>1, <2>2
<1>6. q * Sector >= k * Sector
    BY <1>1, <1>2, <1>5
<1> QED BY <1>3, <1>4, <1>6

-----------------------------------------------------------------------------
(* The PartitionSet: its inductive invariant.                              *)

\* The partitions a plan reuses, and the case that SetIsSound is about.
Reused == {plan.actions[i].dev : i \in Indices(plan, {"useRoot", "useEsp"})}
Existing == plan.mode = "custom" => Referenced(plan) \subseteq DOMAIN orig

\* Partition n can be handed on as root; or as ESP, to be formatted if f.
RootReady(n) ==
    /\ n \in DOMAIN table /\ table[n].type = "root"
    /\ ~table[n].data /\ ~table[n].mounted
    /\ table[n].size >= RootMin
EspReady(n, f) ==
    /\ n \in DOMAIN table /\ table[n].type = "esp"
    /\ f <=> ~table[n].data

\* The disk the call found, and what was deleted from it.
Found ==
    /\ \A n \in DOMAIN orig : /\ orig[n].start % Sector = 0
                              /\ orig[n].size > 0 /\ orig[n].data
    /\ pc = "create" => table = [n \in DOMAIN orig \ Deleted |-> orig[n]]

\* An ESP is to be formatted unless one that is kept has been met.
Formatting == pc \in {"ready", "custom", "create", "resolve"} => formatEsp

Erased ==
    pc = "stamp" =>
        /\ 3 \in DOMAIN table /\ ~table[3].data /\ ~table[3].mounted
        /\ EspReady(1, TRUE)

\* What has a created partition's start is that partition.
FreeFound ==
    pc = "resolveFree" =>
        /\ \A n \in PartitionAt(IF formatEsp THEN plan.start + EspBytes ELSE plan.start) :
              RootReady(n)
        /\ formatEsp => \A n \in PartitionAt(plan.start) : EspReady(n, TRUE)
        /\ ~formatEsp => EspReady(esp, FALSE)

CreatesFound ==
    pc = "resolve" /\ Existing =>
        \A a \in Creates : \A n \in PartitionAt(a.start) :
            /\ n \notin Reused
            /\ a.do = "createRoot" => RootReady(n)
            /\ a.do = "createEsp" => EspReady(n, TRUE)

\* The devices so far: the created ones before the loop, the reused ones as the
\* loop passes them.
SoFar(i) ==
    /\ plan.actions[i].do = "createRoot" => RootReady(root) /\ root \notin Reused
    /\ plan.actions[i].do = "createEsp" => EspReady(esp, formatEsp) /\ esp \notin Reused
    /\ plan.actions[i].do = "useRoot" /\ i < index =>
          RootReady(root) /\ root = plan.actions[i].dev
    /\ plan.actions[i].do = "useEsp" /\ i < index =>
          EspReady(esp, formatEsp) /\ esp = plan.actions[i].dev

UsedSoFar == pc = "use" /\ Existing => \A i \in DOMAIN plan.actions : SoFar(i)

SetInv ==
    /\ Found /\ Formatting /\ Erased /\ FreeFound /\ CreatesFound /\ UsedSoFar
    /\ SetIsSound

-----------------------------------------------------------------------------
(* What is found by its start after an append.                             *)

\* On a table of whole sectors, a partition that starts where a line was asked to
\* start is that line, under a number that was free.
LEMMA FoundIsCreated ==
    ASSUME Typed, \A n \in DOMAIN table : table[n].start % Sector = 0 /\ table[n].size > 0,
           NEW lines \in SUBSET RawLines, Fits(lines),
           \A p \in lines : p.start % Sector = 0,
           NEW slot \in [lines -> Numbers \ DOMAIN table], AppendLines(lines, slot),
           NEW start \in Int, NEW size \in Int, NEW type \in {"esp", "root"},
           Line(start, size, type) \in lines,
           NEW n \in PartitionAt(start)'
    PROVE  /\ n \in DOMAIN table' /\ n \notin DOMAIN table
           /\ table'[n] = Line(start, size, type)
<1> DEFINE line == Line(start, size, type)
<1>1. n \in DOMAIN table' /\ table'[n].start = start
    BY DEF PartitionAt
<1>2. line \in RawLines /\ line.start = Sectors(start) /\ line.size > 0
    BY LineTyped DEF Line, Created, Fits
<1>3. table'[n] \in lines \/ (n \in DOMAIN table /\ table'[n] = table[n])
    BY <1>1, AppendEffect
<1>4. start % Sector = 0
    BY <1>1, <1>3
<1>5. line.start = start
    BY <1>2, <1>4, SectorsWhole
<1>6. line \in lines /\ line.start \in Int /\ line.size \in Int
    BY <1>2 DEF RawLines
<1> HIDE DEF line
<1>7. n \notin DOMAIN table
    <2> SUFFICES ASSUME n \in DOMAIN table
                 PROVE  FALSE
        OBVIOUS
    <2>1. table[n].start = start /\ table[n].size > 0
        BY <1>1, AppendEffect
    <2>2. table[n].start \in Int /\ table[n].size \in Int
        BY BytesAreIntegers DEF Typed, Parts
    <2>3. Disjoint(line, table[n])
        BY <1>6 DEF Fits
    <2> QED BY <1>2, <1>5, <1>6, <2>1, <2>2, <2>3 DEF Disjoint, EndOf
<1>8. table'[n] \in lines
    BY <1>3, <1>7
<1>9. table'[n] = line
    <2> SUFFICES ASSUME table'[n] # line
                 PROVE  FALSE
        OBVIOUS
    <2>1. Disjoint(table'[n], line) /\ table'[n].size > 0
        BY <1>6, <1>8 DEF Fits
    <2>2. table'[n].start \in Int /\ table'[n].size \in Int
        BY <1>8 DEF RawLines
    <2> QED BY <1>1, <1>2, <1>5, <1>6, <2>1, <2>2 DEF Disjoint, EndOf
<1> QED BY <1>1, <1>7, <1>9 DEF line

\* A line is a partition that can be handed on.
LEMMA LineReady ==
    ASSUME NEW start \in Int, NEW size \in Int, NEW n \in DOMAIN table'
    PROVE  /\ table'[n] = Line(start, size, "root") /\ size >= RootMin => RootReady(n)'
           /\ table'[n] = Line(start, size, "esp") => EspReady(n, TRUE)'
<1>1. RootMin \in Int /\ RootMin % Sector = 0
    BY UnitsAssumption
<1>2. size >= RootMin => Sectors(size) >= RootMin
    BY <1>1, SectorsEnough
<1> QED BY <1>2 DEF Line, Created, RootReady, EspReady

LEMMA FreeAppended ==
    ASSUME PlanInv, SetInv, AppendFree
    PROVE  FreeFound'
<1> USE DEF AppendFree, GoTo
<1>1. Typed /\ table = orig /\ plan' = plan
    BY DEF PlanInv, Untouched
<1>2. \A n \in DOMAIN table : table[n].start % Sector = 0 /\ table[n].size > 0 /\ table[n].data
    BY <1>1 DEF SetInv, Found
<1>3. PICK slot \in [FreeLines -> Numbers \ DOMAIN table] : AppendLines(FreeLines, slot)
    OBVIOUS
<1>4. plan.start \in Int /\ plan.size \in Int /\ EspBytes \in Int
    BY <1>1, UnitsAssumption, BytesAreIntegers DEF Typed, AllPlans
<1>5. FreeRootStart \in Int /\ FreeRootSize \in Int
    <2>1. FreeRootStart \in Int
        BY <1>4 DEF FreeRootStart
    <2>2. Add(plan.start, plan.size) \in Int
        BY <1>4, ModuloTyped DEF Add
    <2> QED BY <2>1, <2>2, ModuloTyped DEF FreeRootSize, Sub
<1>6. PICK espStart \in Int, rootStart \in Int, rootSize \in Int :
         espStart = plan.start /\ rootStart = FreeRootStart /\ rootSize = FreeRootSize
    BY <1>4, <1>5
<1>7. PICK lines \in SUBSET RawLines : lines = FreeLines
    BY <1>1, FreeLinesTyped
<1>8. Fits(lines) /\ slot \in [lines -> Numbers \ DOMAIN table] /\ AppendLines(lines, slot)
    BY <1>3, <1>7
<1>9. /\ Line(rootStart, rootSize, "root") \in lines
      /\ formatEsp' => Line(espStart, EspBytes, "esp") \in lines
      /\ \A p \in lines : p.start % Sector = 0
    <2>1. Sectors(rootStart) % Sector = 0 /\ Sectors(espStart) % Sector = 0
        BY SectorsWhole
    <2>2. lines = {Line(rootStart, rootSize, "root")}
                  \cup (IF formatEsp' THEN {Line(espStart, EspBytes, "esp")} ELSE {})
        BY <1>6, <1>7 DEF FreeLines
    <2> QED BY <2>1, <2>2 DEF Line, Created
<1>10. rootSize >= RootMin
    BY <1>6 DEF FreePlanOk
<1>11. ASSUME NEW n \in PartitionAt(rootStart)'
       PROVE  RootReady(n)'
    <2>1. n \in DOMAIN table' /\ table'[n] = Line(rootStart, rootSize, "root")
        BY <1>1, <1>2, <1>8, <1>9, <1>11, FoundIsCreated
    <2> QED BY <1>10, <2>1, LineReady
<1>12. ASSUME formatEsp', NEW n \in PartitionAt(espStart)'
       PROVE  EspReady(n, TRUE)'
    <2>1. n \in DOMAIN table' /\ table'[n] = Line(espStart, EspBytes, "esp")
        BY <1>1, <1>2, <1>4, <1>8, <1>9, <1>12, FoundIsCreated
    <2> QED BY <1>4, <2>1, LineReady
<1>13. ASSUME ~formatEsp'
       PROVE  EspReady(esp, FALSE)'
    <2>1. esp' \in FirstEsps
        BY <1>13
    <2>2. esp' \in DOMAIN table /\ table[esp'].type = "esp" /\ table[esp'].data
        BY <1>2, <2>1 DEF FirstEsps, Esps
    <2>3. esp' \in DOMAIN table' /\ table'[esp'] = table[esp']
        BY <1>3, <2>2, AppendEffect
    <2> QED BY <2>2, <2>3 DEF EspReady
<1>14. /\ plan'.start = espStart
       /\ rootStart = IF formatEsp' THEN plan'.start + EspBytes ELSE plan'.start
    BY <1>1, <1>6 DEF FreeRootStart
<1> QED BY <1>11, <1>12, <1>13, <1>14 DEF FreeFound, PartitionAt

-----------------------------------------------------------------------------
(* Plans that custom() follows.                                            *)

LEMMA PlanActions ==
    ASSUME Typed
    PROVE  /\ DOMAIN plan.actions = 1..Len(plan.actions) /\ Len(plan.actions) \in Nat
           /\ \A i \in DOMAIN plan.actions : plan.actions[i] \in Actions
BY DEF Typed, AllPlans

\* A validated plan acts on one root and on one ESP, and names each partition once.
LEMMA OnlyOne ==
    ASSUME Typed, plan.mode = "custom", Validate(plan)
    PROVE  /\ \A i, j \in Indices(plan, {"useRoot", "createRoot"}) : i = j
           /\ \A i, j \in Indices(plan, {"useEsp", "createEsp"}) : i = j
           /\ \A i, j \in References(plan) :
                 plan.actions[i].dev = plan.actions[j].dev => i = j
<1>1. ASSUME NEW kinds, Cardinality(Indices(plan, kinds)) = 1
      PROVE  \A i, j \in Indices(plan, kinds) : i = j
    <2>1. IsFiniteSet(DOMAIN plan.actions)
        BY PlanActions, FS_Interval
    <2>2. IsFiniteSet(Indices(plan, kinds))
        BY <2>1, FS_Subset DEF Indices
    <2>3. PICK k : Indices(plan, kinds) = {k}
        BY <1>1, <2>2, FS_Singleton
    <2> QED BY <2>3
<1>2. /\ Cardinality(Indices(plan, {"useRoot", "createRoot"})) = 1
      /\ Cardinality(Indices(plan, {"useEsp", "createEsp"})) = 1
      /\ \A i, j \in References(plan) : plan.actions[i].dev = plan.actions[j].dev => i = j
    BY DEF Validate
<1> QED BY <1>1, <1>2

\* Nothing that is reused has been deleted.
LEMMA ReusedStay ==
    ASSUME PlanInv, SetInv, pc = "create", Existing
    PROVE  Reused \subseteq DOMAIN table
<1>1. plan.mode = "custom" /\ Validate(plan) /\ Typed
    BY DEF PlanInv, Staged
<1> SUFFICES ASSUME NEW i \in Indices(plan, {"useRoot", "useEsp"})
             PROVE  plan.actions[i].dev \in DOMAIN table
    BY DEF Reused
<1>2. i \in References(plan) /\ plan.actions[i].do \in {"useRoot", "useEsp"}
    BY DEF References, Indices
<1>3. plan.actions[i].dev \in DOMAIN orig
    BY <1>1, <1>2 DEF Existing, Referenced
<1>4. plan.actions[i].dev \notin Deleted
    <2> SUFFICES ASSUME NEW j \in Indices(plan, {"delete"}),
                        plan.actions[j].dev = plan.actions[i].dev
                 PROVE  FALSE
        BY DEF Deleted
    <2>1. j \in References(plan) /\ plan.actions[j].do = "delete"
        BY DEF References, Indices
    <2> QED BY <1>1, <1>2, <2>1, OnlyOne
<1> QED BY <1>3, <1>4 DEF SetInv, Found

LEMMA SamePlan ==
    ASSUME UNCHANGED <<plan, orig>>
    PROVE  /\ Existing' <=> Existing
           /\ Creates' = Creates /\ Reused' = Reused /\ Deleted' = Deleted
BY DEF Existing, Referenced, References, Indices, Creates, Reused, Deleted

LEMMA CustomAppended ==
    ASSUME PlanInv, SetInv, AppendCustom
    PROVE  CreatesFound'
<1>1. Typed /\ plan' = plan /\ orig' = orig /\ pc = "create"
      /\ \A a \in Creates : CreateOk(a)
    BY DEF PlanInv, AppendCustom
<1> SUFFICES ASSUME Existing, NEW a \in Creates, NEW n \in PartitionAt(a.start)'
             PROVE  /\ n \notin Reused
                    /\ a.do = "createRoot" => RootReady(n)'
                    /\ a.do = "createEsp" => EspReady(n, TRUE)'
    BY <1>1, SamePlan DEF CreatesFound, PartitionAt
<1>2. \A m \in DOMAIN table : table[m].start % Sector = 0 /\ table[m].size > 0
    BY <1>1 DEF SetInv, Found
<1>3. PICK lines \in SUBSET RawLines : lines = CreateLines
    BY <1>1, CreateLinesTyped
<1>4. Fits(lines) /\ \E slot \in [lines -> Numbers \ DOMAIN table] : AppendLines(lines, slot)
    BY <1>3 DEF AppendCustom
<1>5. PICK slot \in [lines -> Numbers \ DOMAIN table] : AppendLines(lines, slot)
    BY <1>4
<1>6. a \in Actions /\ a.start \in Int /\ EspBytes \in Int
    <2>1. a \in Actions
        BY <1>1, CreatesAreActions
    <2>2. a.start \in Bytes
        BY <2>1 DEF Actions
    <2>3. a.start \in Int
        BY <2>2, BytesAreIntegers
    <2>4. EspBytes \in Int
        BY UnitsAssumption
    <2> QED BY <2>1, <2>3, <2>4
<1>7. \A p \in lines : p.start % Sector = 0
    <2> SUFFICES ASSUME NEW b \in Creates
                 PROVE  LineOf(b).start % Sector = 0
        BY <1>3 DEF CreateLines
    <2>1. b.start \in Int
        BY <1>1, CreatesAreActions, BytesAreIntegers DEF Actions
    <2>2. LineOf(b).start = Sectors(b.start)
        BY DEF LineOf, Line, Created
    <2> QED BY <2>1, <2>2, SectorsWhole
<1>8. LineOf(a) \in lines
    BY <1>3 DEF CreateLines
<1>9. ASSUME NEW size \in Int, NEW type \in {"esp", "root"},
             LineOf(a) = Line(a.start, size, type)
      PROVE  n \in DOMAIN table' /\ n \notin DOMAIN table
             /\ table'[n] = Line(a.start, size, type)
    BY <1>1, <1>2, <1>4, <1>5, <1>6, <1>7, <1>8, <1>9, FoundIsCreated
<1>10. CASE a.do = "createRoot"
    <2>1. PICK size \in Int : size = RootSize(a)
        BY <1>1, <1>6, <1>10, RootSizeTyped
    <2>2. size >= RootMin
        BY <1>1, <1>10, <2>1 DEF CreateOk
    <2>3. LineOf(a) = Line(a.start, size, "root")
        BY <1>10, <2>1 DEF LineOf
    <2>4. n \in DOMAIN table' /\ n \notin DOMAIN table
          /\ table'[n] = Line(a.start, size, "root")
        BY <1>9, <2>3
    <2>5. RootReady(n)'
        BY <1>6, <2>2, <2>4, LineReady
    <2> QED BY <1>1, <1>10, <2>4, <2>5, ReusedStay
<1>11. CASE a.do # "createRoot"
    <2>1. LineOf(a) = Line(a.start, EspBytes, "esp")
        BY <1>11 DEF LineOf
    <2>2. n \in DOMAIN table' /\ n \notin DOMAIN table
          /\ table'[n] = Line(a.start, EspBytes, "esp")
        BY <1>6, <1>9, <2>1
    <2>3. EspReady(n, TRUE)'
        BY <1>6, <2>2, LineReady
    <2> QED BY <1>1, <1>11, <2>2, <2>3, ReusedStay
<1> QED BY <1>10, <1>11

LEMMA CreatesResolved ==
    ASSUME PlanInv, SetInv, ResolveCreated
    PROVE  UsedSoFar'
<1> SUFFICES ASSUME pc' = "use", Existing', NEW i \in DOMAIN plan'.actions
             PROVE  SoFar(i)'
    BY DEF UsedSoFar
<1>1. /\ plan' = plan /\ orig' = orig /\ table' = table /\ index' = index
      /\ formatEsp' = formatEsp /\ pc = "resolve"
      /\ root' \in IF CreatedAt("createRoot") = {} THEN {0} ELSE FoundAt("createRoot")
      /\ esp' \in IF CreatedAt("createEsp") = {} THEN {0} ELSE FoundAt("createEsp")
    BY DEF ResolveCreated, Refuse, Return, GoTo
<1>2. Existing /\ Reused' = Reused /\ index' = 1 /\ formatEsp' = TRUE /\ i \in DOMAIN plan.actions
    BY <1>1, SamePlan DEF PlanInv, Resolved, SetInv, Formatting, Typed
<1>3. ~(i < index')
    BY <1>2, PlanActions DEF PlanInv
<1>4. ASSUME plan.actions[i].do = "createRoot"
      PROVE  RootReady(root)' /\ root' \notin Reused
    <2>1. CreatedAt("createRoot") # {}
        BY <1>2, <1>4 DEF CreatedAt, Creates, Indices
    <2>2. PICK r \in FoundAt("createRoot") : root' = r
        BY <1>1, <2>1
    <2>3. PICK a \in Creates : a.do = "createRoot" /\ r \in PartitionAt(a.start)
        BY DEF FoundAt, CreatedAt
    <2>4. RootReady(r) /\ r \notin Reused
        BY <1>1, <1>2, <2>3 DEF SetInv, CreatesFound
    <2> QED BY <1>1, <2>2, <2>4 DEF RootReady
<1>5. ASSUME plan.actions[i].do = "createEsp"
      PROVE  EspReady(esp, formatEsp)' /\ esp' \notin Reused
    <2>1. CreatedAt("createEsp") # {}
        BY <1>2, <1>5 DEF CreatedAt, Creates, Indices
    <2>2. PICK r \in FoundAt("createEsp") : esp' = r
        BY <1>1, <2>1
    <2>3. PICK a \in Creates : a.do = "createEsp" /\ r \in PartitionAt(a.start)
        BY DEF FoundAt, CreatedAt
    <2>4. EspReady(r, TRUE) /\ r \notin Reused
        BY <1>1, <1>2, <2>3 DEF SetInv, CreatesFound
    <2> QED BY <1>1, <1>2, <2>2, <2>4 DEF EspReady
<1> QED BY <1>1, <1>2, <1>3, <1>4, <1>5 DEF SoFar

-----------------------------------------------------------------------------
(* The loop over the reused partitions.                                    *)

\* What the loop has on its hands when it reuses a partition.
LEMMA Reusing ==
    ASSUME PlanInv, Existing, pc = "use", index \in DOMAIN plan.actions,
           Action.do \in {"useRoot", "useEsp"}
    PROVE  /\ Typed /\ plan.mode = "custom"
           /\ index \in References(plan) /\ Action.dev \in Reused
           /\ Action.dev \in DOMAIN orig
           /\ \A i \in DOMAIN plan.actions :
                 /\ i < index + 1 => i < index \/ i = index
                 /\ plan.actions[i].do \in {"useRoot", "useEsp"} /\ i # index =>
                       plan.actions[i].dev # Action.dev
                 /\ Action.do = "useRoot" /\ plan.actions[i].do \in {"useRoot", "createRoot"} =>
                       i = index
                 /\ Action.do = "useEsp" /\ plan.actions[i].do \in {"useEsp", "createEsp"} =>
                       i = index
<1>1. Typed /\ plan.mode = "custom" /\ Validate(plan)
    BY DEF PlanInv, Staged
<1>2. index \in References(plan) /\ Action.dev \in Reused /\ Action.dev \in DOMAIN orig
    BY <1>1 DEF References, Indices, Action, Reused, Existing, Referenced
<1>3. ASSUME NEW i \in DOMAIN plan.actions
      PROVE  i < index + 1 => i < index \/ i = index
    BY <1>1, PlanActions
<1>4. ASSUME NEW i \in DOMAIN plan.actions,
             plan.actions[i].do \in {"useRoot", "useEsp"}, i # index
      PROVE  plan.actions[i].dev # Action.dev
    <2>1. i \in References(plan)
        BY <1>4 DEF References, Indices
    <2> QED BY <1>1, <1>2, <1>4, <2>1, OnlyOne DEF Action
<1>5. ASSUME NEW i \in DOMAIN plan.actions
      PROVE  /\ Action.do = "useRoot" /\ plan.actions[i].do \in {"useRoot", "createRoot"} =>
                   i = index
             /\ Action.do = "useEsp" /\ plan.actions[i].do \in {"useEsp", "createEsp"} =>
                   i = index
    BY <1>1, OnlyOne DEF Indices, Action
<1> QED BY <1>1, <1>2, <1>3, <1>4, <1>5

LEMMA RootReused ==
    ASSUME PlanInv, SetInv, UseAsRoot
    PROVE  UsedSoFar'
<1>1. /\ UNCHANGED <<plan, orig, esp, formatEsp>>
      /\ pc = "use" /\ index \in DOMAIN plan.actions /\ Action.do = "useRoot"
      /\ index' = index + 1
    BY DEF UseAsRoot, AtUse
<1>2. PICK d : d = Action.dev
    OBVIOUS
<1>3. /\ d \in DOMAIN table /\ ~table[d].mounted /\ table[d].size >= RootMin /\ root' = d
      /\ table' = [table EXCEPT ![d].type = "root", ![d].data = FALSE]
    BY <1>2 DEF UseAsRoot, RootUsable
<1> SUFFICES ASSUME Existing', NEW i \in DOMAIN plan'.actions
             PROVE  SoFar(i)'
    BY DEF UsedSoFar
<1>4. Existing /\ Reused' = Reused /\ i \in DOMAIN plan.actions /\ Typed
    BY <1>1, SamePlan DEF PlanInv
<1>5. SoFar(i)
    BY <1>1, <1>4 DEF SetInv, UsedSoFar
<1>6. RootReady(d)'
    BY <1>3, <1>4 DEF RootReady, Typed, Parts
<1>7. ASSUME EspReady(esp, formatEsp), esp # d
      PROVE  EspReady(esp, formatEsp)'
    BY <1>1, <1>3, <1>7 DEF EspReady
<1>8. plan.actions[i].do = "createRoot" => FALSE
    BY <1>1, <1>4, Reusing DEF Action
<1>9. plan.actions[i].do = "createEsp" => EspReady(esp, formatEsp)' /\ esp \notin Reused
    BY <1>1, <1>2, <1>4, <1>5, <1>7, Reusing DEF SoFar
<1>10. plan.actions[i].do = "useRoot" => RootReady(d)' /\ d = plan.actions[i].dev
    BY <1>1, <1>2, <1>4, <1>6, Reusing DEF Action
<1>11. plan.actions[i].do = "useEsp" /\ i < index' =>
          EspReady(esp, formatEsp)' /\ esp = plan.actions[i].dev
    <2>1. plan.actions[i].do = "useEsp" /\ i < index' => i < index /\ i # index
        BY <1>1, <1>4, Reusing DEF Action
    <2> QED BY <1>1, <1>2, <1>4, <1>5, <1>7, <2>1, Reusing DEF SoFar
<1>12. RootReady(d)' => RootReady(root)'
    BY <1>3 DEF RootReady
<1> QED BY <1>1, <1>3, <1>4, <1>8, <1>9, <1>10, <1>11, <1>12 DEF SoFar

\* An ESP that is kept still holds what it held.
LEMMA EspReused ==
    ASSUME PlanInv, SetInv, UseAsEsp
    PROVE  UsedSoFar'
<1>1. /\ UNCHANGED <<plan, orig, root>>
      /\ pc = "use" /\ index \in DOMAIN plan.actions /\ Action.do = "useEsp"
      /\ index' = index + 1
    BY DEF UseAsEsp, AtUse
<1>2. PICK d \in Devices, f \in BOOLEAN : d = Action.dev /\ f = Action.format
    <2>1. Action.dev \in Devices /\ Action.format \in BOOLEAN
        BY <1>1, PlanActions DEF PlanInv, Action, Actions
    <2> QED BY <2>1
<1>3. /\ d \in DOMAIN table /\ ~table[d].mounted /\ esp' = d /\ formatEsp' = f
      /\ table' = [table EXCEPT ![d].type = "esp", ![d].data = @ /\ ~f]
    BY <1>2 DEF UseAsEsp, EspUsable
<1> SUFFICES ASSUME Existing', NEW i \in DOMAIN plan'.actions
             PROVE  SoFar(i)'
    BY DEF UsedSoFar
<1>4. Existing /\ Reused' = Reused /\ i \in DOMAIN plan.actions /\ Typed
    BY <1>1, SamePlan DEF PlanInv
<1>5. SoFar(i)
    BY <1>1, <1>4 DEF SetInv, UsedSoFar
<1>6. ~f => table[d].data
    <2> SUFFICES ASSUME ~f
                 PROVE  table[d].data
        OBVIOUS
    <2>1. d \in DOMAIN orig /\ orig[d].data /\ plan.mode = "custom"
        BY <1>1, <1>2, <1>4, Reusing DEF SetInv, Found
    <2>2. d \notin Overwritten
        <3> SUFFICES ASSUME NEW j \in References(plan), plan.actions[j].dev = d,
                            plan.actions[j].do # "useEsp" \/ plan.actions[j].format
                     PROVE  FALSE
            BY DEF Overwritten
        <3>1. index \in References(plan)
            BY <1>1, <1>4, Reusing
        <3>2. j = index
            BY <1>1, <1>2, <1>4, <2>1, <3>1, OnlyOne DEF Action, PlanInv, Staged
        <3> QED BY <1>1, <1>2, <3>2 DEF Action
    <2> QED BY <2>1, <2>2 DEF PlanInv, Kept, OthersLeftAlone
<1>7. EspReady(d, f)'
    <2>1. table'[d].type = "esp" /\ d \in DOMAIN table' /\ table'[d].data = (table[d].data /\ ~f)
        BY <1>3, <1>4 DEF Typed, Parts
    <2> QED BY <1>6, <2>1 DEF EspReady
<1>8. ASSUME RootReady(root), root # d
      PROVE  RootReady(root)'
    BY <1>1, <1>3, <1>8 DEF RootReady
<1>9. plan.actions[i].do = "createEsp" => FALSE
    BY <1>1, <1>4, Reusing DEF Action
<1>10. plan.actions[i].do = "createRoot" => RootReady(root)' /\ root \notin Reused
    BY <1>1, <1>2, <1>4, <1>5, <1>8, Reusing DEF SoFar
<1>11. plan.actions[i].do = "useEsp" => d = plan.actions[i].dev
    BY <1>1, <1>2, <1>4, Reusing DEF Action
<1>12. plan.actions[i].do = "useRoot" /\ i < index' =>
          RootReady(root)' /\ root = plan.actions[i].dev
    <2>1. plan.actions[i].do = "useRoot" /\ i < index' => i < index /\ i # index
        BY <1>1, <1>4, Reusing DEF Action
    <2> QED BY <1>1, <1>2, <1>4, <1>5, <1>8, <2>1, Reusing DEF SoFar
<1>13. EspReady(d, f)' => EspReady(esp, formatEsp)'
    BY <1>3 DEF EspReady
<1> QED BY <1>1, <1>3, <1>4, <1>7, <1>9, <1>10, <1>11, <1>12, <1>13 DEF SoFar

LEMMA ActionSkipped ==
    ASSUME PlanInv, SetInv, SkipAction
    PROVE  UsedSoFar'
<1>1. /\ UNCHANGED <<plan, orig, table, esp, root, formatEsp>>
      /\ pc = "use" /\ index \in DOMAIN plan.actions /\ index' = index + 1
      /\ Action.do \notin {"useRoot", "useEsp"}
    BY DEF SkipAction, outcome
<1> SUFFICES ASSUME Existing', NEW i \in DOMAIN plan'.actions
             PROVE  SoFar(i)'
    BY DEF UsedSoFar
<1>2. Existing /\ Reused' = Reused /\ i \in DOMAIN plan.actions
    BY <1>1, SamePlan
<1>3. SoFar(i)
    BY <1>1, <1>2 DEF SetInv, UsedSoFar
<1>4. plan.actions[i].do \in {"useRoot", "useEsp"} /\ i < index' => i < index
    <2>1. i < index + 1 => i < index \/ i = index
        BY <1>1, <1>2, PlanActions DEF PlanInv
    <2> QED BY <1>1, <2>1 DEF Action
<1> QED BY <1>1, <1>2, <1>3, <1>4 DEF SoFar, RootReady, EspReady

-----------------------------------------------------------------------------
(* The returns.                                                            *)

LEMMA ErasedReady ==
    ASSUME PlanInv, Erase
    PROVE  Erased'
<1>1. DOMAIN table' = 1..3
    BY DEF Erase
<1>2. table'[1] = Created(AlignUp(First), EspBytes, "esp")
      /\ table'[3] = Created(EraseRoot, AlignDown(End) - EraseRoot, "other")
    BY DEF Erase
<1> QED BY <1>1, <1>2 DEF Erased, EspReady, Created

LEMMA ErasedReturns ==
    ASSUME PlanInv, SetInv, StampErased
    PROVE  SetIsSound'
<1>1. /\ table' = [table EXCEPT ![3].type = "root"]
      /\ esp' = 1 /\ root' = 3 /\ formatEsp' = TRUE /\ plan'.mode = "erase"
    BY DEF StampErased, PlanInv, Staged
<1>2. /\ 3 \in DOMAIN table /\ ~table[3].data /\ ~table[3].mounted
      /\ 1 \in DOMAIN table /\ table[1].type = "esp" /\ ~table[1].data
    BY DEF StampErased, SetInv, Erased, EspReady
<1>3. table[3] \in Parts
    BY <1>2 DEF PlanInv, Typed
<1>4. /\ DOMAIN table' = DOMAIN table /\ table'[1] = table[1]
      /\ table'[3].type = "root" /\ ~table'[3].data /\ ~table'[3].mounted
    BY <1>1, <1>2, <1>3 DEF Parts
<1> QED BY <1>1, <1>2, <1>4 DEF SetIsSound

LEMMA FreeReturns ==
    ASSUME PlanInv, SetInv, ResolveFree, result' = "ok"
    PROVE  SetIsSound'
<1>1. table' = table /\ formatEsp' = formatEsp /\ pc = "resolveFree" /\ plan' = plan
      /\ root' \in PartitionAt(IF formatEsp THEN plan.start + EspBytes ELSE plan.start)
      /\ esp' \in IF formatEsp THEN PartitionAt(plan.start) ELSE {esp}
    BY DEF ResolveFree, Refuse, Return
<1>2. PICK r, e : r = root' /\ e = esp'
    OBVIOUS
<1>3. RootReady(r) /\ EspReady(e, formatEsp)
    BY <1>1, <1>2 DEF SetInv, FreeFound, PlanInv, Typed
<1> QED BY <1>1, <1>2, <1>3 DEF SetIsSound, RootReady, EspReady

LEMMA CustomReturns ==
    ASSUME PlanInv, SetInv, Finish
    PROVE  SetIsSound'
<1> SUFFICES ASSUME plan'.mode = "custom" => Referenced(plan') \subseteq DOMAIN orig'
             PROVE  SetIsSound'
    BY DEF SetIsSound
<1>1. /\ UNCHANGED <<plan, orig, table, esp, root, formatEsp>>
      /\ pc = "use" /\ index \notin DOMAIN plan.actions
    BY DEF Finish, outcome
<1>2. Existing /\ Typed /\ Staged
    BY <1>1 DEF Existing, PlanInv
<1>3. \A i \in DOMAIN plan.actions : i < index /\ SoFar(i)
    BY <1>1, <1>2, PlanActions DEF SetInv, UsedSoFar, Typed
<1>4. RootReady(root) /\ EspReady(esp, formatEsp)
    BY <1>1, <1>2, <1>3, OneOfEach DEF SoFar
<1> QED BY <1>1, <1>4 DEF SetIsSound, RootReady, EspReady

-----------------------------------------------------------------------------
(* The invariant.                                                          *)

LEMMA SetInvInit == Init => SetInv
<1> SUFFICES ASSUME Init
             PROVE  SetInv
    OBVIOUS
<1>1. Found
    BY TablesAssumption DEF Init, Found
<1> QED BY <1>1 DEF Init, SetInv, Formatting, Erased, FreeFound, CreatesFound, UsedSoFar,
                    SetIsSound

\* A call that returns without a PartitionSet.
LEMMA NothingReturned ==
    ASSUME SetInv, UNCHANGED orig, pc' = "returned", result' # "ok"
    PROVE  SetInv'
<1>1. Found'
    BY DEF SetInv, Found
<1> QED BY <1>1 DEF SetInv, Formatting, Erased, FreeFound, CreatesFound, UsedSoFar, SetIsSound

\* One that goes on has no result yet.
LEMMA NoResultYet ==
    ASSUME PlanInv, pc # "returned", UNCHANGED result
    PROVE  SetIsSound'
BY DEF PlanInv, Staged, SetIsSound

LEMMA SetInvNext ==
    ASSUME PlanInv, SetInv, [Next]_vars
    PROVE  SetInv'
<1> USE DEF GoTo, Return, Refuse, outcome
<1>1. CASE UNCHANGED vars
    <2>1. UNCHANGED <<pc, plan, result, table, orig, index, esp, root, formatEsp>>
        BY <1>1 DEF vars
    <2>2. /\ Found' /\ Formatting' /\ Erased' /\ FreeFound'
        BY <2>1, SamePlan DEF SetInv, Found, Formatting, Erased, FreeFound, PartitionAt,
                              RootReady, EspReady
    <2>3. CreatesFound' /\ UsedSoFar'
        BY <2>1, SamePlan DEF SetInv, CreatesFound, UsedSoFar, SoFar, PartitionAt,
                              RootReady, EspReady
    <2>4. SetIsSound'
        BY <2>1 DEF SetInv, SetIsSound
    <2> QED BY <2>2, <2>3, <2>4 DEF SetInv
<1>2. CASE pc' = "returned" /\ result' # "ok" /\ UNCHANGED orig
    BY <1>2, NothingReturned
<1>3. CASE Start
    <2>1. CASE Validate(plan)
        <3>1. UNCHANGED <<orig, result, formatEsp>> /\ pc = "ready"
              /\ pc' \in {"erase", "free", "custom"}
            BY <1>3, <2>1 DEF Start, PlanInv, Typed, AllPlans
        <3>2. SetIsSound'
            BY <3>1, NoResultYet
        <3> QED BY <3>1, <3>2 DEF SetInv, Found, Formatting, Erased, FreeFound, CreatesFound,
                                  UsedSoFar
    <2>2. CASE ~Validate(plan)
        BY <1>2, <1>3, <2>2 DEF Start
    <2> QED BY <2>1, <2>2
<1>4. CASE Erase
    <2>1. UNCHANGED <<orig, result>> /\ pc = "erase" /\ pc' = "stamp"
        BY <1>4 DEF Erase
    <2>2. SetIsSound' /\ Erased'
        BY <1>4, <2>1, NoResultYet, ErasedReady
    <2> QED BY <2>1, <2>2 DEF SetInv, Found, Formatting, FreeFound, CreatesFound, UsedSoFar
<1>5. CASE AppendFree
    <2>1. UNCHANGED <<orig, result>> /\ pc = "free" /\ pc' = "resolveFree"
        BY <1>5 DEF AppendFree
    <2>2. SetIsSound' /\ FreeFound'
        BY <1>5, <2>1, NoResultYet, FreeAppended
    <2> QED BY <2>1, <2>2 DEF SetInv, Found, Formatting, Erased, CreatesFound, UsedSoFar
<1>6. CASE DeletePartitions
    <2>1. /\ UNCHANGED <<plan, orig, result, formatEsp>> /\ pc = "custom" /\ pc' = "create"
          /\ table' = [n \in DOMAIN table \ Deleted |-> table[n]]
        BY <1>6 DEF DeletePartitions
    <2>2. table = orig /\ Deleted' = Deleted
        BY <2>1, SamePlan DEF PlanInv, Untouched
    <2>3. SetIsSound'
        BY <2>1, NoResultYet
    <2>4. Found'
        BY <2>1, <2>2 DEF SetInv, Found
    <2> QED BY <2>1, <2>3, <2>4 DEF SetInv, Formatting, Erased, FreeFound, CreatesFound,
                                    UsedSoFar
<1>7. CASE AppendCustom
    <2>1. UNCHANGED <<orig, result, formatEsp>> /\ pc = "create" /\ pc' = "resolve"
        BY <1>7 DEF AppendCustom
    <2>2. SetIsSound' /\ CreatesFound'
        BY <1>7, <2>1, NoResultYet, CustomAppended
    <2> QED BY <2>1, <2>2 DEF SetInv, Found, Formatting, Erased, FreeFound, UsedSoFar
<1>8. CASE ResolveCreated /\ pc' = "use"
    <2>1. UNCHANGED <<orig, result>> /\ pc = "resolve"
        BY <1>8 DEF ResolveCreated
    <2>2. SetIsSound' /\ UsedSoFar'
        BY <1>8, <2>1, NoResultYet, CreatesResolved
    <2> QED BY <1>8, <2>1, <2>2 DEF SetInv, Found, Formatting, Erased, FreeFound, CreatesFound
<1>9. CASE SkipAction \/ UseAsRoot \/ UseAsEsp
    <2>1. UNCHANGED <<orig, result>> /\ pc = "use" /\ pc' = "use"
        BY <1>9 DEF SkipAction, UseAsRoot, UseAsEsp, AtUse
    <2>2. SetIsSound' /\ UsedSoFar'
        BY <1>9, <2>1, NoResultYet, ActionSkipped, RootReused, EspReused
    <2> QED BY <2>1, <2>2 DEF SetInv, Found, Formatting, Erased, FreeFound, CreatesFound
<1>10. CASE (StampErased \/ ResolveFree \/ Finish) /\ result' = "ok"
    <2>1. UNCHANGED orig /\ pc' = "returned"
        BY <1>10 DEF StampErased, ResolveFree, Finish
    <2>2. SetIsSound'
        BY <1>10, ErasedReturns, FreeReturns, CustomReturns
    <2> QED BY <2>1, <2>2 DEF SetInv, Found, Formatting, Erased, FreeFound, CreatesFound,
                              UsedSoFar
<1>11. CASE StampErased \/ ResolveFree \/ Finish
    BY <1>2, <1>10, <1>11 DEF StampErased, ResolveFree, Finish
<1>12. CASE ResolveCreated
    BY <1>2, <1>8, <1>12 DEF ResolveCreated
<1>13. CASE RefuseFree \/ RefuseDeletes \/ RefuseCreates \/ RefuseUse
    BY <1>2, <1>13 DEF RefuseFree, RefuseDeletes, RefuseCreates, RefuseUse
<1>14. CASE CommandRefuses \/ CommandFails
    BY <1>2, <1>14 DEF CommandRefuses, CommandFails
<1> QED
    BY <1>1, <1>3, <1>4, <1>5, <1>6, <1>7, <1>9, <1>11, <1>12, <1>13, <1>14 DEF Next

\* The devices run() hands to the later steps are two partitions that exist, of
\* the right types, the root free of data and big enough, and the ESP formatted
\* exactly if nobody's data is on it: for any table and any plan whose partitions
\* exist, in each of the three modes.
THEOREM SetsAreSound == Spec => []SetIsSound
<1>1. PlanInv /\ PlanInv' /\ SetInv /\ [Next]_vars => SetInv'
    BY SetInvNext
<1>2. SetInv => SetIsSound
    BY DEF SetInv
<1> QED BY PlanInvHolds, SetInvInit, <1>1, <1>2, PTL DEF Spec

-----------------------------------------------------------------------------
(* What custom() leaves on the disk.                                       *)

\* A plan for partitions that exist, which says how big its root is to be: what it
\* asks for is then known before the disk is.
Concrete ==
    plan.mode = "custom" /\ Existing /\ \A a \in Creates : a.size # Fill
Asked(a) ==
    IF a.do = "createRoot" THEN Line(a.start, a.size, "root")
    ELSE Line(a.start, EspBytes, "esp")
AskedLines == {Asked(a) : a \in Creates}

\* The partitions that are not deleted, and the others of the table.
Staying == DOMAIN orig \ Deleted
New == DOMAIN table \ Staying

\* The first are where they were; the others are what was asked for, once each.
InPlace(n) ==
    /\ n \in DOMAIN table
    /\ table[n].start = orig[n].start /\ table[n].size = orig[n].size
    /\ table[n].mounted = orig[n].mounted
AsAsked ==
    /\ \A n \in Staying : InPlace(n)
    /\ \A n \in New : table[n] \in AskedLines
    /\ \A p \in AskedLines : \E n \in New : table[n] = p
    /\ \A m, n \in New : table[m] = table[n] => m = n

Realized == Concrete /\ (pc \in {"resolve", "use"} \/ result = "ok") => AsAsked

\* What starts where a partition was asked for is that one.
NewFound ==
    Concrete /\ pc = "resolve" =>
        \A a \in Creates : \A n \in PartitionAt(a.start) : n \in New /\ table[n] = Asked(a)

\* The devices are those that the plan's actions say, as far as the loop has come.
Handed(i) ==
    LET a == plan.actions[i] IN
    /\ a.do = "createRoot" => root \in New /\ table[root] = Asked(a)
    /\ a.do = "createEsp" => esp \in New /\ table[esp] = Asked(a)
    /\ a.do = "useRoot" /\ i < index => root = a.dev
    /\ a.do = "useEsp" /\ i < index => esp = a.dev
AllHanded ==
    Concrete /\ (pc = "use" \/ result = "ok") => \A i \in DOMAIN plan.actions : Handed(i)

\* custom() ends after the last action of a plan it has validated.
Ended ==
    plan.mode = "custom" /\ result = "ok" =>
        Validate(plan) /\ \A i \in DOMAIN plan.actions : i < index

RealInv == Realized /\ NewFound /\ AllHanded /\ Ended

\* A concrete plan's lines do not depend on the disk, nor on how far run() is.
LEMMA AskedIsLine ==
    ASSUME Concrete
    PROVE  /\ \A a \in Creates : LineOf(a) = Asked(a)
           /\ CreateLines = AskedLines
<1>1. \A a \in Creates : LineOf(a) = Asked(a)
    BY DEF Concrete, LineOf, Asked, RootSize
<1> QED BY <1>1 DEF CreateLines, AskedLines

LEMMA SameAsked ==
    ASSUME UNCHANGED <<plan, orig>>
    PROVE  /\ Concrete' <=> Concrete
           /\ Creates' = Creates /\ AskedLines' = AskedLines /\ Staying' = Staying
BY SamePlan DEF Concrete, AskedLines, Asked, Staying

LEMMA AskedAre ==
    ASSUME Typed, Concrete, NEW a \in Creates
    PROVE  \E size \in Int, type \in {"esp", "root"} :
              a.start \in Int /\ Asked(a) = Line(a.start, size, type)
<1>1. a \in Actions /\ a.size # Fill
    BY CreatesAreActions DEF Concrete
<1>2. a.start \in Bytes /\ a.size \in Bytes
    BY <1>1 DEF Actions
<1>3. a.start \in Int /\ a.size \in Int /\ EspBytes \in Int
    <2>1. a.start \in Int /\ a.size \in Int
        BY <1>2, BytesAreIntegers
    <2>2. EspBytes \in Int
        BY UnitsAssumption
    <2> QED BY <2>1, <2>2
<1>4. CASE a.do = "createRoot"
    BY <1>3, <1>4 DEF Asked
<1>5. CASE a.do # "createRoot"
    BY <1>3, <1>5 DEF Asked
<1> QED BY <1>4, <1>5

LEMMA AskedAppended ==
    ASSUME PlanInv, SetInv, AppendCustom, Concrete
    PROVE  AsAsked' /\ NewFound'
<1>1. /\ Typed /\ UNCHANGED <<plan, orig>> /\ pc = "create"
      /\ \A a \in Creates : CreateOk(a)
    BY DEF PlanInv, AppendCustom
<1>2. DOMAIN table = Staying /\ \A n \in Staying : table[n] = orig[n]
    BY <1>1 DEF SetInv, Found, Staying
<1>3. /\ Creates' = Creates /\ AskedLines' = AskedLines /\ Staying' = Staying
      /\ \A a \in Creates : Asked(a)' = Asked(a)
    BY <1>1, SameAsked DEF Asked
<1>4. PICK lines \in SUBSET RawLines : lines = AskedLines /\ lines = CreateLines
    BY <1>1, CreateLinesTyped, AskedIsLine
<1>5. CASE Creates = {}
    <2>1. table' = table /\ lines = {}
        BY <1>4, <1>5 DEF AppendCustom, CreateLines
    <2>2. New' = {}
        BY <1>2, <1>3, <2>1 DEF New
    <2>3. \A n \in Staying : InPlace(n)'
        BY <1>1, <1>2, <2>1 DEF InPlace
    <2> QED BY <1>3, <1>4, <1>5, <2>1, <2>2, <2>3 DEF AsAsked, NewFound
<1>6. CASE Creates # {}
    <2>1. Fits(lines) /\ \E slot \in [lines -> Numbers \ DOMAIN table] : AppendLines(lines, slot)
        BY <1>4, <1>6 DEF AppendCustom
    <2>2. PICK slot \in [lines -> Numbers \ DOMAIN table] : AppendLines(lines, slot)
        BY <2>1
    <2>3. /\ DOMAIN table \subseteq DOMAIN table'
          /\ \A n \in DOMAIN table : table'[n] = table[n]
          /\ \A n \in DOMAIN table' \ DOMAIN table : table'[n] \in lines /\ slot[table'[n]] = n
        BY <2>2, AppendEffect
    <2>4. New' = DOMAIN table' \ DOMAIN table
        BY <1>2, <1>3 DEF New
    <2>5. \A n \in Staying : InPlace(n)'
        BY <1>1, <1>2, <2>3 DEF InPlace
    <2>6. ASSUME NEW p \in lines
          PROVE  \E n \in New' : table'[n] = p
        <3>1. slot[p] \in DOMAIN table' \ DOMAIN table
            BY <2>2 DEF AppendLines
        <3>2. table'[slot[p]] \in lines /\ slot[table'[slot[p]]] = slot[p]
            BY <2>3, <3>1
        <3>3. table'[slot[p]] = p
            BY <2>2, <3>2 DEF AppendLines
        <3> QED BY <2>4, <3>1, <3>3
    <2>7. AsAsked'
        BY <1>3, <1>4, <2>3, <2>4, <2>5, <2>6 DEF AsAsked
    <2>8. ASSUME NEW a \in Creates, NEW n \in PartitionAt(a.start)'
          PROVE  n \in New' /\ table'[n] = Asked(a)
        <3>1. \A m \in DOMAIN table : table[m].start % Sector = 0 /\ table[m].size > 0
            BY <1>1 DEF SetInv, Found
        <3>2. \A p \in lines : p.start % Sector = 0
            <4> SUFFICES ASSUME NEW b \in Creates
                         PROVE  Asked(b).start % Sector = 0
                BY <1>4 DEF AskedLines
            <4>1. b.start \in Int /\ Asked(b).start = Sectors(b.start)
                BY <1>1, AskedAre DEF Line, Created
            <4> QED BY <4>1, SectorsWhole
        <3>3. PICK size \in Int, type \in {"esp", "root"} :
                 a.start \in Int /\ Asked(a) = Line(a.start, size, type)
            BY <1>1, AskedAre
        <3>4. Asked(a) \in lines
            BY <1>4 DEF AskedLines
        <3>5. n \in DOMAIN table' /\ n \notin DOMAIN table /\ table'[n] = Line(a.start, size, type)
            BY <1>1, <2>1, <2>2, <3>1, <3>2, <3>3, <3>4, FoundIsCreated
        <3> QED BY <2>4, <3>3, <3>5
    <2> QED BY <1>1, <1>3, <2>7, <2>8 DEF NewFound, PartitionAt
<1> QED BY <1>5, <1>6

LEMMA AskedResolved ==
    ASSUME PlanInv, RealInv, ResolveCreated, pc' = "use", Concrete
    PROVE  AllHanded'
<1>1. /\ UNCHANGED <<plan, orig, table, index>> /\ pc = "resolve"
      /\ root' \in IF CreatedAt("createRoot") = {} THEN {0} ELSE FoundAt("createRoot")
      /\ esp' \in IF CreatedAt("createEsp") = {} THEN {0} ELSE FoundAt("createEsp")
    BY DEF ResolveCreated, Refuse, Return, GoTo
<1>2. New' = New /\ index' = 1 /\ Typed /\ plan.mode = "custom" /\ Validate(plan)
    BY <1>1, SameAsked DEF New, PlanInv, Resolved, Staged
<1> SUFFICES ASSUME NEW i \in DOMAIN plan.actions
             PROVE  Handed(i)'
    BY <1>1 DEF AllHanded
<1>3. ~(i < index') /\ Asked(plan.actions[i])' = Asked(plan.actions[i])
    BY <1>1, <1>2, PlanActions DEF Asked
<1>4. ASSUME NEW kind \in {"createRoot", "createEsp"}, plan.actions[i].do = kind
      PROVE  /\ CreatedAt(kind) # {}
             /\ \A r \in FoundAt(kind) : r \in New /\ table[r] = Asked(plan.actions[i])
    <2>1. plan.actions[i] \in CreatedAt(kind)
        BY <1>4 DEF CreatedAt, Creates, Indices
    <2>2. ASSUME NEW r \in FoundAt(kind)
          PROVE  r \in New /\ table[r] = Asked(plan.actions[i])
        <3>1. PICK a \in Creates : a.do = kind /\ r \in PartitionAt(a.start)
            BY DEF FoundAt, CreatedAt
        <3>2. PICK j \in DOMAIN plan.actions : a = plan.actions[j]
            BY DEF Creates, Indices
        <3>3. j = i
            BY <1>2, <1>4, <3>1, <3>2, OnlyOne DEF Indices
        <3> QED BY <1>1, <3>1, <3>2, <3>3 DEF RealInv, NewFound
    <2> QED BY <2>1, <2>2
<1>5. plan.actions[i].do = "createRoot" =>
         root' \in New /\ table[root'] = Asked(plan.actions[i])
    BY <1>1, <1>4
<1>6. plan.actions[i].do = "createEsp" =>
         esp' \in New /\ table[esp'] = Asked(plan.actions[i])
    BY <1>1, <1>4
<1> QED BY <1>1, <1>2, <1>3, <1>5, <1>6 DEF Handed

\* The loop over the reused partitions touches nothing that is new.
LEMMA AskedKept ==
    ASSUME PlanInv, AsAsked, UNCHANGED <<plan, orig>>, Concrete,
           DOMAIN table' = DOMAIN table,
           NEW d \in Staying,
           \A n \in DOMAIN table : n # d => table'[n] = table[n],
           /\ table'[d].start = table[d].start /\ table'[d].size = table[d].size
           /\ table'[d].mounted = table[d].mounted
    PROVE  /\ AsAsked' /\ New' = New
           /\ \A n \in New : table'[n] = table[n]
<1>1. /\ Staying' = Staying /\ AskedLines' = AskedLines
    BY SameAsked
<1>2. New' = New /\ \A n \in New : table'[n] = table[n]
    BY <1>1 DEF New
<1>3. \A n \in Staying : InPlace(n)'
    BY DEF AsAsked, InPlace
<1> QED BY <1>1, <1>2, <1>3 DEF AsAsked

LEMMA ReusedIsStaying ==
    ASSUME PlanInv, Concrete, pc = "use", index \in DOMAIN plan.actions,
           Action.do \in {"useRoot", "useEsp"}
    PROVE  Action.dev \in Staying
<1>1. Typed /\ plan.mode = "custom" /\ Validate(plan)
      /\ index \in References(plan) /\ Action.dev \in DOMAIN orig
    BY Reusing DEF Concrete, PlanInv, Staged
<1>2. ASSUME NEW j \in Indices(plan, {"delete"}), plan.actions[j].dev = Action.dev
      PROVE  FALSE
    <2>1. j \in References(plan) /\ plan.actions[j].do = "delete"
        BY DEF References, Indices
    <2> QED BY <1>1, <1>2, <2>1, OnlyOne DEF Action
<1> QED BY <1>1, <1>2 DEF Staying, Deleted

LEMMA AskedReused ==
    ASSUME PlanInv, RealInv, UseAsRoot \/ UseAsEsp, Concrete
    PROVE  AsAsked' /\ AllHanded'
<1>1. /\ UNCHANGED <<plan, orig, pc>> /\ index' = index + 1
      /\ pc = "use" /\ index \in DOMAIN plan.actions /\ Action.do \in {"useRoot", "useEsp"}
      /\ UseAsRoot => Action.do = "useRoot" /\ esp' = esp
      /\ UseAsEsp => Action.do = "useEsp" /\ root' = root
    BY DEF UseAsRoot, UseAsEsp, AtUse
<1>2. PICK d \in Staying : d = Action.dev
    BY <1>1, ReusedIsStaying
<1>3. Typed /\ d \in DOMAIN table /\ (UseAsRoot => root' = d) /\ (UseAsEsp => esp' = d)
    BY <1>2 DEF PlanInv, UseAsRoot, UseAsEsp, RootUsable, EspUsable
<1>4. /\ DOMAIN table' = DOMAIN table
      /\ \A n \in DOMAIN table : n # d => table'[n] = table[n]
      /\ table'[d].start = table[d].start /\ table'[d].size = table[d].size
      /\ table'[d].mounted = table[d].mounted
    <2>1. table[d] \in Parts
        BY <1>3 DEF Typed
    <2>2. CASE UseAsRoot
        BY <1>2, <1>3, <2>1, <2>2 DEF UseAsRoot, Parts
    <2>3. CASE UseAsEsp
        BY <1>2, <1>3, <2>1, <2>3 DEF UseAsEsp, Parts
    <2> QED BY <2>2, <2>3
<1>5. AsAsked /\ \A i \in DOMAIN plan.actions : Handed(i)
    BY <1>1 DEF RealInv, Realized, AllHanded
<1>6. AsAsked' /\ New' = New /\ \A n \in New : table'[n] = table[n]
    BY <1>1, <1>4, <1>5, AskedKept
<1>7. ASSUME NEW i \in DOMAIN plan.actions
      PROVE  Handed(i)'
    <2>1. /\ i < index' => i < index \/ i = index
          /\ Action.do = "useRoot" /\ plan.actions[i].do \in {"useRoot", "createRoot"} => i = index
          /\ Action.do = "useEsp" /\ plan.actions[i].do \in {"useEsp", "createEsp"} => i = index
        BY <1>1, Reusing DEF Concrete
    <2>2. Handed(i) /\ Asked(plan.actions[i])' = Asked(plan.actions[i])
        BY <1>1, <1>5 DEF Asked
    <2>3. CASE UseAsRoot
        <3>1. plan.actions[i].do \in {"useRoot", "createRoot"} => i = index
            BY <1>1, <2>1, <2>3
        <3>2. plan.actions[i].do = "createRoot" => FALSE
            BY <1>1, <2>3, <3>1 DEF Action
        <3>3. plan.actions[i].do = "useRoot" => root' = plan.actions[i].dev
            BY <1>2, <1>3, <2>3, <3>1 DEF Action
        <3>4. plan.actions[i].do = "useEsp" => i # index
            BY <1>1, <2>3 DEF Action
        <3> QED BY <1>1, <1>6, <2>1, <2>2, <2>3, <3>2, <3>3, <3>4 DEF Handed
    <2>4. CASE UseAsEsp
        <3>1. plan.actions[i].do \in {"useEsp", "createEsp"} => i = index
            BY <1>1, <2>1, <2>4
        <3>2. plan.actions[i].do = "createEsp" => FALSE
            BY <1>1, <2>4, <3>1 DEF Action
        <3>3. plan.actions[i].do = "useEsp" => esp' = plan.actions[i].dev
            BY <1>2, <1>3, <2>4, <3>1 DEF Action
        <3>4. plan.actions[i].do = "useRoot" => i # index
            BY <1>1, <2>4 DEF Action
        <3> QED BY <1>1, <1>6, <2>1, <2>2, <2>4, <3>2, <3>3, <3>4 DEF Handed
    <2> QED BY <2>3, <2>4
<1> QED BY <1>1, <1>6, <1>7 DEF AllHanded

LEMMA RealInvInit == Init => RealInv
BY DEF Init, RealInv, Realized, NewFound, AllHanded, Ended

\* Before the append, and where the call returns without a PartitionSet, nothing
\* is said.
LEMMA NothingRealized ==
    ASSUME pc' \notin {"resolve", "use"}, result' # "ok"
    PROVE  RealInv'
BY DEF RealInv, Realized, NewFound, AllHanded, Ended

LEMMA SameReal ==
    ASSUME RealInv, UNCHANGED <<plan, orig, table, root, esp, index>>,
           pc' = pc, result' = result
    PROVE  RealInv'
<1>1. /\ Concrete' <=> Concrete
      /\ Creates' = Creates /\ AskedLines' = AskedLines /\ Staying' = Staying /\ New' = New
      /\ \A a : Asked(a)' = Asked(a)
    BY SameAsked DEF New, Asked
<1>2. Realized'
    BY <1>1 DEF RealInv, Realized, AsAsked, InPlace
<1>3. NewFound'
    BY <1>1 DEF RealInv, NewFound, PartitionAt
<1>4. AllHanded'
    BY <1>1 DEF RealInv, AllHanded, Handed
<1>5. Ended'
    BY DEF RealInv, Ended
<1> QED BY <1>2, <1>3, <1>4, <1>5 DEF RealInv

LEMMA RealInvNext ==
    ASSUME PlanInv, SetInv, RealInv, [Next]_vars
    PROVE  RealInv'
<1> USE DEF GoTo, Return, Refuse, outcome
<1>1. CASE UNCHANGED vars
    BY <1>1, SameReal DEF vars
<1>2. CASE pc' \notin {"resolve", "use"} /\ result' # "ok"
    BY <1>2, NothingRealized
<1>3. pc # "returned" => result = "none"
    BY DEF PlanInv, Staged
<1>4. CASE Start
    BY <1>2, <1>3, <1>4 DEF Start, PlanInv, Typed, AllPlans
<1>5. CASE Erase \/ AppendFree \/ DeletePartitions
    BY <1>2, <1>3, <1>5 DEF Erase, AppendFree, DeletePartitions
<1>6. CASE StampErased \/ ResolveFree
    <2>1. plan' = plan /\ plan.mode # "custom" /\ pc' = "returned"
        BY <1>6 DEF StampErased, ResolveFree, PlanInv, Staged
    <2> QED BY <2>1 DEF RealInv, Realized, NewFound, AllHanded, Ended, Concrete
<1>7. CASE AppendCustom
    <2>1. UNCHANGED <<plan, orig>> /\ pc' = "resolve" /\ result' = "none"
        BY <1>3, <1>7 DEF AppendCustom
    <2>2. Concrete => AsAsked' /\ NewFound'
        BY <1>7, AskedAppended
    <2> QED BY <2>1, <2>2, SameAsked DEF RealInv, Realized, NewFound, AllHanded, Ended
<1>8. CASE ResolveCreated
    <2>1. CASE pc' = "use"
        <3>1. UNCHANGED <<plan, orig, table>> /\ pc = "resolve" /\ result' = "none"
            BY <1>3, <1>8, <2>1 DEF ResolveCreated
        <3>2. Concrete' => AsAsked'
            BY <3>1, SameAsked DEF RealInv, Realized, AsAsked, InPlace, New
        <3>3. Concrete' => AllHanded'
            BY <1>8, <2>1, <3>1, SameAsked, AskedResolved
        <3> QED BY <2>1, <3>1, <3>2, <3>3 DEF RealInv, Realized, NewFound, AllHanded, Ended
    <2>2. CASE pc' # "use"
        BY <1>2, <1>8, <2>2 DEF ResolveCreated
    <2> QED BY <2>1, <2>2
<1>9. CASE UseAsRoot \/ UseAsEsp
    <2>1. UNCHANGED <<plan, orig>> /\ pc' = "use" /\ result' = "none"
        BY <1>3, <1>9 DEF UseAsRoot, UseAsEsp, AtUse
    <2>2. Concrete => AsAsked' /\ AllHanded'
        BY <1>9, AskedReused
    <2> QED BY <2>1, <2>2, SameAsked DEF RealInv, Realized, NewFound, AllHanded, Ended
<1>10. CASE SkipAction
    <2>1. /\ UNCHANGED <<plan, orig, table, root, esp>> /\ index' = index + 1
          /\ pc = "use" /\ pc' = "use" /\ result' = "none"
          /\ index \in DOMAIN plan.actions /\ Action.do \notin {"useRoot", "useEsp"}
        BY <1>3, <1>10 DEF SkipAction
    <2>2. (Concrete' <=> Concrete) /\ AskedLines' = AskedLines /\ Staying' = Staying /\ New' = New
        BY <2>1, SameAsked DEF New
    <2>3. Realized'
        BY <2>1, <2>2 DEF RealInv, Realized, AsAsked, InPlace
    <2>4. ASSUME Concrete, NEW i \in DOMAIN plan.actions
          PROVE  Handed(i)'
        <3>1. plan.actions[i].do \in {"useRoot", "useEsp"} /\ i < index' => i < index
            BY <2>1, PlanActions DEF PlanInv, Action
        <3>2. Handed(i) /\ Asked(plan.actions[i])' = Asked(plan.actions[i])
            BY <2>1, <2>4 DEF RealInv, AllHanded, Asked
        <3> QED BY <2>1, <2>2, <3>1, <3>2 DEF Handed
    <2> QED BY <2>1, <2>2, <2>3, <2>4 DEF RealInv, NewFound, AllHanded, Ended
<1>11. CASE Finish
    <2>1. /\ UNCHANGED <<plan, orig, table, root, esp, index>>
          /\ pc = "use" /\ pc' = "returned" /\ index \notin DOMAIN plan.actions
        BY <1>11 DEF Finish
    <2>2. (Concrete' <=> Concrete) /\ AskedLines' = AskedLines /\ Staying' = Staying /\ New' = New
          /\ \A a : Asked(a)' = Asked(a)
        BY <2>1, SameAsked DEF New, Asked
    <2>3. Realized'
        BY <2>1, <2>2 DEF RealInv, Realized, AsAsked, InPlace
    <2>4. AllHanded'
        BY <2>1, <2>2 DEF RealInv, AllHanded, Handed
    <2>5. Validate(plan) /\ \A i \in DOMAIN plan.actions : i < index
        BY <2>1, PlanActions DEF PlanInv, Typed, Staged
    <2> QED BY <2>1, <2>3, <2>4, <2>5 DEF RealInv, NewFound, Ended
<1>12. CASE RefuseFree \/ RefuseDeletes \/ RefuseCreates \/ RefuseUse
    BY <1>2, <1>12 DEF RefuseFree, RefuseDeletes, RefuseCreates, RefuseUse
<1>13. CASE CommandRefuses \/ CommandFails
    BY <1>2, <1>13 DEF CommandRefuses, CommandFails
<1> QED
    BY <1>1, <1>4, <1>5, <1>6, <1>7, <1>8, <1>9, <1>10, <1>11, <1>12, <1>13 DEF Next

\* A custom plan for partitions that exist, with a size for its root, that succeeds
\* has changed the disk's layout as it says and in no other way: what it does not
\* delete is where it was, and each partition it asks for is there once, where and
\* as large as it was asked for, in whole sectors.  For any disk and any numbering
\* by sfdisk.
THEOREM PlansAreRealized == Spec => [](Concrete /\ result = "ok" => AsAsked)
<1>1. PlanInv /\ PlanInv' /\ SetInv /\ [Next]_vars => SetInv'
    BY SetInvNext
<1>2. PlanInv /\ SetInv /\ RealInv /\ [Next]_vars => RealInv'
    BY RealInvNext
<1>3. RealInv => (Concrete /\ result = "ok" => AsAsked)
    BY DEF RealInv, Realized
<1> QED BY PlanInvHolds, SetInvInit, RealInvInit, <1>1, <1>2, <1>3, PTL DEF Spec

-----------------------------------------------------------------------------
(* What free_space() leaves on the disk.                                   *)

\* What a free-space plan asks for: a root at the end of its range, behind a new ESP
\* on a disk that has none.
NoEsp == \A n \in DOMAIN orig : orig[n].type # "esp"
ForEsp == IF NoEsp THEN EspBytes ELSE 0
FilledRoot == Line(plan.start + ForEsp, plan.size - ForEsp, "root")
FilledEsp == Line(plan.start, EspBytes, "esp")
FilledLines == {FilledRoot} \cup (IF NoEsp THEN {FilledEsp} ELSE {})
Added == DOMAIN table \ DOMAIN orig

\* The disk has these partitions, once each, next to those it had.
Filled ==
    /\ \A n \in DOMAIN orig : n \in DOMAIN table /\ table[n] = orig[n]
    /\ {table[n] : n \in Added} = FilledLines
    /\ \A m, n \in Added : table[m] = table[n] => m = n

\* The ESP is the new one, or the first of the disk's, kept as it is.
FilledHanded ==
    /\ root \in Added /\ table[root] = FilledRoot
    /\ NoEsp => formatEsp /\ esp \in Added /\ table[esp] = FilledEsp
    /\ ~NoEsp => /\ ~formatEsp /\ esp \in DOMAIN orig /\ orig[esp].type = "esp"
                 /\ \A m \in DOMAIN orig :
                       orig[m].type = "esp" => orig[esp].start <= orig[m].start

\* What starts where a partition was asked for is that one.
AddedFound ==
    /\ \A n \in PartitionAt(plan.start + ForEsp) : n \in Added /\ table[n] = FilledRoot
    /\ NoEsp => \A n \in PartitionAt(plan.start) : n \in Added /\ table[n] = FilledEsp

\* The ESP is chosen before the append, unless there is none.
EspChosen ==
    /\ formatEsp <=> NoEsp
    /\ ~NoEsp => /\ esp \in DOMAIN orig /\ orig[esp].type = "esp"
                 /\ \A m \in DOMAIN orig :
                       orig[m].type = "esp" => orig[esp].start <= orig[m].start

FillInv ==
    /\ pc = "free" => plan.size >= RootMin
    /\ pc = "resolveFree" => Filled /\ AddedFound /\ EspChosen
    /\ plan.mode = "free" /\ result = "ok" => Filled /\ FilledHanded

\* A sum that wrapped around wraps back.
LEMMA WrapBack ==
    ASSUME NEW w \in Int, w > 0, NEW s \in Int, NEW z \in Int, NEW e \in Int,
           0 <= s, s < w, 0 <= z, z < w, 0 <= e, e <= z
    PROVE  (((s + z) % w) - (s + e)) % w = z - e
<1>1. (s + z) % w = IF s + z < w THEN s + z ELSE s + z - w
    <2>1. CASE s + z < w
        BY <2>1
    <2>2. CASE s + z >= w
        <3>1. PICK y \in Int : y = s + z - w
            OBVIOUS
        <3>2. 0 <= y /\ y < w /\ s + z = y + w
            BY <2>2, <3>1
        <3>3. (y + w) % w = y
            BY <3>2
        <3> QED BY <2>2, <3>1, <3>2, <3>3
    <2> QED BY <2>1, <2>2
<1>2. PICK d \in Int : d = z - e
    OBVIOUS
<1>3. 0 <= d /\ d < w
    BY <1>2
<1>4. d % w = d /\ (d - w) % w = d
    BY <1>3
<1>5. CASE s + z < w
    BY <1>1, <1>2, <1>4, <1>5
<1>6. CASE s + z >= w
    <2>1. ((s + z) % w) - (s + e) = d - w
        BY <1>1, <1>2, <1>6
    <2> QED BY <1>2, <1>4, <2>1
<1> QED BY <1>5, <1>6

\* The root that is appended is what is left of the range, in u64 too.
LEMMA FreeLinesAsked ==
    ASSUME Typed, table = orig, plan.size >= RootMin
    PROVE  /\ (Esps = {}) <=> NoEsp
           /\ FreeRootStart = plan.start + ForEsp
           /\ FreeRootSize = plan.size - ForEsp
           /\ FreeLines = FilledLines
<1>1. (Esps = {}) <=> NoEsp
    BY DEF Esps, NoEsp
<1>2. PICK s \in Int, z \in Int : /\ s = plan.start /\ z = plan.size
                                  /\ 0 <= s /\ s < Width /\ 0 <= z /\ z < Width
    BY UnitsAssumption DEF Typed, AllPlans, Bytes
<1>3. PICK e \in Int : e = ForEsp /\ 0 <= e /\ e <= z
    BY <1>2, UnitsAssumption DEF ForEsp
<1>4. FreeRootStart = s + e
    BY <1>1, <1>2, <1>3 DEF FreeRootStart, ForEsp
<1>5. Width \in Int /\ Width > 0
    BY <1>2, UnitsAssumption
<1>6. FreeRootSize = z - e
    <2>1. FreeRootSize = (((s + z) % Width) - (s + e)) % Width
        BY <1>2, <1>4 DEF FreeRootSize, Add, Sub
    <2>2. PICK w \in Int : w = Width
        BY <1>5
    <2>3. (((s + z) % w) - (s + e)) % w = z - e
        <3>1. w > 0 /\ 0 <= s /\ s < w /\ 0 <= z /\ z < w /\ 0 <= e /\ e <= z
            BY <1>2, <1>3, <1>5, <2>2
        <3> QED BY <3>1, WrapBack
    <2> QED BY <2>1, <2>2, <2>3
<1>7. FreeLines = FilledLines
    BY <1>1, <1>2, <1>3, <1>4, <1>6 DEF FreeLines, FilledLines, FilledRoot, FilledEsp
<1> QED BY <1>1, <1>2, <1>3, <1>4, <1>6, <1>7

LEMMA SameFill ==
    ASSUME UNCHANGED <<plan, orig>>
    PROVE  /\ NoEsp' <=> NoEsp
           /\ ForEsp' = ForEsp /\ FilledRoot' = FilledRoot /\ FilledEsp' = FilledEsp
           /\ FilledLines' = FilledLines
BY DEF NoEsp, ForEsp, FilledRoot, FilledEsp, FilledLines

LEMMA FillAppended ==
    ASSUME PlanInv, SetInv, FillInv, AppendFree
    PROVE  Filled' /\ AddedFound' /\ EspChosen'
<1>1. Typed /\ table = orig /\ UNCHANGED <<plan, orig>> /\ plan.size >= RootMin
    BY DEF PlanInv, Untouched, AppendFree, FillInv
<1>2. /\ (Esps = {}) <=> NoEsp
      /\ FreeRootStart = plan.start + ForEsp /\ FreeRootSize = plan.size - ForEsp
      /\ FreeLines = FilledLines
    BY <1>1, FreeLinesAsked
<1>3. \A n \in DOMAIN table : table[n].start % Sector = 0 /\ table[n].size > 0
    BY <1>1 DEF SetInv, Found
<1>4. PICK lines \in SUBSET RawLines : lines = FreeLines
    BY <1>1, FreeLinesTyped
<1>5. /\ Fits(lines)
      /\ \E slot \in [lines -> Numbers \ DOMAIN table] : AppendLines(lines, slot)
    BY <1>4 DEF AppendFree
<1>6. PICK slot \in [lines -> Numbers \ DOMAIN table] : AppendLines(lines, slot)
    BY <1>5
<1>7. /\ DOMAIN table \subseteq DOMAIN table'
      /\ \A n \in DOMAIN table : table'[n] = table[n]
      /\ \A n \in DOMAIN table' \ DOMAIN table : table'[n] \in lines /\ slot[table'[n]] = n
    BY <1>6, AppendEffect
<1>8. Added' = DOMAIN table' \ DOMAIN table
    BY <1>1 DEF Added
<1>9. ASSUME NEW p \in lines
      PROVE  \E n \in Added' : table'[n] = p
    <2>1. slot[p] \in DOMAIN table' \ DOMAIN table
        BY <1>6 DEF AppendLines
    <2>2. table'[slot[p]] \in lines /\ slot[table'[slot[p]]] = slot[p]
        BY <1>7, <2>1
    <2>3. table'[slot[p]] = p
        BY <1>6, <2>2 DEF AppendLines
    <2> QED BY <1>8, <2>1, <2>3
<1>10. Filled'
    <2>1. {table'[n] : n \in Added'} = lines
        BY <1>7, <1>8, <1>9
    <2> QED BY <1>1, <1>2, <1>4, <1>7, <1>8, <2>1, SameFill DEF Filled
<1>11. PICK s \in Int, r \in Int, z \in Int :
          /\ s = plan.start /\ r = plan.start + ForEsp /\ z = plan.size - ForEsp
    <2>1. plan.start \in Int /\ plan.size \in Int /\ ForEsp \in Int
        BY <1>1, UnitsAssumption, BytesAreIntegers DEF Typed, AllPlans, ForEsp
    <2>2. plan.start + ForEsp \in Int /\ plan.size - ForEsp \in Int
        BY <2>1
    <2> QED BY <2>1, <2>2
<1>12. /\ Line(r, z, "root") \in lines /\ Line(r, z, "root") = FilledRoot
       /\ NoEsp => Line(s, EspBytes, "esp") \in lines /\ Line(s, EspBytes, "esp") = FilledEsp
       /\ \A p \in lines : p.start % Sector = 0
    <2>1. Sectors(r) % Sector = 0 /\ Sectors(s) % Sector = 0
        BY SectorsWhole
    <2> QED BY <1>2, <1>4, <1>11, <2>1 DEF FilledLines, FilledRoot, FilledEsp, Line, Created
<1>13. ASSUME NEW n \in PartitionAt(r)'
       PROVE  n \in Added' /\ table'[n] = FilledRoot
    BY <1>1, <1>3, <1>5, <1>6, <1>8, <1>12, <1>13, FoundIsCreated
<1>14. ASSUME NoEsp, NEW n \in PartitionAt(s)'
       PROVE  n \in Added' /\ table'[n] = FilledEsp
    <2>1. EspBytes \in Int
        BY UnitsAssumption
    <2> QED BY <1>1, <1>3, <1>5, <1>6, <1>8, <1>12, <1>14, <2>1, FoundIsCreated
<1>15. AddedFound'
    <2>1. /\ NoEsp' <=> NoEsp
          /\ plan'.start + ForEsp' = r /\ plan'.start = s
          /\ FilledRoot' = FilledRoot /\ FilledEsp' = FilledEsp
        BY <1>1, <1>11, SameFill
    <2>2. PartitionAt(r)' = {n \in DOMAIN table' : table'[n].start = r}
          /\ PartitionAt(s)' = {n \in DOMAIN table' : table'[n].start = s}
        BY DEF PartitionAt
    <2> QED BY <1>13, <1>14, <2>1, <2>2 DEF AddedFound, PartitionAt
<1>16. EspChosen'
    <2>1. /\ formatEsp' = (Esps = {}) /\ esp' \in IF Esps = {} THEN {0} ELSE FirstEsps
        BY DEF AppendFree
    <2> QED BY <1>1, <1>2, <2>1, SameFill DEF EspChosen, FirstEsps, Esps
<1> QED BY <1>10, <1>15, <1>16

LEMMA FillReturned ==
    ASSUME PlanInv, FillInv, ResolveFree, result' = "ok"
    PROVE  Filled' /\ FilledHanded'
<1>1. /\ UNCHANGED <<plan, orig, table, formatEsp>> /\ pc = "resolveFree"
      /\ root' \in PartitionAt(IF formatEsp THEN plan.start + EspBytes ELSE plan.start)
      /\ esp' \in IF formatEsp THEN PartitionAt(plan.start) ELSE {esp}
    BY DEF ResolveFree, Refuse, Return
<1>2. Filled /\ AddedFound /\ EspChosen
    BY <1>1 DEF FillInv
<1>3. Added' = Added /\ Filled'
    BY <1>1, <1>2, SameFill DEF Filled, Added
<1>4. plan.start \in Int
    BY BytesAreIntegers DEF PlanInv, Typed, AllPlans
<1>5. root' \in PartitionAt(plan.start + ForEsp)
    BY <1>1, <1>2, <1>4 DEF EspChosen, ForEsp
<1>6. PICK r, e : r = root' /\ e = esp'
    OBVIOUS
<1>7. r \in Added /\ table[r] = FilledRoot
    BY <1>2, <1>5, <1>6 DEF AddedFound
<1>8. NoEsp => formatEsp /\ e \in Added /\ table[e] = FilledEsp
    BY <1>1, <1>2, <1>6 DEF AddedFound, EspChosen
<1>9. ~NoEsp => ~formatEsp /\ e = esp
    BY <1>1, <1>2, <1>6 DEF EspChosen
<1>10. FilledHanded'
    BY <1>1, <1>2, <1>3, <1>6, <1>7, <1>8, <1>9, SameFill DEF FilledHanded, EspChosen
<1> QED BY <1>3, <1>10

LEMMA FillInvNext ==
    ASSUME PlanInv, SetInv, FillInv, [Next]_vars
    PROVE  FillInv'
<1> USE DEF GoTo, Return, Refuse, outcome
<1>1. pc # "returned" => result = "none"
    BY DEF PlanInv, Staged
<1>2. CASE pc' \notin {"free", "resolveFree"} /\ result' # "ok"
    BY <1>2 DEF FillInv
<1>3. CASE UNCHANGED vars
    <2>1. UNCHANGED <<pc, result, plan, orig, table, esp, root, formatEsp>>
        BY <1>3 DEF vars
    <2> QED BY <2>1, SameFill DEF FillInv, Filled, FilledHanded, AddedFound, EspChosen,
                                  Added, PartitionAt
<1>4. CASE Start
    BY <1>1, <1>4 DEF Start, FillInv, Validate, PlanInv, Typed, AllPlans
<1>5. CASE AppendFree
    <2>1. UNCHANGED <<plan, orig>> /\ pc' = "resolveFree" /\ result' = "none"
        BY <1>1, <1>5 DEF AppendFree
    <2> QED BY <1>5, <2>1, FillAppended DEF FillInv
<1>6. CASE ResolveFree
    <2>1. CASE result' = "ok"
        BY <1>6, <2>1, FillReturned DEF FillInv, ResolveFree
    <2>2. CASE result' # "ok"
        BY <1>2, <1>6, <2>2 DEF ResolveFree
    <2> QED BY <2>1, <2>2
<1>7. CASE StampErased \/ Finish
    <2>1. plan' = plan /\ plan.mode # "free" /\ pc' = "returned"
        BY <1>7 DEF StampErased, Finish, PlanInv, Staged
    <2> QED BY <2>1 DEF FillInv
<1>8. CASE Erase \/ DeletePartitions \/ AppendCustom \/ ResolveCreated \/ SkipAction
           \/ UseAsRoot \/ UseAsEsp
    BY <1>1, <1>2, <1>8 DEF Erase, DeletePartitions, AppendCustom, ResolveCreated,
                            SkipAction, UseAsRoot, UseAsEsp, AtUse
<1>9. CASE RefuseFree \/ RefuseDeletes \/ RefuseCreates \/ RefuseUse
           \/ CommandRefuses \/ CommandFails
    BY <1>2, <1>9 DEF RefuseFree, RefuseDeletes, RefuseCreates, RefuseUse, CommandRefuses,
                      CommandFails
<1> QED BY <1>3, <1>4, <1>5, <1>6, <1>7, <1>8, <1>9 DEF Next

\* A free-space plan that succeeds has added a root to the disk, and an ESP if there
\* was none, exactly where the range it was given says, and nothing else; what the
\* disk had is as it was, its first ESP is the one to be used, and it is not to be
\* formatted.  The wrapping arithmetic of the range never shows: for any disk, any
\* request and any numbering by sfdisk.
THEOREM FreeSpaceIsFilled ==
    Spec => [](plan.mode = "free" /\ result = "ok" => Filled /\ FilledHanded)
<1>1. PlanInv /\ PlanInv' /\ SetInv /\ [Next]_vars => SetInv'
    BY SetInvNext
<1>2. Init => FillInv
    BY DEF Init, FillInv
<1>3. PlanInv /\ SetInv /\ FillInv /\ [Next]_vars => FillInv'
    BY FillInvNext
<1>4. FillInv => (plan.mode = "free" /\ result = "ok" => Filled /\ FilledHanded)
    BY DEF FillInv
<1> QED BY PlanInvHolds, SetInvInit, <1>1, <1>2, <1>3, <1>4, PTL DEF Spec

=============================================================================
