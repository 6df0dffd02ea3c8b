------------------------------ MODULE MCLayout ------------------------------
(* Small GPT disks for TLC, in the units of MCPartition.                   *)
EXTENDS Layout

Part(s, z, t, m) ==
    [start |-> s, size |-> z, type |-> t, mounted |-> m, data |-> TRUE]

\* Blank, one ESP, an ESP among data with holes of 4, 8 and 12 bytes, numbers
\* out of disk order, a mounted partition, two ESPs, and a table with one free slot.
MCTables ==
    LET E(s) == Part(s, 4, "esp", FALSE)
        D(s, z) == Part(s, z, "other", FALSE)
    IN {<<>>, <<E(4)>>, <<D(4, 12)>>, <<D(8, 8)>>, <<E(4), D(12, 8)>>,
        <<D(16, 8), E(12)>>, <<E(4), Part(20, 8, "other", TRUE)>>,
        <<E(4), E(20)>>, <<E(4), D(8, 8), D(20, 4)>>,
        <<D(4, 4), D(8, 4), D(12, 4), D(16, 4)>>}

MCPlans == {NoPlan}
=============================================================================
