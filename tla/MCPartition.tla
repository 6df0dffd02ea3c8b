---------------------------- MODULE MCPartition ----------------------------
(* A small disk for TLC: 2-byte sectors, 4-byte alignment, bytes 4 to 31.  *)
EXTENDS Partition

Part(s, z, t, m) ==
    [start |-> s, size |-> z, type |-> t, mounted |-> m, data |-> TRUE]

\* Blank, ESP first or last, holes of every size and alignment, a mounted
\* partition, numbers out of disk order, a nested (MBR) span, a full table, and one
\* with a single free slot.
MCTables ==
    LET E1 == Part(4, 4, "esp", FALSE)
        E2 == Part(6, 2, "esp", TRUE)
        D(s, z) == Part(s, z, "other", FALSE)
        one == {<<E1>>, <<E2>>, <<D(18, 8)>>, <<D(6, 12)>>}
        two == {<<E1, D(s, z)>> : s \in {8, 10, 16}, z \in {2, 8}}
               \cup {<<D(16, 8), E1>>, <<D(8, 12), D(10, 2)>>,
                     <<E1, Part(20, 8, "root", TRUE)>>}
        many == {<<E1, D(8, 2), D(10, 2), D(12, 4)>>, <<D(4, 4), D(8, 2), D(10, 2)>>}
    IN {<<>>} \cup one \cup two \cup many

Act(do, dev, f, s, z) ==
    [do |-> do, dev |-> dev, format |-> f, start |-> s, size |-> z]

Deletes == {Act("delete", d, FALSE, 0, 0) : d \in {1, 2}}
Roots == {Act("useRoot", d, FALSE, 0, 0) : d \in {1, 2, 3}}
         \cup {Act("createRoot", 0, FALSE, s, z) :
                 s \in {4, 8, 9, 12, 16}, z \in {Fill, 6, 8, 12, Width - 6}}
EspActs == {Act("useEsp", d, f, 0, 0) : d \in {0, 1, 2}, f \in BOOLEAN}
        \cup {Act("createEsp", 0, FALSE, s, 0) : s \in {4, 8, 13, 20}}

Custom(as) == [mode |-> "custom", start |-> 0, size |-> 0, actions |-> as]

MCPlans ==
    {[mode |-> "erase", start |-> 0, size |-> 0, actions |-> <<>>]}
    \cup {[mode |-> "free", start |-> s, size |-> z, actions |-> <<>>] :
            s \in {4, 8, 9, 12, 16}, z \in {6, 8, 12, 16, 24, Width - 6}}
    \cup {Custom(<<r>>) : r \in Roots}
    \cup {Custom(<<r, e>>) : r \in Roots, e \in EspActs}
    \cup {Custom(<<d, e, r>>) : d \in Deletes, r \in Roots, e \in EspActs}
=============================================================================
