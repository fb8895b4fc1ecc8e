------------------------- MODULE TablesFigureProofs -------------------------
(***************************************************************************)
(* Theorems about the figures of Tables, for every plan, every set of      *)
(* nodes and times and any number of rows: two programs that read the rows *)
(* agree, the prose quotes what the tables show, and three counts of the   *)
(* runs that did not converge are one.                                     *)
(***************************************************************************)
EXTENDS TablesProofs, FunctionTheorems

-----------------------------------------------------------------------------
(* Groups of rows.                                                         *)

\* A key has a group when some row has the key, and the group is those rows.
LEMMA GroupOfKey ==
    ASSUME NEW key, NEW k
    PROVE  /\ k \in DOMAIN group_by(key) <=> \E r \in DOMAIN key : key[r] = k
           /\ k \in DOMAIN group_by(key) =>
                group_by(key)[k] = {r \in DOMAIN key : key[r] = k}
BY DEF group_by

\* The rows the tables keep for experiment A, of one system, size and number of
\* nodes.
SpreadRows(sys, size, nodes) == drop_arm(Cell("A", sys, nodes, size))
SpreadGroups == group_by(size_key(Of(kept, "A")))

LEMMA SpreadGroup ==
    ASSUME NEW sys, NEW size, NEW nodes
    PROVE  LET k == <<sys, size, nodes>> IN
             /\ k \in DOMAIN SpreadGroups <=> SpreadRows(sys, size, nodes) # {}
             /\ k \in DOMAIN SpreadGroups => SpreadGroups[k] = SpreadRows(sys, size, nodes)
<1> DEFINE k == <<sys, size, nodes>>
           key == size_key(Of(kept, "A"))
<1>1. DOMAIN key = Of(kept, "A")
  BY DEF size_key
<1>2. \A r \in Of(kept, "A") : key[r] = k <=> /\ system(r) = sys /\ r.cell.size = size
                                              /\ r.cell.nodes = nodes
  BY DEF size_key
<1>3. {r \in DOMAIN key : key[r] = k} = SpreadRows(sys, size, nodes)
  BY <1>1, <1>2 DEF SpreadRows, Cell, drop_arm, Of, kept
<1> HIDE DEF key, k
<1>4. /\ k \in DOMAIN group_by(key) <=> \E r \in DOMAIN key : key[r] = k
      /\ k \in DOMAIN group_by(key) => group_by(key)[k] = SpreadRows(sys, size, nodes)
  <2>1. /\ k \in DOMAIN group_by(key) <=> \E r \in DOMAIN key : key[r] = k
        /\ k \in DOMAIN group_by(key) =>
             group_by(key)[k] = {r \in DOMAIN key : key[r] = k}
    BY GroupOfKey
  <2> QED BY <1>3, <2>1, Zenon
<1>5. k \in DOMAIN group_by(key) <=> SpreadRows(sys, size, nodes) # {}
  BY <1>3, <1>4
<1> QED BY <1>4, <1>5, Zenon DEF SpreadGroups, key, k

LEMMA SpreadKey ==
    ASSUME NEW k \in DOMAIN SpreadGroups
    PROVE  /\ k = <<k[1], k[2], k[3]>>
           /\ \E r \in Of(kept, "A") : /\ k[1] = system(r) /\ k[2] = r.cell.size
                                       /\ k[3] = r.cell.nodes
<1>1. PICK r \in DOMAIN size_key(Of(kept, "A")) : size_key(Of(kept, "A"))[r] = k
  BY GroupOfKey DEF SpreadGroups
<1>2. r \in Of(kept, "A") /\ k = <<system(r), r.cell.size, r.cell.nodes>>
  BY <1>1 DEF size_key
<1> QED BY <1>2

\* The rows summarise.py puts together for the default configuration of a system
\* are those the tables keep for it.
LEMMA SameRows ==
    ASSUME IInv, NEW k \in DOMAIN SpreadGroups
    PROVE  LET cells == group_by([r \in rows |-> <<r.cell.arm, r.cell.nodes, r.cell.size>>])
               theirs == <<<<k[1], "default">>, k[3], k[2]>>
           IN  theirs \in DOMAIN cells /\ cells[theirs] = SpreadGroups[k]
<1> DEFINE key == [r \in rows |-> <<r.cell.arm, r.cell.nodes, r.cell.size>>]
           theirs == <<<<k[1], "default">>, k[3], k[2]>>
<1>1. PICK s \in Of(kept, "A") : /\ k[1] = system(s) /\ k[2] = s.cell.size
                                 /\ k[3] = s.cell.nodes
  BY SpreadKey
<1>2. SpreadGroups[k] = SpreadRows(k[1], k[2], k[3])
  BY SpreadKey, SpreadGroup
<1>3. \A r \in rows : r.cell \in Clustered \cup Many \cup Plain
  BY TablesAssumption DEF IInv
<1>4. s \in rows /\ s.cell \in Clustered /\ s.cell.arm # DROPPED_ARM
  BY <1>3 DEF Of, kept, drop_arm, Clustered, Many, Plain
<1>5. k[2] \in SIZES /\ k[1] \in {"syncfs", "bucketfs"}
  BY <1>1, <1>4 DEF Clustered, system
<1>6. SMALL_FILE \notin SIZES
  BY DEF SIZES, SMALL_FILE, KIB, MIB, GIB
<1>7. ASSUME NEW r \in rows
      PROVE  (r.cell.arm = <<k[1], "default">> /\ r.cell.size = k[2])
               <=> /\ r.cell.experiment = "A" /\ r.cell.arm # DROPPED_ARM
                   /\ system(r) = k[1] /\ r.cell.size = k[2]
  <2>1. CASE r.cell \in Clustered
    BY <1>5, <2>1 DEF Clustered, DROPPED_ARM, system
  <2>2. CASE r.cell \in Many
    BY <1>5, <1>6, <2>2 DEF Many
  <2>3. CASE r.cell \in Plain
    BY <1>5, <2>3 DEF Plain, system
  <2> QED BY <1>3, <2>1, <2>2, <2>3
<1>8. \A r \in rows : key[r] = theirs <=> /\ r.cell.arm = <<k[1], "default">>
                                          /\ r.cell.nodes = k[3] /\ r.cell.size = k[2]
  OBVIOUS
<1>9. {r \in rows : key[r] = theirs} = SpreadRows(k[1], k[2], k[3])
  BY <1>7, <1>8 DEF SpreadRows, Cell, drop_arm
<1>10. s \in SpreadRows(k[1], k[2], k[3])
  BY <1>1, <1>4 DEF SpreadRows, Cell, drop_arm, Of
<1>11. DOMAIN key = rows
  OBVIOUS
<1> HIDE DEF key, theirs
<1>12. theirs \in DOMAIN group_by(key) /\ group_by(key)[theirs] = SpreadGroups[k]
  BY <1>2, <1>9, <1>10, <1>11, GroupOfKey
<1> QED BY <1>12 DEF key, theirs

-----------------------------------------------------------------------------
(* summarise.py and tex_tables.py.                                         *)

\* For every plan and any rows of experiment A, summarise.py and tex_tables.py
\* show the same figure, range and count of non-convergences: their keys differ,
\* and leaving the tuned arm out is what makes their groups the same
\* (summarise.py:42-65, tex_tables.py:91-92, 144-177).
THEOREM ReadersAgree == Spec => []TwoReadersAgree
<1>1. IInv => TwoReadersAgree
  <2> SUFFICES ASSUME IInv, NEW metric \in {"propagation_s", "fanout_s"},
                      NEW k \in DOMAIN SpreadGroups
               PROVE  LET entry == fmt(SpreadGroups[k], metric)
                          theirs == summarise_main(metric)[<<<<k[1], "default">>, k[3], k[2]>>]
                      IN  /\ entry.marks = theirs.marks
                          /\ entry.shows = "median" <=> theirs.shows = "median"
                          /\ entry.shows = "median" => entry = theirs
    BY DEF TwoReadersAgree, SpreadGroups
  <2> DEFINE G == SpreadGroups[k]
             V == cell_values(G, metric)
             theirs == <<<<k[1], "default">>, k[3], k[2]>>
             cells == group_by([r \in rows |-> <<r.cell.arm, r.cell.nodes, r.cell.size>>])
  <2>1. theirs \in DOMAIN cells /\ cells[theirs] = G
    BY SameRows
  <2>2. summarise_main(metric)[theirs] =
          IF V = {} THEN [shows |-> "--", marks |-> Cardinality(bad(G))]
                    ELSE median_range(V, metric, Cardinality(bad(G)))
    <3> HIDE DEF theirs, G
    <3> QED BY <2>1 DEF summarise_main, cell_values
  <2>3. CASE V = {}
    BY <2>2, <2>3 DEF fmt
  <2>4. CASE V # {}
    <3>1. fmt(G, metric) = summarise_main(metric)[theirs]
      BY <2>2, <2>4 DEF fmt
    <3> QED BY <3>1
  <2> QED BY <2>3, <2>4
<1> QED BY <1>1, AlwaysInv, PTL

-----------------------------------------------------------------------------
(* Medians.                                                                *)

\* A set of naturals that is not empty has a least element.
LEMMA MinExists ==
    ASSUME NEW S \in SUBSET Nat, S # {}
    PROVE  \E x \in S : \A y \in S : x <= y
<1> DEFINE Less == {ss \in Nat \X Nat : ss[1] < ss[2]}
<1>1. IsWellFoundedOn(Less, Nat)
  BY NatLessThanWellFounded, Zenon DEF OpToRel
<1>2. PICK x \in S : \A y \in S : ~ (<<y, x>> \in Less)
  <2> HIDE DEF Less
  <2> QED BY <1>1, WFMin, Zenon
<1>3. ASSUME NEW y \in S
      PROVE  x <= y
  <2>1. <<y, x>> \in Nat \X Nat /\ <<y, x>>[1] = y /\ <<y, x>>[2] = x
    OBVIOUS
  <2>2. ~ (y < x)
    BY <1>2, <2>1, Zenon
  <2> QED BY <2>2
<1> QED BY <1>3

\* The k-th smallest value of a finite group is one of its values.
LEMMA KthIsValue ==
    ASSUME NEW G, IsFiniteSet(G), NEW metric, \A r \in G : r.result[metric] \in Nat,
           NEW k \in 1 .. Cardinality(G)
    PROVE  kth(G, metric, k) \in Nat
<1> DEFINE Values == {r.result[metric] : r \in G}
           UpTo(v) == {r \in G : r.result[metric] <= v}
           Below(v) == {r \in G : r.result[metric] < v}
           Reached == {v \in Values : k <= Cardinality(UpTo(v))}
<1>1. /\ Cardinality(G) \in Nat /\ k \in Nat /\ k >= 1
      /\ \A v : IsFiniteSet(UpTo(v)) /\ Cardinality(UpTo(v)) \in Nat
  BY FS_CardinalityType, FS_Subset
<1>2. Values \in SUBSET Nat /\ \A r \in G : r.result[metric] \in Values
  OBVIOUS
<1>3. G # {} /\ Values # {}
  BY <1>1, <1>2, FS_EmptySet
<1>4. IsFiniteSet(Values)
  <2> DEFINE f == [r \in G |-> r.result[metric]]
  <2>1. f \in Surjection(G, Values)
    <3>1. f \in [G -> Values] /\ \A v \in Values : \E r \in G : f[r] = v
      OBVIOUS
    <3> HIDE DEF f, Values
    <3> QED BY <3>1, Fun_IsSurj
  <2> HIDE DEF f, Values
  <2> QED BY <2>1, FS_Surjection
<1>5. Reached # {}
  <2>1. PICK m \in Values : \A v \in Values : m >= v
    <3> HIDE DEF Values
    <3> QED BY <1>2, <1>3, <1>4, MaxExists
  <2>2. UpTo(m) = G
    BY <1>2, <2>1
  <2>3. k <= Cardinality(UpTo(m))
    <3> HIDE DEF UpTo
    <3> QED BY <1>1, <2>2
  <2>4. m \in Reached
    <3> HIDE DEF UpTo, Values
    <3> QED BY <2>3
  <2> QED BY <2>4
<1>6. Reached \in SUBSET Nat
  BY <1>2
<1>7. PICK v \in Reached : \A w \in Reached : v <= w
  <2> HIDE DEF Reached
  <2> QED BY <1>5, <1>6, MinExists
<1>8. Cardinality(Below(v)) < k
  <2> DEFINE Lower == {w \in Values : w < v}
  <2>1. v \in Nat /\ Lower \in SUBSET Nat /\ IsFiniteSet(Lower)
    BY <1>2, <1>4, <1>6, FS_Subset
  <2>2. CASE Lower = {}
    <3>1. Below(v) = {}
      BY <1>2, <2>2
    <3>2. Cardinality({}) = 0
      BY FS_EmptySet
    <3>3. k \in Nat /\ k >= 1
      BY <1>1
    <3> HIDE DEF UpTo, Below
    <3> QED BY <3>1, <3>2, <3>3
  <2>3. CASE Lower # {}
    <3>1. PICK w \in Lower : \A u \in Lower : w >= u
      <4> HIDE DEF Lower
      <4> QED BY <2>1, <2>3, MaxExists
    <3>2. w \in Values /\ w \in Nat /\ w < v
      BY <2>1, <3>1
    <3>3. Below(v) = UpTo(w)
      <4>1. ASSUME NEW r \in G
            PROVE  r.result[metric] < v <=> r.result[metric] <= w
        <5>1. r.result[metric] < v => r.result[metric] \in Lower
          BY <1>2
        <5>2. r.result[metric] < v => r.result[metric] <= w
          BY <2>1, <3>1, <3>2, <5>1
        <5> QED BY <2>1, <3>2, <5>2
      <4> QED BY <4>1
    <3>4. ~ (k <= Cardinality(UpTo(w)))
      <4>1. w \notin Reached
        BY <1>7, <2>1, <3>2
      <4> QED BY <3>2, <4>1
    <3>5. Cardinality(UpTo(w)) \in Nat
      BY <1>1
    <3> HIDE DEF UpTo, Below
    <3> QED BY <1>1, <3>3, <3>4, <3>5
  <2> QED BY <2>2, <2>3
<1>9. v \in Values /\ k <= Cardinality(UpTo(v))
  OBVIOUS
<1>10. kth(G, metric, k) \in Values
  BY <1>8, <1>9 DEF kth
<1> QED BY <1>2, <1>10

LEMMA MedianIsNat ==
    ASSUME NEW G, IsFiniteSet(G), G # {}, NEW metric, \A r \in G : r.result[metric] \in Nat
    PROVE  median2(G, metric) \in Nat
<1> DEFINE n == Cardinality(G)
<1>1. n \in Nat /\ n # 0
  BY FS_CardinalityType, FS_EmptySet
<1>2. (n + 1) \div 2 \in 1 .. n /\ n \div 2 + 1 \in 1 .. n
  <2> HIDE DEF n
  <2> QED BY <1>1
<1>3. kth(G, metric, (n + 1) \div 2) \in Nat /\ kth(G, metric, n \div 2 + 1) \in Nat
  BY <1>2, KthIsValue
<1>4. median2(G, metric) = kth(G, metric, (n + 1) \div 2) + kth(G, metric, n \div 2 + 1)
  BY DEF median2
<1> QED BY <1>3, <1>4

\* A group of rows has a figure when some row of it has one.
LEMMA FigureExists ==
    ASSUME IInv, TypeOK, NEW G \in SUBSET rows, NEW metric \in {"propagation_s", "ingest_s"}
    PROVE  median_of(G, metric) # None <=> cell_values(G, metric) # {}
<1> DEFINE V == cell_values(G, metric)
<1>1. V \in SUBSET rows
  BY DEF cell_values
<1>2. IsFiniteSet(V)
  BY <1>1, FS_Subset DEF IInv
<1>3. \A r \in V : r.result[metric] \in Nat
  <2> SUFFICES ASSUME NEW r \in V PROVE r.result[metric] \in Nat
    OBVIOUS
  <2>1. r \in Row /\ r.result[metric] # None
    BY <1>1 DEF TypeOK, cell_values
  <2>2. r.result.propagation_s \in Nat \cup {None} /\ r.result.ingest_s \in Nat \cup {None}
    BY <2>1 DEF Row
  <2> QED BY <2>1, <2>2
<1>4. V # {} => median2(V, metric) \in Nat
  <2> HIDE DEF V
  <2> QED BY <1>2, <1>3, MedianIsNat
<1>5. V # {} => median2(V, metric) # None
  BY <1>4 DEF None
<1> QED BY <1>5 DEF median_of

-----------------------------------------------------------------------------
(* What the prose quotes is what the tables show.                          *)

\* An entry shows the median of a group that has a figure, and only then.
LEMMA ShowsMedian ==
    ASSUME NEW G, NEW metric
    PROVE  /\ fmt(G, metric).shows = "median" <=> cell_values(G, metric) # {}
           /\ cell_values(G, metric) # {} => fmt(G, metric).median = median_of(G, metric)
BY DEF fmt, median_range, median_of

\* A figure for a cell of experiment A is in the propagation table.
LEMMA SpreadShows ==
    ASSUME NEW sys, NEW size, NEW nodes,
           median_of(SpreadRows(sys, size, nodes), "propagation_s") # None
    PROVE  LET entry == matrix_table(Of(kept, "A"), "propagation_s")[<<sys, size, nodes>>] IN
             /\ entry.shows = "median"
             /\ entry.median = median_of(SpreadRows(sys, size, nodes), "propagation_s")
<1> DEFINE k == <<sys, size, nodes>>
           G == SpreadRows(sys, size, nodes)
<1>1. cell_values(G, "propagation_s") # {}
  BY DEF median_of
<1>2. G # {}
  BY <1>1 DEF cell_values
<1>3. k \in DOMAIN SpreadGroups /\ SpreadGroups[k] = G
  BY <1>2, SpreadGroup
<1>4. k \in Grid(SpreadGroups)
  <2>1. k[1] = sys /\ k[2] = size /\ k[3] = nodes
    OBVIOUS
  <2> QED BY <1>3, <2>1 DEF Grid
<1>5. matrix_table(Of(kept, "A"), "propagation_s")[k] = fmt(G, "propagation_s")
  <2> HIDE DEF k, G
  <2> QED BY <1>3, <1>4 DEF matrix_table, Fill, SpreadGroups
<1> HIDE DEF k, G
<1>6. /\ fmt(G, "propagation_s").shows = "median"
      /\ fmt(G, "propagation_s").median = median_of(G, "propagation_s")
  BY <1>1, ShowsMedian
<1> QED BY <1>5, <1>6 DEF k, G

\* The rows of the ingest table of one system and size.
IngestRows(sys, size) ==
    {r \in Of(kept, "C") \cup {x \in Of(kept, "A") : x.cell.nodes = 2} :
        system(r) = sys /\ r.cell.size = size}

LEMMA IngestGroup ==
    ASSUME NEW sys, NEW size
    PROVE  LET k == <<sys, size>> IN
             /\ k \in DOMAIN baseline_groups(kept) <=> IngestRows(sys, size) # {}
             /\ k \in DOMAIN baseline_groups(kept) =>
                  baseline_groups(kept)[k] = IngestRows(sys, size)
<1> DEFINE k == <<sys, size>>
           Both == Of(kept, "C") \cup {x \in Of(kept, "A") : x.cell.nodes = 2}
           key == [r \in Both |-> <<system(r), r.cell.size>>]
<1>1. DOMAIN key = Both
  OBVIOUS
<1>2. {r \in DOMAIN key : key[r] = k} = IngestRows(sys, size)
  BY DEF IngestRows
<1>3. baseline_groups(kept) = group_by(key)
  BY DEF baseline_groups
<1> HIDE DEF key, k, Both
<1>4. /\ k \in DOMAIN group_by(key) <=> \E r \in DOMAIN key : key[r] = k
      /\ k \in DOMAIN group_by(key) => group_by(key)[k] = {r \in DOMAIN key : key[r] = k}
  BY GroupOfKey
<1>5. k \in DOMAIN group_by(key) <=> {r \in DOMAIN key : key[r] = k} # {}
  BY <1>4
<1> QED BY <1>2, <1>3, <1>4, <1>5, Zenon DEF k

LEMMA IngestKey ==
    ASSUME NEW k \in DOMAIN baseline_groups(kept)
    PROVE  /\ k = <<k[1], k[2]>>
           /\ \E r \in kept : k[1] = system(r)
<1> DEFINE Both == Of(kept, "C") \cup {x \in Of(kept, "A") : x.cell.nodes = 2}
           key == [r \in Both |-> <<system(r), r.cell.size>>]
<1>1. PICK r \in DOMAIN key : key[r] = k
  <2> HIDE DEF key
  <2>1. k \in DOMAIN group_by(key)
    BY DEF baseline_groups, key
  <2> QED BY <2>1, GroupOfKey
<1>2. r \in kept /\ k = <<system(r), r.cell.size>>
  BY <1>1 DEF Of
<1> QED BY <1>2

\* They are the rows of one cell: two nodes of a cluster, or the plain file.
LEMMA IngestCell ==
    ASSUME IInv, NEW size
    PROVE  /\ \A sys \in {"syncfs", "bucketfs"} :
                IngestRows(sys, size) = drop_arm(Cell("A", sys, 2, size))
           /\ IngestRows("plainfile", size) = drop_arm(Cell("C", "plainfile", 0, size))
<1>1. \A r \in rows :
        /\ r.cell.experiment = "C" => system(r) = "plainfile" /\ r.cell.nodes = 0
        /\ r.cell.experiment = "A" => system(r) # "plainfile"
  BY TablesAssumption DEF IInv, Clustered, Many, Plain, system
<1>2. \A r \in kept : r \in rows /\ r.cell.arm # DROPPED_ARM
  BY DEF kept, drop_arm
<1>3. \A r \in rows : r.cell.arm # DROPPED_ARM => r \in kept
  BY DEF kept, drop_arm
<1>4. ASSUME NEW sys \in {"syncfs", "bucketfs"}
      PROVE  IngestRows(sys, size) = drop_arm(Cell("A", sys, 2, size))
  BY <1>1, <1>2, <1>3 DEF IngestRows, drop_arm, Cell, Of
<1>5. IngestRows("plainfile", size) = drop_arm(Cell("C", "plainfile", 0, size))
  BY <1>1, <1>2, <1>3 DEF IngestRows, drop_arm, Cell, Of
<1> QED BY <1>4, <1>5

\* The figure a quotation of the ingest is of.
LEMMA IngestFigure ==
    ASSUME IInv, NEW q \in Quoted, q.metric = "ingest_s"
    PROVE  Figure(q) = median_of(IngestRows(q.system, q.size), "ingest_s")
<1>1. CASE q.experiment = "A" /\ q.system \in {"syncfs", "bucketfs"} /\ q.nodes = 2
  BY <1>1, IngestCell DEF Figure
<1>2. CASE q.experiment = "C" /\ q.system = "plainfile" /\ q.nodes = 0
  BY <1>2, IngestCell DEF Figure
<1> QED BY <1>1, <1>2 DEF Quoted

LEMMA IngestShows ==
    ASSUME IInv, NEW q \in Quoted, q.metric = "ingest_s", Figure(q) # None
    PROVE  LET k == <<q.system, q.size>> IN
             /\ k \in DOMAIN baseline_table(kept)
             /\ baseline_table(kept)[k].shows = "median"
             /\ baseline_table(kept)[k].median = Figure(q)
<1> DEFINE k == <<q.system, q.size>>
           G == IngestRows(q.system, q.size)
<1>1. Figure(q) = median_of(G, "ingest_s")
  BY IngestFigure
<1>2. cell_values(G, "ingest_s") # {}
  BY <1>1 DEF median_of
<1>3. G # {}
  BY <1>2 DEF cell_values
<1>4. k \in DOMAIN baseline_groups(kept) /\ baseline_groups(kept)[k] = G
  BY <1>3, IngestGroup
<1> HIDE DEF k, G
<1>5. k \in DOMAIN baseline_table(kept) /\ baseline_table(kept)[k] = fmt(G, "ingest_s")
  BY <1>4 DEF baseline_table
<1> QED BY <1>1, <1>2, <1>5, ShowsMedian DEF k

\* A figure of the ingest table for 1 GiB is quoted.
LEMMA IngestQuoted ==
    ASSUME IInv, TypeOK, NEW k \in DOMAIN baseline_table(kept), k[2] = GIB,
           baseline_table(kept)[k].shows = "median"
    PROVE  \E q \in DOMAIN macros : q.metric = "ingest_s" /\ q.system = k[1] /\ q.size = GIB
<1> DEFINE G == IngestRows(k[1], GIB)
<1>1. k \in DOMAIN baseline_groups(kept) /\ k = <<k[1], GIB>>
  BY IngestKey DEF baseline_table
<1>2. baseline_groups(kept)[k] = G
  BY <1>1, IngestGroup
<1>3. cell_values(G, "ingest_s") # {}
  <2> HIDE DEF G
  <2> QED BY <1>1, <1>2, ShowsMedian DEF baseline_table
<1>4. G \in SUBSET rows
  BY DEF IngestRows, Of, kept, drop_arm
<1>5. median_of(G, "ingest_s") # None
  <2> HIDE DEF G
  <2> QED BY <1>3, <1>4, FigureExists
<1>6. k[1] \in {"syncfs", "bucketfs", "plainfile"}
  <2>1. PICK r \in kept : k[1] = system(r)
    BY <1>1, IngestKey
  <2>2. r.cell \in Clustered \cup Many \cup Plain
    BY TablesAssumption DEF kept, drop_arm, IInv
  <2> QED BY <2>1, <2>2 DEF Clustered, Many, Plain, system
<1>7. \E q \in Quoted : q.metric = "ingest_s" /\ q.system = k[1] /\ q.size = GIB
  <2>1. CASE k[1] \in {"syncfs", "bucketfs"}
    <3> DEFINE q == [experiment |-> "A", system |-> k[1], nodes |-> 2, size |-> GIB,
                     metric |-> "ingest_s"]
    <3>1. q \in Quoted /\ q.metric = "ingest_s" /\ q.system = k[1] /\ q.size = GIB
      BY <2>1 DEF Quoted
    <3> HIDE DEF q
    <3> QED BY <3>1
  <2>2. CASE k[1] = "plainfile"
    <3> DEFINE q == [experiment |-> "C", system |-> k[1], nodes |-> 0, size |-> GIB,
                     metric |-> "ingest_s"]
    <3>1. q \in Quoted /\ q.metric = "ingest_s" /\ q.system = k[1] /\ q.size = GIB
      BY <2>2 DEF Quoted
    <3> HIDE DEF q
    <3> QED BY <3>1
  <2> QED BY <1>6, <2>1, <2>2
<1>8. PICK q \in Quoted : q.metric = "ingest_s" /\ q.system = k[1] /\ q.size = GIB
  BY <1>7
<1>9. Figure(q) # None
  BY <1>5, <1>8, IngestFigure
<1> QED BY <1>8, <1>9 DEF macros

\* A figure of propagation is of a cell of experiment A, and one for syncfs
\* means that its size was measured.
LEMMA PropagatedFigure ==
    ASSUME NEW size, NEW nodes
    PROVE  /\ Propagated(nodes, size) = median_of(SpreadRows("syncfs", size, nodes), "propagation_s")
           /\ Propagated(nodes, size) # None => size \in measured_sizes(nodes)
<1>1. Propagated(nodes, size) = median_of(SpreadRows("syncfs", size, nodes), "propagation_s")
  BY DEF Propagated, Figure, SpreadRows
<1>2. SpreadRows("syncfs", size, nodes) # {} => size \in measured_sizes(nodes)
  BY DEF SpreadRows, Cell, drop_arm, measured_sizes, Of
<1>3. Propagated(nodes, size) # None => SpreadRows("syncfs", size, nodes) # {}
  BY <1>1 DEF median_of, cell_values
<1> QED BY <1>1, <1>2, <1>3

\* For every plan and any rows, what a macro or a verdict quotes is what the
\* tables show for that cell, a figure of the ingest table for 1 GiB has its
\* macro, and the growth the prose quotes for the largest size is the one the
\* verdict is about (tex_tables.py:474-475).
THEOREM ProseIsTheTables == Spec => []ProseMatchesTables
<1>1. IInv /\ TypeOK => ProseMatchesTables
  <2> SUFFICES ASSUME IInv, TypeOK PROVE ProseMatchesTables
    OBVIOUS
  <2> DEFINE spread == matrix_table(Of(kept, "A"), "propagation_s")
             ingest == IF Of(kept, "C") = {} THEN <<>> ELSE baseline_table(kept)
             Says(entry, figure) == entry.shows = "median" /\ entry.median = figure
             both == measured_sizes(10) \cap measured_sizes(20)
  <2>1. ASSUME NEW q \in DOMAIN macros
        PROVE  IF q.metric = "propagation_s"
               THEN Says(spread[<<q.system, q.size, q.nodes>>], macros[q])
               ELSE Of(kept, "C") # {} =>
                      /\ <<q.system, q.size>> \in DOMAIN ingest
                      /\ Says(ingest[<<q.system, q.size>>], macros[q])
    <3>1. q \in Quoted /\ Figure(q) # None /\ macros[q] = Figure(q)
      BY DEF macros
    <3>2. CASE q.metric = "propagation_s"
      <4>1. q.experiment = "A"
        BY <3>1, <3>2 DEF Quoted
      <4>2. Figure(q) = median_of(SpreadRows(q.system, q.size, q.nodes), "propagation_s")
        BY <3>2, <4>1 DEF Figure, SpreadRows
      <4> QED BY <3>1, <3>2, <4>2, SpreadShows
    <3>3. CASE q.metric # "propagation_s"
      <4>1. q.metric = "ingest_s"
        BY <3>1, <3>3 DEF Quoted
      <4> QED BY <3>1, <3>3, <4>1, IngestShows
    <3> QED BY <3>2, <3>3
  <2>2. ASSUME NEW k \in DOMAIN ingest, k[2] = GIB, ingest[k].shows = "median"
        PROVE  \E q \in DOMAIN macros : q.metric = "ingest_s" /\ q.system = k[1] /\ q.size = GIB
    <3>1. Of(kept, "C") # {}
      BY <2>2
    <3> QED BY <2>2, <3>1, IngestQuoted
  <2>3. ASSUME NEW nodes, NEW size, Propagated(nodes, size) # None
        PROVE  Says(spread[<<"syncfs", size, nodes>>], Propagated(nodes, size))
    BY <2>3, PropagatedFigure, SpreadShows
  <2>4. scenario_table.small.figure # None =>
          Says(spread[<<"syncfs", nearest(measured_sizes(10)), 10>>], scenario_table.small.figure)
    <3>1. scenario_table.small.figure =
            IF measured_sizes(10) = {} THEN None ELSE Propagated(10, nearest(measured_sizes(10)))
      BY DEF scenario_table, Line
    <3> HIDE DEF spread, Says
    <3> QED BY <2>3, <3>1
  <2>5. scenario_table.big.figure # None =>
          Says(spread[<<"syncfs", GIB, 10>>], scenario_table.big.figure)
    <3>1. scenario_table.big.figure = Propagated(10, GIB)
      BY DEF scenario_table, Line
    <3> HIDE DEF spread, Says
    <3> QED BY <2>3, <3>1
  <2>6. ASSUME NEW size \in DOMAIN scaling, NEW g \in scaling[size]
        PROVE  /\ Says(spread[<<"syncfs", size, 10>>], g[1])
               /\ Says(spread[<<"syncfs", size, 20>>], g[2])
               /\ size = Max(both) => g \in scenario_table.growth.figure
    <3>1. g \in Growth(size)
      BY DEF scaling
    <3>2. /\ g = <<Propagated(10, size), Propagated(20, size)>>
          /\ Propagated(10, size) # None /\ Propagated(20, size) # None
      BY <3>1 DEF Growth
    <3>3. both # {}
      BY <3>2, PropagatedFigure
    <3>4. scenario_table.growth.figure = Growth(Max(both))
      BY <3>3 DEF scenario_table
    <3>5. g[1] = Propagated(10, size) /\ g[2] = Propagated(20, size)
      BY <3>2
    <3> HIDE DEF spread, Says, both
    <3> QED BY <2>3, <3>1, <3>2, <3>4, <3>5
  <2> QED BY <2>1, <2>2, <2>4, <2>5, <2>6, Zenon DEF ProseMatchesTables
<1> QED BY <1>1, AlwaysInv, TablesTypeCorrect, PTL

-----------------------------------------------------------------------------
(* Three counts of the runs that did not converge.                         *)

\* The sizes of disjoint sets add up to the size of their union: number the
\* members of each, and a pair of a set and a number is a member of the union.
LEMMA TotalOfParts ==
    ASSUME NEW parts, NEW counts, DOMAIN counts = DOMAIN parts,
           IsFiniteSet(UNION {parts[k] : k \in DOMAIN parts}),
           \A k \in DOMAIN parts : counts[k] = Cardinality(parts[k]),
           \A k, l \in DOMAIN parts : k # l => parts[k] \cap parts[l] = {}
    PROVE  Total(counts) = Cardinality(UNION {parts[k] : k \in DOMAIN parts})
<1> DEFINE All == UNION {parts[k] : k \in DOMAIN parts}
           Pairs == UNION {{k} \X (1 .. counts[k]) : k \in DOMAIN counts}
           Member(k) == CHOOSE f : f \in Bijection(1 .. counts[k], parts[k])
           F == [p \in Pairs |-> Member(p[1])[p[2]]]
<1>1. ASSUME NEW k \in DOMAIN parts
      PROVE  Member(k) \in Bijection(1 .. counts[k], parts[k])
  <2>1. parts[k] \in SUBSET All
    OBVIOUS
  <2>2. IsFiniteSet(parts[k])
    <3> HIDE DEF All
    <3>1. IsFiniteSet(All)
      BY DEF All
    <3> QED BY <2>1, <3>1, FS_Subset
  <2>3. ExistsBijection(1 .. Cardinality(parts[k]), parts[k])
    BY <2>2, FS_CardinalityType
  <2>4. \E f : f \in Bijection(1 .. counts[k], parts[k])
    BY <2>3, Zenon DEF ExistsBijection
  <2> QED BY <2>4, Zenon
<1>2. ASSUME NEW k \in DOMAIN parts
      PROVE  /\ Member(k) \in [1 .. counts[k] -> parts[k]]
             /\ \A i, j \in 1 .. counts[k] : Member(k)[i] = Member(k)[j] => i = j
             /\ \A r \in parts[k] : \E i \in 1 .. counts[k] : Member(k)[i] = r
  <2> HIDE DEF Member
  <2>1. Member(k) \in Bijection(1 .. counts[k], parts[k])
    BY <1>1
  <2> QED BY <2>1 DEF Bijection, Injection, Surjection, IsInjective
<1>3. ASSUME NEW p \in Pairs
      PROVE  p[1] \in DOMAIN parts /\ p[2] \in 1 .. counts[p[1]] /\ p = <<p[1], p[2]>>
  OBVIOUS
<1>4. ASSUME NEW k \in DOMAIN parts, NEW i \in 1 .. counts[k]
      PROVE  <<k, i>> \in Pairs /\ <<k, i>>[1] = k /\ <<k, i>>[2] = i
  OBVIOUS
<1>5. \A p \in Pairs : F[p] = Member(p[1])[p[2]] /\ F[p] \in parts[p[1]]
  <2> SUFFICES ASSUME NEW p \in Pairs
               PROVE  F[p] = Member(p[1])[p[2]] /\ F[p] \in parts[p[1]]
    OBVIOUS
  <2> HIDE DEF Member, Pairs
  <2> QED BY <1>2, <1>3
<1> HIDE DEF Member, Pairs
<1>6. F \in [Pairs -> All]
  <2>1. \A p \in Pairs : F[p] \in All
    BY <1>3, <1>5
  <2> QED BY <2>1
<1>7. ASSUME NEW p \in Pairs, NEW q \in Pairs, F[p] = F[q]
      PROVE  p = q
  <2> HIDE DEF F
  <2>1. p[1] = q[1]
    BY <1>3, <1>5, <1>7
  <2>2. p[2] = q[2]
    BY <1>2, <1>3, <1>5, <1>7, <2>1
  <2> QED BY <1>3, <2>1, <2>2
<1>8. ASSUME NEW r \in All
      PROVE  \E p \in Pairs : F[p] = r
  <2>1. PICK k \in DOMAIN parts : r \in parts[k]
    OBVIOUS
  <2>2. PICK i \in 1 .. counts[k] : Member(k)[i] = r
    BY <1>2, <2>1
  <2> DEFINE p == <<k, i>>
  <2>3. p \in Pairs /\ p[1] = k /\ p[2] = i
    BY <1>4
  <2> HIDE DEF F, p
  <2>4. F[p] = r
    BY <1>5, <2>2, <2>3
  <2> QED BY <2>3, <2>4
<1> HIDE DEF F, All
<1>9. F \in Bijection(Pairs, All)
  BY <1>6, <1>7, <1>8, Fun_IsBij
<1>10. ExistsBijection(All, Pairs)
  BY <1>9, Fun_ExistsBijSymmetric DEF ExistsBijection
<1>11. Cardinality(Pairs) = Cardinality(All)
  BY <1>10, FS_Bijection DEF All
<1> QED BY <1>11 DEF Total, Pairs, All

\* The runs of an experiment and a system that did not converge, of those the
\* tables keep.
Failed(e, sys) == {r \in bad(Of(kept, e)) : system(r) = sys}

LEMMA FailedFinite ==
    ASSUME IInv, NEW e, NEW sys
    PROVE  IsFiniteSet(Failed(e, sys))
<1>1. Failed(e, sys) \in SUBSET rows
  BY DEF Failed, bad, Of, kept, drop_arm
<1> QED BY <1>1, FS_Subset DEF IInv

\* The daggers of a table whose entries are keyed by the system first.
LEMMA DaggersOfTable ==
    ASSUME IInv, NEW e, NEW key, DOMAIN key = Of(kept, e),
           \A r \in Of(kept, e) : \E x, y : key[r] = <<system(r), x, y>>,
           NEW metric, NEW sys
    PROVE  LET table == Fill(group_by(key), metric) IN
             Total([k \in {k \in Shown(table) : k[1] = sys} |-> table[k].marks])
               = Cardinality(Failed(e, sys))
<1> DEFINE groups == group_by(key)
           table == Fill(groups, metric)
           K == {k \in DOMAIN groups : k[1] = sys}
           parts == [k \in K |-> bad(groups[k])]
           counts == [k \in {k \in Shown(table) : k[1] = sys} |-> table[k].marks]
<1>1. ASSUME NEW k \in DOMAIN groups
      PROVE  /\ k \in Grid(groups)
             /\ groups[k] = {r \in Of(kept, e) : key[r] = k}
             /\ table[k] = fmt(groups[k], metric)
  <2>1. PICK r \in Of(kept, e) : key[r] = k
    BY GroupOfKey
  <2>2. k = <<k[1], k[2], k[3]>>
    BY <2>1
  <2>3. k \in Grid(groups)
    <3> HIDE DEF groups
    <3> QED BY <2>2 DEF Grid
  <2>4. groups[k] = {x \in Of(kept, e) : key[x] = k}
    BY GroupOfKey
  <2> HIDE DEF groups
  <2> QED BY <2>3, <2>4 DEF Fill
<1>2. \A G : fmt(G, metric) # MISSING /\ fmt(G, metric).marks = Cardinality(bad(G))
  BY DEF fmt, median_range, MISSING
<1>3. Shown(table) = DOMAIN groups
  <2>1. DOMAIN table = Grid(groups)
    BY DEF Fill
  <2>2. \A k \in DOMAIN table : k \notin DOMAIN groups => table[k] = MISSING
    <3> HIDE DEF groups
    <3> QED BY DEF Fill
  <2> HIDE DEF table, groups
  <2> QED BY <1>1, <1>2, <2>1, <2>2 DEF Shown
<1>4. DOMAIN counts = K /\ DOMAIN parts = K
  <2> HIDE DEF table, groups
  <2> QED BY <1>3
<1>5. \A k \in K : counts[k] = Cardinality(parts[k])
  <2> HIDE DEF table, groups
  <2> QED BY <1>1, <1>2, <1>3
<1>6. \A k, l \in K : k # l => parts[k] \cap parts[l] = {}
  <2> SUFFICES ASSUME NEW k \in K, NEW l \in K, NEW r \in parts[k], r \in parts[l]
               PROVE  k = l
    OBVIOUS
  <2>1. r \in groups[k] /\ r \in groups[l]
    BY DEF bad
  <2> HIDE DEF groups
  <2> QED BY <1>1, <2>1
<1>7. UNION {parts[k] : k \in K} = Failed(e, sys)
  <2>1. ASSUME NEW k \in K, NEW r \in parts[k]
        PROVE  r \in Failed(e, sys)
    <3>1. r \in bad(groups[k]) /\ k \in DOMAIN groups /\ k[1] = sys
      OBVIOUS
    <3> HIDE DEF groups
    <3>2. r \in Of(kept, e) /\ key[r] = k /\ ~r.result.converged
      BY <1>1, <3>1 DEF bad
    <3>3. system(r) = sys
      BY <3>1, <3>2
    <3> QED BY <3>2, <3>3 DEF Failed, bad
  <2>2. ASSUME NEW r \in Failed(e, sys)
        PROVE  \E k \in K : r \in parts[k]
    <3>1. r \in Of(kept, e) /\ ~r.result.converged /\ system(r) = sys
      BY DEF Failed, bad
    <3>2. key[r] \in DOMAIN groups /\ key[r][1] = sys
      BY <3>1, GroupOfKey
    <3> HIDE DEF groups
    <3>3. r \in bad(groups[key[r]])
      BY <1>1, <3>1, <3>2 DEF bad
    <3> QED BY <3>2, <3>3
  <2> HIDE DEF K, parts
  <2> QED BY <2>1, <2>2
<1>8. IsFiniteSet(Failed(e, sys))
  BY FailedFinite
<1> HIDE DEF K, parts, counts
<1>9. Total(counts) = Cardinality(Failed(e, sys))
  BY <1>4, <1>5, <1>6, <1>7, <1>8, TotalOfParts
<1> QED BY <1>9 DEF counts, table, groups

\* The lines of the table of non-convergences, of one experiment and system.
LEMMA LinesOfNote ==
    ASSUME IInv, NEW e, NEW sys
    PROVE  LET note == nonconvergence_note(kept) IN
             Total([k \in {k \in DOMAIN note : k.experiment = e /\ k.system = sys} |-> note[k]])
               = Cardinality(Failed(e, sys))
<1> DEFINE key == [r \in bad(kept) |-> failure(r)]
           tally == group_by(key)
           note == nonconvergence_note(kept)
           K == {k \in DOMAIN tally : k.experiment = e /\ k.system = sys}
           parts == [k \in K |-> tally[k]]
           counts == [k \in {k \in DOMAIN note : k.experiment = e /\ k.system = sys} |-> note[k]]
<1>1. note = [k \in DOMAIN tally |-> Cardinality(tally[k])]
  BY DEF nonconvergence_note
<1>2. DOMAIN key = bad(kept) /\ \A r \in bad(kept) : key[r] = failure(r)
  OBVIOUS
<1> HIDE DEF key
<1>3. \A k : /\ k \in DOMAIN tally <=> \E r \in bad(kept) : failure(r) = k
             /\ k \in DOMAIN tally => tally[k] = {r \in bad(kept) : failure(r) = k}
  BY <1>2, GroupOfKey
<1> HIDE DEF tally, note
<1>4. DOMAIN counts = K /\ DOMAIN parts = K
  BY <1>1
<1>5. \A k \in K : counts[k] = Cardinality(parts[k])
  BY <1>1
<1>6. \A k, l \in K : k # l => parts[k] \cap parts[l] = {}
  BY <1>3
<1>7. \A r : failure(r).experiment = r.cell.experiment /\ failure(r).system = system(r)
  BY DEF failure
<1>8. UNION {parts[k] : k \in K} = Failed(e, sys)
  <2>1. ASSUME NEW k \in K, NEW r \in parts[k]
        PROVE  r \in Failed(e, sys)
    <3>1. r \in bad(kept) /\ failure(r) = k /\ k.experiment = e /\ k.system = sys
      BY <1>3
    <3> QED BY <1>7, <3>1 DEF Failed, bad, Of
  <2>2. ASSUME NEW r \in Failed(e, sys)
        PROVE  \E k \in K : r \in parts[k]
    <3>1. r \in bad(kept) /\ r.cell.experiment = e /\ system(r) = sys
      BY DEF Failed, bad, Of
    <3>2. failure(r) \in K /\ r \in tally[failure(r)]
      BY <1>3, <1>7, <3>1
    <3> QED BY <3>2
  <2> HIDE DEF K, parts
  <2> QED BY <2>1, <2>2
<1>9. IsFiniteSet(Failed(e, sys))
  BY FailedFinite
<1> HIDE DEF K, parts, counts
<1>10. Total(counts) = Cardinality(Failed(e, sys))
  BY <1>4, <1>5, <1>6, <1>8, <1>9, TotalOfParts
<1> QED BY <1>10 DEF counts, note

\* Nothing of syncfs is left out, and syncfs is in no other experiment.
LEMMA FailedSyncfs ==
    ASSUME IInv
    PROVE  /\ \A e : {r \in bad(Of(rows, e)) : system(r) = "syncfs"} = Failed(e, "syncfs")
           /\ \A r \in bad(kept) : system(r) = "syncfs" =>
                r \in Failed("A", "syncfs") \cup Failed("B", "syncfs")
<1>1. \A r \in rows : r.cell \in Clustered \cup Many \cup Plain
  BY TablesAssumption DEF IInv
<1>2. \A r \in rows : system(r) = "syncfs" =>
        r.cell.arm # DROPPED_ARM /\ r.cell.experiment \in {"A", "B"}
  BY <1>1 DEF Clustered, Many, Plain, DROPPED_ARM, system
<1> QED BY <1>2 DEF Failed, bad, Of, kept, drop_arm

\* For every plan and any rows, the daggers of the two tables, the lines of the
\* table of non-convergences and, for syncfs, the count of the last requirement
\* are the same numbers, and the requirement is met exactly when no line names
\* syncfs (tex_tables.py:152, 329-339, 388-408).
THEOREM CountsAgree == Spec => []DaggersAddUp
<1>1. IInv => DaggersAddUp
  <2> SUFFICES ASSUME IInv PROVE DaggersAddUp
    OBVIOUS
  <2> DEFINE spread == matrix_table(Of(kept, "A"), "propagation_s")
             trees == tree_table(Of(kept, "B"))
             note == nonconvergence_note(kept)
             daggers(table, sys) ==
               Total([k \in {k \in Shown(table) : k[1] = sys} |-> table[k].marks])
             listed(e, sys) ==
               Total([k \in {k \in DOMAIN note : k.experiment = e /\ k.system = sys} |-> note[k]])
  <2>1. \A e, sys : listed(e, sys) = Cardinality(Failed(e, sys))
    BY LinesOfNote
  <2>2. \A sys : daggers(spread, sys) = Cardinality(Failed("A", sys))
    <3> DEFINE key == size_key(Of(kept, "A"))
    <3>1. DOMAIN key = Of(kept, "A")
      BY DEF size_key
    <3>2. \A r \in Of(kept, "A") : \E x, y : key[r] = <<system(r), x, y>>
      BY DEF size_key
    <3> HIDE DEF key
    <3>3. \A sys : daggers(Fill(group_by(key), "propagation_s"), sys)
                     = Cardinality(Failed("A", sys))
      BY <3>1, <3>2, DaggersOfTable
    <3> QED BY <3>3 DEF matrix_table, key
  <2>3. \A sys : daggers(trees, sys) = Cardinality(Failed("B", sys))
    <3> DEFINE key == count_key(Of(kept, "B"))
    <3>1. DOMAIN key = Of(kept, "B")
      BY DEF count_key
    <3>2. \A r \in Of(kept, "B") : \E x, y : key[r] = <<system(r), x, y>>
      BY DEF count_key
    <3> HIDE DEF key
    <3>3. \A sys : daggers(Fill(group_by(key), "propagation_s"), sys)
                     = Cardinality(Failed("B", sys))
      BY <3>1, <3>2, DaggersOfTable
    <3> QED BY <3>3 DEF tree_table, key
  <2>4. /\ bounded_line.single = Cardinality(Failed("A", "syncfs"))
        /\ bounded_line.many = Cardinality(Failed("B", "syncfs"))
        /\ bounded_line.verdict = IF bounded_line.single + bounded_line.many = 0
                                  THEN "met" ELSE "partly"
    BY FailedSyncfs, Zenon DEF bounded_line
  <2>5. bounded_line.verdict = "met" <=> \A k \in DOMAIN note : k.system # "syncfs"
    <3>1. \A e \in {"A", "B"} : /\ Cardinality(Failed(e, "syncfs")) \in Nat
                                /\ Cardinality(Failed(e, "syncfs")) = 0
                                     <=> Failed(e, "syncfs") = {}
      BY FailedFinite, FS_CardinalityType, FS_EmptySet
    <3>2. bounded_line.verdict = "met"
            <=> Failed("A", "syncfs") = {} /\ Failed("B", "syncfs") = {}
      BY <2>4, <3>1
    <3>3. DOMAIN note = {failure(r) : r \in bad(kept)}
      BY DEF nonconvergence_note, group_by
    <3>4. (\A k \in DOMAIN note : k.system # "syncfs")
            <=> \A r \in bad(kept) : system(r) # "syncfs"
      <4>1. \A r : failure(r).system = system(r)
        BY DEF failure
      <4> HIDE DEF note
      <4> QED BY <3>3, <4>1
    <3>5. Failed("A", "syncfs") \cup Failed("B", "syncfs")
            = {r \in bad(kept) : system(r) = "syncfs"}
      BY FailedSyncfs DEF Failed, bad, Of
    <3> HIDE DEF note
    <3> QED BY <3>2, <3>4, <3>5
  <2> HIDE DEF daggers, listed
  <2>6. /\ \A sys \in {"syncfs", "bucketfs"} : /\ daggers(spread, sys) = listed("A", sys)
                                              /\ daggers(trees, sys) = listed("B", sys)
        /\ bounded_line.single = listed("A", "syncfs")
        /\ bounded_line.many = listed("B", "syncfs")
    BY <2>1, <2>2, <2>3, <2>4, Zenon
  <2> QED BY <2>5, <2>6, Zenon DEF DaggersAddUp, daggers, listed
<1> QED BY <1>1, AlwaysInv, PTL

=============================================================================
