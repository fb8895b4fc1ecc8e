---------------------------- MODULE TablesProofs ----------------------------
(***************************************************************************)
(* Theorems about Tables, for every plan, every set of nodes and times and *)
(* any number of rows: types, and that entries and bounds mean what they   *)
(* say.                                                                    *)
(***************************************************************************)
EXTENDS Tables, TLAPS, FiniteSetTheorems

-----------------------------------------------------------------------------
(* The last arrival.                                                       *)

\* A finite set of naturals has a greatest element.
LEMMA MaxExists ==
    ASSUME NEW S \in SUBSET Nat, IsFiniteSet(S), S # {}
    PROVE  \E x \in S : \A y \in S : x >= y
<1> DEFINE Topless == {U \in SUBSET S : U # {} /\ ~ \E x \in U : \A y \in U : x >= y}
<1> SUFFICES ASSUME S \in Topless PROVE FALSE
  OBVIOUS
<1>1. IsWellFoundedOn(StrictSubsetOrdering(S), SUBSET S)
  BY FS_StrictSubsetOrderingWellFounded, FS_FiniteSubsetsOfFinite
<1>2. PICK U \in Topless : \A V \in Topless : ~ (<<V, U>> \in StrictSubsetOrdering(S))
  <2>1. Topless \subseteq SUBSET S /\ Topless # {}
    OBVIOUS
  <2> HIDE DEF Topless
  <2> QED BY <1>1, <2>1, WFMin, Zenon
<1>3. PICK u \in U : u \in Nat
  OBVIOUS
<1>4. U \ {u} \notin Topless
  <2>1. /\ <<U \ {u}, U>> \in (SUBSET S) \X (SUBSET S)
        /\ <<U \ {u}, U>>[1] = U \ {u} /\ <<U \ {u}, U>>[2] = U
        /\ U \ {u} \subseteq U /\ U \ {u} # U
    BY <1>3
  <2>2. <<U \ {u}, U>> \in StrictSubsetOrdering(S)
    BY <2>1, Zenon DEF StrictSubsetOrdering
  <2> QED BY <1>2, <2>2
<1>5. CASE U \ {u} = {}
  BY <1>2, <1>3, <1>5
<1>6. CASE U \ {u} # {}
  <2>1. PICK m \in U \ {u} : \A y \in U \ {u} : m >= y
    BY <1>2, <1>4, <1>6
  <2>2. m \in Nat
    BY <1>2, <2>1
  <2>3. CASE m >= u
    BY <1>2, <1>3, <2>1, <2>2, <2>3
  <2>4. CASE u >= m
    <3>1. \A y \in U : u >= y
      <4> SUFFICES ASSUME NEW y \in U PROVE u >= y
        OBVIOUS
      <4>1. y \in Nat
        BY <1>2
      <4> QED BY <1>3, <2>1, <2>2, <2>4, <4>1
    <3> QED BY <1>2, <3>1
  <2> QED BY <1>3, <2>2, <2>3, <2>4
<1> QED BY <1>5, <1>6

\* The last arrival is one of the arrivals, and none is later.
LEMMA LastArrival ==
    ASSUME NEW arrivals \in Arrivals
    PROVE  /\ Came(arrivals) \subseteq Watched
           /\ \A n \in Came(arrivals) : arrivals[n] \in Nat
           /\ Came(arrivals) = {} => last(arrivals) = None
           /\ Came(arrivals) # {} =>
                /\ last(arrivals) \in Nat
                /\ \E n \in Came(arrivals) : last(arrivals) = arrivals[n]
                /\ \A n \in Came(arrivals) : arrivals[n] <= last(arrivals)
<1> DEFINE S == {arrivals[n] : n \in Came(arrivals)}
<1>1. /\ Came(arrivals) \subseteq Watched
      /\ \A n \in Came(arrivals) : arrivals[n] \in Times
  BY DEF Came, Arrivals
<1>2. \A n \in Came(arrivals) : arrivals[n] \in Nat
  BY <1>1, TablesAssumption
<1>3. Came(arrivals) = {} => last(arrivals) = None
  BY DEF last
<1>4. ASSUME Came(arrivals) # {}
      PROVE  /\ last(arrivals) \in Nat
             /\ \E n \in Came(arrivals) : last(arrivals) = arrivals[n]
             /\ \A n \in Came(arrivals) : arrivals[n] <= last(arrivals)
  <2>1. S \in SUBSET Times /\ S \in SUBSET Nat /\ S # {}
    BY <1>1, <1>2, <1>4
  <2>2. IsFiniteSet(S)
    BY <2>1, FS_Subset, TablesAssumption
  <2>3. \E x \in S : \A y \in S : x >= y
    <3> HIDE DEF S
    <3> QED BY <2>1, <2>2, MaxExists
  <2>4. last(arrivals) = Max(S)
    BY <1>4 DEF last
  <2>5. Max(S) \in S /\ \A y \in S : Max(S) >= y
    BY <2>3, Zenon DEF Max
  <2>6. \A n \in Came(arrivals) : arrivals[n] \in S
    OBVIOUS
  <2>7. last(arrivals) \in S /\ last(arrivals) \in Nat
    BY <2>1, <2>4, <2>5
  <2>8. \A n \in Came(arrivals) : arrivals[n] <= last(arrivals)
    <3> SUFFICES ASSUME NEW n \in Came(arrivals) PROVE arrivals[n] <= last(arrivals)
      OBVIOUS
    <3>1. arrivals[n] \in Nat /\ last(arrivals) >= arrivals[n]
      BY <1>2, <2>4, <2>5, <2>6
    <3> QED BY <2>7, <3>1
  <2> QED BY <2>7, <2>8
<1> QED BY <1>1, <1>2, <1>3, <1>4

-----------------------------------------------------------------------------
(* What every row is.                                                      *)

\* A row is what summarise makes of some arrivals and some number of hashes, or
\* what experiment_c writes for some time.
Measured(r) ==
    IF r.cell \in Plain
    THEN \E elapsed \in Times : r.result = plain_result(elapsed)
    ELSE \E arrivals \in Arrivals, distinct \in Nat : r.result = summarise(arrivals, distinct)

IInv ==
    /\ IsFiniteSet(rows)
    /\ \A r \in rows : r.cell \in Plan /\ r.repeat \in Nat /\ Measured(r)
    /\ \A r \in rows : r = [cell |-> r.cell, repeat |-> r.repeat, result |-> r.result]

LEMMA RecordInv ==
    ASSUME IInv, NEW c \in Plan, NEW result, Record(c, result),
           \A k : Measured([cell |-> c, repeat |-> k, result |-> result])
    PROVE  IInv'
<1> DEFINE new == [cell |-> c, repeat |-> Cardinality(Repeats(c)), result |-> result]
<1>1. rows' = rows \cup {new}
  BY DEF Record
<1>2. Cardinality(Repeats(c)) \in Nat
  <2>1. Repeats(c) \in SUBSET rows
    BY DEF Repeats
  <2> QED BY <2>1, FS_Subset, FS_CardinalityType DEF IInv
<1>3. IsFiniteSet(rows')
  BY <1>1, FS_AddElement DEF IInv
<1>4. new.cell = c /\ new.repeat \in Nat /\ Measured(new)
  BY <1>2
<1>5. new = [cell |-> new.cell, repeat |-> new.repeat, result |-> new.result]
  OBVIOUS
<1> HIDE DEF new
<1> QED BY <1>1, <1>3, <1>4, <1>5 DEF IInv, Measured

LEMMA DistinctType ==
    ASSUME NEW arrivals \in Arrivals, NEW distinct \in Distinct(arrivals)
    PROVE  distinct \in Nat
<1>1. Came(arrivals) \in SUBSET Watched
  BY LastArrival
<1>2. Cardinality(Came(arrivals)) \in Nat
  BY <1>1, FS_Subset, FS_CardinalityType, TablesAssumption
<1> QED BY <1>2 DEF Distinct

LEMMA AlwaysInv == Spec => []IInv
<1>1. Init => IInv
  BY FS_EmptySet DEF Init, IInv
<1>2. IInv /\ [Next]_rows => IInv'
  <2> SUFFICES ASSUME IInv, [Next]_rows PROVE IInv'
    OBVIOUS
  <2>1. CASE Measure
    <3>1. PICK c \in Plan \ Plain, arrivals \in Arrivals :
             \E distinct \in Distinct(arrivals) : Record(c, summarise(arrivals, distinct))
      BY <2>1 DEF Measure
    <3>2. PICK distinct \in Distinct(arrivals) : Record(c, summarise(arrivals, distinct))
      BY <3>1
    <3>3. \A k : Measured([cell |-> c, repeat |-> k, result |-> summarise(arrivals, distinct)])
      BY DistinctType DEF Measured
    <3> QED BY <2>1, <3>2, <3>3, RecordInv DEF Measure
  <2>2. CASE MeasurePlain
    <3>1. PICK c \in Plan \cap Plain, elapsed \in Times : Record(c, plain_result(elapsed))
      BY <2>2 DEF MeasurePlain
    <3>2. \A k : Measured([cell |-> c, repeat |-> k, result |-> plain_result(elapsed)])
      BY DEF Measured
    <3> QED BY <2>2, <3>1, <3>2, RecordInv DEF MeasurePlain
  <2>3. CASE UNCHANGED rows
    BY <2>3 DEF IInv, Measured
  <2> QED BY <2>1, <2>2, <2>3 DEF Next
<1> QED BY <1>1, <1>2, PTL DEF Spec

\* The fields of a row: their types, and that a row with a time missing did not
\* converge.
LEMMA SummariseFacts ==
    ASSUME NEW arrivals \in Arrivals, NEW distinct \in Nat
    PROVE  LET s == summarise(arrivals, distinct) IN
             /\ s.ingest_s \in Nat \cup {None}
             /\ s.propagation_s \in Nat \cup {None}
             /\ s.fanout_s \in Nat \cup {None}
             /\ s.converged \in BOOLEAN
             /\ s.distinct_hashes \in Nat
             /\ s.propagation_s = None => ~ s.converged
             /\ s.fanout_s = None => ~ s.converged
<1> DEFINE ingest == arrivals[writer]
<1>1. writer \in Watched /\ ingest \in Times \cup {None} /\ Times \subseteq Nat
  BY TablesAssumption DEF Arrivals
<1>2. CASE ingest = None
  <2>1. writer \notin Came(arrivals)
    BY <1>2 DEF Came
  <2> QED BY <1>1, <1>2, <2>1, LastArrival DEF summarise
<1>3. CASE ingest # None
  <2>1. writer \in Came(arrivals)
    BY <1>1, <1>3 DEF Came, Arrivals
  <2>2. last(arrivals) \in Nat /\ ingest \in Nat /\ ingest <= last(arrivals)
    BY <1>1, <1>3, <2>1, LastArrival
  <2>3. last(arrivals) - ingest \in Nat /\ last(arrivals) # None
    BY <2>2 DEF None
  <2>4. last(arrivals) - ingest # None
    BY <2>3 DEF None
  <2> QED BY <1>3, <2>2, <2>3, <2>4 DEF summarise
<1> QED BY <1>2, <1>3

\* Rows stay within their types, the fan-out natural or missing, for every plan and
\* any number of rows (run_matrix.py: summarise, append).
THEOREM TablesTypeCorrect == Spec => []TypeOK
<1>1. IInv => TypeOK
  <2> SUFFICES ASSUME IInv, NEW r \in rows PROVE r \in Row
    BY DEF IInv, TypeOK
  <2> DEFINE Result == [ingest_s : Nat \cup {None}, propagation_s : Nat \cup {None},
                        fanout_s : Nat \cup {None}, converged : BOOLEAN, distinct_hashes : Nat,
                        arrivals : Arrivals \cup {<<>>}]
  <2>1. r.cell \in Plan /\ r.repeat \in Nat /\ Measured(r)
        /\ r = [cell |-> r.cell, repeat |-> r.repeat, result |-> r.result]
    BY DEF IInv
  <2>2. r.result \in Result
    <3>1. ASSUME NEW elapsed \in Times PROVE plain_result(elapsed) \in Result
      BY TablesAssumption DEF plain_result
    <3>2. ASSUME NEW arrivals \in Arrivals, NEW distinct \in Nat
          PROVE  summarise(arrivals, distinct) \in Result
      BY SummariseFacts DEF summarise
    <3> QED BY <2>1, <3>1, <3>2 DEF Measured
  <2> QED BY <2>1, <2>2 DEF Row
<1> QED BY <1>1, AlwaysInv, PTL

-----------------------------------------------------------------------------
(* What the tables say.                                                    *)

\* Two rows of experiment A that the tables keep, of one system, size and number
\* of nodes, are of one cell; so are two of experiment B of one system, count and
\* number of nodes, and two of the ingest table of one system and size.
LEMMA KeysTellCells ==
    ASSUME NEW c \in Plan, NEW d \in Plan,
           c.arm # DROPPED_ARM, d.arm # DROPPED_ARM, c.arm[1] = d.arm[1]
    PROVE  /\ c.experiment = "A" /\ d.experiment = "A" /\ c.size = d.size /\ c.nodes = d.nodes
                => c = d
           /\ c.experiment = "B" /\ d.experiment = "B" /\ c.count = d.count /\ c.nodes = d.nodes
                => c = d
           /\ c.experiment = "C" /\ d.experiment = "C" /\ c.size = d.size => c = d
           /\ ~ (c.experiment = "C" /\ d.experiment = "A")
<1>1. c \in Clustered \cup Many \cup Plain /\ d \in Clustered \cup Many \cup Plain
  BY TablesAssumption
<1>2. c.arm = d.arm
  BY <1>1 DEF Clustered, Many, Plain, DROPPED_ARM
<1>3. /\ c = [experiment |-> c.experiment, arm |-> c.arm, nodes |-> c.nodes, size |-> c.size,
              count |-> c.count]
      /\ d = [experiment |-> d.experiment, arm |-> d.arm, nodes |-> d.nodes, size |-> d.size,
              count |-> d.count]
  BY <1>1 DEF Clustered, Many, Plain
<1>4. \A e \in {c, d} : /\ e.experiment = "A" => e.count = 1
                        /\ e.experiment = "B" => e.size = SMALL_FILE
                        /\ e.experiment = "C" => e.count = 1 /\ e.nodes = 0
                        /\ e.experiment = "C" => e.arm[1] = "plainfile"
                        /\ e.experiment = "A" => e.arm[1] # "plainfile"
  BY <1>1 DEF Clustered, Many, Plain
<1> QED BY <1>2, <1>3, <1>4

\* A group holds rows of the key's domain that have one key.
LEMMA OneKeyPerGroup ==
    ASSUME NEW key, NEW k \in DOMAIN group_by(key)
    PROVE  /\ group_by(key)[k] \subseteq DOMAIN key
           /\ \A r, q \in group_by(key)[k] : key[r] = key[q]
BY DEF group_by

LEMMA KeyDomains ==
    ASSUME NEW R
    PROVE  DOMAIN size_key(R) = R /\ DOMAIN count_key(R) = R
BY DEF size_key, count_key

\* Every entry of the tables is made of the repeats of one cell, for every plan
\* (tex_tables.py:82-88, 174, 207, 240-243).
THEOREM EntriesAreCells == Spec => []OneCellPerEntry
<1>1. IInv => OneCellPerEntry
  <2> SUFFICES ASSUME IInv PROVE OneCellPerEntry
    OBVIOUS
  <2>1. \A r \in kept : r.cell \in Plan /\ r.cell.arm # DROPPED_ARM
    BY DEF kept, drop_arm, IInv
  <2>2. ASSUME NEW r \in Of(kept, "A"), NEW q \in Of(kept, "A"),
               size_key(Of(kept, "A"))[r] = size_key(Of(kept, "A"))[q]
        PROVE  r.cell = q.cell
    <3>1. r.cell.arm[1] = q.cell.arm[1] /\ r.cell.size = q.cell.size
          /\ r.cell.nodes = q.cell.nodes
      BY <2>2 DEF size_key, system
    <3> QED BY <2>1, <3>1, KeysTellCells DEF Of
  <2>3. ASSUME NEW r \in Of(kept, "B"), NEW q \in Of(kept, "B"),
               count_key(Of(kept, "B"))[r] = count_key(Of(kept, "B"))[q]
        PROVE  r.cell = q.cell
    <3>1. r.cell.arm[1] = q.cell.arm[1] /\ r.cell.count = q.cell.count
          /\ r.cell.nodes = q.cell.nodes
      BY <2>3 DEF count_key, system
    <3> QED BY <2>1, <3>1, KeysTellCells DEF Of
  <2>4. ASSUME NEW r \in Of(kept, "C") \cup {x \in Of(kept, "A") : x.cell.nodes = 2},
               NEW q \in Of(kept, "C") \cup {x \in Of(kept, "A") : x.cell.nodes = 2},
               <<system(r), r.cell.size>> = <<system(q), q.cell.size>>
        PROVE  r.cell = q.cell
    <3>1. r.cell.arm[1] = q.cell.arm[1] /\ r.cell.size = q.cell.size
      BY <2>4 DEF system
    <3>2. r \in kept /\ q \in kept
      BY DEF Of
    <3>3. /\ r.cell.experiment \in {"A", "C"} /\ (r.cell.experiment = "A" => r.cell.nodes = 2)
          /\ q.cell.experiment \in {"A", "C"} /\ (q.cell.experiment = "A" => q.cell.nodes = 2)
      BY DEF Of
    <3>4. /\ ~ (r.cell.experiment = "C" /\ q.cell.experiment = "A")
          /\ ~ (q.cell.experiment = "C" /\ r.cell.experiment = "A")
      BY <2>1, <3>1, <3>2, KeysTellCells
    <3>5. CASE r.cell.experiment = "A" /\ q.cell.experiment = "A"
      <4>1. r.cell.nodes = q.cell.nodes
        BY <3>3, <3>5
      <4> QED BY <2>1, <3>1, <3>2, <3>5, <4>1, KeysTellCells
    <3>6. CASE r.cell.experiment = "C" /\ q.cell.experiment = "C"
      BY <2>1, <3>1, <3>2, <3>6, KeysTellCells
    <3> QED BY <3>3, <3>4, <3>5, <3>6
  <2> DEFINE Both == Of(kept, "C") \cup {x \in Of(kept, "A") : x.cell.nodes = 2}
             ingest_key == [r \in Both |-> <<system(r), r.cell.size>>]
  <2>5. baseline_groups(kept) = group_by(ingest_key)
    BY DEF baseline_groups
  <2>6. /\ DOMAIN ingest_key = Both
        /\ \A r, q \in Both : ingest_key[r] = ingest_key[q] => r.cell = q.cell
    BY <2>4
  <2> HIDE DEF ingest_key, Both
  <2>7. \A k \in DOMAIN group_by(size_key(Of(kept, "A"))) :
          \A r, q \in group_by(size_key(Of(kept, "A")))[k] : r.cell = q.cell
    BY <2>2, OneKeyPerGroup, KeyDomains
  <2>8. \A k \in DOMAIN group_by(count_key(Of(kept, "B"))) :
          \A r, q \in group_by(count_key(Of(kept, "B")))[k] : r.cell = q.cell
    BY <2>3, OneKeyPerGroup, KeyDomains
  <2>9. \A k \in DOMAIN group_by(ingest_key) :
          \A r, q \in group_by(ingest_key)[k] : r.cell = q.cell
    BY <2>6, OneKeyPerGroup
  <2> QED BY <2>5, <2>7, <2>8, <2>9 DEF OneCellPerEntry
<1> QED BY <1>1, AlwaysInv, PTL

\* A bound stands for repeats none of which has a figure or converged, and it is
\* the limit their watch was given, for every plan (run_matrix.py:65-68, 400;
\* tex_tables.py:103-108, 153-155).
THEOREM BoundsAreDeadlines == Spec => []BoundIsTheDeadline
<1>1. ASSUME IInv, NEW G \in SUBSET rows, NEW metric \in {"propagation_s", "fanout_s"},
             \A r, q \in G : r.cell = q.cell, \A r \in G : r.cell \notin Plain,
             fmt(G, metric).shows = "bound", NEW r \in G
      PROVE  /\ r.result[metric] = None /\ ~r.result.converged
             /\ fmt(G, metric).deadline = watch_deadline(r.cell)
  <2> DEFINE first == CHOOSE x \in G : TRUE
  <2>1. cell_values(G, metric) = {}
    BY <1>1 DEF fmt, median_range
  <2>2. r.result[metric] = None
    BY <2>1 DEF cell_values
  <2>3. PICK arrivals \in Arrivals, distinct \in Nat : r.result = summarise(arrivals, distinct)
    BY <1>1 DEF IInv, Measured
  <2>4. ~r.result.converged
    BY <2>2, <2>3, SummariseFacts
  <2>5. first \in G /\ first.cell = r.cell
    BY <1>1
  <2>6. fmt(G, metric).deadline = deadline_for(first.cell.experiment, first.cell.size)
    BY <2>1 DEF fmt
  <2> QED BY <2>2, <2>4, <2>5, <2>6 DEF deadline_for, watch_deadline
<1>2. IInv /\ OneCellPerEntry => BoundIsTheDeadline
  <2> SUFFICES ASSUME IInv, OneCellPerEntry PROVE BoundIsTheDeadline
    OBVIOUS
  <2>1. \A e \in {"A", "B"} : /\ Of(kept, e) \subseteq rows
                              /\ \A r \in Of(kept, e) : r.cell \notin Plain
    BY DEF Of, kept, drop_arm, Plain
  <2>2. ASSUME NEW k \in DOMAIN group_by(size_key(Of(kept, "A")))
        PROVE  LET G == group_by(size_key(Of(kept, "A")))[k] IN
                 /\ G \in SUBSET rows
                 /\ \A r, q \in G : r.cell = q.cell
                 /\ \A r \in G : r.cell \notin Plain
    BY <2>1, <2>2, OneKeyPerGroup, KeyDomains DEF OneCellPerEntry
  <2>3. ASSUME NEW k \in DOMAIN group_by(count_key(Of(kept, "B")))
        PROVE  LET G == group_by(count_key(Of(kept, "B")))[k] IN
                 /\ G \in SUBSET rows
                 /\ \A r, q \in G : r.cell = q.cell
                 /\ \A r \in G : r.cell \notin Plain
    BY <2>1, <2>3, OneKeyPerGroup, KeyDomains DEF OneCellPerEntry
  <2> QED BY <1>1, <2>2, <2>3 DEF BoundIsTheDeadline
<1> QED BY <1>2, AlwaysInv, EntriesAreCells, PTL

=============================================================================
