------------------------------- MODULE Tables -------------------------------
(***************************************************************************)
(* What is reported of a matrix, under src/tools/measure/bucketfs: the row *)
(* run_matrix.py makes of the arrivals, the tables and macros tex_tables.py*)
(* makes of the rows, and the table of summarise.py.                       *)
(*                                                                         *)
(* A row has its repeat in it and is in the CSV once, if the CSV can be    *)
(* read at all (OneRowEach of Matrix), so the CSVs read together are a set *)
(* of rows.  Sizes are in KiB, times in seconds, and a median is doubled   *)
(* to stay an integer.                                                     *)
(* How many nodes report is the same for every arm here, whatever number   *)
(* of nodes it is labelled with: the labels decide who is compared with    *)
(* whom, the arrivals decide the figures.                                  *)
(***************************************************************************)
EXTENDS Integers, Sequences, FiniteSetsExt

CONSTANTS
    Plan,      \* the cells that may be measured
    Watched,   \* the nodes that report, of which 1 is the writer
    Times,     \* the seconds an arrival may take
    MaxRows    \* bound: rows

KIB == 1
MIB == 1024 * KIB
GIB == 1024 * MIB
SIZES == {KIB, MIB, 100 * MIB, GIB, 4 * GIB}
SMALL_FILE == 4 * KIB

\* The arms of the default plan, on files of the ladder or many small ones, and
\* the plain files of experiment C.
Counts == Nat \ {0, 1}
Clustered == [experiment : {"A"}, arm : {<<"syncfs", "default">>, <<"bucketfs", "default">>,
                                         <<"bucketfs", "tuned">>},
              nodes : Counts, size : SIZES, count : {1}]
Many == [experiment : {"B"}, arm : {<<"syncfs", "default">>, <<"bucketfs", "default">>,
                                    <<"bucketfs", "tuned">>},
         nodes : Counts, size : {SMALL_FILE}, count : Counts]
Plain == [experiment : {"C"}, arm : {<<"plainfile", "baseline">>}, nodes : {0},
          size : SIZES, count : {1}]

writer == 1

ASSUME TablesAssumption ==
    /\ Plan \subseteq Clustered \cup Many \cup Plain
    /\ IsFiniteSet(Watched) /\ writer \in Watched
    /\ IsFiniteSet(Times) /\ Times \subseteq Nat
    /\ MaxRows \in Nat

VARIABLE rows   \* the rows of the CSVs

None == -1
Arrivals == [Watched -> Times \cup {None}]

-----------------------------------------------------------------------------
(* run_matrix.py: from the records of a watch to a row.                    *)

Came(arrivals) == {n \in DOMAIN arrivals : arrivals[n] # None}

\* max(..., default=None).
last(arrivals) == IF Came(arrivals) = {} THEN None
                  ELSE Max({arrivals[n] : n \in Came(arrivals)})

\* The two times of the fan-out the wrong way round.
Faulty_summarise(arrivals, distinct) ==
    LET ingest == arrivals[writer] IN
      [ingest_s |-> ingest,
       propagation_s |-> last(arrivals),
       fanout_s |-> IF ingest = None THEN None ELSE ingest - last(arrivals),
       converged |-> Came(arrivals) = Watched /\ distinct = 1,
       distinct_hashes |-> distinct, arrivals |-> arrivals]

\* distinct: how many different hashes were read.
summarise(arrivals, distinct) ==
    LET ingest == arrivals[writer] IN
      [ingest_s |-> ingest,
       propagation_s |-> last(arrivals),
       fanout_s |-> IF ingest = None THEN None ELSE last(arrivals) - ingest,
       converged |-> Came(arrivals) = Watched /\ distinct = 1,
       distinct_hashes |-> distinct, arrivals |-> arrivals]

\* What experiment_c writes for a copy that took so long.
plain_result(elapsed) ==
    [ingest_s |-> elapsed, propagation_s |-> elapsed, fanout_s |-> 0,
     converged |-> TRUE, distinct_hashes |-> 1, arrivals |-> <<>>]

\* The limit the watch of a cell was given, in experiment A and in B.
watch_deadline(c) == IF c.experiment = "A" /\ c.size >= GIB THEN 1800 ELSE 900

\* As many hashes as nodes that arrived, or fewer.
Distinct(arrivals) ==
    IF Came(arrivals) = {} THEN {0} ELSE 1 .. Cardinality(Came(arrivals))

Row == [cell : Plan, repeat : Nat, result :
          [ingest_s : Nat \cup {None}, propagation_s : Nat \cup {None},
           fanout_s : Nat \cup {None}, converged : BOOLEAN, distinct_hashes : Nat,
           arrivals : Arrivals \cup {<<>>}]]

-----------------------------------------------------------------------------
(* tex_tables.py.                                                          *)

DROPPED_ARM == <<"bucketfs", "tuned">>

\* The dropped arm is counted and still tabulated.
Faulty_drop_arm(R) == R

drop_arm(R) == {r \in R : r.cell.arm # DROPPED_ARM}

system(r) == r.cell.arm[1]
Of(R, experiment) == {r \in R : r.cell.experiment = experiment}
bad(G) == {r \in G : ~r.result.converged}

\* `if float(...)`: a time of zero is not a time.
Faulty_cell_values(G, metric) == {r \in G : r.result[metric] \notin {None, 0}}

\* The rows that have the metric; a zero is a value like any other.
cell_values(G, metric) == {r \in G : r.result[metric] # None}

\* The k-th smallest value of a metric, and statistics.median, doubled.
kth(G, metric, k) ==
    CHOOSE v \in {r.result[metric] : r \in G} :
      /\ Cardinality({r \in G : r.result[metric] < v}) < k
      /\ k <= Cardinality({r \in G : r.result[metric] <= v})
median2(G, metric) ==
    LET n == Cardinality(G) IN kth(G, metric, (n + 1) \div 2) + kth(G, metric, n \div 2 + 1)

median_of(G, metric) ==
    LET V == cell_values(G, metric) IN IF V = {} THEN None ELSE median2(V, metric)

\* The boundary off by one.
Faulty_deadline_for(experiment, size) == IF experiment = "A" /\ size > GIB THEN 1800 ELSE 900

deadline_for(experiment, size) == IF experiment = "A" /\ size >= GIB THEN 1800 ELSE 900

median_range(V, metric, marks) ==
    [shows |-> "median", median |-> median2(V, metric), low |-> kth(V, metric, 1),
     high |-> kth(V, metric, Cardinality(V)), marks |-> marks]

\* A figure, or the deadline as a bound below it, marked with the number of
\* repeats that did not converge.
fmt(G, metric) ==
    LET V == cell_values(G, metric)
        first == CHOOSE r \in G : TRUE
    IN  IF V = {}
        THEN [shows |-> "bound", marks |-> Cardinality(bad(G)),
              deadline |-> deadline_for(first.cell.experiment, first.cell.size)]
        ELSE median_range(V, metric, Cardinality(bad(G)))

MISSING == [shows |-> "nothing"]

\* The rows by their key.
group_by(key) == [k \in {key[r] : r \in DOMAIN key} |-> {r \in DOMAIN key : key[r] = k}]

size_key(R) == [r \in R |-> <<system(r), r.cell.size, r.cell.nodes>>]
count_key(R) == [r \in R |-> <<system(r), r.cell.count, r.cell.nodes>>]

\* Every combination of what the rows name has an entry.
Grid(cells) == {k[1] : k \in DOMAIN cells} \X {k[2] : k \in DOMAIN cells}
                 \X {k[3] : k \in DOMAIN cells}
Fill(cells, metric) ==
    [k \in Grid(cells) |-> IF k \in DOMAIN cells THEN fmt(cells[k], metric) ELSE MISSING]

matrix_table(R, metric) == Fill(group_by(size_key(R)), metric)
tree_table(R) == Fill(group_by(count_key(R)), "propagation_s")

\* Experiment C beside the writers of the clusters of two.
baseline_groups(R) ==
    group_by([r \in Of(R, "C") \cup {r \in Of(R, "A") : r.cell.nodes = 2} |->
                <<system(r), r.cell.size>>])
baseline_table(R) ==
    [k \in DOMAIN baseline_groups(R) |-> fmt(baseline_groups(R)[k], "ingest_s")]

\* One line of the table of non-convergences: how a run failed, and how often.
failure(r) ==
    [experiment |-> r.cell.experiment, system |-> system(r), nodes |-> r.cell.nodes,
     payload |-> IF r.cell.count = 1 THEN <<"size", r.cell.size>> ELSE <<"files", r.cell.count>>,
     deadline |-> deadline_for(r.cell.experiment, r.cell.size),
     missing |-> Watched \ Came(r.result.arrivals)]

\* A failure is listed once however often it was met.
Faulty_nonconvergence_note(R) == [k \in {failure(r) : r \in bad(R)} |-> 1]

nonconvergence_note(R) ==
    LET tally == group_by([r \in bad(R) |-> failure(r)]) IN
      [k \in DOMAIN tally |-> Cardinality(tally[k])]

-----------------------------------------------------------------------------
(* tex_tables.py: the figures that leave the tables.                       *)

Cell(experiment, sys, nodes, size) ==
    {r \in rows : /\ r.cell.experiment = experiment
                  /\ system(r) = sys /\ r.cell.nodes = nodes /\ r.cell.size = size}
Figure(q) ==
    median_of(drop_arm(Cell(q.experiment, q.system, q.nodes, q.size)), q.metric)

\* Ingest quoted for clusters of ten.
Faulty_Quoted ==
    [experiment : {"A"}, system : {"syncfs", "bucketfs"}, nodes : {10}, size : {GIB},
     metric : {"ingest_s"}]

\* What the prose of the chapter quotes.
Quoted ==
    [experiment : {"A"}, system : {"syncfs", "bucketfs"}, nodes : {2, 4, 10, 20},
     size : {100 * MIB, GIB, 4 * GIB}, metric : {"propagation_s"}]
    \cup [experiment : {"A"}, system : {"syncfs", "bucketfs"}, nodes : {2},
          size : {GIB}, metric : {"ingest_s"}]
    \cup [experiment : {"C"}, system : {"plainfile"}, nodes : {0},
          size : {GIB, 4 * GIB}, metric : {"ingest_s"}]

macros == [q \in {q \in Quoted : Figure(q) # None} |-> Figure(q)]

Propagated(nodes, size) ==
    Figure([experiment |-> "A", system |-> "syncfs", nodes |-> nodes, size |-> size,
            metric |-> "propagation_s"])

\* From ten nodes to twenty: the two medians, if there are two and neither is
\* zero.  The macros give it for 1 GiB and 4 GiB.
Growth(size) ==
    LET pair == <<Propagated(10, size), Propagated(20, size)>> IN
      IF {pair[1], pair[2]} \cap {None, 0} # {} THEN {} ELSE {pair}
scaling == [size \in {GIB, 4 * GIB} |-> Growth(size)]

measured_sizes(nodes) ==
    {r.cell.size : r \in {r \in Of(rows, "A") : system(r) = "syncfs" /\ r.cell.nodes = nodes}}

\* The size nearest to 10 KiB, the smaller of two as near.
nearest(sizes) ==
    LET off(s) == IF s < 10 * KIB THEN 10 * KIB - s ELSE s - 10 * KIB
    IN  CHOOSE s \in sizes : \A t \in sizes : off(s) < off(t) \/ (off(s) = off(t) /\ s <= t)

Line(figure, met) ==
    [figure |-> figure, verdict |-> IF figure = None THEN "---" ELSE IF met THEN "met" ELSE "not met"]

\* The runs that stayed within their limit, or not.
bounded_line ==
    LET missed(e) == Cardinality({r \in bad(Of(rows, e)) : system(r) = "syncfs"}) IN
      [single |-> missed("A"), many |-> missed("B"),
       verdict |-> IF missed("A") + missed("B") = 0 THEN "met" ELSE "partly"]

\* The verdicts on the four requirements; only syncfs is judged.
scenario_table ==
    LET small == nearest(measured_sizes(10))
        both == measured_sizes(10) \cap measured_sizes(20)
        five == IF measured_sizes(10) = {} THEN None ELSE Propagated(10, small)
        gib == Propagated(10, GIB)
        growth == IF both = {} THEN {} ELSE Growth(Max(both))
    IN  [small |-> Line(five, five <= 2 * 5),
         big |-> Line(gib, gib <= 2 * 120),
         growth |-> [figure |-> growth,
                     verdict |-> IF growth = {} THEN "---"
                                 ELSE IF \A g \in growth : g[2] < 2 * g[1] THEN "met"
                                 ELSE "not met"],
         bounded |-> bounded_line]

-----------------------------------------------------------------------------
(* summarise.py.                                                           *)

\* Rows of one system, configuration, number of nodes and size together.
summarise_main(metric) ==
    LET cells == group_by([r \in rows |-> <<r.cell.arm, r.cell.nodes, r.cell.size>>])
        entry(G) == LET V == {r \in G : r.result[metric] # None} IN
          IF V = {} THEN [shows |-> "--", marks |-> Cardinality(bad(G))]
                    ELSE median_range(V, metric, Cardinality(bad(G)))
    IN  [k \in DOMAIN cells |-> entry(cells[k])]

-----------------------------------------------------------------------------
(* The measurements.                                                       *)

TypeOK == rows \subseteq Row

Init == rows = {}

Bounded == Cardinality(rows) < MaxRows

\* The next repeat of a cell is measured.
Repeats(c) == {r \in rows : r.cell = c}
Record(c, result) ==
    rows' = rows \cup {[cell |-> c, repeat |-> Cardinality(Repeats(c)), result |-> result]}

Measure ==
    /\ Bounded
    /\ \E c \in Plan \ Plain, arrivals \in Arrivals :
         \E distinct \in Distinct(arrivals) : Record(c, summarise(arrivals, distinct))

MeasurePlain ==
    /\ Bounded
    /\ \E c \in Plan \cap Plain, elapsed \in Times : Record(c, plain_result(elapsed))

Next == Measure \/ MeasurePlain

Spec == Init /\ [][Next]_rows

-----------------------------------------------------------------------------
(***************************************************************************)
(* Properties.                                                             *)
(***************************************************************************)

kept == drop_arm(rows)
Shown(table) == {k \in DOMAIN table : table[k] # MISSING}

\* The sum of a function of counts: as many as there are pairs of an argument
\* and a number up to its count.
Total(counts) == Cardinality(UNION {{k} \X (1 .. counts[k]) : k \in DOMAIN counts})

\* The tables key an entry by less than a cell is: no configuration, and the
\* tree table no size.  Leaving the tuned arm out is what makes every entry the
\* repeats of one cell (tex_tables.py:82-88, 174, 207, 240-243).
OneCellPerEntry ==
    LET Alike(groups) == \A k \in DOMAIN groups : \A r, q \in groups[k] : r.cell = q.cell IN
      /\ Alike(group_by(size_key(Of(kept, "A"))))
      /\ Alike(group_by(count_key(Of(kept, "B"))))
      /\ Alike(baseline_groups(kept))

\* A bound is shown for a cell only when no repeat of it has a figure, and it is
\* the limit the watch was given: the two files each work it out for themselves
\* (run_matrix.py:65-68, 400; tex_tables.py:103-108, 153-155).
BoundIsTheDeadline ==
    LET Honest(groups, metric) ==
          \A k \in DOMAIN groups :
            LET entry == fmt(groups[k], metric) IN
              entry.shows = "bound" =>
                \A r \in groups[k] : /\ r.result[metric] = None
                                     /\ ~r.result.converged
                                     /\ entry.deadline = watch_deadline(r.cell)
    IN  /\ Honest(group_by(size_key(Of(kept, "A"))), "propagation_s")
        /\ Honest(group_by(size_key(Of(kept, "A"))), "fanout_s")
        /\ Honest(group_by(count_key(Of(kept, "B"))), "propagation_s")

\* Three tables count the runs that did not converge, each its own way: the
\* daggers, the lines of the table of non-convergences and, for syncfs, the last
\* requirement.  They agree (tex_tables.py:152, 329-339, 388-408).
DaggersAddUp ==
    LET daggers(table, sys) ==
          Total([k \in {k \in Shown(table) : k[1] = sys} |-> table[k].marks])
        spread == matrix_table(Of(kept, "A"), "propagation_s")
        trees == tree_table(Of(kept, "B"))
        note == nonconvergence_note(kept)
        listed(e, sys) ==
          Total([k \in {k \in DOMAIN note : k.experiment = e /\ k.system = sys} |-> note[k]])
    IN  /\ \A sys \in {"syncfs", "bucketfs"} :
             /\ daggers(spread, sys) = listed("A", sys)
             /\ daggers(trees, sys) = listed("B", sys)
        /\ bounded_line.single = listed("A", "syncfs")
        /\ bounded_line.many = listed("B", "syncfs")
        /\ bounded_line.verdict = "met" <=>
             \A k \in DOMAIN note : k.system # "syncfs"

\* "so the prose and the table cannot drift apart" (tex_tables.py:474-475): what
\* a macro or a verdict quotes is what the tables show for that cell, a figure of
\* the ingest table for 1 GiB has its macro, and the growth the prose quotes for
\* the largest size is the one the verdict is about.  The ingest table is printed
\* only when there are plain copies to compare with.
ProseMatchesTables ==
    LET spread == matrix_table(Of(kept, "A"), "propagation_s")
        ingest == IF Of(kept, "C") = {} THEN <<>> ELSE baseline_table(kept)
        quotes == macros
        verdicts == scenario_table
        growth == scaling
        Says(entry, figure) == entry.shows = "median" /\ entry.median = figure
    IN  /\ \A q \in DOMAIN quotes :
             IF q.metric = "propagation_s"
             THEN Says(spread[<<q.system, q.size, q.nodes>>], quotes[q])
             ELSE Of(kept, "C") # {} =>
                    /\ <<q.system, q.size>> \in DOMAIN ingest
                    /\ Says(ingest[<<q.system, q.size>>], quotes[q])
        /\ \A k \in DOMAIN ingest :
             (k[2] = GIB /\ ingest[k].shows = "median") =>
               \E q \in DOMAIN quotes : q.metric = "ingest_s" /\ q.system = k[1] /\ q.size = GIB
        /\ verdicts.small.figure # None =>
             Says(spread[<<"syncfs", nearest(measured_sizes(10)), 10>>],
                  verdicts.small.figure)
        /\ verdicts.big.figure # None =>
             Says(spread[<<"syncfs", GIB, 10>>], verdicts.big.figure)
        /\ \A size \in DOMAIN growth : \A g \in growth[size] :
             /\ Says(spread[<<"syncfs", size, 10>>], g[1])
             /\ Says(spread[<<"syncfs", size, 20>>], g[2])
             /\ size = Max(measured_sizes(10) \cap measured_sizes(20)) =>
                  g \in verdicts.growth.figure

\* Two programs read the rows of experiment A, and show the same figure, range
\* and count of non-convergences for an arm (summarise.py:42-65,
\* tex_tables.py:91-92, 144-177).
TwoReadersAgree ==
    \A metric \in {"propagation_s", "fanout_s"} :
      LET groups == group_by(size_key(Of(kept, "A")))
          other == summarise_main(metric)
      IN  \A k \in DOMAIN groups :
            LET entry == fmt(groups[k], metric)
                theirs == other[<<<<k[1], "default">>, k[3], k[2]>>]
            IN  /\ entry.marks = theirs.marks
                /\ entry.shows = "median" <=> theirs.shows = "median"
                /\ entry.shows = "median" => entry = theirs

=============================================================================
