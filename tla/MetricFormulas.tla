--------------------------- MODULE MetricFormulas ---------------------------
(***************************************************************************)
(* pipeline/metrics/formulas.py.  A number is an integer or a fraction     *)
(* <<n, d>> with d > 0; None is Python's.  What has no exact fraction is   *)
(* replaced by one in the same order: a coefficient of variation by its    *)
(* square, a Jensen-Shannon similarity by 0, 1 or (strictly between) 1/2.  *)
(* A list of values is a function from its places to the values.           *)
(***************************************************************************)
EXTENDS Integers, Sequences, FiniteSets, FiniteSetsExt

CONSTANT None

Whole(n) == IF n = None THEN None ELSE <<n, 1>>

Below(a, b) == a[1] * b[2] < b[1] * a[2]

AtMost(a, b) == a[1] * b[2] <= b[1] * a[2]

IsRate(v) == 0 <= v[1] /\ v[1] <= v[2]

expansion_ratio(ir_size, native) ==
    IF ir_size = None \/ native \in {None, 0} THEN None ELSE <<ir_size, native>>

\* a histogram maps the operations that occur to how often
HistKeys(a, b) == DOMAIN a \cup DOMAIN b

Freq(h, k) == IF k \in DOMAIN h THEN h[k] ELSE 0

HistTotal(h) == MapThenSumSet(LAMBDA k : h[k], DOMAIN h)

weighted_jaccard(a, b) ==
    LET least == [k \in HistKeys(a, b) |-> Min({Freq(a, k), Freq(b, k)})]
        most  == [k \in HistKeys(a, b) |-> Max({Freq(a, k), Freq(b, k)})]
    IN  IF HistTotal(most) = 0 THEN None ELSE <<HistTotal(least), HistTotal(most)>>

jensen_shannon_similarity(a, b) ==
    LET na == HistTotal(a)
        nb == HistTotal(b)
    IN  IF na = 0 /\ nb = 0 THEN None
        ELSE IF na = 0 \/ nb = 0 THEN <<0, 1>>
        ELSE IF \A k \in HistKeys(a, b) : Freq(a, k) * nb = Freq(b, k) * na
             THEN <<1, 1>>
        ELSE IF \A k \in HistKeys(a, b) : Freq(a, k) * Freq(b, k) = 0
             THEN <<0, 1>>
        ELSE <<1, 2>>

\* (sample deviation / mean) squared
coefficient_of_variation(values) ==
    LET clean  == {i \in DOMAIN values : values[i] # None}
        n      == Cardinality(clean)
        sum    == MapThenSumSet(LAMBDA i : values[i], clean)
        spread == [i \in clean |-> (n * values[i] - sum) * (n * values[i] - sum)]
    IN  IF n < 2 \/ sum = 0 THEN None
        ELSE <<HistTotal(spread), (n - 1) * sum * sum>>

cyclomatic_complexity(num_blocks, num_edges) ==
    IF num_blocks = None \/ num_edges = None THEN None
    ELSE num_edges - num_blocks + 2

\* the k-th smallest of the values
Ordered(values, clean, k) ==
    LET upto(v)  == Cardinality({i \in clean : AtMost(values[i], v)})
        under(v) == Cardinality({i \in clean : Below(values[i], v)})
    IN  CHOOSE v \in {values[i] : i \in clean} : under(v) < k /\ k <= upto(v)

\* A slip: the two neighbours weighted the wrong way round
QuantileSwapped(values, clean, q) ==
    LET m == Cardinality(clean) - 1
        j == (q * m) \div 4
        d == (q * m) % 4
        a == Ordered(values, clean, j + 1)
        b == Ordered(values, clean, j + 2)
    IN  IF d = 0 THEN a
        ELSE <<a[1] * b[2] * d + b[1] * a[2] * (4 - d), 4 * a[2] * b[2]>>

\* statistics.quantiles(n=4, method="inclusive"): a quarter q of the way from
\* the first to the last of n ordered values, between its two neighbours
Quantile(values, clean, q) ==
    LET m == Cardinality(clean) - 1
        j == (q * m) \div 4
        d == (q * m) % 4
        a == Ordered(values, clean, j + 1)
        b == Ordered(values, clean, j + 2)
    IN  IF d = 0 THEN a
        ELSE <<a[1] * b[2] * (4 - d) + b[1] * a[2] * d, 4 * a[2] * b[2]>>

\* the mean is left out; the median is the second of the inclusive quartiles
aggregate_stats(values) ==
    LET clean == {i \in DOMAIN values : values[i] # None}
        n     == Cardinality(clean)
    IN  IF n = 0 THEN None
        ELSE [n |-> n, min |-> Ordered(values, clean, 1),
              median |-> Quantile(values, clean, 2),
              max |-> Ordered(values, clean, n)]

aggregate_stats_with_iqr(values) ==
    LET stats == aggregate_stats(values)
        clean == {i \in DOMAIN values : values[i] # None}
    IN  IF stats = None THEN None
        ELSE [n |-> stats.n, min |-> stats.min, median |-> stats.median,
              max |-> stats.max, q1 |-> Quantile(values, clean, 1),
              q3 |-> Quantile(values, clean, 3)]

\* a metric's entry in the JSON: aggregate_stats(values) or {"n": 0}
OrNothing(stats) == IF stats = None THEN [n |-> 0] ELSE stats
=============================================================================
