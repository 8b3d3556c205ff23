-------------------------- MODULE MetricsPhaseProofs --------------------------
(***************************************************************************)
(* Theorems about MetricsPhase for every results directory, command line   *)
(* and number of invocations and of repeated attempts.                     *)
(*                                                                         *)
(* The argument: whatever a block reads is finite (DataInv), so that what  *)
(* it computes has finitely many rows (ComputeFinite) and the number of    *)
(* rows its JSON announces is a number; where an invocation stands between *)
(* the two files of a block (PlaceInv); and that the result in its hands   *)
(* is computed from the manifest and directories there are, as long as     *)
(* nobody lifts (TruthInv).  What the records say is carried from the      *)
(* functions they were made of (SoundInv), and from RetDec's own files     *)
(* (JoinInv), to what a block has read of the disk (SeenInv).  The last    *)
(* part carries rows and pairs from a manifest to the same one backwards.  *)
(***************************************************************************)
EXTENDS MetricsPhase, AccountingProofs, FiniteSetTheorems, SequenceTheorems, TLAPS

Finite(d) == IsFiniteSet(DOMAIN d.records) /\ IsFiniteSet(DOMAIN d.ll)

LEMMA OutputsFinite ==
    ASSUME NEW run, NEW units, IsFiniteSet(DOMAIN units)
    PROVE  /\ Finite(Outputs(run, units))
           /\ DOMAIN Outputs(run, units) = {"torn", "sizes", "records", "ll", "dsm"}
<1>. DEFINE D == Outputs(run, units)
            S == {i \in DOMAIN units : units[i].lines # <<>>}
            f == [i \in DOMAIN units |-> units[i].name]
<1>1. DOMAIN D.records = DOMAIN units
    BY DEF Outputs
<1>2. DOMAIN D.ll = {units[i].name : i \in S}
    BY DEF Outputs
<1>3. {units[i].name : i \in S} = {f[i] : i \in S}
    OBVIOUS
<1>4. IsFiniteSet(S)
    BY FS_Subset
<1>5. IsFiniteSet(DOMAIN D.ll)
  <2>1. IsFiniteSet({f[i] : i \in S})
    <3>. HIDE DEF S, f
    <3>. QED BY <1>4, FiniteImage
  <2>. QED BY <1>2, <1>3, <2>1
<1>6. DOMAIN D = {"torn", "sizes", "records", "ll", "dsm"}
    BY DEF Outputs
<1>. QED BY <1>1, <1>5, <1>6 DEF Finite

LEMMA RecordsFinite ==
    ASSUME NEW d, Finite(d)
    PROVE  IsFiniteSet(OkRecords(d))
<1>1. IsFiniteSet(DOMAIN load_lift_records(d))
  <2>1. CASE d.torn
    <3>1. DOMAIN load_lift_records(d) = {}
        BY <2>1 DEF load_lift_records
    <3>. QED BY <3>1, FS_EmptySet
  <2>2. CASE ~ d.torn
    BY <2>2 DEF load_lift_records, Finite
  <2>. QED BY <2>1, <2>2
<1>. QED BY <1>1, FS_Subset DEF OkRecords

LEMMA NamesFinite ==
    ASSUME NEW block, NEW run, NEW d, Finite(d)
    PROVE  IsFiniteSet(NamesOk(block, run, d))
<1>. DEFINE recs == load_lift_records(d)
            f == [j \in OkRecords(d) |-> recs[j].function]
            N == {recs[j].function : j \in OkRecords(d)}
<1>1. N = {f[j] : j \in OkRecords(d)}
    OBVIOUS
<1>2. IsFiniteSet(N)
  <2>. HIDE DEF f
  <2>. QED BY <1>1, RecordsFinite, FiniteImage
<1>3. IsFiniteSet(DOMAIN d.ll)
    BY DEF Finite
<1>. QED BY <1>2, <1>3 DEF NamesOk

LEMMA RowsFinite ==
    ASSUME NEW block, NEW rs, NEW ds, IsFiniteSet(DOMAIN rs),
           \A i \in DOMAIN rs : Finite(ds[i])
    PROVE  IsFiniteSet(Rows(block, rs, ds))
<1>. DEFINE I == {i \in DOMAIN rs : Completed(block, rs[i])}
            g == [i \in I |-> RowsOf(block, rs[i], ds[i], i)]
            G == {g[i] : i \in I}
<1>1. IsFiniteSet(I)
    BY FS_Subset
<1>2. \A i \in I : IsFiniteSet(RowsOf(block, rs[i], ds[i], i))
  <2>1. TAKE i \in I
  <2>. DEFINE d == ds[i]
              f == [j \in OkRecords(d) |->
                      [run |-> i, at |-> j,
                       values |-> FunctionValues(block, rs[i], d,
                                                 load_lift_records(d)[j])]]
  <2>2. IsFiniteSet({f[j] : j \in OkRecords(d)})
    <3>1. IsFiniteSet(OkRecords(d))
        BY RecordsFinite
    <3>. HIDE DEF f
    <3>. QED BY <3>1, FiniteImage
  <2>3. CASE block \in RunBlocks
    BY <2>3, FS_Singleton DEF RowsOf
  <2>4. CASE block \notin RunBlocks
    <3>1. RowsOf(block, rs[i], d, i) = {f[j] : j \in OkRecords(d)}
        BY <2>4 DEF RowsOf
    <3>. QED BY <2>2, <3>1
  <2>. QED BY <2>3, <2>4
<1>3. IsFiniteSet(G)
  <2>. HIDE DEF g, I
  <2>. QED BY <1>1, FiniteImage
<1>4. \A T \in G : IsFiniteSet(T)
    BY <1>2
<1>5. IsFiniteSet(UNION G)
    BY <1>3, <1>4, FS_UNION
<1>6. UNION G = UNION {RowsOf(block, rs[i], ds[i], i) : i \in I}
    OBVIOUS
<1>7. Rows(block, rs, ds) \in SUBSET (UNION G)
    BY <1>6 DEF Rows
<1>. QED BY <1>5, <1>7, FS_Subset

LEMMA PairRowsFinite ==
    ASSUME NEW block, NEW rs, NEW ds, IsFiniteSet(DOMAIN rs),
           \A i \in DOMAIN rs : Finite(ds[i])
    PROVE  IsFiniteSet(PairRows(block, rs, ds))
<1>. DEFINE P == Pairs(block, rs)
            M(p) == Matched(block, rs, ds, p)
            datum(i, n) == Datum(block, rs[i], ds[i], n)
            row(p, n) == [pair |-> p, function |-> n,
                          value |-> Comparison(block, datum(p[1], n), datum(p[2], n))]
            g == [p \in P |-> {row(p, n) : n \in M(p)}]
            G == {g[p] : p \in P}
<1>1. IsFiniteSet(P)
  <2>1. Chosen(block, rs) \in SUBSET DOMAIN rs
      BY DEF Chosen, Comparable
  <2>2. IsFiniteSet(Chosen(block, rs) \X Chosen(block, rs))
      BY <2>1, FS_Subset, FS_Product
  <2>3. P \in SUBSET (Chosen(block, rs) \X Chosen(block, rs))
      BY DEF Pairs
  <2>. QED BY <2>2, <2>3, FS_Subset
<1>2. \A p \in P : p[1] \in DOMAIN rs /\ p[2] \in DOMAIN rs
    BY DEF Pairs, Chosen, Comparable
<1>3. \A p \in P : IsFiniteSet({row(p, n) : n \in M(p)})
  <2>1. TAKE p \in P
  <2>. DEFINE f == [n \in M(p) |-> row(p, n)]
  <2>2. IsFiniteSet(NamesAt(block, rs, ds, p[1]))
      BY <1>2, NamesFinite DEF NamesAt
  <2>3. M(p) \in SUBSET NamesAt(block, rs, ds, p[1])
      BY DEF Matched
  <2>4. IsFiniteSet(M(p))
      BY <2>2, <2>3, FS_Subset
  <2>5. IsFiniteSet({f[n] : n \in M(p)})
    <3>. HIDE DEF f, M
    <3>. QED BY <2>4, FiniteImage
  <2>6. {f[n] : n \in M(p)} = {row(p, n) : n \in M(p)}
      OBVIOUS
  <2>. QED BY <2>5, <2>6
<1>4. IsFiniteSet(G)
  <2>. HIDE DEF g, P
  <2>. QED BY <1>1, FiniteImage
<1>5. \A T \in G : IsFiniteSet(T)
    BY <1>3
<1>6. IsFiniteSet(UNION G)
    BY <1>4, <1>5, FS_UNION
<1>7. UNION G = UNION {{row(p, n) : n \in M(p)} : p \in P}
    OBVIOUS
<1>8. PairRows(block, rs, ds) \in SUBSET (UNION G)
    BY <1>7 DEF PairRows
<1>. QED BY <1>6, <1>8, FS_Subset

\* The number a block's JSON announces is the number of its rows: none only
\* if there are none.
LEMMA ComputeFinite ==
    ASSUME NEW block, NEW rs, NEW ds, IsFiniteSet(DOMAIN rs),
           \A i \in DOMAIN rs : Finite(ds[i])
    PROVE  LET res == compute(block, rs, ds)
           IN  /\ res.summary.evaluated \in Nat
               /\ res.rows = {} => res.summary.evaluated = 0
<1>1. CASE block \in PairBlocks
  <2>. DEFINE rows == PairRows(block, rs, ds)
  <2>1. IsFiniteSet(rows)
      BY PairRowsFinite
  <2>2. compute(block, rs, ds).rows = rows
      BY <1>1 DEF compute
  <2>3. compute(block, rs, ds).summary.evaluated = Cardinality(rows)
      BY <1>1 DEF compute, PairSummary
  <2>. HIDE DEF rows
  <2>. QED BY <2>1, <2>2, <2>3, FS_CardinalityType, FS_EmptySet
<1>2. CASE block \notin PairBlocks
  <2>. DEFINE rows == Rows(block, rs, ds)
  <2>1. IsFiniteSet(rows)
      BY RowsFinite
  <2>2. compute(block, rs, ds).rows = rows
      BY <1>2 DEF compute
  <2>3. compute(block, rs, ds).summary.evaluated = Cardinality(rows)
      BY <1>2 DEF compute, RowSummary
  <2>. HIDE DEF rows
  <2>. QED BY <2>1, <2>2, <2>3, FS_CardinalityType, FS_EmptySet
<1>. QED BY <1>1, <1>2

----------------------------------------------------------------------------
(* What is on the disk, and what a block has read of it. *)

IsSeq(s) == \E S : s \in Seq(S)

Dir(d) == Finite(d) /\ DOMAIN d = {"torn", "sizes", "records", "ll", "dsm"}

\* what repeated attempts have made of the list of runs
RunsInv ==
    \E m \in Manifests :
        /\ DOMAIN manifest.runs = DOMAIN m
        /\ \A i \in DOMAIN m : manifest.runs[i] \in Attempted(m[i])

DataInv ==
    /\ RunsInv
    /\ DOMAIN manifest = {"state", "runs"} /\ IsSeq(manifest.runs)
    /\ DOMAIN dir = DOMAIN manifest.runs
    /\ \A i \in DOMAIN dir : Dir(dir[i])
    /\ lifter # NoLifter =>
          /\ DOMAIN lifter = {"run", "records", "stage"}
          /\ IsFiniteSet(DOMAIN lifter.records)
    /\ IsSeq(runs) /\ (runs = <<>> \/ DOMAIN runs = DOMAIN dir)
    /\ IsSeq(seen) /\ \A i \in DOMAIN seen : Dir(seen[i])

LEMMA FoundPresented ==
    ASSUME RunsInv, NEW i \in DOMAIN manifest.runs,
           NEW units \in Found(manifest.runs[i])
    PROVE  PresentedAll(manifest.runs[i].backend, units)
BY MetricsAssumption DEF RunsInv

LEMMA FoundFinite ==
    ASSUME RunsInv
    PROVE  \A i \in DOMAIN manifest.runs : \A units \in Found(manifest.runs[i]) :
              IsFiniteSet(DOMAIN units)
BY FoundPresented, SeqPlaces DEF PresentedAll

LEMMA RunsKept == ASSUME RunsInv, manifest'.runs = manifest.runs PROVE RunsInv'
BY DEF RunsInv

LEMMA AttemptedAgain ==
    ASSUME NEW run, NEW old \in Attempted(run), NEW s \in {"ok", "timeout"}
    PROVE  [old EXCEPT !.status = s] \in Attempted(run)
<1>1. CASE old = run
    BY <1>1 DEF Attempted
<1>2. ASSUME NEW t \in {"ok", "timeout"}, old = [run EXCEPT !.status = t]
      PROVE  [old EXCEPT !.status = s] \in Attempted(run)
  <2>1. [old EXCEPT !.status = s] = [run EXCEPT !.status = s]
      BY <1>2
  <2>. QED BY <2>1 DEF Attempted
<1>. QED BY <1>1, <1>2 DEF Attempted

LEMMA EmptyIsSeq == IsSeq(<<>>)
BY DEF IsSeq

LEMMA SeqExcept ==
    ASSUME NEW s, IsSeq(s), NEW i, NEW e
    PROVE  IsSeq([s EXCEPT ![i] = e])
<1>1. PICK S : s \in Seq(S)
    BY DEF IsSeq
<1>. DEFINE T == S \cup {e}
            t == [s EXCEPT ![i] = e]
<1>2. s \in Seq(T)
    BY <1>1
<1>3. t \in Seq(T)
  <2>1. Len(s) \in Nat /\ DOMAIN s = 1..Len(s) /\ \A k \in 1..Len(s) : s[k] \in T
      BY <1>2
  <2>2. t \in [1..Len(s) -> T]
      BY <2>1
  <2>. QED BY <2>1, <2>2, SeqDef
<1>. QED BY <1>3 DEF IsSeq

LEMMA SeqAppend ==
    ASSUME NEW s, IsSeq(s), NEW e
    PROVE  /\ IsSeq(Append(s, e))
           /\ \A i \in DOMAIN Append(s, e) :
                 Append(s, e)[i] = e \/ (i \in DOMAIN s /\ Append(s, e)[i] = s[i])
<1>1. PICK S : s \in Seq(S)
    BY DEF IsSeq
<1>2. s \in Seq(S \cup {e})
    BY <1>1
<1>3. Append(s, e) \in Seq(S \cup {e})
    BY <1>2
<1>4. \A i \in DOMAIN Append(s, e) :
         Append(s, e)[i] = e \/ (i \in DOMAIN s /\ Append(s, e)[i] = s[i])
    BY <1>2
<1>. QED BY <1>3, <1>4 DEF IsSeq

LEMMA SeqDomain ==
    ASSUME NEW s, IsSeq(s)
    PROVE  Len(s) \in Nat /\ DOMAIN s = 1..Len(s) /\ IsFiniteSet(DOMAIN s)
<1>1. PICK S : s \in Seq(S)
    BY DEF IsSeq
<1>2. Len(s) \in Nat /\ DOMAIN s = 1..Len(s)
    BY <1>1
<1>. QED BY <1>2, FS_Interval

LEMMA DataInit ==
    ASSUME Init
    PROVE  DataInv
<1>. USE DEF Init
<1>1. /\ manifest.runs \in Manifests
      /\ DOMAIN manifest = {"state", "runs"}
    OBVIOUS
<1>2. IsSeq(manifest.runs)
    BY <1>1, MetricsAssumption DEF IsSeq
<1>3. PICK pick : /\ dir = [i \in DOMAIN manifest.runs |->
                               Outputs(manifest.runs[i], pick[i])]
                  /\ \A i \in DOMAIN manifest.runs :
                        pick[i] \in Found(manifest.runs[i])
    OBVIOUS
<1>4. RunsInv
    BY <1>1 DEF RunsInv, Attempted
<1>5. \A i \in DOMAIN dir : Dir(dir[i])
    BY <1>3, <1>4, FoundFinite, OutputsFinite DEF Dir
<1>. QED BY <1>1, <1>2, <1>3, <1>4, <1>5, EmptyIsSeq DEF DataInv

\* a step of run_lifting
LEMMA DataLifting ==
    ASSUME DataInv,
           \/ \E i \in DOMAIN manifest.runs : LiftLists(i)
           \/ LiftTruncates \/ LiftFills \/ SaveTruncates \/ SaveFills
    PROVE  DataInv'
<1>. USE DEF DataInv
<1>0. runs' = runs /\ seen' = seen
    BY DEF LiftLists, LiftTruncates, LiftFills, SaveTruncates, SaveFills, Metrics
<1>1. ASSUME NEW i \in DOMAIN manifest.runs, LiftLists(i)
      PROVE  DataInv'
  <2>1. PICK units \in Found(manifest.runs[i]) :
           LET new == Outputs(manifest.runs[i], units)
           IN  /\ lifter' = [run |-> i, records |-> new.records, stage |-> "listed"]
               /\ dir' = [dir EXCEPT ![i].sizes = new.sizes, ![i].ll = new.ll,
                                     ![i].dsm = new.dsm]
      BY <1>1 DEF LiftLists
  <2>. DEFINE new == Outputs(manifest.runs[i], units)
  <2>2. IsFiniteSet(DOMAIN new.records) /\ IsFiniteSet(DOMAIN new.ll)
      BY FoundFinite, OutputsFinite DEF Finite
  <2>3. DOMAIN dir' = DOMAIN dir
      BY <2>1
  <2>4. /\ DOMAIN dir'[i] = DOMAIN dir[i]
        /\ dir'[i].ll = new.ll /\ dir'[i].records = dir[i].records
        /\ \A j \in DOMAIN dir : j # i => dir'[j] = dir[j]
      BY <2>1 DEF Dir
  <2>5. \A j \in DOMAIN dir' : Dir(dir'[j])
      BY <2>2, <2>3, <2>4 DEF Dir, Finite
  <2>6. manifest' = manifest
      BY <1>1 DEF LiftLists
  <2>7. /\ DOMAIN lifter' = {"run", "records", "stage"}
        /\ IsFiniteSet(DOMAIN lifter'.records)
      BY <2>1, <2>2
  <2>. QED BY <1>0, <2>3, <2>5, <2>6, <2>7, RunsKept
<1>2. ASSUME LiftTruncates
      PROVE  DataInv'
  <2>1. /\ lifter' = [lifter EXCEPT !.stage = "torn"]
        /\ dir' = [dir EXCEPT ![lifter.run].torn = TRUE]
        /\ manifest' = manifest /\ lifter # NoLifter
      BY <1>2 DEF LiftTruncates
  <2>2. /\ DOMAIN dir' = DOMAIN dir
        /\ \A j \in DOMAIN dir : /\ DOMAIN dir'[j] = DOMAIN dir[j]
                                 /\ dir'[j].records = dir[j].records
                                 /\ dir'[j].ll = dir[j].ll
      BY <2>1 DEF Dir
  <2>3. \A j \in DOMAIN dir' : Dir(dir'[j])
      BY <2>2 DEF Dir, Finite
  <2>4. DOMAIN lifter' = DOMAIN lifter /\ lifter'.records = lifter.records
      BY <2>1
  <2>. QED BY <1>0, <2>1, <2>2, <2>3, <2>4, RunsKept
<1>3. ASSUME LiftFills
      PROVE  DataInv'
  <2>1. /\ lifter' = [lifter EXCEPT !.stage = "filled"]
        /\ dir' = [dir EXCEPT ![lifter.run].torn = FALSE,
                              ![lifter.run].records = lifter.records]
        /\ manifest' = manifest /\ lifter # NoLifter
      BY <1>3 DEF LiftFills
  <2>2. /\ DOMAIN dir' = DOMAIN dir
        /\ \A j \in DOMAIN dir : /\ DOMAIN dir'[j] = DOMAIN dir[j]
                                 /\ dir'[j].records \in {dir[j].records, lifter.records}
                                 /\ dir'[j].ll = dir[j].ll
      BY <2>1 DEF Dir
  <2>3. \A j \in DOMAIN dir' : Dir(dir'[j])
      BY <2>1, <2>2 DEF Dir, Finite
  <2>4. DOMAIN lifter' = DOMAIN lifter /\ lifter'.records = lifter.records
      BY <2>1
  <2>. QED BY <1>0, <2>1, <2>2, <2>3, <2>4, RunsKept
<1>4. ASSUME SaveTruncates
      PROVE  DataInv'
  <2>1. /\ manifest' = [manifest EXCEPT !.state = "torn"]
        /\ dir' = dir /\ lifter' = lifter
      BY <1>4 DEF SaveTruncates
  <2>2. DOMAIN manifest' = {"state", "runs"} /\ manifest'.runs = manifest.runs
      BY <2>1
  <2>. QED BY <1>0, <2>1, <2>2, RunsKept
<1>5. ASSUME SaveFills
      PROVE  DataInv'
  <2>1. PICK status \in {"ok", "timeout"} :
           manifest' = [manifest EXCEPT !.state = "whole",
                                        !.runs[lifter.run].status = status]
      BY <1>5 DEF SaveFills
  <2>. DEFINE entry == [manifest.runs[lifter.run] EXCEPT !.status = status]
  <2>2. /\ DOMAIN manifest' = {"state", "runs"}
        /\ manifest'.runs = [manifest.runs EXCEPT ![lifter.run] = entry]
      BY <2>1
  <2>3. IsSeq(manifest'.runs) /\ DOMAIN manifest'.runs = DOMAIN manifest.runs
    <3>1. DOMAIN manifest'.runs = DOMAIN manifest.runs
        BY <2>2
    <3>. HIDE DEF entry
    <3>2. IsSeq([manifest.runs EXCEPT ![lifter.run] = entry])
        BY SeqExcept
    <3>. QED BY <2>2, <3>1, <3>2
  <2>4. dir' = dir /\ lifter' = NoLifter
      BY <1>5 DEF SaveFills
  <2>5. RunsInv'
    <3>1. PICK m \in Manifests :
             /\ DOMAIN manifest.runs = DOMAIN m
             /\ \A i \in DOMAIN m : manifest.runs[i] \in Attempted(m[i])
        BY DEF RunsInv
    <3>2. lifter.run \in DOMAIN m => entry \in Attempted(m[lifter.run])
        BY <3>1, AttemptedAgain
    <3>. HIDE DEF entry
    <3>. QED BY <2>2, <2>3, <3>1, <3>2 DEF RunsInv
  <2>. QED BY <1>0, <2>2, <2>3, <2>4, <2>5
<1>. QED BY <1>1, <1>2, <1>3, <1>4, <1>5

\* a step of run_metrics
LEMMA DataMetrics ==
    ASSUME DataInv, Invoke \/ load_runs \/ ReadRun \/ Compute \/ OpenJson \/ FillJson
                      \/ OpenCsv \/ WriteRow \/ NextBlock \/ Cut
    PROVE  DataInv'
<1>. USE DEF DataInv
<1>0. manifest' = manifest /\ dir' = dir /\ lifter' = lifter
    BY DEF Invoke, load_runs, ReadRun, Compute, OpenJson, FillJson, OpenCsv,
           WriteRow, NextBlock, Cut, lifting
<1>1. CASE runs' \in {runs, <<>>} /\ seen' \in {seen, <<>>}
    BY <1>0, <1>1, EmptyIsSeq, RunsKept
<1>2. CASE load_runs
  <2>1. seen' = seen /\ runs' \in {runs, manifest.runs}
      BY <1>2 DEF load_runs
  <2>. QED BY <1>0, <2>1, RunsKept
<1>3. CASE ReadRun
  <2>1. /\ runs' = runs /\ Len(seen) < Len(runs)
        /\ seen' = Append(seen, dir[Len(seen) + 1])
      BY <1>3 DEF ReadRun
  <2>2. Len(seen) + 1 \in DOMAIN dir
    <3>1. Len(seen) \in Nat /\ DOMAIN runs = 1..Len(runs) /\ Len(runs) \in Nat
        BY SeqDomain
    <3>2. Len(seen) + 1 \in DOMAIN runs
        BY <2>1, <3>1
    <3>3. DOMAIN <<>> = {}
        OBVIOUS
    <3>. QED BY <3>2, <3>3
  <2>3. IsSeq(seen') /\ \A i \in DOMAIN seen' : Dir(seen'[i])
      BY <2>1, <2>2, SeqAppend
  <2>. QED BY <1>0, <2>1, <2>3, RunsKept
<1>4. Invoke \/ Compute \/ OpenJson \/ FillJson \/ OpenCsv \/ WriteRow \/ NextBlock
        \/ Cut => runs' \in {runs, <<>>} /\ seen' \in {seen, <<>>}
    BY DEF Invoke, Compute, OpenJson, FillJson, OpenCsv, WriteRow, NextBlock, Cut
<1>. QED BY <1>1, <1>2, <1>3, <1>4

LEMMA DataStep ==
    ASSUME DataInv, [Next]_vars
    PROVE  DataInv'
<1>1. CASE UNCHANGED vars
  <2>1. /\ manifest' = manifest /\ dir' = dir /\ lifter' = lifter
        /\ runs' = runs /\ seen' = seen
      BY <1>1 DEF vars, lifting
  <2>. QED BY <2>1, RunsKept DEF DataInv
<1>2. CASE Next
    BY <1>2, DataLifting, DataMetrics DEF Next
<1>. QED BY <1>1, <1>2

----------------------------------------------------------------------------
(* Where an invocation stands between a block's two files. *)

FilesInv ==
    /\ number \in Nat
    /\ DOMAIN json = BLOCKS
    /\ \A b \in BLOCKS : /\ DOMAIN json[b] = {"number", "whole", "summary"}
                         /\ json[b].number \in Nat
    /\ csv \in [BLOCKS -> [number : Nat, lines : Nat]]
    /\ complete \in [BLOCKS -> Nat]
    /\ \A b \in BLOCKS : /\ json[b].number <= number
                         /\ csv[b].number <= json[b].number
                         /\ complete[b] <= json[b].number

\* the blocks an invocation still has to do lie behind it
TodoInv ==
    /\ command \in Requests
    /\ todo \in Seq(BLOCKS)
    /\ \A j, k \in 1..Len(todo) : todo[j] = todo[k] => j = k
    /\ phase # "idle" => todo # <<>>
    /\ \A k \in 1..Len(todo) :
          k > 1 \/ phase \in {"load", "read", "json"} => json[todo[k]].number < number

HasResult ==
    /\ result.summary.evaluated \in Nat
    /\ result.rows = {} => result.summary.evaluated = 0

BlockInv ==
    LET b == Head(todo)
    IN  /\ phase \in {"json", "fill", "csv", "rows"} => HasResult
        /\ phase \in {"fill", "csv", "rows", "next"} =>
              json[b].number = number /\ complete[b] < number
        /\ phase \in {"fill", "csv"} => csv[b].number < number
        /\ phase \in {"csv", "rows"} =>
              json[b].whole /\ json[b].summary = result.summary
        /\ phase = "rows" => csv[b].number = number
        /\ phase = "next" =>
              \/ json[b].summary.evaluated = 0
              \/ /\ csv[b].number = number
                 /\ csv[b].lines = json[b].summary.evaluated

PlaceInv == FilesInv /\ TodoInv /\ BlockInv

MetricsInv == DataInv /\ PlaceInv /\ CsvBelongsToJson

LEMMA MetricsInit ==
    ASSUME Init
    PROVE  MetricsInv
<1>1. DataInv
    BY DataInit
<1>2. FilesInv
    BY DEF Init, FilesInv
<1>3. TodoInv
    BY DEF Init, TodoInv
<1>4. BlockInv
    BY DEF Init, BlockInv
<1>5. CsvBelongsToJson
    BY DEF Init, CsvBelongsToJson
<1>. QED BY <1>1, <1>2, <1>3, <1>4, <1>5 DEF MetricsInv, PlaceInv

\* the first of the blocks still to do is a block, and not one of the others
LEMMA TodoHead ==
    ASSUME TodoInv, phase # "idle"
    PROVE  /\ Head(todo) \in BLOCKS /\ Head(todo) = todo[1] /\ 1 \in 1..Len(todo)
           /\ \A k \in 1..Len(todo) : k > 1 => todo[k] # Head(todo)
           /\ \A k \in 1..Len(todo) : todo[k] \in BLOCKS
BY DEF TodoInv

\* steps that leave the two files alone
LEMMA FilesKept ==
    ASSUME MetricsInv, UNCHANGED <<json, csv, complete>>, number' \in Nat,
           number <= number'
    PROVE  FilesInv' /\ CsvBelongsToJson'
BY DEF MetricsInv, PlaceInv, FilesInv, CsvBelongsToJson

LEMMA PlaceUnchanged ==
    ASSUME MetricsInv, UNCHANGED <<command, phase, todo, result, json, csv, complete, number>>
    PROVE  PlaceInv' /\ CsvBelongsToJson'
<1>1. FilesInv' /\ CsvBelongsToJson'
    BY FilesKept DEF MetricsInv, PlaceInv, FilesInv
<1>2. TodoInv'
    BY DEF MetricsInv, PlaceInv, TodoInv
<1>3. BlockInv'
    BY DEF MetricsInv, PlaceInv, BlockInv, HasResult
<1>. QED BY <1>1, <1>2, <1>3 DEF PlaceInv

LEMMA PlaceReading ==
    ASSUME MetricsInv, Invoke \/ load_runs \/ ReadRun \/ Compute \/ Cut
    PROVE  PlaceInv' /\ CsvBelongsToJson'
<1>. USE DEF MetricsInv, PlaceInv
<1>1. CASE Invoke
  <2>1. /\ todo' = command /\ phase' = "load" /\ number' = number + 1
        /\ command' = command /\ json' = json /\ csv' = csv /\ complete' = complete
        /\ Range(command) \subseteq BLOCKS
      BY <1>1 DEF Invoke, outputs
  <2>2. FilesInv' /\ CsvBelongsToJson'
      BY <2>1, FilesKept DEF FilesInv
  <2>3. command \in Seq(Range(command)) /\ command # <<>> /\ IsInjective(command)
      BY MetricsAssumption DEF TodoInv
  <2>4. /\ command \in Seq(BLOCKS) /\ DOMAIN command = 1..Len(command)
        /\ \A k \in 1..Len(command) : command[k] \in BLOCKS
      BY <2>1, <2>3
  <2>5. \A k \in 1..Len(command) : json[command[k]].number < number + 1
      BY <2>4 DEF FilesInv
  <2>6. TodoInv'
      BY <2>1, <2>3, <2>4, <2>5 DEF TodoInv, IsInjective
  <2>7. BlockInv'
      BY <2>1 DEF BlockInv
  <2>. QED BY <2>2, <2>6, <2>7
<1>2. CASE load_runs
  <2>1. /\ number' = number /\ json' = json /\ csv' = csv /\ complete' = complete
        /\ command' = command /\ phase = "load"
        /\ \/ phase' = "read" /\ todo' = todo
           \/ phase' = "idle" /\ todo' = <<>>
      BY <1>2 DEF load_runs, outputs
  <2>2. FilesInv' /\ CsvBelongsToJson'
      BY <2>1, FilesKept DEF FilesInv
  <2>3. TodoInv'
    <3>1. CASE phase' = "read" /\ todo' = todo
        BY <2>1, <3>1 DEF TodoInv
    <3>2. CASE phase' = "idle" /\ todo' = <<>>
        BY <2>1, <3>2 DEF TodoInv
    <3>. QED BY <2>1, <3>1, <3>2
  <2>4. BlockInv'
      BY <2>1 DEF BlockInv
  <2>. QED BY <2>2, <2>3, <2>4
<1>3. CASE ReadRun
    BY <1>3, PlaceUnchanged DEF ReadRun, outputs
<1>4. CASE Compute
  <2>1. /\ number' = number /\ json' = json /\ csv' = csv /\ complete' = complete
        /\ command' = command /\ todo' = todo /\ phase = "read" /\ phase' = "json"
        /\ result' = compute(Block, runs, seen) /\ Len(seen) = Len(runs)
      BY <1>4 DEF Compute, outputs
  <2>2. FilesInv' /\ CsvBelongsToJson'
      BY <2>1, FilesKept DEF FilesInv
  <2>3. TodoInv'
      BY <2>1 DEF TodoInv
  <2>4. IsFiniteSet(DOMAIN runs) /\ DOMAIN runs = DOMAIN seen
      BY <2>1, SeqDomain DEF DataInv
  <2>5. \A i \in DOMAIN runs : Finite(seen[i])
      BY <2>4 DEF DataInv, Dir
  <2>6. HasResult'
      BY <2>1, <2>4, <2>5, ComputeFinite DEF HasResult
  <2>7. BlockInv'
      BY <2>1, <2>6 DEF BlockInv
  <2>. QED BY <2>2, <2>3, <2>7
<1>5. CASE Cut
  <2>1. /\ number' = number /\ json' = json /\ csv' = csv /\ complete' = complete
        /\ command' = command /\ phase' = "idle" /\ todo' = <<>>
      BY <1>5 DEF Cut, outputs
  <2>2. FilesInv' /\ CsvBelongsToJson'
      BY <2>1, FilesKept DEF FilesInv
  <2>3. TodoInv'
      BY <2>1 DEF TodoInv
  <2>4. BlockInv'
      BY <2>1 DEF BlockInv
  <2>. QED BY <2>2, <2>3, <2>4
<1>. QED BY <1>1, <1>2, <1>3, <1>4, <1>5

LEMMA PlaceJson ==
    ASSUME MetricsInv, OpenJson \/ FillJson
    PROVE  PlaceInv' /\ CsvBelongsToJson'
<1>. USE DEF MetricsInv, PlaceInv
<1>. DEFINE b == Head(todo)
<1>0. /\ b \in BLOCKS /\ b = todo[1] /\ 1 \in 1..Len(todo)
      /\ \A k \in 1..Len(todo) : todo[k] \in BLOCKS /\ (k > 1 => todo[k] # b)
    BY TodoHead DEF OpenJson, FillJson
<1>. HIDE DEF b
<1>1. CASE OpenJson
  <2>1. /\ json' = [json EXCEPT ![b] = [number |-> number, whole |-> FALSE,
                                        summary |-> None]]
        /\ number' = number /\ csv' = csv /\ complete' = complete
        /\ command' = command /\ todo' = todo /\ result' = result
        /\ phase = "json" /\ phase' = "fill"
      BY <1>1 DEF OpenJson, Block, b
  <2>2. json[b].number < number
      BY <1>0, <2>1 DEF TodoInv
  <2>3. FilesInv'
      BY <1>0, <2>1, <2>2 DEF FilesInv
  <2>4. TodoInv'
      BY <1>0, <2>1 DEF TodoInv, FilesInv
  <2>5. csv[b].number < number /\ complete[b] < number
      BY <1>0, <2>2 DEF FilesInv
  <2>6. BlockInv'
      BY <1>0, <2>1, <2>5 DEF BlockInv, HasResult, FilesInv, b
  <2>7. CsvBelongsToJson'
      BY <1>0, <2>1, <2>5 DEF CsvBelongsToJson, FilesInv
  <2>. QED BY <2>3, <2>4, <2>6, <2>7
<1>2. CASE FillJson
  <2>1. /\ json' = [json EXCEPT ![b].whole = TRUE, ![b].summary = result.summary]
        /\ number' = number /\ csv' = csv /\ complete' = complete
        /\ command' = command /\ todo' = todo /\ result' = result
        /\ phase = "fill"
        /\ phase' = IF result.rows = {} THEN "next" ELSE "csv"
      BY <1>2 DEF FillJson, Block, b
  <2>2. /\ json'[b].number = json[b].number /\ json'[b].whole
        /\ json'[b].summary = result.summary
        /\ DOMAIN json'[b] = {"number", "whole", "summary"}
        /\ \A c \in BLOCKS : c # b => json'[c] = json[c]
        /\ DOMAIN json' = BLOCKS
      BY <1>0, <2>1 DEF FilesInv
  <2>3. FilesInv'
      BY <1>0, <2>1, <2>2 DEF FilesInv
  <2>4. TodoInv'
      BY <1>0, <2>1, <2>2 DEF TodoInv
  <2>5. /\ csv[b].number < number /\ complete[b] < number /\ json[b].number = number
        /\ HasResult
      BY <2>1 DEF BlockInv, b
  <2>6. BlockInv'
      BY <1>0, <2>1, <2>2, <2>5 DEF BlockInv, HasResult, b
  <2>7. CsvBelongsToJson'
      BY <1>0, <2>1, <2>2, <2>5 DEF CsvBelongsToJson, FilesInv
  <2>. QED BY <2>3, <2>4, <2>6, <2>7
<1>. QED BY <1>1, <1>2

LEMMA PlaceCsv ==
    ASSUME MetricsInv, OpenCsv \/ WriteRow
    PROVE  PlaceInv' /\ CsvBelongsToJson'
<1>. USE DEF MetricsInv, PlaceInv
<1>. DEFINE b == Head(todo)
<1>0. /\ b \in BLOCKS /\ b = todo[1] /\ 1 \in 1..Len(todo)
      /\ \A k \in 1..Len(todo) : todo[k] \in BLOCKS /\ (k > 1 => todo[k] # b)
    BY TodoHead DEF OpenCsv, WriteRow
<1>. HIDE DEF b
<1>1. /\ json' = json /\ number' = number /\ complete' = complete
      /\ command' = command /\ todo' = todo /\ result' = result
      /\ phase \in {"csv", "rows"} /\ phase' \in {"rows", "next"}
    BY DEF OpenCsv, WriteRow
<1>2. /\ complete[b] < number /\ json[b].number = number /\ json[b].whole
      /\ json[b].summary = result.summary /\ HasResult
    BY <1>1 DEF BlockInv, b
<1>3. TodoInv'
    BY <1>1 DEF TodoInv
<1>4. /\ csv' \in [BLOCKS -> [number : Nat, lines : Nat]]
      /\ \A c \in BLOCKS : c # b => csv'[c] = csv[c]
      /\ csv'[b].number = number /\ csv'[b].lines <= result.summary.evaluated
      /\ phase' = "next" => csv'[b].lines = result.summary.evaluated
  <2>1. CASE OpenCsv
    <3>1. /\ csv' = [csv EXCEPT ![b] = [number |-> number, lines |-> 0]]
          /\ phase' = "rows"
        BY <2>1 DEF OpenCsv, Block, b
    <3>. QED BY <1>0, <1>2, <3>1 DEF FilesInv, HasResult
  <2>2. CASE WriteRow
    <3>1. /\ phase = "rows"
          /\ \/ /\ csv[b].lines < result.summary.evaluated
                /\ csv' = [csv EXCEPT ![b].lines = @ + 1] /\ phase' = phase
             \/ /\ ~ (csv[b].lines < result.summary.evaluated)
                /\ csv' = csv /\ phase' = "next"
        BY <2>2 DEF WriteRow, Block, b
    <3>2. csv[b].number = number
        BY <3>1 DEF BlockInv, b
    <3>3. csv[b].lines <= result.summary.evaluated
      <4>1. number > 0
          BY <1>0, <1>2 DEF FilesInv
      <4>. QED BY <1>0, <1>2, <3>2, <4>1 DEF CsvBelongsToJson
    <3>4. /\ csv \in [BLOCKS -> [number : Nat, lines : Nat]]
          /\ csv[b] \in [number : Nat, lines : Nat] /\ result.summary.evaluated \in Nat
        BY <1>0, <1>2 DEF FilesInv, HasResult
    <3>5. CASE csv' = csv
        BY <3>1, <3>2, <3>3, <3>4, <3>5
    <3>6. CASE /\ csv[b].lines < result.summary.evaluated
               /\ csv' = [csv EXCEPT ![b].lines = @ + 1] /\ phase' = phase
      <4>1. csv' = [csv EXCEPT ![b] = [csv[b] EXCEPT !.lines = csv[b].lines + 1]]
          BY <3>6
      <4>2. /\ [csv[b] EXCEPT !.lines = csv[b].lines + 1]
                  \in [number : Nat, lines : Nat]
            /\ [csv[b] EXCEPT !.lines = csv[b].lines + 1].lines = csv[b].lines + 1
            /\ [csv[b] EXCEPT !.lines = csv[b].lines + 1].number = csv[b].number
          BY <3>4
      <4>. QED BY <1>0, <3>1, <3>2, <3>4, <3>6, <4>1, <4>2
    <3>. QED BY <3>1, <3>5, <3>6
  <2>. QED BY <2>1, <2>2
<1>5. FilesInv'
  <2>1. \A c \in BLOCKS : csv'[c].number <= json[c].number
    <3>1. TAKE c \in BLOCKS
    <3>2. CASE c = b
        BY <1>2, <1>4, <3>2 DEF FilesInv
    <3>3. CASE c # b
        BY <1>4, <3>3 DEF FilesInv
    <3>. QED BY <3>2, <3>3
  <2>. QED BY <1>1, <1>4, <2>1 DEF FilesInv
<1>6. BlockInv'
    BY <1>0, <1>1, <1>2, <1>4 DEF BlockInv, HasResult, b
<1>7. CsvBelongsToJson'
  <2>1. SUFFICES ASSUME NEW c \in BLOCKS
                 PROVE  /\ csv'[c].number <= json[c].number
                        /\ csv'[c].number = json[c].number /\ csv'[c].number > 0 =>
                              json[c].whole /\ csv'[c].lines <= json[c].summary.evaluated
                        /\ complete[c] = json[c].number /\ complete[c] > 0 =>
                              \/ json[c].summary.evaluated = 0
                              \/ /\ csv'[c].number = json[c].number
                                 /\ csv'[c].lines = json[c].summary.evaluated
      BY <1>1 DEF CsvBelongsToJson
  <2>2. csv'[c].number <= json[c].number
      BY <1>1, <1>5 DEF FilesInv
  <2>3. CASE c = b
    <3>1. ~ (complete[c] = json[c].number)
        BY <1>0, <1>2, <2>3 DEF FilesInv
    <3>. QED BY <1>2, <1>4, <2>2, <2>3, <3>1
  <2>4. CASE c # b
      BY <1>4, <2>2, <2>4 DEF CsvBelongsToJson
  <2>. QED BY <2>3, <2>4
<1>. QED BY <1>3, <1>5, <1>6, <1>7

LEMMA PlaceNext ==
    ASSUME MetricsInv, NextBlock
    PROVE  PlaceInv' /\ CsvBelongsToJson'
<1>. USE DEF MetricsInv, PlaceInv
<1>. DEFINE b == Head(todo)
<1>0. /\ b \in BLOCKS /\ b = todo[1] /\ 1 \in 1..Len(todo)
      /\ \A k \in 1..Len(todo) : todo[k] \in BLOCKS /\ (k > 1 => todo[k] # b)
    BY TodoHead DEF NextBlock
<1>. HIDE DEF b
<1>1. /\ complete' = [complete EXCEPT ![b] = number] /\ todo' = Tail(todo)
      /\ json' = json /\ csv' = csv /\ number' = number /\ command' = command
      /\ phase = "next"
      /\ phase' = IF Tail(todo) = <<>> THEN "idle" ELSE "read"
    BY DEF NextBlock, Block, b
<1>2. /\ json[b].number = number
      /\ \/ json[b].summary.evaluated = 0
         \/ /\ csv[b].number = number
            /\ csv[b].lines = json[b].summary.evaluated
    BY <1>1 DEF BlockInv, b
<1>3. FilesInv'
    BY <1>0, <1>1, <1>2 DEF FilesInv
<1>4. TodoInv'
  <2>1. /\ Tail(todo) \in Seq(BLOCKS) /\ Len(Tail(todo)) = Len(todo) - 1
        /\ \A k \in 1..Len(Tail(todo)) : /\ Tail(todo)[k] = todo[k + 1]
                                         /\ k + 1 \in 1..Len(todo) /\ k + 1 > 1
      BY <1>0 DEF TodoInv
  <2>2. \A j, k \in 1..Len(Tail(todo)) : Tail(todo)[j] = Tail(todo)[k] => j = k
    <3>1. TAKE j, k \in 1..Len(Tail(todo))
    <3>2. HAVE Tail(todo)[j] = Tail(todo)[k]
    <3>3. j + 1 = k + 1
        BY <2>1, <3>2 DEF TodoInv
    <3>. QED BY <3>3
  <2>3. \A k \in 1..Len(Tail(todo)) : json[Tail(todo)[k]].number < number
      BY <2>1 DEF TodoInv
  <2>. QED BY <1>1, <2>1, <2>2, <2>3 DEF TodoInv
<1>5. BlockInv'
    BY <1>1 DEF BlockInv
<1>6. CsvBelongsToJson'
    BY <1>0, <1>1, <1>2 DEF CsvBelongsToJson, FilesInv
<1>. QED BY <1>3, <1>4, <1>5, <1>6

LEMMA MetricsStep ==
    ASSUME MetricsInv, [Next]_vars
    PROVE  MetricsInv'
<1>1. DataInv'
    BY DataStep DEF MetricsInv
<1>2. CASE UNCHANGED vars
  <2>1. UNCHANGED <<command, phase, todo, result, json, csv, complete, number>>
      BY <1>2 DEF vars, outputs
  <2>. QED BY <1>1, <2>1, PlaceUnchanged DEF MetricsInv
<1>3. CASE \/ \E i \in DOMAIN manifest.runs : LiftLists(i)
           \/ LiftTruncates \/ LiftFills \/ SaveTruncates \/ SaveFills
  <2>1. UNCHANGED <<command, phase, todo, result, json, csv, complete, number>>
      BY <1>3 DEF LiftLists, LiftTruncates, LiftFills, SaveTruncates, SaveFills,
                  Metrics, outputs
  <2>. QED BY <1>1, <2>1, PlaceUnchanged DEF MetricsInv
<1>4. CASE Invoke \/ load_runs \/ ReadRun \/ Compute \/ Cut
    BY <1>1, <1>4, PlaceReading DEF MetricsInv
<1>5. CASE OpenJson \/ FillJson
    BY <1>1, <1>5, PlaceJson DEF MetricsInv
<1>6. CASE OpenCsv \/ WriteRow
    BY <1>1, <1>6, PlaceCsv DEF MetricsInv
<1>7. CASE NextBlock
    BY <1>1, <1>7, PlaceNext DEF MetricsInv
<1>. QED BY <1>2, <1>3, <1>4, <1>5, <1>6, <1>7 DEF Next

----------------------------------------------------------------------------
\* For every results directory, however often run_metrics is invoked, cut off
\* or run beside a run_lifting: a block's CSV is never ahead of its JSON, never
\* longer than the JSON announces, and exactly as long once the invocation got
\* past the block (write_block_output).
THEOREM CsvFollowsJson == Spec => []CsvBelongsToJson
<1>1. Init => MetricsInv
    BY MetricsInit
<1>2. MetricsInv /\ [Next]_vars => MetricsInv'
    BY MetricsStep
<1>3. MetricsInv => CsvBelongsToJson
    BY DEF MetricsInv
<1>. QED BY <1>1, <1>2, <1>3, PTL DEF Spec
----------------------------------------------------------------------------
(* What the outputs say.                                                   *)
(*                                                                         *)
(* A block's result stays what compute makes of the runs and directories   *)
(* it read until its files are written (ResultInv).  As long as nobody     *)
(* lifts these are the manifest and the directories that are there, so     *)
(* that what a finished block wrote is current (SteadyInv).                *)

Blocking == phase \notin {"idle", "load"}

HasStatus(run) == "status" \in DOMAIN run /\ run.status # "error"

StatusInv ==
    /\ \A i \in DOMAIN manifest.runs : HasStatus(manifest.runs[i])
    /\ \A i \in DOMAIN runs : HasStatus(runs[i])

ResultInv ==
    /\ dir = [i \in DOMAIN dir |-> dir[i]]
    /\ ~ Blocking => seen = <<>>
    /\ phase = "load" => \A b \in BLOCKS : complete[b] < number
    /\ Writing => result = compute(Block, runs, seen)

Current(b) ==
    /\ json[b].whole
    /\ json[b].summary = compute(b, manifest.runs, dir).summary

SteadyInv ==
    /\ lifter = NoLifter
    /\ Blocking => runs = manifest.runs /\ \A i \in DOMAIN seen : seen[i] = dir[i]
    /\ Writing => seen = dir
    /\ phase = "next" => Current(Block)
    /\ \A b \in BLOCKS : complete[b] = number /\ number > 0 => Current(b)

TruthInv == StatusInv /\ ResultInv /\ (steady => SteadyInv)

LEMMA StatusStep ==
    ASSUME DataInv, StatusInv, [Next]_vars
    PROVE  StatusInv'
<1>1. CASE SaveFills
  <2>1. PICK status \in {"timeout", "ok"} :
           manifest' = [manifest EXCEPT !.state = "whole",
                                        !.runs[lifter.run].status = status]
      BY <1>1 DEF SaveFills
  <2>. DEFINE entry == [manifest.runs[lifter.run] EXCEPT !.status = status]
  <2>2. runs' = runs /\ manifest'.runs = [manifest.runs EXCEPT ![lifter.run] = entry]
      BY <1>1, <2>1 DEF DataInv, SaveFills, Metrics
  <2>3. lifter.run \in DOMAIN manifest.runs => HasStatus(entry)
      BY DEF StatusInv, HasStatus
  <2>. HIDE DEF entry
  <2>. QED BY <2>2, <2>3 DEF StatusInv
<1>2. CASE load_runs
  <2>1. manifest' = manifest /\ runs' \in {runs, manifest.runs}
      BY <1>2 DEF load_runs, lifting
  <2>. QED BY <2>1 DEF StatusInv
<1>3. CASE ~ SaveFills /\ ~ load_runs
  <2>1. manifest'.runs = manifest.runs /\ runs' \in {runs, <<>>}
    <3>1. CASE SaveTruncates
        BY <3>1 DEF SaveTruncates, Metrics, DataInv
    <3>2. CASE ~ SaveTruncates
        BY <1>3, <3>2
        DEF Next, LiftLists, LiftTruncates, LiftFills, Metrics, Invoke, ReadRun,
            Compute, OpenJson, FillJson, OpenCsv, WriteRow, NextBlock, Cut, lifting,
            vars
    <3>. QED BY <3>1, <3>2
  <2>. QED BY <2>1 DEF StatusInv
<1>. QED BY <1>1, <1>2, <1>3

LEMMA TruthInit ==
    ASSUME Init
    PROVE  TruthInv
<1>1. StatusInv
    BY MetricsAssumption DEF Init, StatusInv, HasStatus, RunFields
<1>2. dir = [i \in DOMAIN dir |-> dir[i]]
    BY DEF Init
<1>. QED BY <1>1, <1>2 DEF Init, TruthInv, ResultInv, Blocking, Writing

\* run_lifting at work: then nothing is steady
LEMMA TruthLifting ==
    ASSUME DataInv, ResultInv, steady => SteadyInv,
           \/ \E i \in DOMAIN manifest.runs : LiftLists(i)
           \/ LiftTruncates \/ LiftFills \/ SaveTruncates \/ SaveFills
    PROVE  ResultInv' /\ (steady' => SteadyInv')
<1>1. UNCHANGED <<phase, todo, runs, seen, result, complete, number>>
    BY DEF LiftLists, LiftTruncates, LiftFills, SaveTruncates, SaveFills, Metrics,
           outputs
<1>2. dir' = [i \in DOMAIN dir' |-> dir'[i]]
    BY DEF LiftLists, LiftTruncates, LiftFills, SaveTruncates, SaveFills, ResultInv
<1>3. ~ steady'
    BY DEF LiftLists, LiftTruncates, LiftFills, SaveTruncates, SaveFills, SteadyInv
<1>. QED BY <1>1, <1>2, <1>3 DEF ResultInv, Blocking, Writing, Block

\* what a metrics step has to keep, if it leaves lifting alone
LEMMA TruthInvoke ==
    ASSUME MetricsInv, ResultInv, steady => SteadyInv, Invoke \/ Cut
    PROVE  ResultInv' /\ (steady' => SteadyInv')
<1>1. /\ UNCHANGED <<manifest, dir, lifter, steady, json, complete>>
      /\ phase' \in {"idle", "load"} /\ seen' = <<>>
    BY DEF Invoke, Cut, ResultInv, Blocking, lifting, outputs
<1>2. \/ number' = number /\ phase' # "load"
      \/ number' = number + 1 /\ \A b \in BLOCKS : complete'[b] < number'
  <2>1. \A b \in BLOCKS : complete[b] <= number /\ complete[b] \in Nat /\ number \in Nat
    <3>1. TAKE b \in BLOCKS
    <3>2. complete[b] <= json[b].number /\ json[b].number <= number
          /\ complete[b] \in Nat /\ json[b].number \in Nat /\ number \in Nat
        BY DEF MetricsInv, PlaceInv, FilesInv
    <3>. QED BY <3>2
  <2>2. CASE Invoke
      BY <1>1, <2>1, <2>2 DEF Invoke, MetricsInv, PlaceInv, FilesInv
  <2>3. CASE Cut
      BY <2>3 DEF Cut
  <2>. QED BY <2>2, <2>3
<1>3. ResultInv'
    BY <1>1, <1>2 DEF ResultInv, Blocking, Writing
<1>4. ASSUME steady'
      PROVE  SteadyInv'
  <2>1. SteadyInv
      BY <1>1, <1>4
  <2>2. \A b \in BLOCKS : complete[b] \in Nat /\ (complete'[b] < number' => complete[b] # number')
      BY <1>1, <1>2 DEF MetricsInv, PlaceInv, FilesInv
  <2>. QED BY <1>1, <1>2, <2>1, <2>2 DEF SteadyInv, Blocking, Writing, Current
<1>. QED BY <1>3, <1>4

LEMMA TruthLoad ==
    ASSUME MetricsInv, ResultInv, steady => SteadyInv, load_runs
    PROVE  ResultInv' /\ (steady' => SteadyInv')
<1>1. /\ UNCHANGED <<manifest, dir, lifter, json, complete, number>>
      /\ seen' = <<>> /\ phase = "load" /\ phase' \in {"read", "idle"}
    BY DEF load_runs, ResultInv, Blocking, lifting, outputs
<1>2. ResultInv'
    BY <1>1 DEF ResultInv, Blocking, Writing
<1>3. \A b \in BLOCKS : complete[b] # number
    BY <1>1 DEF ResultInv, MetricsInv, PlaceInv, FilesInv
<1>4. ASSUME steady'
      PROVE  SteadyInv'
  <2>1. /\ lifter = NoLifter
        /\ phase' = "read" => runs' = manifest.runs
      BY <1>4, <1>1 DEF load_runs, SteadyInv
  <2>. QED BY <1>1, <1>3, <2>1 DEF SteadyInv, Blocking, Writing
<1>. QED BY <1>2, <1>4

LEMMA TruthRead ==
    ASSUME MetricsInv, ResultInv, steady => SteadyInv, ReadRun
    PROVE  ResultInv' /\ (steady' => SteadyInv')
<1>1. /\ UNCHANGED <<manifest, dir, lifter, phase, runs, json, complete, number, steady>>
      /\ phase = "read" /\ seen' = Append(seen, dir[Len(seen) + 1])
    BY DEF ReadRun, lifting, outputs
<1>2. ResultInv'
    BY <1>1 DEF ResultInv, Blocking, Writing
<1>3. ASSUME steady'
      PROVE  SteadyInv'
  <2>1. SteadyInv
      BY <1>1, <1>3
  <2>2. \A i \in DOMAIN seen' : seen'[i] = dir[i]
    <3>1. PICK S : seen \in Seq(S)
        BY DEF MetricsInv, DataInv, IsSeq
    <3>2. /\ DOMAIN seen' = 1..Len(seen) + 1 /\ DOMAIN seen = 1..Len(seen)
          /\ Len(seen) \in Nat
          /\ \A i \in 1..Len(seen) : seen'[i] = seen[i]
          /\ seen'[Len(seen) + 1] = dir[Len(seen) + 1]
        BY <1>1, <3>1
    <3>. QED BY <1>1, <2>1, <3>2 DEF SteadyInv, Blocking
  <2>. QED BY <1>1, <2>1, <2>2 DEF SteadyInv, Blocking, Writing, Current
<1>. QED BY <1>2, <1>3

LEMMA TruthCompute ==
    ASSUME MetricsInv, ResultInv, steady => SteadyInv, Compute
    PROVE  ResultInv' /\ (steady' => SteadyInv')
<1>1. /\ UNCHANGED <<manifest, dir, lifter, todo, runs, seen, json, complete, number,
                     steady>>
      /\ phase = "read" /\ phase' = "json" /\ Len(seen) = Len(runs)
      /\ result' = compute(Block, runs, seen)
    BY DEF Compute, lifting, outputs
<1>2. ResultInv'
    BY <1>1 DEF ResultInv, Blocking, Writing, Block
<1>3. ASSUME steady'
      PROVE  SteadyInv'
  <2>1. SteadyInv
      BY <1>1, <1>3
  <2>2. seen = dir
    <3>1. PICK S : seen \in Seq(S)
        BY DEF MetricsInv, DataInv, IsSeq
    <3>2. seen = [i \in 1..Len(seen) |-> seen[i]] /\ DOMAIN seen = 1..Len(seen)
        BY <3>1
    <3>3. DOMAIN dir = DOMAIN runs
        BY <1>1, <2>1 DEF SteadyInv, Blocking, MetricsInv, DataInv
    <3>4. DOMAIN dir = DOMAIN seen
        BY <1>1, <3>2, <3>3, SeqDomain DEF MetricsInv, DataInv
    <3>5. \A i \in DOMAIN seen : seen[i] = dir[i]
        BY <1>1, <2>1 DEF SteadyInv, Blocking
    <3>. QED BY <3>2, <3>4, <3>5 DEF ResultInv
  <2>. QED BY <1>1, <2>1, <2>2 DEF SteadyInv, Blocking, Writing, Current
<1>. QED BY <1>2, <1>3

\* from the result to the end of the block's files
LEMMA TruthWriting ==
    ASSUME MetricsInv, ResultInv, steady => SteadyInv,
           OpenJson \/ FillJson \/ OpenCsv \/ WriteRow
    PROVE  ResultInv' /\ (steady' => SteadyInv')
<1>. DEFINE b == Head(todo)
<1>1. /\ UNCHANGED <<manifest, dir, lifter, todo, runs, seen, result, complete, number,
                     steady>>
      /\ Writing /\ phase' \in {"fill", "csv", "rows", "next"}
    BY DEF OpenJson, FillJson, OpenCsv, WriteRow, lifting, Writing
<1>2. ResultInv'
    BY <1>1 DEF ResultInv, Blocking, Writing, Block
<1>3. \A c \in BLOCKS : c # b => json'[c] = json[c]
    BY DEF OpenJson, FillJson, OpenCsv, WriteRow, Block, MetricsInv, PlaceInv, FilesInv
<1>4. b \in BLOCKS /\ b = todo[1] /\ 1 \in 1..Len(todo)
    BY <1>1, TodoHead DEF Writing, MetricsInv, PlaceInv
<1>5. complete[b] # number
  <2>1. /\ complete[b] <= json[b].number
        /\ complete[b] \in Nat /\ json[b].number \in Nat /\ number \in Nat
      BY <1>4 DEF MetricsInv, PlaceInv, FilesInv
  <2>2. json[b].number < number \/ complete[b] < number
    <3>. HIDE DEF b
    <3>1. CASE phase = "json"
        BY <1>4, <3>1 DEF MetricsInv, PlaceInv, TodoInv
    <3>2. CASE phase # "json"
        BY <1>1, <3>2 DEF Writing, MetricsInv, PlaceInv, BlockInv, b
    <3>. QED BY <3>1, <3>2
  <2>. QED BY <2>1, <2>2
<1>6. phase' = "next" => json'[b].whole /\ json'[b].summary = result.summary
  <2>1. CASE FillJson
      BY <1>4, <2>1 DEF FillJson, Block, MetricsInv, PlaceInv, FilesInv
  <2>2. CASE WriteRow
      BY <2>2 DEF WriteRow, MetricsInv, PlaceInv, BlockInv
  <2>3. CASE OpenJson \/ OpenCsv
      BY <2>3 DEF OpenJson, OpenCsv
  <2>. QED BY <2>1, <2>2, <2>3
<1>7. ASSUME steady'
      PROVE  SteadyInv'
  <2>1. SteadyInv /\ runs = manifest.runs /\ seen = dir
      BY <1>1, <1>7 DEF SteadyInv, Blocking, Writing
  <2>2. phase' = "next" => Current(Block)'
      BY <1>1, <1>6, <2>1 DEF ResultInv, Current, Block
  <2>3. \A c \in BLOCKS : complete'[c] = number' /\ number' > 0 => Current(c)'
      BY <1>1, <1>3, <1>5, <2>1 DEF SteadyInv, Current
  <2>. QED BY <1>1, <2>1, <2>2, <2>3 DEF SteadyInv, Blocking, Writing
<1>. QED BY <1>2, <1>7

LEMMA TruthNext ==
    ASSUME MetricsInv, ResultInv, steady => SteadyInv, NextBlock
    PROVE  ResultInv' /\ (steady' => SteadyInv')
<1>1. /\ UNCHANGED <<manifest, dir, lifter, json, number, steady>>
      /\ phase = "next" /\ phase' \in {"idle", "read"} /\ seen' = <<>>
      /\ complete' = [complete EXCEPT ![Block] = number]
      /\ phase' = "read" => runs' = runs
    BY DEF NextBlock, lifting
<1>2. ResultInv'
    BY <1>1 DEF ResultInv, Blocking, Writing
<1>3. ASSUME steady'
      PROVE  SteadyInv'
  <2>1. SteadyInv
      BY <1>1, <1>3
  <2>2. \A b \in BLOCKS : b # Block => complete'[b] = complete[b]
      BY <1>1 DEF MetricsInv, PlaceInv, FilesInv
  <2>3. Current(Block)
      BY <1>1, <2>1 DEF SteadyInv
  <2>4. \A b \in BLOCKS : complete'[b] = number /\ number > 0 => Current(b)
      BY <2>1, <2>2, <2>3 DEF SteadyInv
  <2>. QED BY <1>1, <2>1, <2>4 DEF SteadyInv, Blocking, Writing, Current
<1>. QED BY <1>2, <1>3

LEMMA TruthStep ==
    ASSUME MetricsInv, TruthInv, [Next]_vars
    PROVE  TruthInv'
<1>1. StatusInv'
    BY StatusStep DEF MetricsInv, TruthInv
<1>2. ResultInv' /\ (steady' => SteadyInv')
  <2>1. CASE UNCHANGED vars
      BY <2>1 DEF vars, lifting, outputs, TruthInv, ResultInv, SteadyInv, Blocking,
                  Writing, Block, Current
  <2>2. CASE Next
      BY <2>2, TruthLifting, TruthInvoke, TruthLoad, TruthRead, TruthCompute,
         TruthWriting, TruthNext DEF Next, MetricsInv, TruthInv
  <2>. QED BY <2>1, <2>2
<1>. QED BY <1>1, <1>2 DEF TruthInv

THEOREM OutputsStayTrue == Spec => [](MetricsInv /\ TruthInv)
<1>1. Init => MetricsInv /\ TruthInv
    BY MetricsInit, TruthInit
<1>2. MetricsInv /\ TruthInv /\ [Next]_vars => MetricsInv' /\ TruthInv'
    BY MetricsStep, TruthStep
<1>. QED BY <1>1, <1>2, PTL DEF Spec

\* Whatever earlier invocations, earlier blocks and interruptions left behind,
\* an invocation that nobody lifted under leaves for every block it got past
\* the summary of the results directory as it is (main of run_metrics.py).
THEOREM FinishedBlocksAreCurrent == Spec => []OutputsAreCurrent
<1>1. TruthInv => OutputsAreCurrent
    BY DEF TruthInv, SteadyInv, Current, OutputsAreCurrent
<1>. QED BY <1>1, OutputsStayTrue, PTL
----------------------------------------------------------------------------
(* What a block speaks of. *)

LEMMA CompletedIsOk ==
    ASSUME NEW block, NEW run, HasStatus(run), Completed(block, run)
    PROVE  run.status = "ok"
BY DEF Completed, HasStatus

\* the rows of a block over functions or over runs
LEMMA RowsAreLifted ==
    ASSUME NEW block, NEW rs, NEW ds, \A i \in DOMAIN rs : HasStatus(rs[i]),
           NEW r \in Rows(block, rs, ds)
    PROVE  /\ rs[r.run].status = "ok"
           /\ r.at > 0 => /\ ~ ds[r.run].torn
                          /\ ds[r.run].records[r.at].status = "ok"
<1>1. PICK i \in DOMAIN rs : Completed(block, rs[i]) /\ r \in RowsOf(block, rs[i], ds[i], i)
    BY DEF Rows
<1>2. rs[i].status = "ok"
    BY <1>1, CompletedIsOk
<1>3. CASE block \in RunBlocks
  <2>1. r.run = i /\ r.at = 0
      BY <1>1, <1>3 DEF RowsOf
  <2>. QED BY <1>2, <2>1
<1>4. CASE block \notin RunBlocks
  <2>1. PICK j \in OkRecords(ds[i]) : r.run = i /\ r.at = j
      BY <1>1, <1>4 DEF RowsOf
  <2>2. ~ ds[i].torn /\ ds[i].records[j].status = "ok"
    <3>1. DOMAIN <<>> = {}
        OBVIOUS
    <3>. QED BY <3>1 DEF OkRecords, load_lift_records
  <2>. QED BY <1>2, <2>1, <2>2
<1>. QED BY <1>3, <1>4

\* groups and setdefault: one run stands for a label of a group, so that a
\* pair of labels of a group is one pair of runs
LEMMA PairsAreOfLabels ==
    ASSUME NEW block, NEW rs, IsSeq(rs),
           NEW p \in Pairs(block, rs), NEW q \in Pairs(block, rs),
           SameGroup(rs[p[1]], rs[q[1]]),
           {Label(rs[p[1]]), Label(rs[p[2]])} = {Label(rs[q[1]]), Label(rs[q[2]])}
    PROVE  p = q
<1>1. DOMAIN rs \subseteq Nat
    BY SeqDomain
<1>2. /\ {p[1], p[2], q[1], q[2]} \subseteq Chosen(block, rs)
      /\ p = <<p[1], p[2]>> /\ q = <<q[1], q[2]>>
      /\ p[1] < p[2] /\ q[1] < q[2]
      /\ SameGroup(rs[p[1]], rs[p[2]]) /\ SameGroup(rs[q[1]], rs[q[2]])
    BY DEF Pairs
<1>3. \A i, j \in Chosen(block, rs) :
         SameGroup(rs[i], rs[j]) /\ Label(rs[i]) = Label(rs[j]) => i = j
    BY <1>1 DEF Chosen, Comparable, SameGroup
<1>4. \A i, j \in {p[1], p[2], q[1], q[2]} : SameGroup(rs[i], rs[j]) /\ i \in Nat
    BY <1>1, <1>2 DEF SameGroup, Chosen, Comparable
<1>5. \/ Label(rs[p[1]]) = Label(rs[q[1]]) /\ Label(rs[p[2]]) = Label(rs[q[2]])
      \/ Label(rs[p[1]]) = Label(rs[q[2]]) /\ Label(rs[p[2]]) = Label(rs[q[1]])
    OBVIOUS
<1>6. (p[1] = q[1] /\ p[2] = q[2]) \/ (p[1] = q[2] /\ p[2] = q[1])
    BY <1>2, <1>3, <1>4, <1>5
<1>7. ~ (p[1] = q[2] /\ p[2] = q[1])
    BY <1>2, <1>4
<1>. QED BY <1>2, <1>6, <1>7

\* the rows of a block that compares two builds
LEMMA PairRowsAreLifted ==
    ASSUME NEW block, NEW rs, NEW ds, IsSeq(rs), \A i \in DOMAIN rs : HasStatus(rs[i]),
           NEW r \in PairRows(block, rs, ds)
    PROVE  LET a == rs[r.pair[1]]
               b == rs[r.pair[2]]
           IN  /\ a.status = "ok" /\ b.status = "ok"
               /\ a.backend = b.backend /\ a.group = b.group
               /\ Label(a) # Label(b)
<1>1. PICK p \in Pairs(block, rs) : r.pair = p
    BY DEF PairRows
<1>2. /\ p[1] \in Chosen(block, rs) /\ p[2] \in Chosen(block, rs)
      /\ p[1] < p[2] /\ SameGroup(rs[p[1]], rs[p[2]])
    BY DEF Pairs
<1>3. rs[p[1]].status = "ok" /\ rs[p[2]].status = "ok"
    BY <1>2, CompletedIsOk DEF Chosen, Comparable
<1>4. Label(rs[p[1]]) # Label(rs[p[2]])
  <2>1. p[1] \in Nat /\ p[2] \in Nat
      BY <1>2, SeqDomain DEF Chosen, Comparable
  <2>2. SameGroup(rs[p[2]], rs[p[1]])
      BY <1>2 DEF SameGroup
  <2>3. SUFFICES ASSUME Label(rs[p[1]]) = Label(rs[p[2]])
                 PROVE  FALSE
      OBVIOUS
  <2>4. p[2] <= p[1]
      BY <1>2, <2>2, <2>3 DEF Chosen
  <2>. QED BY <1>2, <2>1, <2>4
<1>. QED BY <1>1, <1>2, <1>3, <1>4 DEF SameGroup

LEMMA PairRowsAreOnce ==
    ASSUME NEW block, NEW rs, NEW ds, IsSeq(rs),
           NEW r \in PairRows(block, rs, ds), NEW q \in PairRows(block, rs, ds),
           r.function = q.function, SameGroup(rs[r.pair[1]], rs[q.pair[1]]),
           {Label(rs[r.pair[1]]), Label(rs[r.pair[2]])}
             = {Label(rs[q.pair[1]]), Label(rs[q.pair[2]])}
    PROVE  r = q
<1>. DEFINE at(i, n) == Datum(block, rs[i], ds[i], n)
            row(p, n) == [pair |-> p, function |-> n,
                          value |-> Comparison(block, at(p[1], n), at(p[2], n))]
<1>1. \A x \in PairRows(block, rs, ds) :
         x.pair \in Pairs(block, rs) /\ x = row(x.pair, x.function)
    BY DEF PairRows
<1>2. r.pair = q.pair
    BY <1>1, PairsAreOfLabels
<1>. HIDE DEF row
<1>. QED BY <1>1, <1>2

\* A block speaks of nothing but functions that were lifted, in runs that
\* ended well, and says it once: a row of a comparison is about one function
\* of two builds under two different labels, and no two rows are about the
\* same labels and function (the status filters, the grouping and setdefault
\* of blocks/*.py).
THEOREM BlocksSpeakOfLifted == Spec => []OnlyWhatWasLifted
<1>1. ASSUME MetricsInv, TruthInv, Writing
      PROVE  OnlyWhatWasLifted
  <2>1. /\ IsSeq(runs) /\ result = compute(Block, runs, seen)
        /\ \A i \in DOMAIN runs : HasStatus(runs[i])
      BY <1>1 DEF MetricsInv, DataInv, TruthInv, ResultInv, StatusInv
  <2>2. CASE Block \in PairBlocks
    <3>1. result.rows = PairRows(Block, runs, seen)
        BY <2>1, <2>2 DEF compute
    <3>. QED BY <2>1, <2>2, <3>1, PairRowsAreLifted, PairRowsAreOnce
             DEF OnlyWhatWasLifted
  <2>3. CASE Block \notin PairBlocks
    <3>1. result.rows = Rows(Block, runs, seen)
        BY <2>1, <2>3 DEF compute
    <3>. QED BY <2>1, <2>3, <3>1, RowsAreLifted DEF OnlyWhatWasLifted
  <2>. QED BY <2>2, <2>3
<1>2. ~ Writing => OnlyWhatWasLifted
    BY DEF OnlyWhatWasLifted
<1>. QED BY <1>1, <1>2, OutputsStayTrue, PTL

----------------------------------------------------------------------------
(* What the records say.                                                   *)
(*                                                                         *)
(* Every record comes from a lift of a function (RecordsAgree), the one on *)
(* the disk and the one a repeated attempt is about to write; a run keeps  *)
(* its backend whatever becomes of its status.                             *)

Sound(backend, rec) ==
    rec.status = "ok" => RecordAgrees(backend, rec) /\ Counted(backend, rec)

RecordsSound(backend, records) ==
    DOMAIN records \subseteq Int /\ \A j \in DOMAIN records : Sound(backend, records[j])

\* functions.json, the .ll and the .dsm
FilesSound(d) ==
    /\ \A a \in DOMAIN d.sizes : d.sizes[a] \in Nat
    /\ \A n \in DOMAIN d.ll :
          /\ Listed(d.ll[n])
          /\ \A k \in DOMAIN d.ll[n] : d.ll[n][k].targets \in Nat
    /\ \A n \in DOMAIN d.dsm : Listed(d.dsm[n])

Readable(backend, d) == RecordsSound(backend, d.records) /\ FilesSound(d)

DiskInv == \A i \in DOMAIN dir : Readable(manifest.runs[i].backend, dir[i])

LifterInv ==
    lifter # NoLifter =>
        /\ lifter.run \in DOMAIN manifest.runs
        /\ RecordsSound(manifest.runs[lifter.run].backend, lifter.records)

SoundInv == DiskInv /\ LifterInv

LEMMA AttemptedKeeps ==
    ASSUME NEW run, RunFields \subseteq DOMAIN run, NEW r \in Attempted(run)
    PROVE  /\ DOMAIN r = DOMAIN run
           /\ \A x \in DOMAIN run \ {"status"} : r[x] = run[x]
BY DEF Attempted

LEMMA RunsAreUsual ==
    ASSUME RunsInv, NEW i \in DOMAIN manifest.runs
    PROVE  /\ RunFields \subseteq DOMAIN manifest.runs[i]
           /\ Usual(manifest.runs[i])
<1>1. PICK m \in Manifests :
         DOMAIN manifest.runs = DOMAIN m /\ manifest.runs[i] \in Attempted(m[i])
    BY DEF RunsInv
<1>2. RunFields \subseteq DOMAIN m[i] /\ Usual(m[i])
    BY <1>1, MetricsAssumption
<1>. DEFINE r == manifest.runs[i]
<1>3. DOMAIN r = DOMAIN m[i] /\ \A x \in DOMAIN m[i] \ {"status"} : r[x] = m[i][x]
    BY <1>1, <1>2, AttemptedKeeps
<1>4. /\ r.backend = m[i].backend /\ r.image = m[i].image /\ r.wall = m[i].wall
      /\ r.duration = m[i].duration /\ r.rss = m[i].rss
    BY <1>2, <1>3 DEF RunFields
<1>. QED BY <1>2, <1>3, <1>4 DEF Usual

LEMMA RunsAreOfBackends ==
    ASSUME RunsInv, NEW i \in DOMAIN manifest.runs
    PROVE  /\ {"status", "backend"} \subseteq DOMAIN manifest.runs[i]
           /\ manifest.runs[i].backend \in IR_SIZE_FIELDS
BY RunsAreUsual DEF RunFields, Usual

\* the files of one attempt, whatever its tool found
LEMMA OutputsSound ==
    ASSUME NEW run, NEW units, PresentedAll(run.backend, units)
    PROVE  FilesSound(Outputs(run, units)) /\ DOMAIN units \subseteq Int
<1>. DEFINE new == Outputs(run, units)
<1>1. Listed(units) /\ \A k \in DOMAIN units : Presented(run.backend, units[k])
    BY DEF PresentedAll
<1>2. /\ new.sizes = [a \in {units[k].address : k \in DOMAIN units} |->
                        (CHOOSE u \in {units[k] : k \in DOMAIN units} : u.address = a).size]
      /\ new.ll = [n \in {units[k].name : k \in {k \in DOMAIN units :
                                                   units[k].lines # <<>>}} |->
                     LastNamed(units, n).lines]
      /\ new.dsm = [n \in {units[k].name : k \in DOMAIN units} |->
                      LastNamed(units, n).insns]
    BY DEF Outputs
<1>. HIDE DEF new
<1>3. DOMAIN units \subseteq Int
  <2>1. DOMAIN units = 1..Len(units) /\ Len(units) \in Nat
      BY <1>1, SeqPlaces DEF Listed
  <2>. QED BY <2>1
<1>4. ASSUME NEW a \in DOMAIN new.sizes
      PROVE  new.sizes[a] \in Nat
  <2>. DEFINE u == CHOOSE u \in {units[k] : k \in DOMAIN units} : u.address = a
  <2>1. \E v \in {units[k] : k \in DOMAIN units} : v.address = a
      BY <1>2
  <2>2. u \in {units[k] : k \in DOMAIN units}
      BY <2>1
  <2>3. new.sizes[a] = u.size
      BY <1>2
  <2>. HIDE DEF u
  <2>. QED BY <1>1, <2>2, <2>3 DEF Presented
<1>5. ASSUME NEW n \in DOMAIN new.ll \cup DOMAIN new.dsm
      PROVE  /\ n \in DOMAIN new.ll => /\ Listed(new.ll[n])
                                       /\ \A k \in DOMAIN new.ll[n] :
                                             new.ll[n][k].targets \in Nat
             /\ n \in DOMAIN new.dsm => Listed(new.dsm[n])
  <2>1. PICK k \in DOMAIN units : n = units[k].name
      BY <1>2
  <2>2. PICK l \in DOMAIN units : LastNamed(units, n) = units[l]
      BY <1>1, <2>1, LastNamedIsNamed
  <2>3. /\ n \in DOMAIN new.ll => new.ll[n] = units[l].lines
        /\ n \in DOMAIN new.dsm => new.dsm[n] = units[l].insns
      BY <1>2, <2>2
  <2>4. /\ Listed(units[l].lines) /\ Listed(units[l].insns)
        /\ \A x \in DOMAIN units[l].lines : units[l].lines[x].targets \in Nat
      BY <1>1 DEF Presented
  <2>. QED BY <2>3, <2>4
<1>6. FilesSound(new)
    BY <1>4, <1>5 DEF FilesSound
<1>. QED BY <1>3, <1>6 DEF new

LEMMA FoundIsSound ==
    ASSUME RunsInv, NEW i \in DOMAIN manifest.runs,
           NEW units \in Found(manifest.runs[i])
    PROVE  Readable(manifest.runs[i].backend, Outputs(manifest.runs[i], units))
<1>. DEFINE run == manifest.runs[i]
            new == Outputs(run, units)
<1>1. PresentedAll(run.backend, units)
    BY FoundPresented
<1>2. \A k \in DOMAIN units : Presented(run.backend, units[k])
    BY <1>1 DEF PresentedAll
<1>3. run.backend \in Nesting \cup {"pyghidra", "r2", "retdec"}
    BY RunsAreOfBackends DEF IR_SIZE_FIELDS
<1>4. DOMAIN new.records = DOMAIN units
      /\ \A k \in DOMAIN units : new.records[k] = Lifted(run, units[k])
    BY DEF Outputs
<1>5. FilesSound(new) /\ DOMAIN units \subseteq Int
    BY <1>1, OutputsSound
<1>. HIDE DEF run, new
<1>6. \A k \in DOMAIN new.records : Sound(run.backend, new.records[k])
    BY <1>2, <1>3, <1>4, RecordsAgree, LiftedCounts DEF Sound
<1>7. Readable(run.backend, new)
    BY <1>4, <1>5, <1>6 DEF Readable, RecordsSound
<1>. QED BY <1>7 DEF run, new

LEMMA SoundInit ==
    ASSUME Init, DataInv
    PROVE  SoundInv
<1>1. PICK pick : /\ dir = [i \in DOMAIN manifest.runs |->
                               Outputs(manifest.runs[i], pick[i])]
                  /\ \A i \in DOMAIN manifest.runs :
                        pick[i] \in Found(manifest.runs[i])
    BY DEF Init
<1>2. DiskInv
    BY <1>1, FoundIsSound DEF DiskInv, DataInv
<1>3. lifter = NoLifter
    BY DEF Init
<1>. QED BY <1>2, <1>3 DEF SoundInv, LifterInv

LEMMA SoundStep ==
    ASSUME DataInv, SoundInv, [Next]_vars
    PROVE  SoundInv'
<1>. USE DEF SoundInv
<1>1. CASE manifest' = manifest /\ dir' = dir /\ lifter' = lifter
    BY <1>1 DEF DiskInv, LifterInv
<1>2. ASSUME NEW i \in DOMAIN manifest.runs, LiftLists(i)
      PROVE  SoundInv'
  <2>1. PICK units \in Found(manifest.runs[i]) :
           LET new == Outputs(manifest.runs[i], units)
           IN  /\ lifter' = [run |-> i, records |-> new.records, stage |-> "listed"]
               /\ dir' = [dir EXCEPT ![i].sizes = new.sizes, ![i].ll = new.ll,
                                     ![i].dsm = new.dsm]
      BY <1>2 DEF LiftLists
  <2>. DEFINE new == Outputs(manifest.runs[i], units)
  <2>2. manifest' = manifest
      BY <1>2 DEF LiftLists
  <2>3. /\ DOMAIN dir' = DOMAIN dir
        /\ dir'[i].records = dir[i].records /\ dir'[i].sizes = new.sizes
        /\ dir'[i].ll = new.ll /\ dir'[i].dsm = new.dsm
        /\ \A j \in DOMAIN dir : j # i => dir'[j] = dir[j]
      BY <2>1 DEF DataInv, Dir
  <2>4. Readable(manifest.runs[i].backend, new)
      BY FoundIsSound DEF DataInv
  <2>5. lifter'.run = i /\ lifter'.records = new.records
      BY <2>1
  <2>. HIDE DEF new
  <2>6. FilesSound(dir'[i])
      BY <2>3, <2>4 DEF Readable, FilesSound
  <2>7. DiskInv'
      BY <2>2, <2>3, <2>6 DEF DiskInv, Readable
  <2>8. LifterInv'
      BY <2>2, <2>4, <2>5 DEF LifterInv, Readable
  <2>. QED BY <2>7, <2>8
<1>3. CASE LiftTruncates
  <2>1. /\ lifter' = [lifter EXCEPT !.stage = "torn"]
        /\ dir' = [dir EXCEPT ![lifter.run].torn = TRUE]
        /\ manifest' = manifest /\ lifter # NoLifter
      BY <1>3 DEF LiftTruncates
  <2>2. /\ DOMAIN dir' = DOMAIN dir
        /\ \A j \in DOMAIN dir : /\ dir'[j].records = dir[j].records
                                 /\ dir'[j].sizes = dir[j].sizes
                                 /\ dir'[j].ll = dir[j].ll /\ dir'[j].dsm = dir[j].dsm
      BY <2>1 DEF DataInv, Dir
  <2>3. lifter'.run = lifter.run /\ lifter'.records = lifter.records
      BY <2>1 DEF DataInv
  <2>4. \A j \in DOMAIN dir : FilesSound(dir[j]) => FilesSound(dir'[j])
      BY <2>2 DEF FilesSound
  <2>. QED BY <2>1, <2>2, <2>3, <2>4 DEF DiskInv, LifterInv, Readable
<1>4. CASE LiftFills
  <2>1. /\ lifter' = [lifter EXCEPT !.stage = "filled"]
        /\ dir' = [dir EXCEPT ![lifter.run].torn = FALSE,
                              ![lifter.run].records = lifter.records]
        /\ manifest' = manifest /\ lifter # NoLifter
      BY <1>4 DEF LiftFills
  <2>2. /\ DOMAIN dir' = DOMAIN dir
        /\ dir'[lifter.run].records = lifter.records
        /\ dir'[lifter.run].sizes = dir[lifter.run].sizes
        /\ dir'[lifter.run].ll = dir[lifter.run].ll
        /\ dir'[lifter.run].dsm = dir[lifter.run].dsm
        /\ \A j \in DOMAIN dir : j # lifter.run => dir'[j] = dir[j]
      BY <2>1 DEF DataInv, Dir, LifterInv
  <2>3. lifter'.run = lifter.run /\ lifter'.records = lifter.records
      BY <2>1 DEF DataInv
  <2>4. FilesSound(dir[lifter.run]) => FilesSound(dir'[lifter.run])
      BY <2>2 DEF FilesSound
  <2>5. DiskInv'
      BY <2>1, <2>2, <2>4 DEF DiskInv, LifterInv, Readable
  <2>. QED BY <2>1, <2>3, <2>5 DEF LifterInv
<1>5. CASE SaveTruncates
  <2>1. manifest'.runs = manifest.runs /\ dir' = dir /\ lifter' = lifter
      BY <1>5 DEF SaveTruncates, DataInv
  <2>. QED BY <2>1 DEF DiskInv, LifterInv
<1>6. CASE SaveFills
  <2>1. PICK status \in {"ok", "timeout"} :
           manifest' = [manifest EXCEPT !.state = "whole",
                                        !.runs[lifter.run].status = status]
      BY <1>6 DEF SaveFills
  <2>2. lifter # NoLifter /\ dir' = dir /\ lifter' = NoLifter
      BY <1>6 DEF SaveFills
  <2>3. manifest'.runs =
          [manifest.runs EXCEPT ![lifter.run] =
              [manifest.runs[lifter.run] EXCEPT !.status = status]]
      BY <2>1 DEF DataInv
  <2>4. \A i \in DOMAIN manifest.runs : "backend" \in DOMAIN manifest.runs[i]
      BY RunsAreOfBackends DEF DataInv
  <2>5. \A i \in DOMAIN dir : manifest'.runs[i].backend = manifest.runs[i].backend
      BY <2>2, <2>3, <2>4 DEF DataInv
  <2>. QED BY <2>2, <2>5 DEF DiskInv, LifterInv
<1>7. CASE Invoke \/ load_runs \/ ReadRun \/ Compute \/ OpenJson \/ FillJson
             \/ OpenCsv \/ WriteRow \/ NextBlock \/ Cut
  <2>1. manifest' = manifest /\ dir' = dir /\ lifter' = lifter
      BY <1>7 DEF Invoke, load_runs, ReadRun, Compute, OpenJson, FillJson, OpenCsv,
                  WriteRow, NextBlock, Cut, lifting
  <2>. QED BY <1>1, <2>1
<1>8. CASE UNCHANGED vars
    BY <1>1, <1>8 DEF vars, lifting
<1>. QED BY <1>2, <1>3, <1>4, <1>5, <1>6, <1>7, <1>8 DEF Next

\* Every record of every output directory agrees with itself, whichever backend
\* lifted the function, whatever its tool presented, and whichever of the
\* repeated attempts left the record there (lift_function of every backend).
THEOREM RecordsOnDiskAgree == Spec => []AccountsAgree
<1>1. Init => DataInv /\ SoundInv
    BY DataInit, SoundInit
<1>2. DataInv /\ SoundInv /\ [Next]_vars => DataInv' /\ SoundInv'
    BY DataStep, SoundStep
<1>3. SoundInv => AccountsAgree
  <2>1. HAVE SoundInv
  <2>2. ASSUME NEW i \in DOMAIN dir, NEW j \in OkRecords(dir[i])
        PROVE  RecordAgrees(manifest.runs[i].backend, dir[i].records[j])
    <3>1. ~ dir[i].torn
        BY DEF OkRecords, load_lift_records
    <3>2. j \in DOMAIN dir[i].records /\ dir[i].records[j].status = "ok"
        BY <3>1 DEF OkRecords, load_lift_records
    <3>. QED BY <2>1, <3>2 DEF SoundInv, DiskInv, Readable, RecordsSound, Sound
  <2>. QED BY <2>2 DEF AccountsAgree
<1>. QED BY <1>1, <1>2, <1>3, PTL DEF Spec

----------------------------------------------------------------------------
(* No data is not zero.                                                    *)
(*                                                                         *)
(* RetDec's sizes are counted when the metrics run, in files the records   *)
(* only name.  They are those of one attempt unless that attempt is being  *)
(* repeated or ended short of its records, and then the manifest does not  *)
(* say "ok" (JoinInv): while nobody lifts, a run that is "ok" has them.    *)

OfRetdec(i) == manifest.runs[i].backend = "retdec"

JoinInv ==
    /\ \A i \in DOMAIN dir :
          /\ OfRetdec(i) /\ manifest.runs[i].status = "ok"
          /\ lifter # NoLifter => lifter.run # i
          => Joined(dir[i].records, dir[i])
    /\ lifter # NoLifter /\ OfRetdec(lifter.run) =>
          /\ Joined(lifter.records, dir[lifter.run])
          /\ lifter.stage = "filled" => dir[lifter.run].records = lifter.records

LEMMA JoinedIsOfFiles ==
    ASSUME NEW records, NEW d, NEW e, Joined(records, d), e.ll = d.ll, e.dsm = d.dsm
    PROVE  Joined(records, e)
BY DEF Joined

LEMMA FoundIsJoined ==
    ASSUME RunsInv, NEW i \in DOMAIN manifest.runs, OfRetdec(i),
           NEW units \in Found(manifest.runs[i])
    PROVE  LET new == Outputs(manifest.runs[i], units)
           IN  Joined(new.records, new)
BY FoundPresented, OutputsJoined DEF OfRetdec

LEMMA JoinInit ==
    ASSUME Init, DataInv
    PROVE  JoinInv
<1>1. PICK pick : /\ dir = [i \in DOMAIN manifest.runs |->
                               Outputs(manifest.runs[i], pick[i])]
                  /\ \A i \in DOMAIN manifest.runs :
                        pick[i] \in Found(manifest.runs[i])
    BY DEF Init
<1>2. \A i \in DOMAIN dir : OfRetdec(i) => Joined(dir[i].records, dir[i])
    BY <1>1, FoundIsJoined DEF DataInv
<1>3. lifter = NoLifter
    BY DEF Init
<1>. QED BY <1>2, <1>3 DEF JoinInv

LEMMA JoinStep ==
    ASSUME DataInv, SoundInv, JoinInv, [Next]_vars
    PROVE  JoinInv'
<1>1. CASE manifest' = manifest /\ dir' = dir /\ lifter' = lifter
    BY <1>1 DEF JoinInv, OfRetdec
<1>2. ASSUME NEW i \in DOMAIN manifest.runs, LiftLists(i)
      PROVE  JoinInv'
  <2>1. PICK units \in Found(manifest.runs[i]) :
           LET new == Outputs(manifest.runs[i], units)
           IN  /\ lifter' = [run |-> i, records |-> new.records, stage |-> "listed"]
               /\ dir' = [dir EXCEPT ![i].sizes = new.sizes, ![i].ll = new.ll,
                                     ![i].dsm = new.dsm]
      BY <1>2 DEF LiftLists
  <2>. DEFINE new == Outputs(manifest.runs[i], units)
  <2>2. manifest' = manifest /\ lifter = NoLifter /\ i \in DOMAIN dir
      BY <1>2 DEF LiftLists, DataInv
  <2>3. /\ DOMAIN dir' = DOMAIN dir
        /\ \A j \in DOMAIN dir : j # i => dir'[j] = dir[j]
        /\ dir'[i].ll = new.ll /\ dir'[i].dsm = new.dsm
      BY <2>1, <2>2 DEF DataInv, Dir
  <2>4. OfRetdec(i) => Joined(new.records, new)
      BY FoundIsJoined DEF DataInv
  <2>5. lifter'.run = i /\ lifter'.records = new.records /\ lifter'.stage = "listed"
      BY <2>1
  <2>6. lifter' # NoLifter
    <3>1. DOMAIN lifter' = {"run", "records", "stage"}
        BY <2>1
    <3>2. DOMAIN NoLifter = {"run"}
        BY DEF NoLifter
    <3>. QED BY <3>1, <3>2
  <2>. HIDE DEF new
  <2>7. OfRetdec(i) => Joined(new.records, dir'[i])
      BY <2>3, <2>4, JoinedIsOfFiles
  <2>. QED BY <2>2, <2>3, <2>5, <2>6, <2>7 DEF JoinInv, OfRetdec
<1>3. CASE LiftTruncates \/ LiftFills
  <2>1. /\ manifest' = manifest /\ lifter # NoLifter /\ lifter' # NoLifter
        /\ lifter'.run = lifter.run /\ lifter'.records = lifter.records
        /\ lifter'.stage = "torn" \/ (LiftFills /\ lifter'.stage = "filled")
    <3>1. lifter # NoLifter /\ DOMAIN lifter = {"run", "records", "stage"}
        BY <1>3 DEF LiftTruncates, LiftFills, DataInv
    <3>2. lifter' = [lifter EXCEPT !.stage = "torn"]
            \/ (LiftFills /\ lifter' = [lifter EXCEPT !.stage = "filled"])
        BY <1>3 DEF LiftTruncates, LiftFills
    <3>3. DOMAIN NoLifter = {"run"} /\ DOMAIN lifter' = {"run", "records", "stage"}
        BY <3>1, <3>2 DEF NoLifter
    <3>4. manifest' = manifest
        BY <1>3 DEF LiftTruncates, LiftFills
    <3>. QED BY <3>1, <3>2, <3>3, <3>4
  <2>2. lifter.run \in DOMAIN dir
      BY <2>1 DEF SoundInv, LifterInv, DataInv
  <2>3. /\ DOMAIN dir' = DOMAIN dir
        /\ \A j \in DOMAIN dir : j # lifter.run => dir'[j] = dir[j]
        /\ dir'[lifter.run].ll = dir[lifter.run].ll
        /\ dir'[lifter.run].dsm = dir[lifter.run].dsm
        /\ LiftFills => dir'[lifter.run].records = lifter.records
    <3>1. /\ DOMAIN dir[lifter.run] = {"torn", "sizes", "records", "ll", "dsm"}
          /\ lifter.run \in DOMAIN dir
        BY <2>2 DEF DataInv, Dir
    <3>2. CASE LiftTruncates
      <4>1. dir' = [dir EXCEPT ![lifter.run].torn = TRUE]
          BY <3>2 DEF LiftTruncates
      <4>2. ~ LiftFills
          BY <3>2 DEF LiftTruncates, LiftFills
      <4>. QED BY <3>1, <4>1, <4>2
    <3>3. CASE LiftFills
      <4>1. dir' = [dir EXCEPT ![lifter.run].torn = FALSE,
                               ![lifter.run].records = lifter.records]
          BY <3>3 DEF LiftFills
      <4>. QED BY <3>1, <4>1
    <3>. QED BY <1>3, <3>2, <3>3
  <2>4. OfRetdec(lifter.run) => Joined(lifter.records, dir'[lifter.run])
      BY <2>1, <2>3, JoinedIsOfFiles DEF JoinInv
  <2>. QED BY <2>1, <2>3, <2>4 DEF JoinInv, OfRetdec
<1>4. CASE SaveTruncates
  <2>1. manifest'.runs = manifest.runs /\ dir' = dir /\ lifter' = lifter
      BY <1>4 DEF SaveTruncates, DataInv
  <2>. QED BY <2>1 DEF JoinInv, OfRetdec
<1>5. CASE SaveFills
  <2>1. PICK status \in {"timeout"} \cup (IF lifter.stage = "filled" THEN {"ok"} ELSE {}) :
           manifest' = [manifest EXCEPT !.state = "whole",
                                        !.runs[lifter.run].status = status]
      BY <1>5 DEF SaveFills
  <2>2. lifter # NoLifter /\ dir' = dir /\ lifter' = NoLifter
      BY <1>5 DEF SaveFills
  <2>3. manifest'.runs =
          [manifest.runs EXCEPT ![lifter.run] =
              [manifest.runs[lifter.run] EXCEPT !.status = status]]
      BY <2>1 DEF DataInv
  <2>4. \A i \in DOMAIN dir : {"status", "backend"} \subseteq DOMAIN manifest.runs[i]
      BY RunsAreOfBackends DEF DataInv
  <2>5. \A i \in DOMAIN dir :
           /\ manifest'.runs[i].backend = manifest.runs[i].backend
           /\ i # lifter.run => manifest'.runs[i] = manifest.runs[i]
           /\ i = lifter.run => manifest'.runs[i].status = status
      BY <2>3, <2>4 DEF DataInv
  <2>6. status = "ok" => lifter.stage = "filled"
      BY <2>1
  <2>. QED BY <2>2, <2>5, <2>6 DEF JoinInv, OfRetdec
<1>6. CASE Invoke \/ load_runs \/ ReadRun \/ Compute \/ OpenJson \/ FillJson
             \/ OpenCsv \/ WriteRow \/ NextBlock \/ Cut
  <2>1. manifest' = manifest /\ dir' = dir /\ lifter' = lifter
      BY <1>6 DEF Invoke, load_runs, ReadRun, Compute, OpenJson, FillJson, OpenCsv,
                  WriteRow, NextBlock, Cut, lifting
  <2>. QED BY <1>1, <2>1
<1>7. CASE UNCHANGED vars
    BY <1>1, <1>7 DEF vars, lifting
<1>. QED BY <1>2, <1>3, <1>4, <1>5, <1>6, <1>7 DEF Next

\* What the two sizes of a lifted function are, in files that belong together.
LEMMA SizesAreCounted ==
    ASSUME NEW run, NEW d, NEW rec, rec.status = "ok", Sound(run.backend, rec),
           run.backend = "retdec" =>
              /\ rec.function \in DOMAIN d.ll
              /\ Listed(d.ll[rec.function]) /\ d.ll[rec.function] # <<>>
              /\ \A n \in DOMAIN d.dsm : Listed(d.dsm[n])
    PROVE  LET size == Total(IrCounts(run, d, rec, "ops"))
           IN  /\ size \in Nat /\ NativeTotal(run, d, rec) \in Int
               /\ size = 0 => rec.ir_size = 0 /\ run.backend # "retdec"
<1>1. CASE run.backend = "retdec"
  <2>. DEFINE lines == d.ll[rec.function]
  <2>1. Total(IrCounts(run, d, rec, "ops")) = Len(lines)
      BY <1>1, SumOfLines DEF IrCounts, LlCounts
  <2>2. Len(lines) \in Nat /\ Len(lines) # 0
      BY <1>1 DEF Listed
  <2>3. NativeTotal(run, d, rec) \in Int
    <3>1. NativeTotal(run, d, rec) = Total(DsmCounts(run, d, rec.function))
        BY <1>1 DEF NativeTotal
    <3>2. CASE HasArch(run) /\ rec.function \in DOMAIN d.dsm
      <4>. DEFINE insns == d.dsm[rec.function]
      <4>1. DsmCounts(run, d, rec.function) = EachDecoded(insns, run.arch, run.bits)
          BY <3>2 DEF DsmCounts
      <4>2. Listed(insns)
          BY <1>1, <3>2
      <4>. QED BY <3>1, <4>1, <4>2, SumOfNative
    <3>3. CASE ~ (HasArch(run) /\ rec.function \in DOMAIN d.dsm)
      <4>1. DsmCounts(run, d, rec.function) = NoCounts
          BY <3>3 DEF DsmCounts
      <4>2. Total(NoCounts) \in Int
          BY FourCategories, SumIsSumOf, SumOfNats DEF NoCounts
      <4>. QED BY <3>1, <4>1, <4>2
    <3>. QED BY <3>2, <3>3
  <2>. QED BY <1>1, <2>1, <2>2, <2>3
<1>2. CASE run.backend # "retdec"
  <2>1. /\ rec.ops \in [CATEGORIES -> Nat] /\ rec.num_native \in Nat
        /\ rec.ir_size \in Nat /\ RecordAgrees(run.backend, rec)
      BY <1>2 DEF Sound, Counted
  <2>2. IrCounts(run, d, rec, "ops") = rec.ops /\ NativeTotal(run, d, rec) = rec.num_native
      BY <1>2 DEF IrCounts, NativeTotal
  <2>3. Total(rec.ops) \in Nat
    <3>1. SumOf(rec.ops, CATEGORIES) \in Int /\ SumOf(rec.ops, CATEGORIES) >= 0
        BY <2>1, FourCategories, SumOfNats
    <3>2. Total(rec.ops) = SumOf(rec.ops, CATEGORIES)
        BY <2>1, SumIsSumOf
    <3>. QED BY <3>1, <3>2
  <2>4. rec.ops # None
      BY <2>1, NoneAssumption
  <2>5. rec.ir_size <= Total(rec.ops)
      BY <2>1, <2>3, <2>4 DEF RecordAgrees
  <2>. QED BY <1>2, <2>1, <2>2, <2>3, <2>5
<1>. QED BY <1>1, <1>2

\* If nobody was lifting, an expansion ratio of zero is written only for a
\* function whose record says it has no IR, and every lifted function with
\* machine code has its row: the two files that expansion_ratio.py joins for
\* RetDec are those of one attempt.
THEOREM ZerosOnlyMeasured == Spec => []ZerosAreMeasured
<1>1. Init => DataInv /\ SoundInv /\ JoinInv
    BY DataInit, SoundInit, JoinInit
<1>2. DataInv /\ SoundInv /\ JoinInv /\ [Next]_vars => DataInv' /\ SoundInv' /\ JoinInv'
    BY DataStep, SoundStep, JoinStep
<1>3. MetricsInv /\ TruthInv /\ SoundInv /\ JoinInv => ZerosAreMeasured
  <2>. SUFFICES ASSUME MetricsInv, TruthInv, SoundInv, JoinInv,
                       phase = "json", steady, Block = "expansion_ratio"
                PROVE  ZerosAreMeasured
      BY DEF ZerosAreMeasured
  <2>. DEFINE key == <<"ops", "all">>
              d(i) == seen[i]
              rec(i, j) == seen[i].records[j]
              val(i, j) == FunctionValues(Block, runs[i], d(i), rec(i, j))
              size(i, j) == Total(IrCounts(runs[i], d(i), rec(i, j), "ops"))
              native(i, j) == NativeTotal(runs[i], d(i), rec(i, j))
  <2>1. /\ lifter = NoLifter /\ runs = manifest.runs /\ seen = dir
        /\ result = compute(Block, runs, seen)
        /\ DOMAIN runs = DOMAIN seen
      BY DEF TruthInv, SteadyInv, ResultInv, Blocking, Writing, MetricsInv, DataInv
  <2>2. result.rows = Rows(Block, runs, seen)
      BY <2>1 DEF compute, PairBlocks
  <2>3. \A i \in DOMAIN runs : \A j \in OkRecords(seen[i]) :
           /\ load_lift_records(seen[i])[j] = rec(i, j)
           /\ j \in DOMAIN seen[i].records /\ rec(i, j).status = "ok"
           /\ Sound(runs[i].backend, rec(i, j))
    <3>. TAKE i \in DOMAIN runs
    <3>. TAKE j \in OkRecords(seen[i])
    <3>2. ~ seen[i].torn
        BY DEF OkRecords, load_lift_records
    <3>3. load_lift_records(seen[i]) = seen[i].records
        BY <3>2 DEF load_lift_records
    <3>4. j \in DOMAIN seen[i].records /\ rec(i, j).status = "ok"
        BY <3>3 DEF OkRecords
    <3>. QED BY <2>1, <3>3, <3>4 DEF SoundInv, DiskInv, Readable, RecordsSound
  <2>4. \A i \in DOMAIN runs : \A j \in OkRecords(seen[i]) :
           runs[i].status = "ok" =>
              /\ size(i, j) \in Nat /\ native(i, j) \in Int
              /\ size(i, j) = 0 => rec(i, j).ir_size = 0 /\ runs[i].backend # "retdec"
    <3>. TAKE i \in DOMAIN runs
    <3>. TAKE j \in OkRecords(seen[i])
    <3>2. HAVE runs[i].status = "ok"
    <3>3. runs[i].backend = "retdec" => Joined(seen[i].records, seen[i])
        BY <2>1, <3>2 DEF JoinInv, OfRetdec
    <3>4. runs[i].backend = "retdec" =>
             /\ rec(i, j).function \in DOMAIN seen[i].ll
             /\ Listed(seen[i].ll[rec(i, j).function])
             /\ seen[i].ll[rec(i, j).function] # <<>>
             /\ \A n \in DOMAIN seen[i].dsm : Listed(seen[i].dsm[n])
        BY <2>3, <3>3 DEF Joined
    <3>. QED BY <2>3, <3>4, SizesAreCounted
  <2>5. \A i, j : val(i, j)[key] = expansion_ratio(size(i, j), native(i, j))
                  /\ key \in DOMAIN val(i, j)
    <3>1. TAKE i, j
    <3>2. val(i, j) = ExpansionValues(runs[i], d(i), rec(i, j))
        BY DEF FunctionValues
    <3>3. key \in {"ops", "ast"} \X ({"all"} \cup RATIO_CATEGORIES)
          /\ key[1] = "ops" /\ key[2] = "all"
        OBVIOUS
    <3>. QED BY <3>2, <3>3 DEF ExpansionValues
  <2>6. Block \notin RunBlocks
      BY DEF RunBlocks
  <2>. HIDE DEF key, val, size, native
  <2>7. ASSUME NEW r \in result.rows, r.values[key] # None, r.values[key][1] = 0
        PROVE  rec(r.run, r.at).ir_size = 0 /\ runs[r.run].backend # "retdec"
    <3>1. PICK i \in DOMAIN runs : /\ Completed(Block, runs[i])
                                   /\ r \in RowsOf(Block, runs[i], seen[i], i)
        BY <2>2, <2>7 DEF Rows
    <3>2. PICK j \in OkRecords(seen[i]) :
             r = [run |-> i, at |-> j,
                  values |-> FunctionValues(Block, runs[i], seen[i],
                                            load_lift_records(seen[i])[j])]
        BY <2>6, <3>1 DEF RowsOf
    <3>3. r.run = i /\ r.at = j /\ r.values = val(i, j)
        BY <2>3, <3>2 DEF val
    <3>4. runs[i].status = "ok"
        BY <3>1 DEF Completed
    <3>5. r.values[key] = expansion_ratio(size(i, j), native(i, j))
        BY <2>5, <3>3
    <3>6. r.values[key] = <<size(i, j), native(i, j)>>
        BY <2>7, <3>5 DEF expansion_ratio
    <3>7. size(i, j) = 0
        BY <2>7, <3>6
    <3>. QED BY <2>4, <3>3, <3>4, <3>7
  <2>8. ASSUME NEW i \in DOMAIN runs, runs[i].status = "ok",
               NEW j \in OkRecords(seen[i]), native(i, j) > 0
        PROVE  \E r \in result.rows : r.run = i /\ r.at = j
    <3>. DEFINE r == [run |-> i, at |-> j,
                      values |-> FunctionValues(Block, runs[i], seen[i],
                                                load_lift_records(seen[i])[j])]
    <3>1. r \in RowsOf(Block, runs[i], seen[i], i)
        BY <2>6 DEF RowsOf
    <3>2. Completed(Block, runs[i])
        BY <2>1, <2>8, RunsAreOfBackends DEF Completed, MetricsInv, DataInv
    <3>3. r.values = val(i, j)
        BY <2>3 DEF val
    <3>4. size(i, j) \in Nat /\ native(i, j) \in Int
        BY <2>4, <2>8
    <3>5. val(i, j)[key] = <<size(i, j), native(i, j)>>
      <4>1. val(i, j)[key] = expansion_ratio(size(i, j), native(i, j))
          BY <2>5
      <4>2. size(i, j) # None /\ native(i, j) # None
          BY <3>4, NoneAssumption
      <4>3. native(i, j) # 0
          BY <2>8, <3>4
      <4>. QED BY <4>1, <4>2, <4>3 DEF expansion_ratio
    <3>6. val(i, j)[key] # None
        BY <3>4, <3>5, NoneAssumption
    <3>7. Kept(Block, r.values)
        BY <2>5, <3>3, <3>6 DEF Kept, HasValue
    <3>. HIDE DEF r
    <3>8. r \in result.rows
        BY <2>2, <3>1, <3>2, <3>7 DEF Rows
    <3>. QED BY <3>8 DEF r
  <2>. QED BY <2>7, <2>8, <2>3 DEF ZerosAreMeasured, key, native
<1>. QED BY <1>1, <1>2, <1>3, OutputsStayTrue, PTL DEF Spec

----------------------------------------------------------------------------
(* What the comparison blocks agree on.                                    *)
(*                                                                         *)
(* The names a block compares and the data it compares by come from the    *)
(* records or, for RetDec, from the .ll.                                   *)

\* the status filters of the four blocks let the same runs through
LEMMA SamePairs ==
    ASSUME NEW b \in PairBlocks, NEW c \in PairBlocks, NEW rs,
           \A i \in DOMAIN rs : rs[i].backend \in IR_SIZE_FIELDS
    PROVE  Pairs(b, rs) = Pairs(c, rs)
<1>1. \A i \in DOMAIN rs : Completed(b, rs[i]) <=> Completed(c, rs[i])
    BY DEF PairBlocks, Completed
<1>2. Comparable(b, rs) = Comparable(c, rs)
    BY <1>1 DEF Comparable
<1>3. Chosen(b, rs) = Chosen(c, rs)
    BY <1>2 DEF Chosen
<1>. QED BY <1>3 DEF Pairs

LEMMA SameMatch ==
    ASSUME NEW b \in PairBlocks, NEW c \in PairBlocks, NEW rs, NEW ds,
           \A i \in DOMAIN rs : rs[i].backend \in IR_SIZE_FIELDS \ {"retdec"}
    PROVE  PairSummary(b, rs, ds, PairRows(b, rs, ds)).match
             = PairSummary(c, rs, ds, PairRows(c, rs, ds)).match
<1>1. Pairs(b, rs) = Pairs(c, rs)
    BY SamePairs
<1>2. \A i \in DOMAIN rs : NamesAt(b, rs, ds, i) = NamesAt(c, rs, ds, i)
    BY DEF NamesAt, NamesOk, FromLl
<1>3. \A p \in Pairs(b, rs) : p[1] \in DOMAIN rs /\ p[2] \in DOMAIN rs
    BY DEF Pairs, Chosen, Comparable
<1>4. \A p \in Pairs(b, rs) : match_rate(b, rs, ds, p) = match_rate(c, rs, ds, p)
    BY <1>2, <1>3 DEF match_rate, Matched
<1>5. [p \in Pairs(b, rs) |-> match_rate(b, rs, ds, p)]
        = [p \in Pairs(c, rs) |-> match_rate(c, rs, ds, p)]
    BY <1>1, <1>4
<1>6. \A x \in PairBlocks :
         PairSummary(x, rs, ds, PairRows(x, rs, ds)).match
           = OrNothing(aggregate_stats([p \in Pairs(x, rs) |-> match_rate(x, rs, ds, p)]))
    BY DEF PairSummary
<1>. QED BY <1>5, <1>6

SIMILARITIES == {"weighted_jaccard", "jsd_similarity"}

\* what the similarities compare is a histogram
LEMMA DatumIsHist ==
    ASSUME NEW run, run.backend \in IR_SIZE_FIELDS, NEW d, Dir(d),
           Readable(run.backend, d),
           NEW b \in SIMILARITIES, NEW n \in NamesOk(b, run, d)
    PROVE  IsHist(Datum(b, run, d, n))
<1>. USE DEF SIMILARITIES
<1>1. CASE run.backend = "retdec"
  <2>1. n \in DOMAIN d.ll /\ Datum(b, run, d, n) = retdec_op_histogram(d.ll[n])
      BY <1>1 DEF NamesOk, FromLl, Datum
  <2>. QED BY <2>1, LlHistogram DEF Readable, FilesSound
<1>2. CASE run.backend # "retdec"
  <2>. DEFINE T == {j \in OkRecords(d) : load_lift_records(d)[j].function = n}
  <2>1. T # {}
      BY <1>2 DEF NamesOk, FromLl
  <2>2. ~ d.torn
      BY <2>1 DEF OkRecords, load_lift_records
  <2>3. T \in SUBSET (DOMAIN d.records) /\ \A j \in T : d.records[j].status = "ok"
      BY <2>2 DEF OkRecords, load_lift_records
  <2>4. IsFiniteSet(T) /\ T \in SUBSET Int
      BY <2>3, FS_Subset DEF Dir, Finite, Readable, RecordsSound
  <2>5. Max(T) \in T
    <3>. HIDE DEF T
    <3>. QED BY <2>1, <2>4, MaxExists
  <2>6. LastRecord(d, n) = d.records[Max(T)]
      BY <2>2 DEF LastRecord, load_lift_records
  <2>7. Datum(b, run, d, n) = LastRecord(d, n).histogram
      BY <1>2 DEF Datum, FromLl
  <2>. HIDE DEF T
  <2>8. Counted(run.backend, d.records[Max(T)])
      BY <2>3, <2>5 DEF Sound, Readable, RecordsSound
  <2>. QED BY <1>2, <2>6, <2>7, <2>8 DEF Counted
<1>. QED BY <1>1, <1>2

\* a row is known by its pair and its function
PairValue(block, rs, ds, p, n) ==
    Comparison(block, Datum(block, rs[p[1]], ds[p[1]], n),
                      Datum(block, rs[p[2]], ds[p[2]], n))

KeyOf(r) == <<r.pair, r.function>>

Covered(rows) == {KeyOf(r) : r \in rows}

LEMMA RowOf ==
    ASSUME NEW block, NEW rs, NEW ds
    PROVE  /\ \A r \in PairRows(block, rs, ds) :
                 /\ r.pair \in Pairs(block, rs)
                 /\ r.function \in Matched(block, rs, ds, r.pair)
                 /\ r.value # None
                 /\ r = [pair |-> r.pair, function |-> r.function,
                         value |-> PairValue(block, rs, ds, r.pair, r.function)]
           /\ \A p \in Pairs(block, rs) : \A n \in Matched(block, rs, ds, p) :
                 PairValue(block, rs, ds, p, n) # None =>
                    [pair |-> p, function |-> n, value |-> PairValue(block, rs, ds, p, n)]
                       \in PairRows(block, rs, ds)
<1>. DEFINE row(p, n) == [pair |-> p, function |-> n,
                          value |-> PairValue(block, rs, ds, p, n)]
<1>1. PairRows(block, rs, ds) =
        {r \in UNION {{row(p, n) : n \in Matched(block, rs, ds, p)} :
                         p \in Pairs(block, rs)} : r.value # None}
    BY DEF PairRows, PairValue
<1>2. ASSUME NEW r \in PairRows(block, rs, ds)
      PROVE  /\ r.pair \in Pairs(block, rs)
             /\ r.function \in Matched(block, rs, ds, r.pair)
             /\ r.value # None
             /\ r = row(r.pair, r.function)
  <2>1. PICK p \in Pairs(block, rs) : \E n \in Matched(block, rs, ds, p) : r = row(p, n)
      BY <1>1
  <2>. QED BY <1>1, <2>1
<1>3. \A p \in Pairs(block, rs) : \A n \in Matched(block, rs, ds, p) :
         PairValue(block, rs, ds, p, n) # None => row(p, n) \in PairRows(block, rs, ds)
    BY <1>1
<1>. QED BY <1>2, <1>3

LEMMA RowsByKey ==
    ASSUME NEW block, NEW rs, NEW ds, IsFiniteSet(PairRows(block, rs, ds))
    PROVE  Cardinality(PairRows(block, rs, ds)) = Cardinality(Covered(PairRows(block, rs, ds)))
<1>. DEFINE R == PairRows(block, rs, ds)
            C == Covered(R)
            f == [r \in R |-> KeyOf(r)]
<1>1. \A r, q \in R : KeyOf(r) = KeyOf(q) => r = q
    BY RowOf DEF KeyOf
<1>2. \A r \in R : KeyOf(r) \in C
    BY DEF Covered
<1>3. \A c \in C : \E r \in R : KeyOf(r) = c
    BY DEF Covered
<1>. HIDE DEF R, C
<1>4. f \in Bijection(R, C)
    BY <1>1, <1>2, <1>3 DEF Bijection, Injection, Surjection, IsInjective
<1>5. ExistsBijection(R, C)
    BY <1>4 DEF ExistsBijection
<1>. QED BY <1>5, FS_Bijection DEF R, C

LEMMA SameEvaluated ==
    ASSUME NEW rs, NEW ds, IsFiniteSet(DOMAIN rs),
           \A i \in DOMAIN rs :
              /\ rs[i].backend \in IR_SIZE_FIELDS
              /\ Dir(ds[i]) /\ Readable(rs[i].backend, ds[i])
    PROVE  Cardinality(PairRows("weighted_jaccard", rs, ds))
             = Cardinality(PairRows("jsd_similarity", rs, ds))
<1>. DEFINE wj == "weighted_jaccard"
            js == "jsd_similarity"
<1>1. Pairs(wj, rs) = Pairs(js, rs)
    BY SamePairs DEF PairBlocks
<1>2. \A i \in DOMAIN rs : NamesAt(wj, rs, ds, i) = NamesAt(js, rs, ds, i)
    BY DEF NamesAt, NamesOk, FromLl
<1>3. \A p \in Pairs(wj, rs) : p[1] \in DOMAIN rs /\ p[2] \in DOMAIN rs
    BY DEF Pairs, Chosen, Comparable
<1>4. \A p \in Pairs(wj, rs) : Matched(wj, rs, ds, p) = Matched(js, rs, ds, p)
    BY <1>2, <1>3 DEF Matched
<1>5. ASSUME NEW p \in Pairs(wj, rs), NEW n \in Matched(wj, rs, ds, p)
      PROVE  PairValue(wj, rs, ds, p, n) = None <=> PairValue(js, rs, ds, p, n) = None
  <2>. DEFINE a == Datum(wj, rs[p[1]], ds[p[1]], n)
              b == Datum(wj, rs[p[2]], ds[p[2]], n)
  <2>1. a = Datum(js, rs[p[1]], ds[p[1]], n) /\ b = Datum(js, rs[p[2]], ds[p[2]], n)
      BY DEF Datum, FromLl
  <2>2. n \in NamesOk(wj, rs[p[1]], ds[p[1]]) /\ n \in NamesOk(wj, rs[p[2]], ds[p[2]])
      BY DEF Matched, NamesAt
  <2>3. IsHist(a) /\ IsHist(b)
      BY <1>3, <2>2, DatumIsHist DEF SIMILARITIES
  <2>4. /\ PairValue(wj, rs, ds, p, n) =
             IF a = None \/ b = None THEN None ELSE weighted_jaccard(a, b)
        /\ PairValue(js, rs, ds, p, n) =
             IF a = None \/ b = None THEN None ELSE jensen_shannon_similarity(a, b)
      BY <2>1 DEF PairValue, Comparison
  <2>. HIDE DEF a, b
  <2>. QED BY <2>3, <2>4, SimilaritiesOfSame
<1>6. Covered(PairRows(wj, rs, ds)) = Covered(PairRows(js, rs, ds))
  <2>1. \A x \in {wj, js} : \A p \in Pairs(x, rs) : \A n \in Matched(x, rs, ds, p) :
           PairValue(x, rs, ds, p, n) # None => <<p, n>> \in Covered(PairRows(x, rs, ds))
    <3>1. \A p, n, v : KeyOf([pair |-> p, function |-> n, value |-> v]) = <<p, n>>
        BY DEF KeyOf
    <3>. QED BY <3>1, RowOf DEF Covered
  <2>2. \A x \in {wj, js} : \A k \in Covered(PairRows(x, rs, ds)) :
           \E p \in Pairs(x, rs) : \E n \in Matched(x, rs, ds, p) :
              PairValue(x, rs, ds, p, n) # None /\ k = <<p, n>>
    <3>1. TAKE x \in {wj, js}
    <3>2. TAKE k \in Covered(PairRows(x, rs, ds))
    <3>3. PICK r \in PairRows(x, rs, ds) : k = KeyOf(r)
        BY <3>2 DEF Covered
    <3>4. /\ r.pair \in Pairs(x, rs) /\ r.function \in Matched(x, rs, ds, r.pair)
          /\ r.value # None
          /\ r = [pair |-> r.pair, function |-> r.function,
                  value |-> PairValue(x, rs, ds, r.pair, r.function)]
        BY RowOf
    <3>5. PairValue(x, rs, ds, r.pair, r.function) # None
        BY <3>4
    <3>. QED BY <3>3, <3>4, <3>5 DEF KeyOf
  <2>. HIDE DEF wj, js
  <2>. QED BY <1>1, <1>4, <1>5, <2>1, <2>2
<1>7. IsFiniteSet(PairRows(wj, rs, ds)) /\ IsFiniteSet(PairRows(js, rs, ds))
    BY PairRowsFinite DEF Dir
<1>. QED BY <1>6, <1>7, RowsByKey

\* The four comparison blocks gather their functions in three ways, filter runs
\* by four conditions, and report one match rate; and the two similarities
\* have a value for the same functions, since the weighted Jaccard of two
\* histograms is undefined exactly if both are empty, which is when the
\* Jensen-Shannon similarity is (agnosticism.py and formulas.py).
THEOREM ComparisonsAgree == Spec => []MatchRatesAgree
<1>1. Init => DataInv /\ SoundInv
    BY DataInit, SoundInit
<1>2. DataInv /\ SoundInv /\ [Next]_vars => DataInv' /\ SoundInv'
    BY DataStep, SoundStep
<1>3. MetricsInv /\ TruthInv /\ SoundInv => MatchRatesAgree
  <2>. SUFFICES ASSUME MetricsInv, TruthInv, SoundInv, phase = "idle", steady
                PROVE  MatchRatesAgree
      BY DEF MatchRatesAgree
  <2>. DEFINE fresh == {b \in PairBlocks : complete[b] = number /\ number > 0}
              rs == manifest.runs
  <2>1. \A b \in fresh : json[b].summary = PairSummary(b, rs, dir, PairRows(b, rs, dir))
    <3>1. TAKE b \in fresh
    <3>2. Current(b)
        BY DEF TruthInv, SteadyInv, BLOCKS
    <3>. QED BY <3>2 DEF Current, compute
  <2>2. /\ DataInv /\ RunsInv /\ DOMAIN dir = DOMAIN rs
        /\ \A i \in DOMAIN rs : rs[i].backend \in IR_SIZE_FIELDS
      BY RunsAreOfBackends DEF MetricsInv, DataInv
  <2>3. \A i \in DOMAIN rs : Dir(dir[i]) /\ Readable(rs[i].backend, dir[i])
      BY <2>2 DEF DataInv, SoundInv, DiskInv
  <2>4. IsFiniteSet(DOMAIN rs)
      BY <2>2, SeqDomain DEF DataInv
  <2>. HIDE DEF rs
  <2>5. ASSUME NEW b \in fresh, NEW c \in fresh
        PROVE  /\ json[b].summary.groups = json[c].summary.groups
               /\ (\A i \in DOMAIN rs : rs[i].backend # "retdec")
                     => json[b].summary.match = json[c].summary.match
    <3>1. Pairs(b, rs) = Pairs(c, rs)
        BY <2>2, SamePairs
    <3>2. \A x \in PairBlocks : \A rows :
             PairSummary(x, rs, dir, rows).groups =
               Cardinality({<<rs[p[1]].group, rs[p[1]].backend>> : p \in Pairs(x, rs)})
        BY DEF PairSummary
    <3>3. json[b].summary.groups = json[c].summary.groups
        BY <2>1, <3>1, <3>2
    <3>4. ASSUME \A i \in DOMAIN rs : rs[i].backend # "retdec"
          PROVE  json[b].summary.match = json[c].summary.match
        BY <2>1, <2>2, <3>4, SameMatch
    <3>. QED BY <3>3, <3>4
  <2>6. ASSUME SIMILARITIES \subseteq fresh
        PROVE  json["weighted_jaccard"].summary.evaluated
                 = json["jsd_similarity"].summary.evaluated
    <3>1. \A x, rows : PairSummary(x, rs, dir, rows).evaluated = Cardinality(rows)
        BY DEF PairSummary
    <3>2. Cardinality(PairRows("weighted_jaccard", rs, dir))
            = Cardinality(PairRows("jsd_similarity", rs, dir))
        BY <2>2, <2>3, <2>4, SameEvaluated
    <3>. QED BY <2>1, <2>6, <3>1, <3>2 DEF SIMILARITIES
  <2>. QED BY <2>5, <2>6 DEF MatchRatesAgree, SIMILARITIES, rs
<1>. QED BY <1>1, <1>2, <1>3, OutputsStayTrue, PTL DEF Spec

----------------------------------------------------------------------------
(* Statistics in order.                                                    *)
(*                                                                         *)
(* Every number a block takes a statistic of is a fraction with a positive *)
(* denominator, because of what a block has read of the directories, which *)
(* may be those of several attempts (SeenInv).                             *)

SeenInv ==
    /\ \A i \in DOMAIN runs :
          /\ i \in DOMAIN manifest.runs
          /\ runs[i].backend = manifest.runs[i].backend /\ Usual(runs[i])
    /\ \A i \in DOMAIN seen : i \in DOMAIN runs /\ Readable(runs[i].backend, seen[i])
    /\ Writing => DOMAIN seen = DOMAIN runs

LEMMA BackendsStay ==
    ASSUME DataInv, Next
    PROVE  /\ DOMAIN manifest'.runs = DOMAIN manifest.runs
           /\ \A i \in DOMAIN manifest.runs :
                 manifest'.runs[i].backend = manifest.runs[i].backend
<1>1. CASE SaveFills
  <2>1. PICK status \in {"ok", "timeout"} :
           manifest' = [manifest EXCEPT !.state = "whole",
                                        !.runs[lifter.run].status = status]
      BY <1>1 DEF SaveFills
  <2>2. manifest'.runs =
          [manifest.runs EXCEPT ![lifter.run] =
              [manifest.runs[lifter.run] EXCEPT !.status = status]]
      BY <2>1 DEF DataInv
  <2>3. \A i \in DOMAIN manifest.runs : "backend" \in DOMAIN manifest.runs[i]
      BY RunsAreOfBackends DEF DataInv
  <2>. QED BY <2>2, <2>3
<1>2. CASE SaveTruncates
    BY <1>2 DEF SaveTruncates, DataInv
<1>3. CASE manifest' = manifest
    BY <1>3
<1>4. ~ SaveFills /\ ~ SaveTruncates => manifest' = manifest
    BY DEF Next, LiftLists, LiftTruncates, LiftFills, Invoke, load_runs, ReadRun,
           Compute, OpenJson, FillJson, OpenCsv, WriteRow, NextBlock, Cut, lifting
<1>. QED BY <1>1, <1>2, <1>3, <1>4

LEMMA SeenStep ==
    ASSUME DataInv, SoundInv, ResultInv, SeenInv, [Next]_vars
    PROVE  SeenInv'
<1>1. CASE UNCHANGED vars
    BY <1>1 DEF vars, lifting, SeenInv, Writing
<1>2. ASSUME Next, runs' = runs, seen' = seen, Writing' => Writing
      PROVE  SeenInv'
    BY <1>2, BackendsStay DEF SeenInv
<1>3. CASE \/ \E i \in DOMAIN manifest.runs : LiftLists(i)
           \/ LiftTruncates \/ LiftFills \/ SaveTruncates \/ SaveFills
           \/ Invoke \/ OpenJson \/ FillJson \/ OpenCsv \/ WriteRow
  <2>1. runs' = runs /\ seen' = seen /\ (Writing' => Writing)
      BY <1>3 DEF LiftLists, LiftTruncates, LiftFills, SaveTruncates, SaveFills, Metrics,
                  Invoke, OpenJson, FillJson, OpenCsv, WriteRow, Writing
  <2>. QED BY <1>2, <1>3, <2>1 DEF Next
<1>4. CASE load_runs
  <2>1. seen = <<>> /\ seen' = seen /\ manifest' = manifest /\ ~ Writing'
      BY <1>4 DEF load_runs, ResultInv, Blocking, Writing, lifting
  <2>2. DOMAIN seen' = {}
      BY <2>1
  <2>3. runs' = runs \/ runs' = manifest.runs
      BY <1>4 DEF load_runs
  <2>4. \A i \in DOMAIN manifest.runs : Usual(manifest.runs[i])
      BY RunsAreUsual DEF DataInv
  <2>. QED BY <2>1, <2>2, <2>3, <2>4 DEF SeenInv
<1>5. CASE ReadRun
  <2>1. /\ UNCHANGED <<manifest, dir, phase, runs>> /\ phase = "read"
        /\ seen' = Append(seen, dir[Len(seen) + 1]) /\ Len(seen) < Len(runs)
      BY <1>5 DEF ReadRun, lifting
  <2>2. PICK S : seen \in Seq(S)
      BY DEF DataInv, IsSeq
  <2>3. /\ DOMAIN seen' = 1..Len(seen) + 1 /\ DOMAIN seen = 1..Len(seen)
        /\ Len(seen) \in Nat
        /\ \A i \in 1..Len(seen) : seen'[i] = seen[i]
        /\ seen'[Len(seen) + 1] = dir[Len(seen) + 1]
      BY <2>1, <2>2
  <2>4. Len(runs) \in Nat /\ DOMAIN runs = 1..Len(runs)
      BY SeqDomain DEF DataInv
  <2>5. Len(seen) + 1 \in DOMAIN runs
      BY <2>1, <2>3, <2>4
  <2>6. Readable(runs[Len(seen) + 1].backend, dir[Len(seen) + 1])
      BY <2>5 DEF SeenInv, SoundInv, DiskInv, DataInv
  <2>7. \A i \in DOMAIN seen' : i \in DOMAIN seen \/ i = Len(seen) + 1
      BY <2>3
  <2>8. ~ Writing'
      BY <2>1 DEF Writing
  <2>9. \A i \in DOMAIN seen' : i \in DOMAIN runs /\ Readable(runs[i].backend, seen'[i])
      BY <2>3, <2>5, <2>6, <2>7 DEF SeenInv
  <2>. QED BY <2>1, <2>8, <2>9 DEF SeenInv
<1>6. CASE Compute
  <2>1. UNCHANGED <<manifest, runs, seen>> /\ Len(seen) = Len(runs)
      BY <1>6 DEF Compute, lifting
  <2>2. DOMAIN seen = DOMAIN runs
      BY <2>1, SeqDomain DEF DataInv
  <2>. QED BY <2>1, <2>2 DEF SeenInv
<1>7. CASE NextBlock \/ Cut
  <2>1. manifest' = manifest /\ ~ Writing' /\ seen' = <<>> /\ (runs' = runs \/ runs' = <<>>)
      BY <1>7 DEF NextBlock, Cut, Writing, lifting
  <2>2. DOMAIN seen' = {} /\ (runs' # runs => DOMAIN runs' = {})
      BY <2>1
  <2>. QED BY <2>1, <2>2 DEF SeenInv
<1>. QED BY <1>1, <1>3, <1>4, <1>5, <1>6, <1>7 DEF Next

LEMMA SeenInit == ASSUME Init PROVE SeenInv
<1>1. runs = <<>> /\ seen = <<>> /\ ~ Writing
    BY DEF Init, Writing
<1>2. DOMAIN runs = {} /\ DOMAIN seen = {}
    BY <1>1
<1>. QED BY <1>1, <1>2 DEF SeenInv

\* a run, and a directory a block may read of it
Source(run, d) == Usual(run) /\ Dir(d) /\ Readable(run.backend, d)

Sources(rs, ds) ==
    IsFiniteSet(DOMAIN rs) /\ \A i \in DOMAIN rs : Source(rs[i], ds[i])

LEMMA RecordRead ==
    ASSUME NEW run, NEW d, Source(run, d), NEW j \in OkRecords(d)
    PROVE  LET rec == load_lift_records(d)[j]
           IN  Counted(run.backend, rec) /\ RecordAgrees(run.backend, rec)
<1>1. ~ d.torn
  <2>1. DOMAIN <<>> = {}
      OBVIOUS
  <2>. QED BY <2>1 DEF OkRecords, load_lift_records
<1>2. j \in DOMAIN d.records /\ d.records[j].status = "ok" /\ load_lift_records(d)[j] = d.records[j]
    BY <1>1 DEF OkRecords, load_lift_records
<1>. QED BY <1>2 DEF Source, Readable, RecordsSound, Sound

LEMMA LastRecordRead ==
    ASSUME NEW run, NEW d, Source(run, d),
           NEW n \in {load_lift_records(d)[j].function : j \in OkRecords(d)}
    PROVE  Counted(run.backend, LastRecord(d, n))
<1>. DEFINE T == {j \in OkRecords(d) : load_lift_records(d)[j].function = n}
<1>1. T # {} /\ T \in SUBSET OkRecords(d)
    OBVIOUS
<1>2. OkRecords(d) \subseteq Int
  <2>1. DOMAIN <<>> = {}
      OBVIOUS
  <2>. QED BY <2>1 DEF OkRecords, load_lift_records, Source, Readable, RecordsSound
<1>3. IsFiniteSet(T)
    BY <1>1, RecordsFinite, FS_Subset DEF Source, Dir
<1>4. LastRecord(d, n) = load_lift_records(d)[Max(T)]
    BY DEF LastRecord
<1>5. Max(T) \in T
  <2>. HIDE DEF T
  <2>. QED BY <1>1, <1>2, <1>3, MaxExists
<1>. HIDE DEF T
<1>. QED BY <1>1, <1>4, <1>5, RecordRead

----------------------------------------------------------------------------
(* Every number of a row. *)

RateOrNone(v) == v = None \/ IsRate(v)

\* what a block divides, for RetDec and for the others
LEMMA RatioOperands ==
    ASSUME NEW run, NEW d, Source(run, d), NEW j \in OkRecords(d)
    PROVE  LET rec == load_lift_records(d)[j]
           IN  /\ TempVars(run, d, rec) \in Nat /\ NativeTotal(run, d, rec) \in Nat
               /\ NativeCounts(run, d, rec) \in [CATEGORIES -> Nat]
               /\ \A g : IrCounts(run, d, rec, g) \in [CATEGORIES -> Nat]
<1>. DEFINE rec == load_lift_records(d)[j]
<1>1. Counted(run.backend, rec)
    BY RecordRead
<1>2. NoCounts \in [CATEGORIES -> Nat]
    BY DEF NoCounts
<1>3. \A n \in DOMAIN d.ll : /\ retdec_ir_counts(d.ll[n]) \in [CATEGORIES -> Nat]
                             /\ retdec_temps(d.ll[n]) \in Nat
    BY LlGraph DEF Source, Readable, FilesSound
<1>4. \A n \in DOMAIN d.dsm : \A arch, bits :
         EachDecoded(d.dsm[n], arch, bits) \in [CATEGORIES -> Nat]
    BY NativeTyped DEF Source, Readable, FilesSound
<1>5. DsmCounts(run, d, rec.function) \in [CATEGORIES -> Nat]
      /\ LlCounts(d, rec.function) \in [CATEGORIES -> Nat]
    BY <1>2, <1>3, <1>4 DEF DsmCounts, LlCounts
<1>6. Total(DsmCounts(run, d, rec.function)) \in Nat
    BY <1>5, CountsTotal
<1>. HIDE DEF rec
<1>7. run.backend # "retdec" =>
         /\ rec.temps \in Nat /\ rec.num_native \in Nat /\ rec.native \in [CATEGORIES -> Nat]
         /\ rec.ops \in [CATEGORIES -> Nat]
         /\ (rec.ast = None \/ rec.ast \in [CATEGORIES -> Nat])
    BY <1>1 DEF Counted, OrNone
<1>8. TempVars(run, d, rec) \in Nat /\ NativeTotal(run, d, rec) \in Nat
    BY <1>3, <1>6, <1>7 DEF TempVars, NativeTotal
<1>9. NativeCounts(run, d, rec) \in [CATEGORIES -> Nat]
    BY <1>5, <1>7 DEF NativeCounts
<1>10. \A g : IrCounts(run, d, rec, g) \in [CATEGORIES -> Nat]
    BY <1>5, <1>7 DEF IrCounts
<1>. QED BY <1>8, <1>9, <1>10 DEF rec

LEMMA ExpansionMeasures ==
    ASSUME NEW run, NEW d, Source(run, d), NEW j \in OkRecords(d),
           NEW k \in Keys("expansion_ratio")
    PROVE  Measure(ExpansionValues(run, d, load_lift_records(d)[j])[k])
<1>. DEFINE rec == load_lift_records(d)[j]
            counts == IrCounts(run, d, rec, k[1])
            native == NativeCounts(run, d, rec)
<1>1. k \in {"ops", "ast"} \X ({"all"} \cup RATIO_CATEGORIES)
    BY DEF Keys
<1>2. ExpansionValues(run, d, rec)[k] =
        IF k[2] = "all" THEN expansion_ratio(Total(counts), NativeTotal(run, d, rec))
        ELSE expansion_ratio(counts[k[2]], native[k[2]])
    BY <1>1 DEF ExpansionValues
<1>3. NativeTotal(run, d, rec) \in Nat /\ counts \in [CATEGORIES -> Nat]
      /\ native \in [CATEGORIES -> Nat]
    BY RatioOperands
<1>4. k[2] # "all" => k[2] \in CATEGORIES
    BY <1>1 DEF RATIO_CATEGORIES, CATEGORIES
<1>. HIDE DEF counts, native, rec
<1>5. Total(counts) \in Nat
    BY <1>3, CountsTotal
<1>6. \A a, b \in Nat : Measure(expansion_ratio(a, b))
    BY RatioIsMeasure DEF OrNone
<1>7. Measure(ExpansionValues(run, d, rec)[k])
  <2>1. CASE k[2] = "all"
      BY <1>2, <1>3, <1>5, <1>6, <2>1
  <2>2. CASE k[2] # "all"
    <3>1. counts[k[2]] \in Nat /\ native[k[2]] \in Nat
        BY <1>3, <1>4, <2>2
    <3>. QED BY <1>2, <1>6, <2>2, <3>1
  <2>. QED BY <2>1, <2>2
<1>. QED BY <1>7 DEF rec

\* escape_fraction: an escape is one of the operations counted
LEMMA EscapeIsRate ==
    ASSUME NEW run, run.backend # "retdec", NEW d, Source(run, d), NEW j \in OkRecords(d)
    PROVE  LET rec == load_lift_records(d)[j]
               v == IF run.backend = "r2" THEN expansion_ratio(rec.uncovered, rec.num_native)
                    ELSE expansion_ratio(rec.escapes, rec.ir_size)
           IN  Measure(v) /\ RateOrNone(v)
<1>. DEFINE rec == load_lift_records(d)[j]
<1>1. Counted(run.backend, rec) /\ RecordAgrees(run.backend, rec)
    BY RecordRead
<1>. HIDE DEF rec
<1>2. /\ rec.ir_size \in Nat /\ rec.num_native \in Nat /\ rec.ops \in [CATEGORIES -> Nat]
      /\ rec.escapes \in OrNone(Nat) /\ rec.uncovered \in OrNone(Nat)
    BY <1>1 DEF Counted
<1>3. rec.ops # None
    BY <1>2, NoneAssumption
<1>4. /\ rec.escapes # None => rec.escapes <= rec.ir_size
      /\ rec.uncovered # None => rec.uncovered <= rec.num_native
    BY <1>1, <1>3 DEF RecordAgrees
<1>5. ASSUME NEW a \in OrNone(Nat), NEW b \in Nat, a # None => a <= b
      PROVE  Measure(expansion_ratio(a, b)) /\ RateOrNone(expansion_ratio(a, b))
    BY <1>5 DEF Measure, RateOrNone, expansion_ratio, OrNone, IsFraction, IsRate
<1>6. /\ Measure(expansion_ratio(rec.uncovered, rec.num_native))
      /\ RateOrNone(expansion_ratio(rec.uncovered, rec.num_native))
      /\ Measure(expansion_ratio(rec.escapes, rec.ir_size))
      /\ RateOrNone(expansion_ratio(rec.escapes, rec.ir_size))
    BY <1>2, <1>4, <1>5
<1>. QED BY <1>6 DEF rec

LEMMA FunctionMeasures ==
    ASSUME NEW block \in FunctionBlocks, NEW run, Completed(block, run),
           NEW d, Source(run, d), NEW j \in OkRecords(d), NEW k \in Keys(block)
    PROVE  LET v == FunctionValues(block, run, d, load_lift_records(d)[j])[k]
           IN  Measure(v) /\ (block = "escape_fraction" => RateOrNone(v))
<1>. DEFINE rec == load_lift_records(d)[j]
            v == FunctionValues(block, run, d, rec)[k]
<1>1. CASE block = "expansion_ratio"
  <2>1. v = ExpansionValues(run, d, rec)[k]
      BY <1>1 DEF FunctionValues
  <2>. QED BY <1>1, <2>1, ExpansionMeasures
<1>2. CASE block = "temporaries"
  <2>1. k = "per_instr"
      BY <1>2 DEF Keys
  <2>2. v = expansion_ratio(TempVars(run, d, rec), NativeTotal(run, d, rec))
      BY <1>2, <2>1 DEF FunctionValues
  <2>3. TempVars(run, d, rec) \in OrNone(Int) /\ NativeTotal(run, d, rec) \in OrNone(Nat)
      BY RatioOperands DEF OrNone
  <2>4. Measure(v)
      BY <2>2, <2>3, RatioIsMeasure
  <2>. QED BY <1>2, <2>4
<1>3. Counted(run.backend, rec)
    BY RecordRead
<1>. HIDE DEF rec
<1>4. CASE block \in {"nesting_depth", "ssa_operations"}
  <2>1. run.backend # "retdec"
      BY <1>4 DEF Completed, Nesting, Bnil
  <2>2. /\ rec.ir_size \in OrNone(Nat) /\ rec.sum_depth \in OrNone(Int)
        /\ rec.max_depth \in OrNone(Int) /\ rec.ssa \in OrNone(Int)
      BY <1>3, <2>1 DEF Counted, OrNone
  <2>3. /\ Measure(expansion_ratio(rec.sum_depth, rec.ir_size)) /\ Measure(Whole(rec.max_depth))
        /\ Measure(expansion_ratio(rec.ssa, rec.ir_size)) /\ Measure(Whole(rec.ssa))
      BY <2>2, RatioIsMeasure
  <2>4. CASE block = "nesting_depth"
    <3>1. k \in {"mean", "deepest"}
        BY <2>4 DEF Keys
    <3>2. v \in {expansion_ratio(rec.sum_depth, rec.ir_size), Whole(rec.max_depth)}
        BY <2>4, <3>1 DEF FunctionValues
    <3>. QED BY <2>3, <2>4, <3>2 DEF rec
  <2>5. CASE block = "ssa_operations"
    <3>1. k \in {"ratio", "number"}
        BY <2>5 DEF Keys
    <3>2. v \in {expansion_ratio(rec.ssa, rec.ir_size), Whole(rec.ssa)}
        BY <2>5, <3>1 DEF FunctionValues
    <3>. QED BY <2>3, <2>5, <3>2 DEF rec
  <2>. QED BY <1>4, <2>4, <2>5
<1>5. CASE block = "escape_fraction"
  <2>1. run.backend # "retdec"
      BY <1>5 DEF Completed
  <2>2. k = "fraction"
      BY <1>5 DEF Keys
  <2>3. v = IF run.backend = "r2" THEN expansion_ratio(rec.uncovered, rec.num_native)
            ELSE expansion_ratio(rec.escapes, rec.ir_size)
      BY <1>5, <2>2 DEF FunctionValues
  <2>4. Measure(v) /\ RateOrNone(v)
      BY <2>1, <2>3, EscapeIsRate DEF rec
  <2>. QED BY <2>4 DEF rec
<1>. QED BY <1>1, <1>2, <1>4, <1>5 DEF FunctionBlocks

LEMMA ElfReadListed ==
    ASSUME NEW run, Usual(run), NEW name, NEW size \in Nat
    PROVE  Listed(ElfRead(run.image, name, size))
<1>1. CASE name \in DOMAIN run.image
  <2>. DEFINE s == run.image[name]
              m == IF size <= Len(s) THEN size ELSE Len(s)
              t == SubSeq(s, 1, m)
  <2>1. s \in Seq(Range(s)) /\ Len(s) \in Nat
      BY <1>1, SeqPlaces DEF Usual, Listed
  <2>2. ElfRead(run.image, name, size) = t
      BY <1>1 DEF ElfRead
  <2>3. m \in Nat /\ m <= Len(s)
      BY <2>1
  <2>. HIDE DEF s, m
  <2>4. t \in Seq(Range(s)) /\ Len(t) = m
      BY <2>1, <2>3
  <2>. HIDE DEF t
  <2>5. DOMAIN t = 1..m /\ t = [i \in 1..m |-> t[i]]
      BY <2>4
  <2>6. \A i \in 1..m : t[i] \in Range(t)
      BY <2>5 DEF Range
  <2>7. t \in [1..m -> Range(t)]
      BY <2>6, <2>5
  <2>8. t \in Seq(Range(t))
      BY <2>3, <2>7, SeqDef
  <2>. QED BY <2>2, <2>8 DEF Listed
<1>2. CASE name \notin DOMAIN run.image
    BY <1>2 DEF ElfRead, Listed
<1>. QED BY <1>1, <1>2

LEMMA AttemptedTyped ==
    ASSUME NEW run, NEW d, Source(run, d), NEW status
    PROVE  AttemptedCounts(run, d, status) \in [CATEGORIES -> Nat]
<1>. DEFINE recs == load_lift_records(d)
            tried == {j \in DOMAIN recs : /\ recs[j].status = status
                                          /\ recs[j].address \in DOMAIN d.sizes}
            code(j) == ElfRead(run.image, recs[j].address, d.sizes[recs[j].address])
            counts == [j \in tried |-> classify_bytes(code(j),
                                          arch_family(run.arch, run.bits))]
            all == [c \in CATEGORIES |-> Total([j \in tried |-> counts[j][c]])]
<1>1. AttemptedCounts(run, d, status) = all \/ AttemptedCounts(run, d, status) = NoCounts
    BY DEF AttemptedCounts
<1>2. NoCounts \in [CATEGORIES -> Nat]
    BY DEF NoCounts
<1>3. IsFiniteSet(tried)
  <2>1. DOMAIN <<>> = {}
      OBVIOUS
  <2>2. IsFiniteSet(DOMAIN recs)
      BY <2>1, FS_EmptySet DEF load_lift_records, Source, Dir, Finite
  <2>. QED BY <2>2, FS_Subset
<1>4. \A j \in tried : counts[j] \in [CATEGORIES -> Nat]
  <2>1. TAKE j \in tried
  <2>2. d.sizes[recs[j].address] \in Nat
      BY DEF Source, Readable, FilesSound
  <2>3. Listed(code(j))
      BY <2>2, ElfReadListed DEF Source
  <2>. HIDE DEF code
  <2>. QED BY <2>3, NativeTyped
<1>. HIDE DEF counts, tried
<1>5. \A c \in CATEGORIES : Total([j \in tried |-> counts[j][c]]) \in Nat
  <2>1. TAKE c \in CATEGORIES
  <2>. DEFINE f == [j \in tried |-> counts[j][c]]
  <2>2. DOMAIN f = tried /\ \A j \in tried : f[j] \in Nat
      BY <1>4
  <2>. HIDE DEF f
  <2>3. Total(f) \in Nat
      BY <1>3, <2>2, TotalIsNat
  <2>. QED BY <2>3 DEF f
<1>6. all \in [CATEGORIES -> Nat]
    BY <1>5
<1>. QED BY <1>1, <1>2, <1>6

LEMMA RunMeasures ==
    ASSUME NEW block \in RunBlocks, NEW run, NEW d, Source(run, d), NEW k \in Keys(block)
    PROVE  LET v == RunValues(block, run, d)[k]
           IN  Measure(v) /\ (block = "error_rate_by_category" => RateOrNone(v))
<1>1. CASE block = "cost"
  <2>1. k \in {"lifting_time_s", "internal_lifting_time_s", "max_rss_kb"}
      BY <1>1 DEF Keys
  <2>2. RunValues(block, run, d)[k] \in {Whole(run.wall), Whole(run.duration), Whole(run.rss)}
      BY <1>1, <2>1 DEF RunValues
  <2>3. \A x \in {run.wall, run.duration, run.rss} : Measure(Whole(x))
      BY RatioIsMeasure DEF Source, Usual, OrNone
  <2>. QED BY <1>1, <2>2, <2>3
<1>2. CASE block = "error_rate_by_category"
  <2>. DEFINE good == AttemptedCounts(run, d, "ok")
              bad == AttemptedCounts(run, d, "error")
  <2>1. k \in CATEGORIES
      BY <1>2 DEF Keys
  <2>2. RunValues(block, run, d)[k] = expansion_ratio(bad[k], good[k] + bad[k])
      BY <1>2, <2>1 DEF RunValues
  <2>3. good \in [CATEGORIES -> Nat] /\ bad \in [CATEGORIES -> Nat]
      BY AttemptedTyped
  <2>. HIDE DEF good, bad
  <2>4. \A a, b \in Nat : /\ Measure(expansion_ratio(a, b + a))
                          /\ RateOrNone(expansion_ratio(a, b + a))
      BY DEF Measure, RateOrNone, expansion_ratio, IsFraction, IsRate
  <2>5. good[k] \in Nat /\ bad[k] \in Nat
      BY <2>1, <2>3
  <2>. QED BY <2>2, <2>4, <2>5
<1>. QED BY <1>1, <1>2 DEF RunBlocks

LEMMA RowMeasures ==
    ASSUME NEW block \in FunctionBlocks \cup RunBlocks, NEW rs, NEW ds, Sources(rs, ds),
           NEW r \in Rows(block, rs, ds), NEW k \in Keys(block)
    PROVE  /\ Measure(r.values[k])
           /\ block \in {"escape_fraction", "error_rate_by_category"} =>
                 RateOrNone(r.values[k])
<1>1. PICK i \in DOMAIN rs : Completed(block, rs[i]) /\ r \in RowsOf(block, rs[i], ds[i], i)
    BY DEF Rows
<1>2. Source(rs[i], ds[i])
    BY DEF Sources
<1>3. CASE block \in RunBlocks
  <2>1. r.values = RunValues(block, rs[i], ds[i])
      BY <1>1, <1>3 DEF RowsOf
  <2>2. block # "escape_fraction"
      BY <1>3 DEF RunBlocks
  <2>. QED BY <1>2, <1>3, <2>1, <2>2, RunMeasures
<1>4. CASE block \notin RunBlocks
  <2>1. PICK j \in OkRecords(ds[i]) :
           r.values = FunctionValues(block, rs[i], ds[i], load_lift_records(ds[i])[j])
      BY <1>1, <1>4 DEF RowsOf
  <2>2. block \in FunctionBlocks /\ block # "error_rate_by_category"
      BY <1>4 DEF RunBlocks
  <2>. QED BY <1>1, <1>2, <2>1, <2>2, FunctionMeasures
<1>. QED BY <1>3, <1>4

----------------------------------------------------------------------------
(* Every number of a comparison. *)

LEMMA DatumTyped ==
    ASSUME NEW block \in PairBlocks, NEW run, NEW d, Source(run, d),
           NEW n \in NamesOk(block, run, d)
    PROVE  /\ block \in SIMILARITIES => IsHist(Datum(block, run, d, n))
           /\ block \notin SIMILARITIES => Datum(block, run, d, n) \in OrNone(Int)
<1>1. run.backend \in IR_SIZE_FIELDS /\ Dir(d) /\ Readable(run.backend, d)
    BY DEF Source, Usual
<1>2. CASE block \in SIMILARITIES
    BY <1>1, <1>2, DatumIsHist
<1>3. CASE block \notin SIMILARITIES
  <2>1. block \in {"ir_size_cv", "cyclomatic_complexity_delta"}
      BY <1>3 DEF PairBlocks, SIMILARITIES
  <2>2. \A x, y \in Int : cyclomatic_complexity(x, y) \in OrNone(Int)
      BY DEF cyclomatic_complexity, OrNone
  <2>3. CASE FromLl(block, run)
    <3>1. /\ n \in DOMAIN d.ll /\ block = "cyclomatic_complexity_delta"
          /\ Datum(block, run, d, n) = cyclomatic_complexity(retdec_cfg_blocks(d.ll[n]),
                                                             retdec_cfg_edges(d.ll[n]))
        BY <2>1, <2>3 DEF NamesOk, FromLl, Datum
    <3>2. retdec_cfg_blocks(d.ll[n]) \in Int /\ retdec_cfg_edges(d.ll[n]) \in Int
        BY <1>1, <3>1, LlGraph DEF Readable, FilesSound
    <3>. QED BY <1>3, <2>2, <3>1, <3>2
  <2>4. CASE ~ FromLl(block, run)
    <3>. DEFINE rec == LastRecord(d, n)
    <3>1. n \in {load_lift_records(d)[j].function : j \in OkRecords(d)}
        BY <2>4 DEF NamesOk
    <3>2. Counted(run.backend, rec)
        BY <3>1, LastRecordRead
    <3>3. block = "ir_size_cv" => Datum(block, run, d, n) = rec.ir_size
        BY <2>4 DEF Datum
    <3>4. block = "cyclomatic_complexity_delta" =>
             /\ run.backend # "retdec"
             /\ Datum(block, run, d, n) = cyclomatic_complexity(rec.blocks, rec.edges)
        BY <2>4 DEF Datum, FromLl
    <3>. HIDE DEF rec
    <3>5. CASE block = "ir_size_cv"
        BY <1>3, <3>2, <3>3, <3>5 DEF Counted, OrNone
    <3>6. CASE block = "cyclomatic_complexity_delta"
      <4>1. rec.blocks \in Int /\ rec.edges \in Int
          BY <3>2, <3>4, <3>6 DEF Counted
      <4>. QED BY <1>3, <2>2, <3>4, <3>6, <4>1
    <3>. QED BY <2>1, <3>5, <3>6
  <2>. QED BY <2>3, <2>4
<1>. QED BY <1>2, <1>3

LEMMA ComparisonMeasures ==
    ASSUME NEW block \in PairBlocks, NEW x, NEW y,
           block \in SIMILARITIES => IsHist(x) /\ IsHist(y),
           block \notin SIMILARITIES => x \in OrNone(Int) /\ y \in OrNone(Int)
    PROVE  /\ Measure(Comparison(block, x, y))
           /\ block \in SIMILARITIES => RateOrNone(Comparison(block, x, y))
<1>. DEFINE v == Comparison(block, x, y)
<1>1. CASE x = None \/ y = None
  <2>1. v = None
      BY <1>1 DEF Comparison
  <2>. QED BY <2>1 DEF Measure, RateOrNone
<1>2. CASE x # None /\ y # None /\ block \in SIMILARITIES
  <2>1. v \in {weighted_jaccard(x, y), jensen_shannon_similarity(x, y)}
      BY <1>2 DEF Comparison, SIMILARITIES
  <2>2. IsHist(x) /\ IsHist(y)
      BY <1>2
  <2>. HIDE DEF v
  <2>3. Measure(v) /\ RateOrNone(v)
      BY <2>1, <2>2, SimilaritiesAreRates DEF Measure, RateOrNone
  <2>. QED BY <2>3 DEF v
<1>3. CASE x # None /\ y # None /\ block \notin SIMILARITIES
  <2>1. x \in Int /\ y \in Int
      BY <1>3 DEF OrNone
  <2>2. v \in {coefficient_of_variation(<<x, y>>), Whole(Distance(x, y))}
      BY <1>3 DEF Comparison, SIMILARITIES
  <2>3. Distance(x, y) \in OrNone(Int)
      BY <2>1 DEF Distance, OrNone
  <2>4. Measure(coefficient_of_variation(<<x, y>>))
      BY <2>1, VariationIsMeasure
  <2>5. 1 \in OrNone(Nat)
      BY DEF OrNone
  <2>6. Measure(Whole(Distance(x, y)))
      BY <2>3, <2>5, RatioIsMeasure
  <2>. HIDE DEF v
  <2>7. Measure(v)
      BY <2>2, <2>4, <2>6
  <2>. QED BY <1>3, <2>7 DEF v
<1>. QED BY <1>1, <1>2, <1>3

LEMMA PairMeasures ==
    ASSUME NEW block \in PairBlocks, NEW rs, NEW ds, Sources(rs, ds)
    PROVE  /\ \A r \in PairRows(block, rs, ds) :
                 Measure(r.value) /\ (block \in SIMILARITIES => RateOrNone(r.value))
           /\ \A p \in Pairs(block, rs) :
                 /\ Measure(match_rate(block, rs, ds, p))
                 /\ RateOrNone(match_rate(block, rs, ds, p))
<1>1. \A p \in Pairs(block, rs) : p[1] \in DOMAIN rs /\ p[2] \in DOMAIN rs
    BY DEF Pairs, Chosen, Comparable
<1>2. ASSUME NEW r \in PairRows(block, rs, ds)
      PROVE  Measure(r.value) /\ (block \in SIMILARITIES => RateOrNone(r.value))
  <2>. DEFINE p == r.pair
              n == r.function
  <2>1. p \in Pairs(block, rs) /\ n \in Matched(block, rs, ds, p)
      BY RowOf
  <2>2. r.value = PairValue(block, rs, ds, p, n)
    <3>1. r = [pair |-> p, function |-> n, value |-> PairValue(block, rs, ds, p, n)]
        BY RowOf
    <3>. QED BY <3>1
  <2>. HIDE DEF p, n
  <2>. DEFINE x == Datum(block, rs[p[1]], ds[p[1]], n)
              y == Datum(block, rs[p[2]], ds[p[2]], n)
  <2>3. n \in NamesOk(block, rs[p[1]], ds[p[1]]) /\ n \in NamesOk(block, rs[p[2]], ds[p[2]])
      BY <2>1 DEF Matched, NamesAt
  <2>4. Source(rs[p[1]], ds[p[1]]) /\ Source(rs[p[2]], ds[p[2]])
      BY <1>1, <2>1 DEF Sources
  <2>5. /\ block \in SIMILARITIES => IsHist(x) /\ IsHist(y)
        /\ block \notin SIMILARITIES => x \in OrNone(Int) /\ y \in OrNone(Int)
      BY <2>3, <2>4, DatumTyped
  <2>6. r.value = Comparison(block, x, y)
      BY <2>2 DEF PairValue
  <2>. HIDE DEF x, y
  <2>. QED BY <2>5, <2>6, ComparisonMeasures
<1>3. ASSUME NEW p \in Pairs(block, rs)
      PROVE  /\ Measure(match_rate(block, rs, ds, p))
             /\ RateOrNone(match_rate(block, rs, ds, p))
  <2>. DEFINE M == Matched(block, rs, ds, p)
              U == NamesAt(block, rs, ds, p[1]) \cup NamesAt(block, rs, ds, p[2])
  <2>1. \A i \in DOMAIN rs : IsFiniteSet(NamesAt(block, rs, ds, i))
      BY NamesFinite DEF NamesAt, Sources, Source, Dir
  <2>2. IsFiniteSet(U)
      BY <1>1, <2>1, FS_Union
  <2>3. M \in SUBSET U
      BY DEF Matched
  <2>4. match_rate(block, rs, ds, p) = expansion_ratio(Cardinality(M), Cardinality(U))
      BY DEF match_rate
  <2>. HIDE DEF M, U
  <2>5. /\ Cardinality(M) \in Nat /\ Cardinality(U) \in Nat
        /\ Cardinality(M) <= Cardinality(U)
      BY <2>2, <2>3, FS_Subset, FS_CardinalityType
  <2>6. \A a, b \in Nat : a <= b => /\ Measure(expansion_ratio(a, b))
                                    /\ RateOrNone(expansion_ratio(a, b))
      BY DEF Measure, RateOrNone, expansion_ratio, IsFraction, IsRate
  <2>. QED BY <2>4, <2>5, <2>6
<1>. QED BY <1>2, <1>3

----------------------------------------------------------------------------
(* What a block says of them. *)

LEMMA InOrderOfMeasures ==
    ASSUME NEW values, Measures(values)
    PROVE  InOrder(aggregate_stats_with_iqr(values))
BY StatsOrdered DEF InOrder

LEMMA RateOfRates ==
    ASSUME NEW values, Measures(values), \A i \in DOMAIN values : RateOrNone(values[i])
    PROVE  Rate(OrNothing(aggregate_stats(values)))
<1>1. CASE aggregate_stats(values) = None
    BY <1>1 DEF OrNothing, Rate
<1>2. CASE aggregate_stats(values) # None
  <2>. DEFINE stats == aggregate_stats(values)
  <2>1. /\ \E i \in DOMAIN values : values[i] # None /\ stats.min = values[i]
        /\ \E i \in DOMAIN values : values[i] # None /\ stats.max = values[i]
      BY <1>2, StatsAreValues
  <2>2. OrNothing(stats) = stats
      BY <1>2 DEF OrNothing
  <2>. HIDE DEF stats
  <2>3. IsRate(stats.min) /\ IsRate(stats.max)
      BY <2>1 DEF RateOrNone
  <2>. QED BY <2>2, <2>3 DEF Rate, stats
<1>. QED BY <1>1, <1>2

LEMMA RowStatsInOrder ==
    ASSUME NEW block \in FunctionBlocks \cup RunBlocks, NEW rs, NEW ds, Sources(rs, ds)
    PROVE  LET sum == compute(block, rs, ds).summary
           IN  /\ \A ba \in DOMAIN sum.by_arch : \A k \in Keys(block) :
                     InOrder(sum.by_arch[ba][k])
               /\ block \in {"escape_fraction", "error_rate_by_category"} =>
                     \A k \in Keys(block) : Rate(sum.metrics[k])
               /\ \A e \in sum.errors : e[3] <= e[2]
<1>. DEFINE rows == Rows(block, rs, ds)
            sum == RowSummary(block, rs, ds, rows)
            at(ba) == {r \in rows : BackendArch(rs[r.run]) = ba}
            with == ArchRuns(block, rs, rows)
            failed(i) == Total(AttemptedCounts(rs[i], ds[i], "error")) > 0
<1>1. compute(block, rs, ds).summary = sum
    BY DEF compute, FunctionBlocks, RunBlocks, PairBlocks
<1>2. IsFiniteSet(rows)
    BY RowsFinite DEF Sources, Source, Dir
<1>3. \A r \in rows : \A k \in Keys(block) :
         /\ r.values[k] = None \/ IsFraction(r.values[k])
         /\ block \in {"escape_fraction", "error_rate_by_category"} =>
               RateOrNone(r.values[k])
    BY RowMeasures DEF Measure
<1>4. \A T \in SUBSET rows : \A k \in Keys(block) : Measures(Values(T, k))
  <2>. HIDE DEF rows
  <2>. QED BY <1>2, <1>3, FS_Subset DEF Measures, Values
<1>5. /\ sum.by_arch = [ba \in {BackendArch(rs[i]) : i \in with} |->
                          [k \in Keys(block) |->
                              aggregate_stats_with_iqr(Values(at(ba), k))]]
      /\ sum.metrics = [k \in Keys(block) |-> OrNothing(aggregate_stats(Values(rows, k)))]
      /\ sum.errors = IF block # "error_rate_by_category" THEN {}
                      ELSE {<<ba, Cardinality({i \in with : BackendArch(rs[i]) = ba}),
                              Cardinality({i \in with : BackendArch(rs[i]) = ba
                                                          /\ failed(i)})>> :
                              ba \in {BackendArch(rs[i]) : i \in with}}
    BY DEF RowSummary
<1>6. with \in SUBSET DOMAIN rs
    BY DEF ArchRuns
<1>. HIDE DEF rows, with, sum
<1>7. \A ba \in DOMAIN sum.by_arch : \A k \in Keys(block) : InOrder(sum.by_arch[ba][k])
  <2>1. TAKE ba \in DOMAIN sum.by_arch
  <2>2. TAKE k \in Keys(block)
  <2>3. at(ba) \in SUBSET rows
      OBVIOUS
  <2>4. sum.by_arch[ba][k] = aggregate_stats_with_iqr(Values(at(ba), k))
      BY <1>5
  <2>. HIDE DEF at
  <2>. QED BY <1>4, <2>3, <2>4, InOrderOfMeasures
<1>8. block \in {"escape_fraction", "error_rate_by_category"} =>
         \A k \in Keys(block) : Rate(sum.metrics[k])
  <2>1. HAVE block \in {"escape_fraction", "error_rate_by_category"}
  <2>2. TAKE k \in Keys(block)
  <2>. DEFINE values == Values(rows, k)
  <2>3. sum.metrics[k] = OrNothing(aggregate_stats(values))
      BY <1>5
  <2>4. \A i \in DOMAIN values : RateOrNone(values[i])
      BY <1>3, <2>1 DEF Values
  <2>5. Measures(values)
      BY <1>4
  <2>. HIDE DEF values
  <2>. QED BY <2>3, <2>4, <2>5, RateOfRates
<1>9. \A e \in sum.errors : e[3] <= e[2]
  <2>1. TAKE e \in sum.errors
  <2>. DEFINE entry(ba) ==
                <<ba, Cardinality({i \in with : BackendArch(rs[i]) = ba}),
                  Cardinality({i \in with : BackendArch(rs[i]) = ba /\ failed(i)})>>
              entries == {entry(ba) : ba \in {BackendArch(rs[i]) : i \in with}}
  <2>2. sum.errors = {} \/ sum.errors = entries
      BY <1>5
  <2>3. e \in entries
      BY <2>1, <2>2
  <2>4. PICK ba : e = entry(ba)
      BY <2>3
  <2>5. /\ e[2] = Cardinality({i \in with : BackendArch(rs[i]) = ba})
        /\ e[3] = Cardinality({i \in with : BackendArch(rs[i]) = ba /\ failed(i)})
      BY <2>4
  <2>. DEFINE A == {i \in with : BackendArch(rs[i]) = ba}
              B == {i \in with : BackendArch(rs[i]) = ba /\ failed(i)}
  <2>6. A \in SUBSET DOMAIN rs /\ B \in SUBSET A
      BY <1>6
  <2>7. IsFiniteSet(DOMAIN rs)
      BY DEF Sources
  <2>8. e[2] = Cardinality(A) /\ e[3] = Cardinality(B)
      BY <2>5
  <2>. HIDE DEF A, B
  <2>. QED BY <2>6, <2>7, <2>8, FS_Subset
<1>. QED BY <1>1, <1>7, <1>8, <1>9

LEMMA PairStatsInOrder ==
    ASSUME NEW block \in PairBlocks, NEW rs, NEW ds, Sources(rs, ds)
    PROVE  LET sum == compute(block, rs, ds).summary
           IN  /\ \A t \in PairType : \A b \in DOMAIN sum.by_pair_type[t] :
                     InOrder(sum.by_pair_type[t][b])
               /\ Rate(sum.match)
               /\ block \in {"weighted_jaccard", "jsd_similarity"} => Rate(sum.metric)
<1>. DEFINE rows == PairRows(block, rs, ds)
            sum == PairSummary(block, rs, ds, rows)
            pairs == Pairs(block, rs)
            value(T) == [r \in T |-> r.value]
            backend(r) == rs[r.pair[1]].backend
            label(p) == arch_pair_label(Label(rs[p[1]]), Label(rs[p[2]]))
            typed(t) == {r \in rows : classify_arch_pair(label(r.pair)) = t}
            of(t, b) == {r \in typed(t) : backend(r) = b}
            match == [p \in pairs |-> match_rate(block, rs, ds, p)]
<1>1. compute(block, rs, ds).summary = sum
    BY DEF compute
<1>2. IsFiniteSet(rows)
    BY PairRowsFinite DEF Sources, Source, Dir
<1>3. IsFiniteSet(pairs)
  <2>1. Chosen(block, rs) \in SUBSET DOMAIN rs
      BY DEF Chosen, Comparable
  <2>2. IsFiniteSet(Chosen(block, rs) \X Chosen(block, rs))
      BY <2>1, FS_Subset, FS_Product DEF Sources
  <2>3. pairs \in SUBSET (Chosen(block, rs) \X Chosen(block, rs))
      BY DEF Pairs
  <2>. QED BY <2>2, <2>3, FS_Subset
<1>4. /\ \A r \in rows : Measure(r.value) /\ (block \in SIMILARITIES => RateOrNone(r.value))
      /\ \A p \in pairs : Measure(match[p]) /\ RateOrNone(match[p])
    BY PairMeasures
<1>5. /\ sum.by_pair_type = [t \in PairType |->
                               [b \in {backend(r) : r \in typed(t)} |->
                                  aggregate_stats_with_iqr(value(of(t, b)))]]
      /\ sum.match = OrNothing(aggregate_stats(match))
      /\ sum.metric = OrNothing(aggregate_stats(value(rows)))
    BY DEF PairSummary
<1>. HIDE DEF rows, pairs, sum
<1>6. \A T \in SUBSET rows : Measures(value(T))
    BY <1>2, <1>4, FS_Subset DEF Measures, Measure
<1>7. Measures(match) /\ \A p \in DOMAIN match : RateOrNone(match[p])
    BY <1>3, <1>4 DEF Measures, Measure
<1>8. \A t \in PairType : \A b \in DOMAIN sum.by_pair_type[t] :
         InOrder(sum.by_pair_type[t][b])
  <2>1. TAKE t \in PairType
  <2>2. TAKE b \in DOMAIN sum.by_pair_type[t]
  <2>3. of(t, b) \in SUBSET rows
      OBVIOUS
  <2>4. sum.by_pair_type[t][b] = aggregate_stats_with_iqr(value(of(t, b)))
      BY <1>5
  <2>. HIDE DEF of, value
  <2>. QED BY <1>6, <2>3, <2>4, InOrderOfMeasures
<1>9. Rate(sum.match)
  <2>. HIDE DEF match
  <2>. QED BY <1>5, <1>7, RateOfRates
<1>10. block \in {"weighted_jaccard", "jsd_similarity"} => Rate(sum.metric)
  <2>1. HAVE block \in {"weighted_jaccard", "jsd_similarity"}
  <2>. DEFINE values == value(rows)
  <2>2. \A r \in DOMAIN values : RateOrNone(values[r])
      BY <1>4, <2>1 DEF SIMILARITIES
  <2>3. Measures(values) /\ sum.metric = OrNothing(aggregate_stats(values))
      BY <1>5, <1>6
  <2>. HIDE DEF values
  <2>. QED BY <2>2, <2>3, RateOfRates
<1>. QED BY <1>1, <1>8, <1>9, <1>10

\* Whatever the results directory holds, whoever lifts meanwhile and whichever
\* attempts the files of one directory are of, the statistics a block is about
\* to write are in order, from the minimum over the quartiles to the maximum,
\* and its rates and similarities lie between 0 and 1: an escape is one of the
\* operations counted, what two builds share is among what they have, the
\* instructions lost to an error are among those attempted, and an inclusive
\* quartile lies between its two neighbours (formulas.py and blocks/*.py).
THEOREM StatisticsInOrder == Spec => []StatsInOrder
<1>1. Init => DataInv /\ SoundInv /\ SeenInv
    BY DataInit, SoundInit, SeenInit
<1>2. MetricsInv /\ TruthInv /\ SoundInv /\ SeenInv /\ [Next]_vars => SoundInv' /\ SeenInv'
    BY SoundStep, SeenStep DEF MetricsInv, TruthInv
<1>3. MetricsInv /\ TruthInv /\ SoundInv /\ SeenInv => StatsInOrder
  <2>. SUFFICES ASSUME MetricsInv, TruthInv, SoundInv, SeenInv, phase = "json"
                PROVE  StatsInOrder
      BY DEF StatsInOrder
  <2>1. Writing /\ result = compute(Block, runs, seen)
      BY DEF TruthInv, ResultInv, Writing
  <2>2. Block \in BLOCKS
      BY TodoHead DEF MetricsInv, PlaceInv, Block
  <2>3. DOMAIN seen = DOMAIN runs /\ DataInv
      BY <2>1 DEF SeenInv, MetricsInv
  <2>4. Sources(runs, seen)
      BY <2>3, SeqDomain DEF SeenInv, Sources, Source, DataInv
  <2>5. CASE Block \in PairBlocks
      BY <2>1, <2>4, <2>5, PairStatsInOrder DEF StatsInOrder
  <2>6. CASE Block \notin PairBlocks
    <3>1. Block \in FunctionBlocks \cup RunBlocks
        BY <2>2, <2>6 DEF BLOCKS
    <3>. QED BY <2>1, <2>4, <2>6, <3>1, RowStatsInOrder DEF StatsInOrder
  <2>. QED BY <2>5, <2>6
<1>. QED BY <1>1, <1>2, <1>3, OutputsStayTrue, PTL DEF Spec

----------------------------------------------------------------------------
(* The manifest's order.                                                   *)

Other(n, i) == n + 1 - i

\* t lists the n elements of s from the last to the first
Mirrored(n, s, t) ==
    /\ DOMAIN s = 1..n /\ DOMAIN t = 1..n
    /\ \A i \in 1..n : t[Other(n, i)] = s[i]

LEMMA OtherPlace ==
    ASSUME NEW n \in Nat
    PROVE  /\ \A i \in 1..n : Other(n, i) \in 1..n /\ Other(n, Other(n, i)) = i
           /\ \A i, j \in 1..n : i < j => Other(n, j) < Other(n, i)
           /\ \A i, j \in 1..n : Other(n, i) = Other(n, j) => i = j
BY DEF Other

LEMMA MirroredBack ==
    ASSUME NEW n \in Nat, NEW s, NEW t, Mirrored(n, s, t)
    PROVE  Mirrored(n, t, s)
BY OtherPlace DEF Mirrored

LEMMA ReverseMirrors ==
    ASSUME NEW s, IsSeq(s)
    PROVE  Len(s) \in Nat /\ Mirrored(Len(s), s, Reverse(s))
<1>. DEFINE n == Len(s)
<1>1. n \in Nat /\ DOMAIN s = 1..n
    BY SeqDomain
<1>2. Reverse(s) = [i \in 1..n |-> s[(n - i) + 1]]
    BY DEF Reverse
<1>. HIDE DEF n
<1>3. \A i \in 1..n : Reverse(s)[Other(n, i)] = s[i]
  <2>1. TAKE i \in 1..n
  <2>2. Other(n, i) \in 1..n /\ (n - Other(n, i)) + 1 = i
      BY <1>1 DEF Other
  <2>. QED BY <1>2, <2>2
<1>. QED BY <1>1, <1>2, <1>3 DEF Mirrored, n

\* a row under its run's other place
MoveRow(n, r) == [run |-> Other(n, r.run), at |-> r.at, values |-> r.values]

LEMMA RowMoved ==
    ASSUME NEW block, NEW n \in Nat, NEW rs, NEW rt, NEW ds, NEW dt,
           Mirrored(n, rs, rt), Mirrored(n, ds, dt), NEW r \in Rows(block, rs, ds)
    PROVE  /\ r.run \in 1..n /\ MoveRow(n, r).run = Other(n, r.run)
           /\ MoveRow(n, r) \in Rows(block, rt, dt)
           /\ rt[MoveRow(n, r).run] = rs[r.run]
           /\ MoveRow(n, r).values = r.values
           /\ MoveRow(n, MoveRow(n, r)) = r
<1>1. PICK i \in DOMAIN rs : /\ Completed(block, rs[i])
                             /\ r \in RowsOf(block, rs[i], ds[i], i)
    BY DEF Rows
<1>. DEFINE o == Other(n, i)
            d == ds[i]
<1>2. /\ i \in 1..n /\ o \in 1..n /\ Other(n, o) = i /\ rt[o] = rs[i] /\ dt[o] = d
      /\ o \in DOMAIN rt
    BY <1>1, OtherPlace DEF Mirrored
<1>. HIDE DEF o, d
<1>3. /\ r = [run |-> i, at |-> r.at, values |-> r.values] /\ r.run = i
      /\ [run |-> o, at |-> r.at, values |-> r.values] \in RowsOf(block, rs[i], d, o)
  <2>1. CASE block \in RunBlocks
      BY <1>1, <2>1 DEF RowsOf, d
  <2>2. CASE block \notin RunBlocks
    <3>1. PICK j \in OkRecords(d) :
             r = [run |-> i, at |-> j,
                  values |-> FunctionValues(block, rs[i], d, load_lift_records(d)[j])]
        BY <1>1, <2>2 DEF RowsOf, d
    <3>. QED BY <2>2, <3>1 DEF RowsOf
  <2>. QED BY <2>1, <2>2
<1>4. MoveRow(n, r) = [run |-> o, at |-> r.at, values |-> r.values]
    BY <1>3 DEF MoveRow, o
<1>5. Kept(block, r.values)
    BY DEF Rows
<1>6. MoveRow(n, r) \in Rows(block, rt, dt)
    BY <1>1, <1>2, <1>3, <1>4, <1>5 DEF Rows
<1>7. MoveRow(n, MoveRow(n, r)) = r
    BY <1>2, <1>3, <1>4 DEF MoveRow
<1>. QED BY <1>2, <1>3, <1>4, <1>6, <1>7 DEF o

RowNames(n, rows) == [r \in rows |-> MoveRow(n, r)]

LEMMA RowsRenamed ==
    ASSUME NEW block, NEW n \in Nat, NEW rs, NEW rt, NEW ds, NEW dt,
           Mirrored(n, rs, rt), Mirrored(n, ds, dt)
    PROVE  LET R == Rows(block, rs, ds)
               S == Rows(block, rt, dt)
               b == RowNames(n, R)
           IN  /\ Renames(b, R, S)
               /\ \A r \in R : /\ b[r].values = r.values /\ rt[b[r].run] = rs[r.run]
                               /\ b[r].run = Other(n, r.run) /\ r.run \in 1..n
<1>. DEFINE R == Rows(block, rs, ds)
            S == Rows(block, rt, dt)
            b == RowNames(n, R)
<1>1. \A r \in R : b[r] = MoveRow(n, r)
    BY DEF RowNames
<1>2. ASSUME NEW r \in R
      PROVE  /\ b[r] \in S /\ MoveRow(n, b[r]) = r
             /\ b[r].values = r.values /\ rt[b[r].run] = rs[r.run]
             /\ b[r].run = Other(n, r.run) /\ r.run \in 1..n
  <2>1. /\ r.run \in 1..n /\ MoveRow(n, r).run = Other(n, r.run)
        /\ MoveRow(n, r) \in S /\ rt[MoveRow(n, r).run] = rs[r.run]
        /\ MoveRow(n, r).values = r.values /\ MoveRow(n, MoveRow(n, r)) = r
      BY RowMoved
  <2>2. b[r] = MoveRow(n, r)
      BY <1>1
  <2>. HIDE DEF b
  <2>. QED BY <2>1, <2>2
<1>3. Mirrored(n, rt, rs) /\ Mirrored(n, dt, ds)
    BY MirroredBack
<1>4. ASSUME NEW q \in S
      PROVE  MoveRow(n, q) \in R /\ MoveRow(n, MoveRow(n, q)) = q
  <2>1. q \in Rows(block, rt, dt)
      OBVIOUS
  <2>2. MoveRow(n, q) \in Rows(block, rs, ds) /\ MoveRow(n, MoveRow(n, q)) = q
    <3>. HIDE DEF R, S
    <3>. QED BY <1>3, <2>1, RowMoved
  <2>. QED BY <2>2
<1>. HIDE DEF R, S, b
<1>5. Renames(b, R, S)
  <2>1. \A q \in S : \E r \in R : b[r] = q
      BY <1>1, <1>4
  <2>2. \A r, q \in R : b[r] = b[q] => r = q
      BY <1>2
  <2>. QED BY <1>2, <2>1, <2>2 DEF Renames
<1>. QED BY <1>2, <1>5 DEF R, S, b

\* the runs an architecture's summary counts
LEMMA ArchRunsMirrored ==
    ASSUME NEW block, NEW n \in Nat, NEW rs, NEW rt, NEW ds, NEW dt,
           Mirrored(n, rs, rt), Mirrored(n, ds, dt)
    PROVE  \A i \in ArchRuns(block, rs, Rows(block, rs, ds)) :
              /\ i \in 1..n
              /\ Other(n, i) \in ArchRuns(block, rt, Rows(block, rt, dt))
<1>. DEFINE R == Rows(block, rs, ds)
            S == Rows(block, rt, dt)
            b == RowNames(n, R)
<1>3. /\ Renames(b, R, S)
      /\ \A r \in R : /\ b[r].values = r.values /\ rt[b[r].run] = rs[r.run]
                      /\ b[r].run = Other(n, r.run) /\ r.run \in 1..n
    BY RowsRenamed, Zenon
<1>. HIDE DEF R, S, b
<1>1. \A r \in R : /\ b[r] \in S /\ rt[b[r].run] = rs[r.run]
                   /\ b[r].run = Other(n, r.run) /\ b[r].values = r.values
    BY <1>3 DEF Renames
<1>2. ASSUME NEW i \in ArchRuns(block, rs, R)
      PROVE  i \in 1..n /\ Other(n, i) \in ArchRuns(block, rt, S)
  <2>1. i \in DOMAIN rs /\ HasArch(rs[i])
      BY DEF ArchRuns
  <2>2. i \in 1..n /\ Other(n, i) \in DOMAIN rt /\ rt[Other(n, i)] = rs[i]
      BY <2>1, OtherPlace DEF Mirrored
  <2>3. CASE block = "error_rate_by_category"
    <3>1. Completed(block, rs[i]) /\ \E r \in R : rs[r.run].backend = rs[i].backend
        BY <2>3 DEF ArchRuns
    <3>2. \E r \in S : rt[r.run].backend = rt[Other(n, i)].backend
        BY <1>1, <2>2, <3>1
    <3>. QED BY <2>1, <2>2, <2>3, <3>1, <3>2 DEF ArchRuns
  <2>4. CASE block # "error_rate_by_category"
    <3>1. \E r \in R : r.run = i /\ HasValue(r.values)
        BY <2>4 DEF ArchRuns
    <3>2. \E r \in S : r.run = Other(n, i) /\ HasValue(r.values)
        BY <1>1, <3>1
    <3>. QED BY <2>1, <2>2, <2>4, <3>2 DEF ArchRuns
  <2>. QED BY <2>3, <2>4
<1>. QED BY <1>2 DEF R, S

\* the statistics of one key, of rows under other names
LEMMA ValuesRenamed ==
    ASSUME NEW b, NEW T, NEW U, IsFiniteSet(T), Renames(b, T, U),
           \A r \in T : b[r].values = r.values
    PROVE  \A k : /\ aggregate_stats(Values(U, k)) = aggregate_stats(Values(T, k))
                  /\ aggregate_stats_with_iqr(Values(U, k))
                       = aggregate_stats_with_iqr(Values(T, k))
<1>1. TAKE k
<1>2. /\ DOMAIN Values(T, k) = T /\ DOMAIN Values(U, k) = U
      /\ \A r \in T : Values(T, k)[r] = r.values[k]
      /\ \A r \in U : Values(U, k)[r] = r.values[k]
    BY DEF Values
<1>3. Renamed(b, Values(T, k), Values(U, k))
    BY <1>2 DEF Renamed, Renames
<1>. QED BY <1>2, <1>3, RenamedStats

BackendRows(rows, us, x) == {r \in rows : us[r.run].backend = x}

ArchRows(rows, us, x) == {r \in rows : BackendArch(us[r.run]) = x}

ValuedRows(rows) == {r \in rows : HasValue(r.values)}

RowBackends(rows, us) == {us[r.run].backend : r \in ValuedRows(rows)}

ArchNames(us, with) == {BackendArch(us[i]) : i \in with}

CompletedPlaces(block, us) == {i \in DOMAIN us : Completed(block, us[i])}

Failed(us, vs, i) == Total(AttemptedCounts(us[i], vs[i], "error")) > 0

OfArch(us, with, x) == {i \in with : BackendArch(us[i]) = x}

FailedOfArch(us, vs, with, x) ==
    {i \in with : BackendArch(us[i]) = x /\ Failed(us, vs, i)}

\* RowSummary, its parts named
LEMMA RowSummaryIs ==
    ASSUME NEW block, NEW us, NEW vs, NEW rows
    PROVE  LET with == ArchRuns(block, us, rows)
           IN  RowSummary(block, us, vs, rows) =
                 [evaluated |-> Cardinality(rows),
                  considered |-> Cardinality(CompletedPlaces(block, us)),
                  metrics |-> [k \in Keys(block) |->
                                 OrNothing(aggregate_stats(Values(rows, k)))],
                  by_backend |-> [x \in RowBackends(rows, us) |->
                     [k \in Keys(block) |->
                         aggregate_stats(Values(BackendRows(rows, us, x), k))]],
                  by_arch |-> [x \in ArchNames(us, with) |->
                     [k \in Keys(block) |->
                         aggregate_stats_with_iqr(Values(ArchRows(rows, us, x), k))]],
                  errors |-> IF block # "error_rate_by_category" THEN {}
                             ELSE {<<x, Cardinality(OfArch(us, with, x)),
                                     Cardinality(FailedOfArch(us, vs, with, x))>> :
                                     x \in ArchNames(us, with)}]
BY DEF RowSummary, CompletedPlaces, RowBackends, ValuedRows, BackendRows, ArchNames, ArchRows,
       OfArch, FailedOfArch, Failed

OtherPlaces(n) == [i \in 1..n |-> Other(n, i)]

LEMMA PlacesRenamed ==
    ASSUME NEW n \in Nat
    PROVE  /\ Renames(OtherPlaces(n), 1..n, 1..n)
           /\ \A i \in 1..n : OtherPlaces(n)[i] = Other(n, i)
<1>1. \A i \in 1..n : OtherPlaces(n)[i] = Other(n, i)
    BY DEF OtherPlaces
<1>. QED BY <1>1, OtherPlace DEF Renames

\* the summary of a block of rows does not depend on the manifest's order
LEMMA RowSummaryMirrored ==
    ASSUME NEW block, NEW n \in Nat, NEW rs, NEW rt, NEW ds, NEW dt,
           Mirrored(n, rs, rt), Mirrored(n, ds, dt), IsFiniteSet(Rows(block, rs, ds))
    PROVE  RowSummary(block, rt, dt, Rows(block, rt, dt))
             = RowSummary(block, rs, ds, Rows(block, rs, ds))
<1>. DEFINE R == Rows(block, rs, ds)
            S == Rows(block, rt, dt)
            b == RowNames(n, R)
            o == OtherPlaces(n)
            P == 1..n
            AR == ArchRuns(block, rs, R)
            AS == ArchRuns(block, rt, S)
<1>1. /\ Renames(b, R, S)
      /\ \A r \in R : /\ b[r].values = r.values /\ rt[b[r].run] = rs[r.run]
                      /\ b[r].run = Other(n, r.run) /\ r.run \in 1..n
  <2>. HIDE DEF P
  <2>. QED BY RowsRenamed, Zenon
<1>2. Renames(o, P, P) /\ \A i \in P : o[i] = Other(n, i)
    BY PlacesRenamed
<1>3. /\ DOMAIN rs = P /\ DOMAIN rt = P
      /\ \A i \in P : rt[o[i]] = rs[i] /\ dt[o[i]] = ds[i]
    BY <1>2 DEF Mirrored
<1>4. IsFiniteSet(P)
  <2>1. 1 \in Int /\ n \in Int
      OBVIOUS
  <2>. QED BY <2>1, FS_Interval, Zenon
<1>5. \A i \in AR : i \in P /\ Other(n, i) \in AS
  <2>. HIDE DEF P
  <2>1. \A i \in ArchRuns(block, rs, Rows(block, rs, ds)) :
            i \in 1..n /\ Other(n, i) \in ArchRuns(block, rt, Rows(block, rt, dt))
      BY ArchRunsMirrored, Zenon
  <2>. QED BY <2>1 DEF P
<1>6. \A i \in AS : i \in P /\ Other(n, i) \in AR
  <2>1. Mirrored(n, rt, rs) /\ Mirrored(n, dt, ds)
      BY MirroredBack
  <2>2. \A i \in ArchRuns(block, rt, Rows(block, rt, dt)) :
            i \in 1..n /\ Other(n, i) \in ArchRuns(block, rs, Rows(block, rs, ds))
      BY <2>1, ArchRunsMirrored, Zenon
  <2>. QED BY <2>2
<1>7. \A i \in P : Other(n, Other(n, i)) = i
    BY OtherPlace
<1>. HIDE DEF R, S, b, o, P, AR, AS
<1>8. AR \in SUBSET P /\ AS \in SUBSET P /\ \A i \in P : i \in AR <=> o[i] \in AS
    BY <1>2, <1>5, <1>6, <1>7
<1>9. Renames(o, AR, AS)
    BY <1>2, <1>8, RenamedPart
<1>10. IsFiniteSet(R) /\ IsFiniteSet(AR)
    BY <1>4, <1>8, FS_Subset DEF R
<1>11. Cardinality(S) = Cardinality(R)
    BY <1>1, <1>10, RenamedCount
<1>12. Cardinality(CompletedPlaces(block, rt)) = Cardinality(CompletedPlaces(block, rs))
  <2>. DEFINE V == CompletedPlaces(block, rs)
              W == CompletedPlaces(block, rt)
  <2>1. /\ V \in SUBSET P /\ W \in SUBSET P
        /\ \A i \in P : i \in V <=> o[i] \in W
      BY <1>2, <1>3 DEF CompletedPlaces, Renames
  <2>2. IsFiniteSet(V)
      BY <1>4, <2>1, FS_Subset
  <2>. HIDE DEF V, W
  <2>3. Renames(o, V, W)
      BY <1>2, <2>1, RenamedPart
  <2>4. Cardinality(W) = Cardinality(V)
      BY <2>2, <2>3, RenamedCount
  <2>. QED BY <2>4 DEF V, W
<1>13. \A k : aggregate_stats(Values(S, k)) = aggregate_stats(Values(R, k))
    BY <1>1, <1>10, ValuesRenamed
<1>14. RowBackends(S, rt) = RowBackends(R, rs)
  <2>1. /\ \A r \in R : r \in ValuedRows(R) => b[r] \in ValuedRows(S)
        /\ \A q \in S : \E r \in R : q = b[r]
        /\ \A r \in R : b[r] \in ValuedRows(S) => r \in ValuedRows(R)
      BY <1>1 DEF ValuedRows, Renames
  <2>2. ValuedRows(R) \in SUBSET R /\ ValuedRows(S) \in SUBSET S
      BY DEF ValuedRows
  <2>. QED BY <1>1, <2>1, <2>2 DEF RowBackends
<1>15. ASSUME NEW x
       PROVE  \A k : aggregate_stats(Values(BackendRows(S, rt, x), k))
                       = aggregate_stats(Values(BackendRows(R, rs, x), k))
  <2>. DEFINE V == BackendRows(R, rs, x)
              W == BackendRows(S, rt, x)
  <2>1. V \in SUBSET R /\ W \in SUBSET S /\ \A r \in R : r \in V <=> b[r] \in W
      BY <1>1 DEF BackendRows, Renames
  <2>2. IsFiniteSet(V) /\ \A r \in V : b[r].values = r.values
      BY <1>1, <1>10, <2>1, FS_Subset
  <2>. HIDE DEF V, W
  <2>3. Renames(b, V, W)
      BY <1>1, <2>1, RenamedPart
  <2>4. \A k : aggregate_stats(Values(W, k)) = aggregate_stats(Values(V, k))
      BY <2>2, <2>3, ValuesRenamed
  <2>. QED BY <2>4 DEF V, W
<1>16. ASSUME NEW x
       PROVE  \A k : aggregate_stats_with_iqr(Values(ArchRows(S, rt, x), k))
                       = aggregate_stats_with_iqr(Values(ArchRows(R, rs, x), k))
  <2>. DEFINE V == ArchRows(R, rs, x)
              W == ArchRows(S, rt, x)
  <2>1. V \in SUBSET R /\ W \in SUBSET S /\ \A r \in R : r \in V <=> b[r] \in W
      BY <1>1 DEF ArchRows, Renames
  <2>2. IsFiniteSet(V) /\ \A r \in V : b[r].values = r.values
      BY <1>1, <1>10, <2>1, FS_Subset
  <2>. HIDE DEF V, W
  <2>3. Renames(b, V, W)
      BY <1>1, <2>1, RenamedPart
  <2>4. \A k : aggregate_stats_with_iqr(Values(W, k)) = aggregate_stats_with_iqr(Values(V, k))
      BY <2>2, <2>3, ValuesRenamed
  <2>. QED BY <2>4 DEF V, W
<1>17. ArchNames(rt, AS) = ArchNames(rs, AR)
    BY <1>3, <1>8, <1>9 DEF ArchNames, Renames
<1>18. ASSUME NEW x
       PROVE  /\ Cardinality(OfArch(rt, AS, x)) = Cardinality(OfArch(rs, AR, x))
              /\ Cardinality(FailedOfArch(rt, dt, AS, x))
                   = Cardinality(FailedOfArch(rs, ds, AR, x))
  <2>. DEFINE V == OfArch(rs, AR, x)
              W == OfArch(rt, AS, x)
              X == FailedOfArch(rs, ds, AR, x)
              Y == FailedOfArch(rt, dt, AS, x)
  <2>0. \A i \in P : Failed(rt, dt, o[i]) <=> Failed(rs, ds, i)
      BY <1>3 DEF Failed
  <2>1. V \in SUBSET AR /\ W \in SUBSET AS /\ \A i \in AR : i \in V <=> o[i] \in W
      BY <1>3, <1>8, <1>9 DEF OfArch, Renames
  <2>2. X \in SUBSET AR /\ Y \in SUBSET AS /\ \A i \in AR : i \in X <=> o[i] \in Y
      BY <1>3, <1>8, <1>9, <2>0 DEF FailedOfArch, Renames
  <2>3. IsFiniteSet(V) /\ IsFiniteSet(X)
      BY <1>10, <2>1, <2>2, FS_Subset
  <2>. HIDE DEF V, W, X, Y
  <2>4. Renames(o, V, W) /\ Renames(o, X, Y)
      BY <1>9, <2>1, <2>2, RenamedPart
  <2>5. Cardinality(W) = Cardinality(V) /\ Cardinality(Y) = Cardinality(X)
      BY <2>3, <2>4, RenamedCount
  <2>. QED BY <2>5 DEF V, W, X, Y
<1>. DEFINE metrics(T) == [k \in Keys(block) |-> OrNothing(aggregate_stats(Values(T, k)))]
            byBackend(T, u) == [x \in RowBackends(T, u) |->
                   [k \in Keys(block) |-> aggregate_stats(Values(BackendRows(T, u, x), k))]]
            byArch(T, u, w) == [x \in ArchNames(u, w) |->
                   [k \in Keys(block) |->
                       aggregate_stats_with_iqr(Values(ArchRows(T, u, x), k))]]
            entry(u, d, w, x) == <<x, Cardinality(OfArch(u, w, x)),
                                   Cardinality(FailedOfArch(u, d, w, x))>>
            errors(u, d, w) == IF block # "error_rate_by_category" THEN {}
                               ELSE {entry(u, d, w, x) : x \in ArchNames(u, w)}
            summary(T, u, d, w) ==
                [evaluated |-> Cardinality(T),
                 considered |-> Cardinality(CompletedPlaces(block, u)),
                 metrics |-> metrics(T), by_backend |-> byBackend(T, u),
                 by_arch |-> byArch(T, u, w), errors |-> errors(u, d, w)]
<1>19. metrics(S) = metrics(R)
    BY <1>13
<1>20. byBackend(S, rt) = byBackend(R, rs)
    BY <1>14, <1>15
<1>21. byArch(S, rt, AS) = byArch(R, rs, AR)
    BY <1>16, <1>17
<1>22. errors(rt, dt, AS) = errors(rs, ds, AR)
  <2>1. \A x : entry(rt, dt, AS, x) = entry(rs, ds, AR, x)
      BY <1>18
  <2>. HIDE DEF entry
  <2>. QED BY <1>17, <2>1
<1>23. /\ RowSummary(block, rt, dt, S) = summary(S, rt, dt, AS)
       /\ RowSummary(block, rs, ds, R) = summary(R, rs, ds, AR)
    BY RowSummaryIs, Zenon DEF AS, AR
<1>. HIDE DEF metrics, byBackend, byArch, errors
<1>24. summary(S, rt, dt, AS) = summary(R, rs, ds, AR)
    BY <1>11, <1>12, <1>19, <1>20, <1>21, <1>22
<1>. QED BY <1>23, <1>24 DEF R, S

\* no build occurs twice in a group
Distinct(rs) ==
    \A i, j \in DOMAIN rs :
        SameGroup(rs[i], rs[j]) /\ Label(rs[i]) = Label(rs[j]) => i = j

LEMMA SourcesMirrored ==
    ASSUME NEW n \in Nat, NEW rs, NEW rt, NEW ds, NEW dt,
           Mirrored(n, rs, rt), Mirrored(n, ds, dt), Distinct(rs), Sources(rs, ds)
    PROVE  Distinct(rt) /\ Sources(rt, dt)
<1>. DEFINE o(i) == Other(n, i)
<1>1. \A i \in 1..n : /\ o(i) \in 1..n /\ rt[i] = rs[o(i)] /\ dt[i] = ds[o(i)]
                      /\ o(o(i)) = i
    BY OtherPlace DEF Mirrored
<1>2. DOMAIN rt = 1..n /\ DOMAIN rs = 1..n
    BY DEF Mirrored
<1>. HIDE DEF o
<1>3. Distinct(rt)
  <2>1. \A i, j \in 1..n : SameGroup(rt[i], rt[j]) /\ Label(rt[i]) = Label(rt[j])
                              => o(i) = o(j)
      BY <1>1, <1>2 DEF Distinct
  <2>2. \A i, j \in 1..n : o(i) = o(j) => i = j
      BY <1>1
  <2>. QED BY <1>2, <2>1, <2>2 DEF Distinct
<1>4. Sources(rt, dt)
    BY <1>1, <1>2 DEF Sources
<1>. QED BY <1>3, <1>4

\* with one run for each label there is nothing to choose
LEMMA ChosenOnly ==
    ASSUME NEW block, NEW n \in Nat, NEW rs, DOMAIN rs = 1..n, Distinct(rs)
    PROVE  Pairs(block, rs) = {p \in Comparable(block, rs) \X Comparable(block, rs) :
                                  p[1] < p[2] /\ SameGroup(rs[p[1]], rs[p[2]])}
<1>1. \A i \in 1..n : i <= i
    OBVIOUS
<1>2. Chosen(block, rs) = Comparable(block, rs)
    BY <1>1 DEF Chosen, Comparable, Distinct
<1>. QED BY <1>2 DEF Pairs

LEMMA ComparisonSymmetric ==
    ASSUME NEW block \in PairBlocks, NEW x, NEW y,
           block \in SIMILARITIES => IsHist(x) /\ IsHist(y),
           block \notin SIMILARITIES => x \in OrNone(Int) /\ y \in OrNone(Int)
    PROVE  Comparison(block, y, x) = Comparison(block, x, y)
<1>1. CASE x = None \/ y = None
    BY <1>1 DEF Comparison
<1>2. CASE x # None /\ y # None /\ block \in SIMILARITIES
  <2>1. block \in {"weighted_jaccard", "jsd_similarity"}
      BY <1>2 DEF SIMILARITIES
  <2>2. /\ weighted_jaccard(y, x) = weighted_jaccard(x, y)
        /\ jensen_shannon_similarity(y, x) = jensen_shannon_similarity(x, y)
      BY <1>2, SimilaritiesSymmetric
  <2>. QED BY <1>2, <2>1, <2>2 DEF Comparison
<1>3. CASE x # None /\ y # None /\ block \notin SIMILARITIES
  <2>1. x \in Int /\ y \in Int
      BY <1>3 DEF OrNone
  <2>2. coefficient_of_variation(<<y, x>>) = coefficient_of_variation(<<x, y>>)
      BY <2>1, VariationSymmetric
  <2>3. Distance(y, x) = Distance(x, y)
      BY <2>1 DEF Distance
  <2>4. block \in {"ir_size_cv", "cyclomatic_complexity_delta"}
      BY <1>3 DEF PairBlocks, SIMILARITIES
  <2>. QED BY <1>3, <2>2, <2>3, <2>4 DEF Comparison
<1>. QED BY <1>1, <1>2, <1>3

\* a pair under its builds' other places
MovePair(n, p) == <<Other(n, p[2]), Other(n, p[1])>>

PairLabel(rs, p) == arch_pair_label(Label(rs[p[1]]), Label(rs[p[2]]))

LEMMA PairMoved ==
    ASSUME NEW block \in PairBlocks, NEW n \in Nat, NEW rs, NEW rt, NEW ds, NEW dt,
           Mirrored(n, rs, rt), Mirrored(n, ds, dt), Distinct(rs), Sources(rs, ds),
           NEW p \in Pairs(block, rs)
    PROVE  /\ MovePair(n, p) \in Pairs(block, rt) /\ MovePair(n, MovePair(n, p)) = p
           /\ Matched(block, rt, dt, MovePair(n, p)) = Matched(block, rs, ds, p)
           /\ match_rate(block, rt, dt, MovePair(n, p)) = match_rate(block, rs, ds, p)
           /\ PairLabel(rt, MovePair(n, p)) = PairLabel(rs, p)
           /\ rt[MovePair(n, p)[1]].backend = rs[p[1]].backend
           /\ rt[MovePair(n, p)[1]].group = rs[p[1]].group
           /\ \A m \in Matched(block, rs, ds, p) :
                 PairValue(block, rt, dt, MovePair(n, p), m) = PairValue(block, rs, ds, p, m)
<1>. DEFINE i == p[1]
            j == p[2]
            u == Other(n, p[2])
            v == Other(n, p[1])
            q == <<u, v>>
<1>1. DOMAIN rs = 1..n /\ DOMAIN rt = 1..n /\ Distinct(rt)
  <2>. HIDE DEF i, j, u, v, q
  <2>1. Distinct(rt) /\ Sources(rt, dt)
      BY SourcesMirrored, Zenon
  <2>. QED BY <2>1 DEF Mirrored
<1>2. /\ p = <<i, j>> /\ i \in Comparable(block, rs) /\ j \in Comparable(block, rs)
      /\ i < j /\ SameGroup(rs[i], rs[j])
  <2>1. Pairs(block, rs) = {x \in Comparable(block, rs) \X Comparable(block, rs) :
                              x[1] < x[2] /\ SameGroup(rs[x[1]], rs[x[2]])}
      BY <1>1, ChosenOnly
  <2>. QED BY <2>1
<1>3. i \in 1..n /\ j \in 1..n /\ Source(rs[i], ds[i]) /\ Source(rs[j], ds[j])
    BY <1>1, <1>2 DEF Comparable, Sources
<1>4. /\ u \in 1..n /\ v \in 1..n /\ u < v
      /\ Other(n, u) = j /\ Other(n, v) = i
      /\ rt[u] = rs[j] /\ dt[u] = ds[j] /\ rt[v] = rs[i] /\ dt[v] = ds[i]
    BY <1>2, <1>3, OtherPlace DEF Mirrored
<1>5. MovePair(n, p) = q /\ q[1] = u /\ q[2] = v
    BY DEF MovePair
<1>. HIDE DEF i, j, u, v
<1>6. MovePair(n, q) = p
    BY <1>2, <1>4 DEF MovePair
<1>7. u \in Comparable(block, rt) /\ v \in Comparable(block, rt) /\ SameGroup(rt[u], rt[v])
    BY <1>1, <1>2, <1>4 DEF Comparable, SameGroup
<1>8. q \in Pairs(block, rt)
    BY <1>1, <1>4, <1>7, ChosenOnly
<1>9. /\ NamesAt(block, rt, dt, u) = NamesAt(block, rs, ds, j)
      /\ NamesAt(block, rt, dt, v) = NamesAt(block, rs, ds, i)
    BY <1>4 DEF NamesAt
<1>10. p[1] = i /\ p[2] = j
    BY DEF i, j
<1>11. Matched(block, rt, dt, q) = Matched(block, rs, ds, p)
    BY <1>5, <1>9, <1>10 DEF Matched
<1>12. match_rate(block, rt, dt, q) = match_rate(block, rs, ds, p)
  <2>1. NamesAt(block, rt, dt, u) \cup NamesAt(block, rt, dt, v)
          = NamesAt(block, rs, ds, i) \cup NamesAt(block, rs, ds, j)
      BY <1>9
  <2>. QED BY <1>5, <1>10, <1>11, <2>1 DEF match_rate
<1>13. PairLabel(rt, q) = PairLabel(rs, p)
    BY <1>4, <1>5, <1>10 DEF PairLabel, arch_pair_label
<1>14. rt[q[1]].backend = rs[p[1]].backend /\ rt[q[1]].group = rs[p[1]].group
    BY <1>2, <1>4, <1>5, <1>10 DEF SameGroup
<1>15. ASSUME NEW m \in Matched(block, rs, ds, p)
       PROVE  PairValue(block, rt, dt, q, m) = PairValue(block, rs, ds, p, m)
  <2>. DEFINE x == Datum(block, rs[i], ds[i], m)
              y == Datum(block, rs[j], ds[j], m)
  <2>1. m \in NamesOk(block, rs[i], ds[i]) /\ m \in NamesOk(block, rs[j], ds[j])
      BY <1>10 DEF Matched, NamesAt
  <2>2. /\ block \in SIMILARITIES => IsHist(x) /\ IsHist(y)
        /\ block \notin SIMILARITIES => x \in OrNone(Int) /\ y \in OrNone(Int)
      BY <1>3, <2>1, DatumTyped
  <2>3. /\ PairValue(block, rs, ds, p, m) = Comparison(block, x, y)
        /\ PairValue(block, rt, dt, q, m) = Comparison(block, y, x)
      BY <1>4, <1>5, <1>10 DEF PairValue
  <2>. HIDE DEF x, y
  <2>. QED BY <2>2, <2>3, ComparisonSymmetric
<1>. HIDE DEF q
<1>. QED BY <1>5, <1>6, <1>8, <1>11, <1>12, <1>13, <1>14, <1>15

PairNames(n, pairs) == [p \in pairs |-> MovePair(n, p)]

LEMMA PairsRenamed ==
    ASSUME NEW block \in PairBlocks, NEW n \in Nat, NEW rs, NEW rt, NEW ds, NEW dt,
           Mirrored(n, rs, rt), Mirrored(n, ds, dt), Distinct(rs), Sources(rs, ds)
    PROVE  LET P == Pairs(block, rs)
               c == PairNames(n, P)
           IN  /\ Renames(c, P, Pairs(block, rt))
               /\ \A p \in P :
                     /\ match_rate(block, rt, dt, c[p]) = match_rate(block, rs, ds, p)
                     /\ PairLabel(rt, c[p]) = PairLabel(rs, p)
                     /\ rt[c[p][1]].backend = rs[p[1]].backend
                     /\ rt[c[p][1]].group = rs[p[1]].group
<1>. DEFINE P == Pairs(block, rs)
            Q == Pairs(block, rt)
            c == PairNames(n, P)
<1>1. \A p \in P : c[p] = MovePair(n, p)
    BY DEF PairNames
<1>2. ASSUME NEW p \in P
      PROVE  /\ c[p] \in Q /\ MovePair(n, c[p]) = p
             /\ match_rate(block, rt, dt, c[p]) = match_rate(block, rs, ds, p)
             /\ PairLabel(rt, c[p]) = PairLabel(rs, p)
             /\ rt[c[p][1]].backend = rs[p[1]].backend
             /\ rt[c[p][1]].group = rs[p[1]].group
  <2>1. p \in Pairs(block, rs)
      OBVIOUS
  <2>2. c[p] = MovePair(n, p)
      BY <1>1
  <2>. HIDE DEF c, P
  <2>. QED BY <2>1, <2>2, PairMoved
<1>3. ASSUME NEW q \in Q
      PROVE  MovePair(n, q) \in P /\ MovePair(n, MovePair(n, q)) = q
  <2>1. q \in Pairs(block, rt)
      OBVIOUS
  <2>2. /\ Mirrored(n, rt, rs) /\ Mirrored(n, dt, ds)
        /\ Distinct(rt) /\ Sources(rt, dt)
      BY MirroredBack, SourcesMirrored
  <2>. HIDE DEF c, P, Q
  <2>3. MovePair(n, q) \in Pairs(block, rs) /\ MovePair(n, MovePair(n, q)) = q
      BY <2>1, <2>2, PairMoved
  <2>. QED BY <2>3 DEF P
<1>. HIDE DEF P, Q, c
<1>4. Renames(c, P, Q)
  <2>1. \A q \in Q : \E p \in P : c[p] = q
      BY <1>1, <1>3
  <2>2. \A p, q \in P : c[p] = c[q] => p = q
      BY <1>2
  <2>. QED BY <1>2, <2>1, <2>2 DEF Renames
<1>. QED BY <1>2, <1>4 DEF P, Q, c

MovePairRow(n, r) ==
    [pair |-> MovePair(n, r.pair), function |-> r.function, value |-> r.value]

LEMMA PairRowMoved ==
    ASSUME NEW block \in PairBlocks, NEW n \in Nat, NEW rs, NEW rt, NEW ds, NEW dt,
           Mirrored(n, rs, rt), Mirrored(n, ds, dt), Distinct(rs), Sources(rs, ds),
           NEW r \in PairRows(block, rs, ds)
    PROVE  /\ MovePairRow(n, r) \in PairRows(block, rt, dt)
           /\ MovePairRow(n, MovePairRow(n, r)) = r
           /\ MovePairRow(n, r).value = r.value
           /\ PairLabel(rt, MovePairRow(n, r).pair) = PairLabel(rs, r.pair)
           /\ rt[MovePairRow(n, r).pair[1]].backend = rs[r.pair[1]].backend
<1>. DEFINE p == r.pair
            m == r.function
            q == MovePair(n, r.pair)
<1>1. /\ p \in Pairs(block, rs) /\ m \in Matched(block, rs, ds, p) /\ r.value # None
      /\ r = [pair |-> p, function |-> m, value |-> PairValue(block, rs, ds, p, m)]
    BY RowOf
<1>2. /\ q \in Pairs(block, rt) /\ MovePair(n, q) = p
      /\ Matched(block, rt, dt, q) = Matched(block, rs, ds, p)
      /\ PairLabel(rt, q) = PairLabel(rs, p)
      /\ rt[q[1]].backend = rs[p[1]].backend
      /\ \A k \in Matched(block, rs, ds, p) :
            PairValue(block, rt, dt, q, k) = PairValue(block, rs, ds, p, k)
  <2>. HIDE DEF p
  <2>1. q = MovePair(n, p)
      BY DEF p
  <2>. HIDE DEF q, m
  <2>. QED BY <1>1, <2>1, PairMoved
<1>3. MovePairRow(n, r) = [pair |-> q, function |-> m, value |-> r.value]
    BY DEF MovePairRow
<1>4. r = [pair |-> p, function |-> m, value |-> r.value]
    BY <1>1
<1>. HIDE DEF p, q, m
<1>5. r.value = PairValue(block, rt, dt, q, m)
    BY <1>1, <1>2, <1>4
<1>6. [pair |-> q, function |-> m, value |-> PairValue(block, rt, dt, q, m)]
         \in PairRows(block, rt, dt)
    BY <1>1, <1>2, <1>5, RowOf
<1>7. MovePairRow(n, MovePairRow(n, r)) = r
    BY <1>2, <1>3, <1>4 DEF MovePairRow
<1>8. MovePairRow(n, r).pair = q /\ MovePairRow(n, r).value = r.value
    BY <1>3
<1>9. r.pair = p
    BY DEF p
<1>. QED BY <1>2, <1>3, <1>5, <1>6, <1>7, <1>8, <1>9

PairRowNames(n, rows) == [r \in rows |-> MovePairRow(n, r)]

LEMMA PairRowsRenamed ==
    ASSUME NEW block \in PairBlocks, NEW n \in Nat, NEW rs, NEW rt, NEW ds, NEW dt,
           Mirrored(n, rs, rt), Mirrored(n, ds, dt), Distinct(rs), Sources(rs, ds)
    PROVE  LET R == PairRows(block, rs, ds)
               b == PairRowNames(n, R)
           IN  Renames(b, R, PairRows(block, rt, dt))
<1>. DEFINE R == PairRows(block, rs, ds)
            S == PairRows(block, rt, dt)
            b == PairRowNames(n, R)
<1>1. \A r \in R : b[r] = MovePairRow(n, r)
    BY DEF PairRowNames
<1>2. ASSUME NEW r \in R
      PROVE  b[r] \in S /\ MovePairRow(n, b[r]) = r
  <2>1. r \in PairRows(block, rs, ds)
      OBVIOUS
  <2>2. b[r] = MovePairRow(n, r)
      BY <1>1
  <2>. HIDE DEF b, R
  <2>. QED BY <2>1, <2>2, PairRowMoved
<1>3. ASSUME NEW q \in S
      PROVE  MovePairRow(n, q) \in R /\ MovePairRow(n, MovePairRow(n, q)) = q
  <2>1. q \in PairRows(block, rt, dt)
      OBVIOUS
  <2>2. /\ Mirrored(n, rt, rs) /\ Mirrored(n, dt, ds)
        /\ Distinct(rt) /\ Sources(rt, dt)
      BY MirroredBack, SourcesMirrored
  <2>. HIDE DEF b, R, S
  <2>3. MovePairRow(n, q) \in PairRows(block, rs, ds)
        /\ MovePairRow(n, MovePairRow(n, q)) = q
      BY <2>1, <2>2, PairRowMoved
  <2>. QED BY <2>3 DEF R
<1>. HIDE DEF R, S, b
<1>4. Renames(b, R, S)
  <2>1. \A q \in S : \E r \in R : b[r] = q
      BY <1>1, <1>3
  <2>2. \A r, q \in R : b[r] = b[q] => r = q
      BY <1>2
  <2>. QED BY <1>2, <2>1, <2>2 DEF Renames
<1>. QED BY <1>4 DEF R, S, b

----------------------------------------------------------------------------
(* What a comparison's summary is made of. *)

RowValues(rows) == [r \in rows |-> r.value]

Rates(block, us, vs, pairs) == [p \in pairs |-> match_rate(block, us, vs, p)]

PairBackend(us, r) == us[r.pair[1]].backend

PairBackends(us, rows) == {PairBackend(us, r) : r \in rows}

OfPairBackend(us, rows, x) == {r \in rows : PairBackend(us, r) = x}

RowLabels(us, rows) == {PairLabel(us, r.pair) : r \in rows}

LabelledRows(us, rows, l) == {r \in rows : PairLabel(us, r.pair) = l}

LabelledPairs(us, pairs, l) == {p \in pairs : PairLabel(us, p) = l}

TypedRows(us, rows, t) == {r \in rows : classify_arch_pair(PairLabel(us, r.pair)) = t}

GroupsOf(us, pairs) == {<<us[p[1]].group, us[p[1]].backend>> : p \in pairs}

LEMMA PairSummaryIs ==
    ASSUME NEW block, NEW us, NEW vs, NEW rows
    PROVE  LET pairs == Pairs(block, us)
           IN  PairSummary(block, us, vs, rows) =
                 [groups |-> Cardinality(GroupsOf(us, pairs)),
                  evaluated |-> Cardinality(rows),
                  metric |-> OrNothing(aggregate_stats(RowValues(rows))),
                  match |-> OrNothing(aggregate_stats(Rates(block, us, vs, pairs))),
                  by_backend |-> [x \in PairBackends(us, rows) |->
                      aggregate_stats(RowValues(OfPairBackend(us, rows, x)))],
                  by_arch_pair |-> [l \in RowLabels(us, rows) |->
                      <<aggregate_stats(RowValues(LabelledRows(us, rows, l))),
                        aggregate_stats(Rates(block, us, vs, LabelledPairs(us, pairs, l)))>>],
                  by_pair_type |-> [t \in PairType |->
                      [x \in PairBackends(us, TypedRows(us, rows, t)) |->
                          aggregate_stats_with_iqr(RowValues(
                              OfPairBackend(us, TypedRows(us, rows, t), x)))]]]
BY DEF PairSummary, GroupsOf, RowValues, Rates, PairBackends, PairBackend, OfPairBackend,
       RowLabels, LabelledRows, LabelledPairs, TypedRows, PairLabel

LEMMA RowValuesRenamed ==
    ASSUME NEW b, NEW T, NEW U, IsFiniteSet(T), Renames(b, T, U),
           \A r \in T : b[r].value = r.value
    PROVE  /\ aggregate_stats(RowValues(U)) = aggregate_stats(RowValues(T))
           /\ aggregate_stats_with_iqr(RowValues(U)) = aggregate_stats_with_iqr(RowValues(T))
<1>1. /\ DOMAIN RowValues(T) = T /\ DOMAIN RowValues(U) = U
      /\ \A r \in T : RowValues(T)[r] = r.value
      /\ \A r \in U : RowValues(U)[r] = r.value
    BY DEF RowValues
<1>2. Renamed(b, RowValues(T), RowValues(U))
    BY <1>1 DEF Renamed, Renames
<1>. QED BY <1>1, <1>2, RenamedStats

LEMMA RatesRenamed ==
    ASSUME NEW block, NEW rs, NEW rt, NEW ds, NEW dt,
           NEW c, NEW T, NEW U, IsFiniteSet(T), Renames(c, T, U),
           \A p \in T : match_rate(block, rt, dt, c[p]) = match_rate(block, rs, ds, p)
    PROVE  aggregate_stats(Rates(block, rt, dt, U)) = aggregate_stats(Rates(block, rs, ds, T))
<1>. DEFINE f == Rates(block, rs, ds, T)
            g == Rates(block, rt, dt, U)
<1>1. /\ DOMAIN f = T /\ DOMAIN g = U
      /\ \A p \in T : f[p] = match_rate(block, rs, ds, p)
      /\ \A p \in U : g[p] = match_rate(block, rt, dt, p)
    BY DEF Rates
<1>. HIDE DEF f, g
<1>2. Renamed(c, f, g)
    BY <1>1 DEF Renamed, Renames
<1>3. aggregate_stats(g) = aggregate_stats(f)
    BY <1>1, <1>2, RenamedStats
<1>. QED BY <1>3 DEF f, g

\* part of the rows
LEMMA RowPartRenamed ==
    ASSUME NEW b, NEW T, NEW U, IsFiniteSet(T), Renames(b, T, U),
           \A r \in T : b[r].value = r.value,
           NEW V \in SUBSET T, NEW W \in SUBSET U, \A r \in T : r \in V <=> b[r] \in W
    PROVE  /\ Renames(b, V, W)
           /\ aggregate_stats(RowValues(W)) = aggregate_stats(RowValues(V))
           /\ aggregate_stats_with_iqr(RowValues(W)) = aggregate_stats_with_iqr(RowValues(V))
<1>1. IsFiniteSet(V) /\ \A r \in V : b[r].value = r.value
    BY FS_Subset
<1>2. Renames(b, V, W)
    BY RenamedPart
<1>. QED BY <1>1, <1>2, RowValuesRenamed

\* the summary of a comparison does not depend on the manifest's order
LEMMA PairSummaryMirrored ==
    ASSUME NEW block \in PairBlocks, NEW n \in Nat, NEW rs, NEW rt, NEW ds, NEW dt,
           Mirrored(n, rs, rt), Mirrored(n, ds, dt), Distinct(rs), Sources(rs, ds)
    PROVE  PairSummary(block, rt, dt, PairRows(block, rt, dt))
             = PairSummary(block, rs, ds, PairRows(block, rs, ds))
<1>. DEFINE R == PairRows(block, rs, ds)
            S == PairRows(block, rt, dt)
            b == PairRowNames(n, R)
            P == Pairs(block, rs)
            Q == Pairs(block, rt)
            c == PairNames(n, P)
<1>1. /\ Renames(b, R, S)
      /\ \A r \in R : /\ b[r].value = r.value
                      /\ PairLabel(rt, b[r].pair) = PairLabel(rs, r.pair)
                      /\ rt[b[r].pair[1]].backend = rs[r.pair[1]].backend
  <2>. HIDE DEF P, Q, c
  <2>1. Renames(b, R, S)
      BY PairRowsRenamed
  <2>2. ASSUME NEW r \in R
        PROVE  /\ b[r].value = r.value
               /\ PairLabel(rt, b[r].pair) = PairLabel(rs, r.pair)
               /\ rt[b[r].pair[1]].backend = rs[r.pair[1]].backend
    <3>1. b[r] = MovePairRow(n, r)
        BY DEF PairRowNames
    <3>2. r \in PairRows(block, rs, ds)
        OBVIOUS
    <3>. HIDE DEF b, R, S
    <3>3. /\ MovePairRow(n, r) \in PairRows(block, rt, dt)
          /\ MovePairRow(n, MovePairRow(n, r)) = r
          /\ MovePairRow(n, r).value = r.value
          /\ PairLabel(rt, MovePairRow(n, r).pair) = PairLabel(rs, r.pair)
          /\ rt[MovePairRow(n, r).pair[1]].backend = rs[r.pair[1]].backend
        BY <3>2, PairRowMoved
    <3>. QED BY <3>1, <3>3
  <2>. QED BY <2>1, <2>2
<1>2. /\ Renames(c, P, Q)
      /\ \A p \in P :
            /\ match_rate(block, rt, dt, c[p]) = match_rate(block, rs, ds, p)
            /\ PairLabel(rt, c[p]) = PairLabel(rs, p)
            /\ rt[c[p][1]].backend = rs[p[1]].backend
            /\ rt[c[p][1]].group = rs[p[1]].group
    BY PairsRenamed
<1>3. IsFiniteSet(R)
    BY PairRowsFinite DEF Sources, Source, Dir
<1>4. IsFiniteSet(P)
  <2>1. Chosen(block, rs) \in SUBSET DOMAIN rs
      BY DEF Chosen, Comparable
  <2>2. IsFiniteSet(Chosen(block, rs) \X Chosen(block, rs))
      BY <2>1, FS_Subset, FS_Product DEF Sources
  <2>3. P \in SUBSET (Chosen(block, rs) \X Chosen(block, rs))
      BY DEF Pairs
  <2>. QED BY <2>2, <2>3, FS_Subset
<1>. HIDE DEF R, S, b, P, Q, c
<1>5. GroupsOf(rt, Q) = GroupsOf(rs, P)
  <2>1. \A p \in P : /\ c[p] \in Q
                     /\ <<rt[c[p][1]].group, rt[c[p][1]].backend>>
                          = <<rs[p[1]].group, rs[p[1]].backend>>
      BY <1>2 DEF Renames
  <2>2. \A q \in Q : \E p \in P : c[p] = q
      BY <1>2 DEF Renames
  <2>. QED BY <2>1, <2>2 DEF GroupsOf
<1>6. Cardinality(S) = Cardinality(R)
    BY <1>1, <1>3, RenamedCount
<1>7. /\ \A r \in R : /\ b[r] \in S
                      /\ PairBackend(rt, b[r]) = PairBackend(rs, r)
                      /\ PairLabel(rt, b[r].pair) = PairLabel(rs, r.pair)
      /\ \A q \in S : \E r \in R : b[r] = q
    BY <1>1 DEF Renames, PairBackend
<1>8. aggregate_stats(RowValues(S)) = aggregate_stats(RowValues(R))
    BY <1>1, <1>3, RowValuesRenamed
<1>9. aggregate_stats(Rates(block, rt, dt, Q)) = aggregate_stats(Rates(block, rs, ds, P))
    BY <1>2, <1>4, RatesRenamed
<1>10. PairBackends(rt, S) = PairBackends(rs, R)
    BY <1>7 DEF PairBackends
<1>11. ASSUME NEW x
       PROVE  aggregate_stats(RowValues(OfPairBackend(rt, S, x)))
                = aggregate_stats(RowValues(OfPairBackend(rs, R, x)))
  <2>. DEFINE V == OfPairBackend(rs, R, x)
              W == OfPairBackend(rt, S, x)
  <2>1. V \in SUBSET R /\ W \in SUBSET S /\ \A r \in R : r \in V <=> b[r] \in W
      BY <1>7 DEF OfPairBackend
  <2>. HIDE DEF V, W
  <2>2. aggregate_stats(RowValues(W)) = aggregate_stats(RowValues(V))
      BY <1>1, <1>3, <2>1, RowPartRenamed
  <2>. QED BY <2>2 DEF V, W
<1>12. RowLabels(rt, S) = RowLabels(rs, R)
    BY <1>7 DEF RowLabels
<1>13. ASSUME NEW l
       PROVE  /\ aggregate_stats(RowValues(LabelledRows(rt, S, l)))
                   = aggregate_stats(RowValues(LabelledRows(rs, R, l)))
              /\ aggregate_stats(Rates(block, rt, dt, LabelledPairs(rt, Q, l)))
                   = aggregate_stats(Rates(block, rs, ds, LabelledPairs(rs, P, l)))
  <2>. DEFINE V == LabelledRows(rs, R, l)
              W == LabelledRows(rt, S, l)
              X == LabelledPairs(rs, P, l)
              Y == LabelledPairs(rt, Q, l)
  <2>1. V \in SUBSET R /\ W \in SUBSET S /\ \A r \in R : r \in V <=> b[r] \in W
      BY <1>7 DEF LabelledRows
  <2>2. X \in SUBSET P /\ Y \in SUBSET Q /\ \A p \in P : p \in X <=> c[p] \in Y
      BY <1>2 DEF LabelledPairs, Renames
  <2>. HIDE DEF V, W, X, Y
  <2>3. aggregate_stats(RowValues(W)) = aggregate_stats(RowValues(V))
      BY <1>1, <1>3, <2>1, RowPartRenamed
  <2>4. Renames(c, X, Y) /\ IsFiniteSet(X)
      BY <1>2, <1>4, <2>2, RenamedPart, FS_Subset
  <2>5. \A p \in X : match_rate(block, rt, dt, c[p]) = match_rate(block, rs, ds, p)
      BY <1>2, <2>2
  <2>6. aggregate_stats(Rates(block, rt, dt, Y)) = aggregate_stats(Rates(block, rs, ds, X))
      BY <2>4, <2>5, RatesRenamed
  <2>. QED BY <2>3, <2>6 DEF V, W, X, Y
<1>14. ASSUME NEW t
       PROVE  /\ PairBackends(rt, TypedRows(rt, S, t)) = PairBackends(rs, TypedRows(rs, R, t))
              /\ \A x : aggregate_stats_with_iqr(RowValues(
                             OfPairBackend(rt, TypedRows(rt, S, t), x)))
                          = aggregate_stats_with_iqr(RowValues(
                             OfPairBackend(rs, TypedRows(rs, R, t), x)))
  <2>. DEFINE T == TypedRows(rs, R, t)
              U == TypedRows(rt, S, t)
  <2>1. T \in SUBSET R /\ U \in SUBSET S /\ \A r \in R : r \in T <=> b[r] \in U
      BY <1>7 DEF TypedRows
  <2>. HIDE DEF T, U
  <2>2. PairBackends(rt, U) = PairBackends(rs, T)
    <3>1. \A r \in T : b[r] \in U /\ PairBackend(rt, b[r]) = PairBackend(rs, r)
        BY <1>7, <2>1
    <3>2. \A q \in U : \E r \in T : b[r] = q
        BY <1>7, <2>1
    <3>. QED BY <3>1, <3>2 DEF PairBackends
  <2>3. ASSUME NEW x
        PROVE  aggregate_stats_with_iqr(RowValues(OfPairBackend(rt, U, x)))
                 = aggregate_stats_with_iqr(RowValues(OfPairBackend(rs, T, x)))
    <3>. DEFINE V == OfPairBackend(rs, T, x)
                W == OfPairBackend(rt, U, x)
    <3>1. V \in SUBSET R /\ W \in SUBSET S /\ \A r \in R : r \in V <=> b[r] \in W
        BY <1>7, <2>1 DEF OfPairBackend
    <3>. HIDE DEF V, W
    <3>2. aggregate_stats_with_iqr(RowValues(W)) = aggregate_stats_with_iqr(RowValues(V))
        BY <1>1, <1>3, <3>1, RowPartRenamed
    <3>. QED BY <3>2 DEF V, W
  <2>. QED BY <2>2, <2>3 DEF T, U
<1>. DEFINE byBackend(u, T) == [x \in PairBackends(u, T) |->
                    aggregate_stats(RowValues(OfPairBackend(u, T, x)))]
            byLabel(u, v, T, pairs) == [l \in RowLabels(u, T) |->
                    <<aggregate_stats(RowValues(LabelledRows(u, T, l))),
                      aggregate_stats(Rates(block, u, v, LabelledPairs(u, pairs, l)))>>]
            ofType(u, T) == [x \in PairBackends(u, T) |->
                    aggregate_stats_with_iqr(RowValues(OfPairBackend(u, T, x)))]
            byType(u, T) == [t \in PairType |-> ofType(u, TypedRows(u, T, t))]
            summary(u, v, T, pairs) ==
                [groups |-> Cardinality(GroupsOf(u, pairs)),
                 evaluated |-> Cardinality(T),
                 metric |-> OrNothing(aggregate_stats(RowValues(T))),
                 match |-> OrNothing(aggregate_stats(Rates(block, u, v, pairs))),
                 by_backend |-> byBackend(u, T), by_arch_pair |-> byLabel(u, v, T, pairs),
                 by_pair_type |-> byType(u, T)]
<1>15. byBackend(rt, S) = byBackend(rs, R)
    BY <1>10, <1>11
<1>16. byLabel(rt, dt, S, Q) = byLabel(rs, ds, R, P)
    BY <1>12, <1>13
<1>17. byType(rt, S) = byType(rs, R)
  <2>1. \A t : ofType(rt, TypedRows(rt, S, t)) = ofType(rs, TypedRows(rs, R, t))
      BY <1>14
  <2>. HIDE DEF ofType
  <2>. QED BY <2>1
<1>18. /\ PairSummary(block, rt, dt, S) = summary(rt, dt, S, Q)
       /\ PairSummary(block, rs, ds, R) = summary(rs, ds, R, P)
    BY PairSummaryIs, Zenon DEF P, Q
<1>. HIDE DEF byBackend, byLabel, byType
<1>19. summary(rt, dt, S, Q) = summary(rs, ds, R, P)
    BY <1>5, <1>6, <1>8, <1>9, <1>15, <1>16, <1>17
<1>. QED BY <1>18, <1>19 DEF R, S

\* The order in which the manifest lists the builds decides nothing a block
\* reports, as long as no build of a group is listed twice, for every manifest
\* and whatever the directories hold: statistics and counts are of sets of
\* values, and a comparison of two builds is symmetric (group_key, setdefault
\* and the combinations of the comparison blocks; aggregate_stats).
THEOREM SummaryIgnoresOrder == Spec => []OrderIrrelevant
<1>1. Init => DataInv /\ SoundInv /\ SeenInv
    BY DataInit, SoundInit, SeenInit
<1>2. MetricsInv /\ TruthInv /\ SoundInv /\ SeenInv /\ [Next]_vars => SoundInv' /\ SeenInv'
    BY SoundStep, SeenStep DEF MetricsInv, TruthInv
<1>3. MetricsInv /\ TruthInv /\ SoundInv /\ SeenInv => OrderIrrelevant
  <2>. SUFFICES ASSUME MetricsInv, TruthInv, SoundInv, SeenInv, phase = "json", Distinct(runs)
                PROVE  compute(Block, Reverse(runs), Reverse(seen)).summary = result.summary
      BY DEF OrderIrrelevant, Distinct
  <2>. DEFINE n == Len(runs)
              rt == Reverse(runs)
              dt == Reverse(seen)
  <2>1. Writing /\ result = compute(Block, runs, seen)
      BY DEF TruthInv, ResultInv, Writing
  <2>2. Block \in BLOCKS
      BY TodoHead DEF MetricsInv, PlaceInv, Block
  <2>3. DOMAIN seen = DOMAIN runs /\ DataInv
      BY <2>1 DEF SeenInv, MetricsInv
  <2>4. Sources(runs, seen)
      BY <2>3, SeqDomain DEF SeenInv, Sources, Source, DataInv
  <2>5. IsSeq(runs) /\ IsSeq(seen)
      BY <2>3 DEF DataInv
  <2>6. Len(seen) = n /\ n \in Nat
    <3>1. /\ n \in Nat /\ DOMAIN runs = 1..n
          /\ Len(seen) \in Nat /\ DOMAIN seen = 1..Len(seen)
        BY <2>5, SeqDomain
    <3>. QED BY <2>3, <3>1
  <2>7. Mirrored(n, runs, rt) /\ Mirrored(n, seen, dt)
      BY <2>5, <2>6, ReverseMirrors
  <2>. HIDE DEF n, rt, dt
  <2>8. CASE Block \in PairBlocks
    <3>1. PairSummary(Block, rt, dt, PairRows(Block, rt, dt))
            = PairSummary(Block, runs, seen, PairRows(Block, runs, seen))
        BY <2>4, <2>6, <2>7, <2>8, PairSummaryMirrored
    <3>2. \A u, v : compute(Block, u, v).summary
                      = PairSummary(Block, u, v, PairRows(Block, u, v))
        BY <2>8 DEF compute
    <3>. QED BY <2>1, <3>1, <3>2 DEF rt, dt
  <2>9. CASE Block \notin PairBlocks
    <3>1. IsFiniteSet(Rows(Block, runs, seen))
        BY <2>4, RowsFinite DEF Sources, Source, Dir
    <3>2. RowSummary(Block, rt, dt, Rows(Block, rt, dt))
            = RowSummary(Block, runs, seen, Rows(Block, runs, seen))
        BY <2>6, <2>7, <3>1, RowSummaryMirrored
    <3>3. \A u, v : compute(Block, u, v).summary
                      = RowSummary(Block, u, v, Rows(Block, u, v))
        BY <2>9 DEF compute
    <3>. QED BY <2>1, <3>2, <3>3 DEF rt, dt
  <2>. QED BY <2>8, <2>9
<1>. QED BY <1>1, <1>2, <1>3, OutputsStayTrue, PTL DEF Spec
=============================================================================
