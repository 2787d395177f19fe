--------------------------- MODULE AutoscalerProofs ----------------------------
(***************************************************************************)
(* What the autoscaler sees of the requests, what it asks for, and what    *)
(* its calls leave of the tables, for any functions, specs and requests,   *)
(* any window and any failures.                                            *)
(***************************************************************************)
EXTENDS Autoscaler, FuncManagerProofs, SequenceTheorems

-----------------------------------------------------------------------------
(* Which spec a request counts for.                                        *)

LEMMA SmallestSpec ==
  ASSUME NEW S \in SUBSET Specs, S # {}, NEW f, \A p \in S : FnOf[p] = f
  PROVE  \E p \in S : \A q \in S \ {p} : Smaller(p, q)
<1>1. IsFiniteSet(S)
  BY AutoscalerAssumption, FS_Subset
<1>2. \A p \in S : SpecCpu[p] \in Int /\ SpecMem[p] \in Int
  BY AutoscalerAssumption
<1>3. PICK c \in S : \A q \in S : SpecCpu[c] <= SpecCpu[q]
  <2>1. PICK num \in [S -> Int] : \A p \in S : num[p] = SpecCpu[p]
    <3>1. [p \in S |-> SpecCpu[p]] \in [S -> Int]
      BY <1>2
    <3> QED
      BY <3>1
  <2>2. \E c \in S : \A q \in S : num[c] <= num[q]
    BY <1>1, SmallestNumber
  <2> QED
    BY <2>1, <2>2
<1> DEFINE T == {p \in S : SpecCpu[p] = SpecCpu[c]}
<1>4. PICK m \in T : \A q \in T : SpecMem[m] <= SpecMem[q]
  <2>1. PICK num \in [T -> Int] : \A p \in T : num[p] = SpecMem[p]
    <3>1. [p \in T |-> SpecMem[p]] \in [T -> Int]
      BY <1>2
    <3> QED
      BY <3>1
  <2>2. T # {} /\ IsFiniteSet(T)
    BY <1>1, <1>3, FS_Subset
  <2>3. \E m \in T : \A q \in T : num[m] <= num[q]
    <3> HIDE DEF T
    <3> QED
      BY <2>2, SmallestNumber
  <2> QED
    BY <2>1, <2>3
<1>5. ASSUME NEW q \in S \ {m} PROVE Smaller(m, q)
  <2>1. SpecCpu[m] # SpecCpu[q] \/ SpecMem[m] # SpecMem[q]
    BY SizeAssumption
  <2> QED
    BY <1>2, <1>3, <1>4, <2>1 DEF Smaller
<1> QED
  BY <1>5

LEMMA LargestSpec ==
  ASSUME NEW S \in SUBSET Specs, S # {}, NEW f, \A p \in S : FnOf[p] = f
  PROVE  \E p \in S : \A q \in S \ {p} : Smaller(q, p)
<1>1. IsFiniteSet(S)
  BY AutoscalerAssumption, FS_Subset
<1>2. \A p \in S : SpecCpu[p] \in Int /\ SpecMem[p] \in Int
  BY AutoscalerAssumption
<1>3. PICK c \in S : \A q \in S : SpecCpu[q] <= SpecCpu[c]
  <2>1. PICK num \in [S -> Int] : \A p \in S : num[p] = SpecCpu[p]
    <3>1. [p \in S |-> SpecCpu[p]] \in [S -> Int]
      BY <1>2
    <3> QED
      BY <3>1
  <2>2. \E c \in S : \A q \in S : num[q] <= num[c]
    BY <1>1, LargestNumber
  <2> QED
    BY <2>1, <2>2
<1> DEFINE T == {p \in S : SpecCpu[p] = SpecCpu[c]}
<1>4. PICK m \in T : \A q \in T : SpecMem[q] <= SpecMem[m]
  <2>1. PICK num \in [T -> Int] : \A p \in T : num[p] = SpecMem[p]
    <3>1. [p \in T |-> SpecMem[p]] \in [T -> Int]
      BY <1>2
    <3> QED
      BY <3>1
  <2>2. T # {} /\ IsFiniteSet(T)
    BY <1>1, <1>3, FS_Subset
  <2>3. \E m \in T : \A q \in T : num[q] <= num[m]
    <3> HIDE DEF T
    <3> QED
      BY <2>2, LargestNumber
  <2> QED
    BY <2>1, <2>3
<1>5. ASSUME NEW q \in S \ {m} PROVE Smaller(q, m)
  <2>1. SpecCpu[m] # SpecCpu[q] \/ SpecMem[m] # SpecMem[q]
    BY SizeAssumption
  <2> QED
    BY <1>2, <1>3, <1>4, <2>1 DEF Smaller
<1> QED
  BY <1>5

(* A request counts for a spec of its own function, and for the smallest   *)
(* that holds it if there is one.                                          *)
LEMMA SpecForHolds ==
  ASSUME NEW r \in Reqs
  PROVE  LET p == SpecFor[r] IN
         /\ p \in SpecsOf(ReqFn[r]) /\ p \in Specs /\ FnOf[p] = ReqFn[r]
         /\ \A q \in SpecsOf(ReqFn[r]) :
              Holds(q, r) => Holds(p, r) /\ (q = p \/ Smaller(p, q))
<1> DEFINE all == SpecsOf(ReqFn[r])
           fitting == {p \in all : Holds(p, r)}
<1>1. ReqFn[r] \in Functions /\ all # {}
  <2>1. ReqFn[r] \in Functions /\ SpecList[ReqFn[r]] # <<>>
    BY AutoscalerAssumption
  <2>2. SpecList[ReqFn[r]] \in Seq(Specs)
    BY <2>1, SpecsOfTyped
  <2>3. 1 \in DOMAIN SpecList[ReqFn[r]]
    BY <2>1, <2>2
  <2> QED
    BY <2>1, <2>3 DEF SpecsOf
<1>2. all \in SUBSET Specs /\ \A p \in all : FnOf[p] = ReqFn[r]
  BY <1>1, SpecsOfTyped, SpecsHaveOneFunction
<1>3. SpecFor[r] = IF fitting # {} THEN CHOOSE p \in fitting : \A q \in fitting \ {p} : Smaller(p, q)
                                   ELSE CHOOSE p \in all : \A q \in all \ {p} : Smaller(q, p)
  BY DEF SpecFor
<1>4. CASE fitting # {}
  <2>1. \E p \in fitting : \A q \in fitting \ {p} : Smaller(p, q)
    <3>1. fitting \in SUBSET Specs /\ \A p \in fitting : FnOf[p] = ReqFn[r]
      BY <1>2
    <3> HIDE DEF fitting
    <3> QED
      BY <1>4, <3>1, SmallestSpec
  <2>2. SpecFor[r] \in fitting /\ \A q \in fitting \ {SpecFor[r]} : Smaller(SpecFor[r], q)
    BY <1>3, <1>4, <2>1
  <2> QED
    BY <1>2, <2>2
<1>5. CASE fitting = {}
  <2>1. \E p \in all : \A q \in all \ {p} : Smaller(q, p)
    <3> HIDE DEF all
    <3> QED
      BY <1>1, <1>2, LargestSpec
  <2>2. SpecFor[r] \in all
    BY <1>3, <1>5, <2>1
  <2> QED
    BY <1>2, <1>5, <2>2
<1> QED
  BY <1>4, <1>5

-----------------------------------------------------------------------------
(* How much is asked for.                                                  *)

LEMMA MaxOfTwo ==
  ASSUME NEW a \in Int, NEW b \in Int
  PROVE  Max({a, b}) \in {a, b} /\ a <= Max({a, b}) /\ b <= Max({a, b})
<1>1. \E x \in {a, b} : \A y \in {a, b} : x >= y
  OBVIOUS
<1> QED
  BY <1>1 DEF Max

LEMMA MinOfTwo ==
  ASSUME NEW a \in Int, NEW b \in Int
  PROVE  Min({a, b}) \in {a, b} /\ Min({a, b}) <= a /\ Min({a, b}) <= b
<1>1. \E x \in {a, b} : \A y \in {a, b} : x <= y
  OBVIOUS
<1> QED
  BY <1>1 DEF Min

LEMMA NeedTyped == ASSUME NEW p \in Specs, NEW r \in Reqs PROVE Need[p][r] \in Nat
<1> DEFINE a == ReqCpu[r] * SpecMem[p]
           b == ReqMem[r] * SpecCpu[p]
<1>1. a \in Nat /\ b \in Nat
  BY AutoscalerAssumption
<1>2. Need[p][r] = Max({a, b})
  BY DEF Need
<1> HIDE DEF a, b
<1>3. a \in Int /\ b \in Int
  BY <1>1
<1>4. Max({a, b}) \in {a, b}
  BY <1>3, MaxOfTwo, Zenon
<1> QED
  BY <1>1, <1>2, <1>4

(* A sample's load is a number, and no less than the need of a request in  *)
(* the sample.                                                             *)
LEMMA LoadCounts ==
  ASSUME NEW p \in Specs, NEW sample \in Samples
  PROVE  /\ Load(p, sample) \in Nat
         /\ \A r \in Reqs : SpecFor[r] = p /\ sample[r] > 0 => Need[p][r] <= Load(p, sample)
<1> DEFINE f == [r \in Reqs |-> sample[r] * Need[p][r]]
           S == {r \in Reqs : SpecFor[r] = p}
<1>1. \A r \in Reqs : sample[r] \in Nat /\ Need[p][r] \in Nat
  BY NeedTyped DEF Samples
<1>2. \A r \in S : f[r] \in Nat /\ 0 <= f[r]
  BY <1>1
<1>3. IsFiniteSet(S)
  BY AutoscalerAssumption, FS_Subset
<1>4. ASSUME NEW r \in S, sample[r] > 0 PROVE Need[p][r] <= f[r]
  <2>1. \A m, n \in Nat : m > 0 => n <= m * n
    OBVIOUS
  <2> QED
    BY <1>1, <1>4, <2>1
<1>5. Load(p, sample) = SumFunctionOnSet(f, S)
  BY DEF Load
<1> HIDE DEF f, S
<1>7. SumFunctionOnSet(f, S) \in Nat
  BY <1>2, <1>3, SumIsNat
<1>8. \A r \in S : f[r] <= SumFunctionOnSet(f, S)
  BY <1>2, <1>3, SumHasTerm
<1> QED
  BY <1>1, <1>2, <1>4, <1>5, <1>7, <1>8 DEF S

LEMMA DemandCounts ==
  ASSUME NEW p \in Specs, NEW his \in Seq(Samples), NEW k \in Nat,
         \A i \in DOMAIN his : k <= Load(p, his[i])
  PROVE  Demand(p, his) \in Nat /\ Len(his) * k <= Demand(p, his)
<1> DEFINE f == [i \in DOMAIN his |-> Load(p, his[i])]
<1>1. DOMAIN f = 1 .. Len(his) /\ Len(his) \in Nat /\ \A i \in DOMAIN his : his[i] \in Samples
  OBVIOUS
<1>2. \A i \in DOMAIN f : f[i] \in Nat /\ k <= f[i]
  BY <1>1, LoadCounts
<1>3. IsFiniteSet(DOMAIN f) /\ Cardinality(DOMAIN f) = Len(his)
  <2>1. IsFiniteSet(1 .. Len(his)) /\ Cardinality(1 .. Len(his)) = Len(his)
    <3>1. 1 \in Int /\ Len(his) \in Int
      BY <1>1
    <3>2. IsFiniteSet(1 .. Len(his))
          /\ Cardinality(1 .. Len(his)) = IF 1 > Len(his) THEN 0 ELSE Len(his) - 1 + 1
      BY <3>1, FS_Interval, Zenon
    <3> QED
      BY <1>1, <3>2
  <2> QED
    BY <1>1, <2>1
<1>4. Demand(p, his) = SumFunctionOnSet(f, DOMAIN f)
  BY DEF Demand, SumFunction
<1> HIDE DEF f
<1>5. SumFunctionOnSet(f, DOMAIN f) \in Nat /\ Cardinality(DOMAIN f) * k <= SumFunctionOnSet(f, DOMAIN f)
  BY <1>2, <1>3, SumIsNat
<1> QED
  BY <1>3, <1>4, <1>5

LEMMA QuotientTyped ==
  ASSUME NEW a \in Nat, NEW b \in Nat \ {0}
  PROVE  a \div b \in Nat /\ (b <= a => 1 <= a \div b)
OBVIOUS

LEMMA RoundedTyped ==
  ASSUME NEW num \in Nat, NEW den \in Nat
  PROVE  /\ Rounded(num, den) \in Nat
         /\ den # 0 /\ den <= 2 * num => 1 <= Rounded(num, den)
<1>1. CASE den = 0
  BY <1>1 DEF Rounded
<1>2. CASE den # 0
  <2>1. 2 * num + den \in Nat /\ 2 * den \in Nat \ {0}
    BY <1>2
  <2>2. den <= 2 * num => 2 * den <= 2 * num + den
    OBVIOUS
  <2>3. Rounded(num, den) = (2 * num + den) \div (2 * den)
    BY <1>2 DEF Rounded
  <2> QED
    BY <2>1, <2>2, <2>3, QuotientTyped
<1> QED
  BY <1>1, <1>2

(* What the autoscaler works towards is within the limits of the spec.     *)
LEMMA ExpectedWithinLimits ==
  ASSUME NEW p \in Specs, NEW his \in Seq(Samples)
  PROVE  /\ Expected(p, his) \in MinReplica[p] .. MaxReplica[p]
         /\ his = <<>> => Expected(p, his) = MinReplica[p]
<1> DEFINE num == Demand(p, his) * ThresholdDen
           den == SpecCpu[p] * SpecMem[p] * Len(his) * ThresholdNum
           avg == Rounded(num, den)
<1>1. Demand(p, his) \in Nat
  <2>1. \A i \in DOMAIN his : his[i] \in Samples
    OBVIOUS
  <2>2. \A i \in DOMAIN his : 0 <= Load(p, his[i])
    BY <2>1, LoadCounts
  <2> QED
    BY <2>2, DemandCounts
<1>2. num \in Nat /\ den \in Nat /\ (his = <<>> => den = 0)
  <2>1. \A a, b \in Nat : a * b \in Nat /\ (b = 0 => a * b = 0 /\ b * a = 0)
    OBVIOUS
  <2>2. /\ SpecCpu[p] \in Nat /\ SpecMem[p] \in Nat /\ Len(his) \in Nat
        /\ ThresholdDen \in Nat /\ ThresholdNum \in Nat
    BY AutoscalerAssumption
  <2>3. num \in Nat
    BY <1>1, <2>1, <2>2
  <2>4. SpecCpu[p] * SpecMem[p] \in Nat
    BY <2>1, <2>2
  <2>5. /\ SpecCpu[p] * SpecMem[p] * Len(his) \in Nat
        /\ his = <<>> => SpecCpu[p] * SpecMem[p] * Len(his) = 0
    BY <2>1, <2>2, <2>4
  <2>6. den \in Nat /\ (his = <<>> => den = 0)
    BY <2>1, <2>2, <2>5
  <2> QED
    BY <2>3, <2>6
<1>3. /\ MinReplica[p] \in Nat /\ MaxReplica[p] \in Nat /\ MinReplica[p] <= MaxReplica[p]
  BY ManagerAssumption, ReplicaAssumption
<1>4. Expected(p, his) = Min({MaxReplica[p], Max({MinReplica[p], avg})})
  BY DEF Expected
<1>5. avg \in Nat /\ (his = <<>> => avg = 0)
  <2> HIDE DEF num, den
  <2> QED
    BY <1>2, RoundedTyped DEF Rounded
<1> HIDE DEF avg
<1> DEFINE m == Max({MinReplica[p], avg})
<1>6. m \in {MinReplica[p], avg} /\ MinReplica[p] <= m /\ avg <= m
  <2>1. MinReplica[p] \in Int /\ avg \in Int
    BY <1>3, <1>5
  <2> QED
    BY <2>1, MaxOfTwo, Zenon
<1>7. Expected(p, his) \in {MaxReplica[p], m} /\ Expected(p, his) <= MaxReplica[p]
      /\ Expected(p, his) <= m
  <2>1. MaxReplica[p] \in Int /\ m \in Int /\ Expected(p, his) = Min({MaxReplica[p], m})
    BY <1>3, <1>4, <1>5, <1>6
  <2> HIDE DEF m
  <2> QED
    BY <2>1, MinOfTwo, Zenon
<1> HIDE DEF m
<1> QED
  BY <1>3, <1>5, <1>6, <1>7

(* A request that is in every sample and suffices raises the target to one *)
(* instance.                                                               *)
LEMMA DemandSuffices ==
  ASSUME NEW r \in Reqs, NEW his \in Seq(Samples), his # <<>>,
         \A i \in DOMAIN his : his[i][r] > 0, Suffices(r, SpecFor[r])
  PROVE  1 <= Expected(SpecFor[r], his)
<1> DEFINE p == SpecFor[r]
           k == Need[p][r]
           d == Demand(p, his)
           c == SpecCpu[p] * SpecMem[p]
           num == d * ThresholdDen
           den == c * Len(his) * ThresholdNum
           avg == Rounded(num, den)
<1>1. p \in Specs /\ k \in Nat
  BY SpecForHolds, NeedTyped
<1>2. /\ c \in Nat \ {0} /\ Len(his) \in Nat \ {0}
      /\ ThresholdNum \in Nat \ {0} /\ ThresholdDen \in Nat \ {0}
      /\ MinReplica[p] \in Nat /\ MaxReplica[p] \in Nat /\ MaxReplica[p] > 0
      /\ c * ThresholdNum <= 2 * k * ThresholdDen
  <2>1. SpecCpu[p] \in Nat \ {0} /\ SpecMem[p] \in Nat \ {0}
    BY <1>1, AutoscalerAssumption
  <2>2. \A a, b \in Nat \ {0} : a * b \in Nat \ {0}
    OBVIOUS
  <2>3. c \in Nat \ {0}
    BY <2>1, <2>2
  <2>4. 2 * k * ThresholdDen >= c * ThresholdNum /\ MaxReplica[p] > 0
    BY DEF Suffices
  <2>5. MinReplica[p] \in Nat /\ MaxReplica[p] \in Nat
    BY <1>1, ManagerAssumption
  <2>6. Len(his) \in Nat \ {0}
    OBVIOUS
  <2>7. ThresholdNum \in Nat \ {0} /\ ThresholdDen \in Nat \ {0}
    BY AutoscalerAssumption
  <2> HIDE DEF c, k, p
  <2>8. c * ThresholdNum \in Int /\ 2 * k * ThresholdDen \in Int
    BY <1>1, <2>3, <2>7
  <2> QED
    BY <2>3, <2>4, <2>5, <2>6, <2>7, <2>8
<1>3. d \in Nat /\ Len(his) * k <= d
  <2>1. \A i \in DOMAIN his : his[i] \in Samples
    OBVIOUS
  <2>2. \A i \in DOMAIN his : k <= Load(p, his[i])
    BY <1>1, <2>1, LoadCounts
  <2> HIDE DEF p, k
  <2> QED
    BY <1>1, <2>2, DemandCounts
<1>4. Expected(p, his) = Min({MaxReplica[p], Max({MinReplica[p], avg})})
  BY DEF Expected
<1> HIDE DEF p, k, d, c
<1>5. num \in Nat /\ den \in Nat /\ den # 0 /\ den <= 2 * num
  <2>1. \A a, b \in Nat \ {0} : a * b \in Nat \ {0}
    OBVIOUS
  <2>2. \A x, y, z \in Nat : x <= y => x * z <= y * z
    OBVIOUS
  <2>3. c * Len(his) \in Nat \ {0} /\ den \in Nat \ {0}
    BY <1>2, <2>1
  <2>4. num \in Nat /\ Len(his) * k \in Nat /\ (Len(his) * k) * ThresholdDen <= num
    BY <1>1, <1>2, <1>3, <2>2
  <2>5. c * ThresholdNum \in Nat /\ 2 * k * ThresholdDen \in Nat
    BY <1>1, <1>2
  <2>6. (c * ThresholdNum) * Len(his) <= (2 * k * ThresholdDen) * Len(his)
    BY <1>2, <2>2, <2>5
  <2>7. den = (c * ThresholdNum) * Len(his)
    BY <1>2
  <2>8. (2 * k * ThresholdDen) * Len(his) = 2 * ((Len(his) * k) * ThresholdDen)
    BY <1>1, <1>2
  <2>9. 2 * ((Len(his) * k) * ThresholdDen) <= 2 * num
    BY <1>1, <1>2, <2>4
  <2> HIDE DEF num, den
  <2>10. den <= 2 * ((Len(his) * k) * ThresholdDen)
    BY <2>6, <2>7, <2>8
  <2>11. (Len(his) * k) * ThresholdDen \in Nat
    BY <1>2, <2>4
  <2> QED
    BY <2>3, <2>4, <2>9, <2>10, <2>11
<1>6. avg \in Nat /\ 1 <= avg
  <2> HIDE DEF num, den
  <2> QED
    BY <1>5, RoundedTyped
<1> HIDE DEF avg
<1> DEFINE m == Max({MinReplica[p], avg})
<1>7. m \in {MinReplica[p], avg} /\ avg <= m
  <2>1. MinReplica[p] \in Int /\ avg \in Int
    BY <1>2, <1>6
  <2> QED
    BY <2>1, MaxOfTwo, Zenon
<1>8. Expected(p, his) \in {MaxReplica[p], m}
  <2>1. MaxReplica[p] \in Int /\ m \in Int /\ Expected(p, his) = Min({MaxReplica[p], m})
    BY <1>2, <1>4, <1>6, <1>7
  <2> HIDE DEF m
  <2> QED
    BY <2>1, MinOfTwo, Zenon
<1> HIDE DEF m
<1>9. 1 <= Expected(p, his)
  BY <1>2, <1>6, <1>7, <1>8
<1> QED
  BY <1>9 DEF p

LEMMA ScaleCntTyped ==
  ASSUME HandInv, NEW p \in Specs, auto.his \in Seq(Samples)
  PROVE  ScaleCnt(p) \in Int /\ Cardinality(RowsOf(p)) \in Nat
<1>1. RowsOf(p) \in SUBSET Services
  BY DEF HandInv, TablesTyped, RowsOf
<1>2. Cardinality(RowsOf(p)) \in Nat
  BY <1>1, ServicesFinite
<1>3. MinReplica[p] \in Nat /\ MaxReplica[p] \in Nat
  BY ManagerAssumption
<1>4. Expected(p, auto.his) \in Int
  BY <1>3, ExpectedWithinLimits
<1> QED
  BY <1>2, <1>4 DEF ScaleCnt

LEMMA AsksForInstance ==
  ASSUME HandInv, auto.his \in Seq(Samples), DOMAIN auto = {"at", "got", "his", "known", "todo"},
         ReadsInstances, NEW r \in Reqs,
         auto.his # <<>>, \A i \in DOMAIN auto.his : auto.his[i][r] > 0,
         ReqFn[r] \in auto.known, Suffices(r, SpecFor[r]), RowsOf(SpecFor[r]) = {}
  PROVE  \E t \in auto'.todo : t[1] = SpecFor[r] /\ t[2] > 0
<1> DEFINE p == SpecFor[r]
           specs == UNION {SpecsOf(f) : f \in auto.known}
<1>1. p \in Specs /\ p \in specs
  BY SpecForHolds
<1>2. 1 <= Expected(p, auto.his)
  BY DemandSuffices
<1>3. Cardinality(RowsOf(p)) = 0
  BY FS_EmptySet
<1>4. ScaleCnt(p) \in Int /\ ScaleCnt(p) = Expected(p, auto.his) - 0
  BY <1>1, <1>3, ScaleCntTyped DEF ScaleCnt
<1>5. Expected(p, auto.his) \in Int
  <2>1. MinReplica[p] \in Nat /\ MaxReplica[p] \in Nat
    BY <1>1, ManagerAssumption
  <2> QED
    BY <1>1, <2>1, ExpectedWithinLimits
<1>6. ScaleCnt(p) > 0
  BY <1>2, <1>4, <1>5
<1>7. auto'.todo = {<<q, ScaleCnt(q)>> : q \in {x \in specs : ScaleCnt(x) # 0}}
  BY DEF ReadsInstances
<1> HIDE DEF specs
<1>8. <<p, ScaleCnt(p)>> \in auto'.todo
  BY <1>1, <1>6, <1>7
<1> QED
  BY <1>6, <1>8

-----------------------------------------------------------------------------
(* What the autoscaler samples.                                            *)

Places == {"none", "queued", "both", "placed", "done"}
Demands == {t \in Specs \X Int : t[2] # 0}

SamplingTyped ==
  /\ req \in [Reqs -> Places] /\ held \subseteq Reqs
  /\ auto \in [at : {"tick", "records", "metadata", "instances", "scale"}, got : SUBSET Reqs,
               his : {h \in Seq(Samples) : Len(h) <= WindowLen}, known : SUBSET Functions,
               todo : SUBSET Demands]

(* Between the two reads, a request that has been there since the first is *)
(* in what it returned, or in the records that the second will read.       *)
HeldAreSeen == auto.at = "records" => \A r \in held : r \in auto.got \/ HasRecord(r)

SampleInv == SamplingTyped /\ HeldAreSeen

LEMMA SampleInit == AInit => SampleInv
<1>1. Loop.his = <<>> /\ Len(<<>>) <= WindowLen
  BY AutoscalerAssumption DEF Loop
<1> QED
  BY <1>1 DEF AInit, SampleInv, SamplingTyped, HeldAreSeen, Loop, Places

-----------------------------------------------------------------------------
(* The steps.                                                              *)

(* A round does not come to its second read without the first.             *)
LEMMA LoopGoesOn ==
  ASSUME SampleInv, NEW at \in {"tick", "metadata", "instances", "scale"},
         NEW got \in SUBSET Reqs, NEW his \in Seq(Samples), Len(his) <= WindowLen,
         NEW known \in SUBSET Functions, NEW todo \in SUBSET Demands,
         auto' = [at |-> at, got |-> got, his |-> his, known |-> known, todo |-> todo],
         req' \in [Reqs -> Places], held' \subseteq Reqs
  PROVE  SampleInv'
BY DEF SampleInv, SamplingTyped, HeldAreSeen

LEMMA MoveReqKeeps ==
  ASSUME SampleInv, NEW r \in Reqs,
         NEW from, NEW to \in {"queued", "both", "placed", "done"}, MoveReq(r, from, to),
         (from = "none" /\ to = "queued") \/ to \in {"both", "placed", "done"}
  PROVE  SampleInv'
<1>1. /\ req[r] = from /\ req' = [req EXCEPT ![r] = to] /\ UNCHANGED auto
      /\ held' = IF to = "done" THEN held \ {r} ELSE held
  BY DEF MoveReq
<1>2. SamplingTyped'
  BY <1>1 DEF SampleInv, SamplingTyped, Places
<1>3. \A q \in Reqs : q # r => HasRecord(q)' = HasRecord(q)
  BY <1>1 DEF HasRecord, SampleInv, SamplingTyped
<1>4. to # "done" /\ HasRecord(r) => HasRecord(r)'
  BY <1>1 DEF HasRecord, SampleInv, SamplingTyped
<1>5. HeldAreSeen'
  <2> SUFFICES ASSUME auto.at = "records", NEW q \in held'
               PROVE  q \in auto.got \/ HasRecord(q)'
    BY <1>1 DEF HeldAreSeen
  <2>1. q \in held /\ q \in Reqs /\ (q = r => to # "done")
    BY <1>1 DEF SampleInv, SamplingTyped
  <2>2. q \in auto.got \/ HasRecord(q)
    BY <2>1 DEF SampleInv, HeldAreSeen
  <2> QED
    BY <1>3, <1>4, <2>1, <2>2
<1> QED
  BY <1>2, <1>5 DEF SampleInv

(* Another request like r: it has no record, and had none.                 *)
LEMMA ComesAgainKeeps ==
  ASSUME SampleInv, NEW r \in Reqs, ComesAgain(r)
  PROVE  SampleInv'
<1>1. /\ req[r] = "done" /\ req' = [req EXCEPT ![r] = "queued"]
      /\ UNCHANGED <<auto, held>>
  BY DEF ComesAgain
<1>2. SamplingTyped'
  BY <1>1 DEF SampleInv, SamplingTyped, Places
<1>3. \A q \in Reqs : HasRecord(q)' = HasRecord(q)
  BY <1>1 DEF HasRecord, SampleInv, SamplingTyped
<1>4. HeldAreSeen'
  BY <1>1, <1>3 DEF SampleInv, SamplingTyped, HeldAreSeen
<1> QED
  BY <1>2, <1>4 DEF SampleInv

LEMMA TickKeeps == ASSUME SampleInv, Tick PROVE SampleInv'
<1>1. /\ auto' = [auto EXCEPT !.at = "records", !.got = Source(1)] /\ UNCHANGED req
      /\ held' = {r \in Reqs : InQueue(r) \/ HasRecord(r)}
  BY DEF Tick
<1>2. Source(1) = {r \in Reqs : InQueue(r)}
  BY DEF Source
<1>3. \A r \in Reqs : HasRecord(r)' = HasRecord(r)
  BY <1>1 DEF HasRecord
<1>4. auto'.got = Source(1)
  BY <1>1 DEF SampleInv, SamplingTyped
<1>5. HeldAreSeen'
  BY <1>1, <1>2, <1>3, <1>4 DEF HeldAreSeen
<1>6. SamplingTyped'
  BY <1>1, <1>2 DEF SampleInv, SamplingTyped
<1> QED
  BY <1>5, <1>6 DEF SampleInv

(* A request is in a sample as often as the two reads returned it.         *)
SampleOf(lists) == [r \in Reqs |-> Cardinality({n \in 1 .. 2 : r \in lists[n]})]

LEMMA SampleCounts ==
  ASSUME NEW a, NEW b
  PROVE  /\ SampleOf(<<a, b>>) \in Samples
         /\ \A r \in Reqs : r \in a \/ r \in b => SampleOf(<<a, b>>)[r] > 0
<1> DEFINE lists == <<a, b>>
           in(r) == {n \in 1 .. 2 : r \in lists[n]}
<1>1. ASSUME NEW r PROVE Cardinality(in(r)) \in 0 .. 2 /\ IsFiniteSet(in(r))
  <2>1. IsFiniteSet(1 .. 2) /\ Cardinality(1 .. 2) = 2
    <3>1. IsFiniteSet({1}) /\ Cardinality({1}) = 1
      BY FS_Singleton
    <3>2. IsFiniteSet({1} \cup {2}) /\ Cardinality({1} \cup {2}) = 2
      BY <3>1, FS_AddElement
    <3>3. 1 .. 2 = {1} \cup {2}
      OBVIOUS
    <3> QED
      BY <3>2, <3>3
  <2> QED
    BY <2>1, FS_Subset, FS_CardinalityType
<1>2. ASSUME NEW r, r \in a \/ r \in b PROVE Cardinality(in(r)) # 0
  <2>1. 1 \in in(r) \/ 2 \in in(r)
    BY <1>2
  <2> QED
    BY <1>1, <2>1, FS_EmptySet
<1> HIDE DEF in
<1>3. SampleOf(<<a, b>>) = [r \in Reqs |-> Cardinality(in(r))]
  BY DEF SampleOf, in
<1> QED
  BY <1>1, <1>2, <1>3 DEF Samples

(* The window keeps its newest sample.                                     *)
LEMMA TrimKeepsNewest ==
  ASSUME NEW s \in Samples, NEW his \in Seq(Samples)
  PROVE  /\ Trim(<<s>> \o his) \in Seq(Samples) /\ Len(Trim(<<s>> \o his)) <= WindowLen
         /\ WindowLen > 0 => Head(Trim(<<s>> \o his)) = s
<1> DEFINE all == <<s>> \o his
           m == Min({Len(all), WindowLen})
<1>1. all \in Seq(Samples) /\ Len(all) \in Nat /\ Len(all) >= 1 /\ all[1] = s
  OBVIOUS
<1>2. WindowLen \in Nat
  BY AutoscalerAssumption
<1> HIDE DEF all
<1>3. m \in {Len(all), WindowLen} /\ m <= Len(all) /\ m <= WindowLen
  <2>1. \E x \in {Len(all), WindowLen} : \A y \in {Len(all), WindowLen} : x <= y
    BY <1>1, <1>2
  <2> QED
    BY <2>1 DEF Min
<1>4. m \in 0 .. Len(all)
  BY <1>1, <1>2, <1>3
<1> HIDE DEF m
<1>5. SubSeq(all, 1, m) \in Seq(Samples) /\ Len(SubSeq(all, 1, m)) = m
  BY <1>1, <1>4
<1>6. WindowLen > 0 => Head(SubSeq(all, 1, m)) = s
  BY <1>1, <1>2, <1>3, <1>4, <1>5
<1>7. Trim(all) = SubSeq(all, 1, m)
  BY DEF Trim, m
<1> QED
  BY <1>3, <1>5, <1>6, <1>7 DEF all

LEMMA TakesSampleKeeps ==
  ASSUME SampleInv, TakesSample
  PROVE  /\ SampleInv'
         /\ WindowLen > 0 => \A r \in held : Head(auto'.his)[r] > 0
<1> DEFINE sample == SampleOf(<<auto.got, Source(2)>>)
           his == <<sample>> \o auto.his
<1>1. /\ auto.at = "records" /\ held' = {} /\ UNCHANGED req
      /\ auto' = [auto EXCEPT !.got = {}, !.his = Trim(his),
                    !.at = IF Len(his) < WindowLen THEN "tick" ELSE "metadata"]
  BY DEF TakesSample, SampleOf
<1>2. sample \in Samples /\ auto.his \in Seq(Samples)
  BY SampleCounts DEF SampleInv, SamplingTyped
<1>3. \A r \in held : sample[r] > 0
  <2>1. \A r \in held : r \in Reqs /\ (r \in auto.got \/ r \in Source(2))
    BY <1>1 DEF SampleInv, SamplingTyped, HeldAreSeen, Source
  <2> QED
    BY <2>1, SampleCounts
<1> HIDE DEF sample
<1>4. /\ Trim(his) \in Seq(Samples) /\ Len(Trim(his)) <= WindowLen
      /\ WindowLen > 0 => Head(Trim(his)) = sample
  BY <1>2, TrimKeepsNewest
<1> DEFINE at == IF Len(his) < WindowLen THEN "tick" ELSE "metadata"
<1>5. at \in {"tick", "metadata", "instances", "scale"}
  OBVIOUS
<1> HIDE DEF his, at
<1>6. auto' = [at |-> at, got |-> {}, his |-> Trim(his), known |-> auto.known,
               todo |-> auto.todo]
  BY <1>1 DEF SampleInv, SamplingTyped, at
<1>7. SampleInv'
  <2>1. /\ req' \in [Reqs -> Places]
        /\ held' \subseteq Reqs /\ {} \in SUBSET Reqs
        /\ auto.known \in SUBSET Functions /\ auto.todo \in SUBSET Demands
    BY <1>1 DEF SampleInv, SamplingTyped
  <2> QED
    BY <2>1, <1>4, <1>5, <1>6, LoopGoesOn
<1>8. auto'.his = Trim(his)
  BY <1>6
<1> QED
  BY <1>3, <1>4, <1>7, <1>8

(* The later steps of a round, and the end of the process.                 *)
LEMMA RoundKeeps ==
  ASSUME SampleInv, HandInv,
         ReadsMetadata \/ ReadsInstances \/ ReadFails \/ RoundEnds
           \/ \E t \in auto.todo : CallsScale(t)
  PROVE  SampleInv'
<1>1. /\ auto.got \in SUBSET Reqs /\ auto.his \in Seq(Samples) /\ Len(auto.his) <= WindowLen
      /\ auto.known \in SUBSET Functions /\ auto.todo \in SUBSET Demands
      /\ {} \in SUBSET Reqs /\ {} \in SUBSET Functions
      /\ req \in [Reqs -> Places] /\ held \subseteq Reqs
      /\ auto = [at |-> auto.at, got |-> auto.got, his |-> auto.his, known |-> auto.known,
                 todo |-> auto.todo]
  BY DEF SampleInv, SamplingTyped
<1>2. CASE ReadsMetadata
  <2>1. UNCHANGED <<req, held>> /\ auto' = [auto EXCEPT !.at = "instances", !.known = meta]
    BY <1>2 DEF ReadsMetadata
  <2>2. auto' = [at |-> "instances", got |-> auto.got, his |-> auto.his, known |-> meta,
                 todo |-> auto.todo]
    BY <1>1, <2>1
  <2>3. meta \in SUBSET Functions
    BY DEF HandInv, TablesTyped
  <2>4. req' \in [Reqs -> Places] /\ held' \subseteq Reqs
    BY <1>1, <2>1
  <2> QED
    BY <1>1, <2>2, <2>3, <2>4, LoopGoesOn
<1>3. CASE ReadsInstances
  <2> DEFINE specs == UNION {SpecsOf(f) : f \in auto.known}
             todo == {<<p, ScaleCnt(p)>> : p \in {q \in specs : ScaleCnt(q) # 0}}
  <2>1. /\ UNCHANGED <<req, held>>
        /\ auto' = [auto EXCEPT !.at = "scale", !.known = {}, !.todo = todo]
    BY <1>3 DEF ReadsInstances
  <2>2. todo \in SUBSET Demands
    <3>1. \A p \in specs : p \in Specs
      BY <1>1, SpecsOfTyped
    <3>2. \A p \in specs : ScaleCnt(p) \in Int
      BY <1>1, <3>1, ScaleCntTyped
    <3> HIDE DEF specs
    <3> QED
      BY <3>1, <3>2 DEF Demands
  <2> HIDE DEF todo
  <2>3. auto' = [at |-> "scale", got |-> auto.got, his |-> auto.his, known |-> {},
                 todo |-> todo]
    BY <1>1, <2>1
  <2>4. req' \in [Reqs -> Places] /\ held' \subseteq Reqs
    BY <1>1, <2>1
  <2> QED
    BY <1>1, <2>2, <2>3, <2>4, LoopGoesOn
<1>4. CASE ReadFails
  <2>1. /\ UNCHANGED req /\ held' = {}
        /\ auto' = [auto EXCEPT !.at = "tick", !.got = {}, !.known = {}]
    BY <1>4 DEF ReadFails
  <2>2. auto' = [at |-> "tick", got |-> {}, his |-> auto.his, known |-> {}, todo |-> auto.todo]
    BY <1>1, <2>1
  <2>3. req' \in [Reqs -> Places] /\ held' \subseteq Reqs
    BY <1>1, <2>1
  <2> QED
    BY <1>1, <2>2, <2>3, LoopGoesOn
<1>5. CASE RoundEnds
  <2>1. UNCHANGED <<req, held>> /\ auto' = [auto EXCEPT !.at = "tick"]
    BY <1>5 DEF RoundEnds
  <2>2. auto' = [at |-> "tick", got |-> auto.got, his |-> auto.his, known |-> auto.known,
                 todo |-> auto.todo]
    BY <1>1, <2>1
  <2>3. req' \in [Reqs -> Places] /\ held' \subseteq Reqs
    BY <1>1, <2>1
  <2> QED
    BY <1>1, <2>2, <2>3, LoopGoesOn
<1>6. ASSUME NEW t \in auto.todo, CallsScale(t) PROVE SampleInv'
  <2>1. UNCHANGED <<req, held>> /\ auto.at = "scale" /\ auto' = [auto EXCEPT !.todo = @ \ {t}]
    BY <1>6 DEF CallsScale
  <2>2. auto' = [at |-> "scale", got |-> auto.got, his |-> auto.his, known |-> auto.known,
                 todo |-> auto.todo \ {t}]
    BY <1>1, <2>1
  <2>3. /\ req' \in [Reqs -> Places] /\ held' \subseteq Reqs
        /\ auto.todo \ {t} \in SUBSET Demands
    BY <1>1, <2>1
  <2> QED
    BY <1>1, <2>2, <2>3, LoopGoesOn
<1> QED
  BY <1>2, <1>3, <1>4, <1>5, <1>6

LEMMA DiesKeeps == ASSUME SampleInv, Dies PROVE SampleInv'
<1>1. /\ auto' = [at |-> "tick", got |-> {}, his |-> <<>>, known |-> {}, todo |-> {}]
      /\ held' = {}
  BY DEF Dies, Loop
<1>2. req' \in [Reqs -> Places]
  BY DEF Dies, Places
<1>3. /\ <<>> \in Seq(Samples) /\ Len(<<>>) <= WindowLen /\ held' \subseteq Reqs
      /\ {} \in SUBSET Reqs /\ {} \in SUBSET Functions /\ {} \in SUBSET Demands
  BY <1>1, AutoscalerAssumption
<1> QED
  BY <1>1, <1>2, <1>3, LoopGoesOn

LEMMA UntouchedKeeps == ASSUME SampleInv, UNCHANGED autoVars PROVE SampleInv'
BY DEF SampleInv, SamplingTyped, HeldAreSeen, HasRecord, autoVars

LEMMA SampleNext == ASSUME SampleInv, HandInv, [ANext]_allVars PROVE SampleInv'
<1>1. CASE Tick
  BY <1>1, TickKeeps
<1>2. CASE TakesSample
  BY <1>2, TakesSampleKeeps
<1>3. CASE ReadsMetadata \/ ReadsInstances \/ ReadFails \/ RoundEnds
             \/ \E t \in auto.todo : CallsScale(t)
  BY <1>3, RoundKeeps
<1>4. CASE Panics \/ (Restart /\ Dies)
  BY <1>4, DiesKeeps DEF Panics
<1>5. CASE \E r \in Reqs : Comes(r) \/ Records(r) \/ Pops(r) \/ Ends(r)
  BY <1>5, MoveReqKeeps DEF Comes, Records, Pops, Ends
<1>6. CASE UNCHANGED autoVars
  BY <1>6, UntouchedKeeps
<1>7. CASE UNCHANGED allVars
  BY <1>7, UntouchedKeeps DEF allVars
<1>8. CASE AutoSteps
  BY <1>1, <1>2, <1>3, <1>4, <1>8 DEF AutoSteps
<1>9. CASE \E r \in Reqs : ComesAgain(r)
  BY <1>9, ComesAgainKeeps
<1> QED
  BY <1>3, <1>4, <1>5, <1>6, <1>7, <1>8, <1>9 DEF ANext, Manager, MonitorBringsBack

-----------------------------------------------------------------------------
(* What the autoscaler's process adds to the steps of FuncManager: the     *)
(* autoscaler's own operation begins anew when its last call has ended,    *)
(* the process ends, a read fails, a row comes back.                       *)

OwnCall == op[AutoOp].kind \in {"none", "scale"}

BeginsAnew(o) ==
  /\ op[o].kind \in {"none", "scale"}
  /\ op'[o] = Idle \/ \E p \in Specs, n \in Int : op'[o] = ScaleFunction(p, n)

HostStep ==
  /\ UNCHANGED <<meta, taskDefs, rowId, ecs>> /\ faults' \in 0 .. MaxFaults
  /\ rows \subseteq rows' /\ rows' \subseteq Numbered /\ deleting' \subseteq deleting
  /\ monitor' = monitor \/ monitor' = [at |-> "list", todo |-> {}, ins |-> {}]
  /\ op' = [o \in Ops |-> op'[o]]
  /\ \A o \in Ops : op'[o] = op[o] \/ op'[o] = [op[o] EXCEPT !.pc = "failed"] \/ BeginsAnew(o)

AutoInv == SampleInv /\ HandInv /\ OwnCall

LEMMA HostsOrManages ==
  ASSUME AutoInv, [ANext]_allVars
  PROVE  HostStep \/ [Next]_vars
<1>1. /\ op \in [Ops -> OpStates] /\ AutoOp \in Ops /\ faults \in 0 .. MaxFaults
      /\ rows \subseteq Numbered /\ op[AutoOp].kind \in {"none", "scale"}
  BY AutoscalerAssumption DEF AutoInv, HandInv, OpsTyped, TablesTyped, SeenAreNumbered, OwnCall
<1>2. ASSUME NEW x, op' = [op EXCEPT ![AutoOp] = x],
             x = Idle \/ \E p \in Specs, n \in Int : x = ScaleFunction(p, n),
             UNCHANGED <<tables, ecs, deleting, monitor, faults>>
      PROVE  HostStep
  <2>1. op'[AutoOp] = x /\ \A o \in Ops \ {AutoOp} : op'[o] = op[o]
    BY <1>1, <1>2
  <2>2. BeginsAnew(AutoOp)
    BY <1>1, <1>2, <2>1 DEF BeginsAnew
  <2>3. \A o \in Ops : op'[o] = op[o] \/ BeginsAnew(o)
    BY <2>1, <2>2
  <2>4. op' = [o \in Ops |-> op'[o]]
    BY <1>1, <1>2
  <2> QED
    BY <1>1, <1>2, <2>3, <2>4 DEF HostStep, tables
<1>3. ASSUME NEW t \in auto.todo, CallsScale(t) PROVE HostStep
  <2>1. t[1] \in Specs /\ t[2] \in Int
    BY DEF AutoInv, SampleInv, SamplingTyped, Demands
  <2>2. /\ op' = [op EXCEPT ![AutoOp] = ScaleFunction(t[1], t[2])]
        /\ UNCHANGED <<tables, ecs, deleting, monitor, faults>>
    BY <1>3 DEF CallsScale
  <2> QED
    BY <1>2, <2>1, <2>2
<1>4. CASE RoundEnds
  BY <1>2, <1>4 DEF RoundEnds
<1>5. CASE Panics
  <2>1. /\ op' = [o \in Ops |-> IF op[o].pc \in {"idle", "returned", "failed"}
                                THEN op[o] ELSE [op[o] EXCEPT !.pc = "failed"]]
        /\ deleting' = {} /\ monitor' = [at |-> "list", todo |-> {}, ins |-> {}]
        /\ UNCHANGED <<tables, ecs, faults>>
    BY <1>5 DEF Panics, ProcessEnds
  <2>2. \A o \in Ops : op'[o] = op[o] \/ op'[o] = [op[o] EXCEPT !.pc = "failed"]
    BY <2>1
  <2>3. op' = [o \in Ops |-> op'[o]]
    BY <2>1
  <2> QED
    BY <1>1, <2>1, <2>2, <2>3 DEF HostStep, tables
<1>6. ASSUME UNCHANGED <<tables, ecs, op, deleting, monitor>>, faults' \in 0 .. MaxFaults
      PROVE  HostStep
  BY <1>1, <1>6 DEF HostStep, tables
<1>7. CASE ReadFails
  BY <1>1, <1>6, <1>7, FaultTyped DEF ReadFails, Fault, AutoInv, HandInv, FaultKinds
<1>8. ASSUME NEW s \in Services, MonitorBringsBack(s) PROVE HostStep
  <2>1. s \in Numbered /\ rows' = rows \cup {s}
    BY <1>8 DEF MonitorBringsBack, Numbered
  <2>2. faults' \in 0 .. MaxFaults
    BY <1>1, <1>8, ManagerAssumption DEF MonitorBringsBack
  <2> QED
    BY <1>1, <1>8, <2>1, <2>2 DEF MonitorBringsBack, HostStep
<1>9. CASE UNCHANGED vars
  BY <1>9
<1>10. CASE Tick \/ TakesSample \/ ReadsMetadata \/ ReadsInstances
            \/ \E r \in Reqs : Comes(r) \/ Records(r) \/ Pops(r) \/ Ends(r)
  BY <1>9, <1>10 DEF Tick, TakesSample, ReadsMetadata, ReadsInstances, Comes, Records, Pops,
                     Ends, MoveReq
<1>11. CASE \/ \E o \in Ops : Manager(Continues(o)) \/ Manager(Begins(o))
            \/ \E s \in Services : Manager(AsyncDelete(s))
            \/ Restart
  BY <1>11 DEF Manager, Next, Background
<1>12. CASE AutoSteps
  BY <1>3, <1>4, <1>5, <1>10, <1>12 DEF AutoSteps
<1>13. ASSUME NEW r \in Reqs, ComesAgain(r) PROVE HostStep
  BY <1>6, <1>13, ManagerAssumption DEF ComesAgain
<1> QED
  BY <1>7, <1>8, <1>9, <1>10, <1>11, <1>12, <1>13 DEF ANext, allVars

(* How a step of the host leaves the calls.                                *)
LEMMA HostCalls ==
  ASSUME HandInv, HostStep, NEW o \in Ops
  PROVE  /\ op'[o] \in OpStates
         /\ \/ op'[o] = op[o]
            \/ /\ op'[o].pc = "failed" /\ op'[o].kind = op[o].kind /\ op'[o].fn = op[o].fn
               /\ op'[o].spec = op[o].spec /\ op'[o].todo = op[o].todo
               /\ op'[o].made = op[o].made /\ op'[o].seen = op[o].seen
            \/ /\ op[o].kind \in {"none", "scale"} /\ op'[o].seen = {} /\ op'[o].made = {}
               /\ \/ op'[o].kind = "none" /\ op'[o].pc = "idle"
                  \/ /\ op'[o].kind = "scale" /\ op'[o].spec \in Specs
                     /\ op'[o].pc = IF FnOf[op'[o].spec] \in meta THEN "read" ELSE "failed"
<1>1. op[o] \in OpStates
  BY OpTyped DEF HandInv
<1>2. CASE op'[o] = op[o]
  BY <1>1, <1>2
<1>3. CASE op'[o] = [op[o] EXCEPT !.pc = "failed"]
  BY <1>1, <1>3 DEF OpStates, Pcs
<1>4. CASE op[o].kind \in {"none", "scale"} /\ op'[o] = Idle
  BY <1>4, IdleTyped DEF Idle
<1>5. ASSUME op[o].kind \in {"none", "scale"}, NEW p \in Specs, NEW n \in Int,
             op'[o] = ScaleFunction(p, n)
      PROVE  /\ op'[o] \in OpStates /\ op'[o].seen = {} /\ op'[o].made = {}
             /\ op'[o].kind = "scale" /\ op'[o].spec = p
             /\ op'[o].pc = IF FnOf[p] \in meta THEN "read" ELSE "failed"
  <2>1. op'[o] = [pc |-> IF FnOf[p] \in meta THEN "read" ELSE "failed", kind |-> "scale",
                  fn |-> NoFn, spec |-> p, cnt |-> n, seen |-> {}, made |-> {}, todo |-> <<>>]
    BY <1>5 DEF ScaleFunction, Idle
  <2>2. op'[o] \in OpStates
    BY <2>1 DEF OpStates, Pcs
  <2> QED
    BY <2>1, <2>2
<1>6. \/ op'[o] = op[o] \/ op'[o] = [op[o] EXCEPT !.pc = "failed"]
      \/ op[o].kind \in {"none", "scale"} /\ op'[o] = Idle
      \/ op[o].kind \in {"none", "scale"} /\ \E p \in Specs, n \in Int : op'[o] = ScaleFunction(p, n)
  BY DEF HostStep, BeginsAnew
<1> QED
  BY <1>2, <1>3, <1>4, <1>5, <1>6

LEMMA HostHands ==
  ASSUME HandInv, HostStep
  PROVE  /\ HandInv' /\ Numbered' = Numbered /\ UNCHANGED <<service, specOf, role, rowId, meta>>
         /\ \A o \in Ops : HeldBy(o)' \subseteq HeldBy(o)
         /\ DeleteCalled' <=> DeleteCalled
<1>1. UNCHANGED <<service, specOf, role, rowId, meta, taskDefs>> /\ faults' \in 0 .. MaxFaults
  BY DEF HostStep, ecs
<1>2. Numbered' = Numbered
  BY <1>1 DEF Numbered
<1>3. \A o \in Ops : HeldBy(o)' \subseteq HeldBy(o)
  BY HostCalls DEF HeldBy
<1>4. \A o \in Ops : op'[o].kind = "delete" <=> op[o].kind = "delete"
  BY HostCalls
<1>5. OpsTyped'
  <2>1. op' = [o \in Ops |-> op'[o]]
    BY DEF HostStep
  <2>2. op' \in [Ops -> OpStates]
    BY <2>1, HostCalls
  <2>3. ASSUME NEW o \in Ops
        PROVE  /\ op'[o].pc = "idle" => op'[o].kind = "none"
               /\ op'[o].pc \in {"define", "insertMeta"} => op'[o].made = {}
               /\ op'[o].kind \in {"create", "delete"} => op'[o].fn \in Functions
               /\ op'[o].kind = "create" =>
                    \A i \in 1 .. Len(op'[o].todo) : op'[o].todo[i] \in SpecsOf(op'[o].fn)
               /\ op'[o].kind = "scale" => op'[o].spec \in Specs
    <3>1. /\ op[o].pc = "idle" => op[o].kind = "none"
          /\ op[o].pc \in {"define", "insertMeta"} => op[o].made = {}
          /\ op[o].kind \in {"create", "delete"} => op[o].fn \in Functions
          /\ op[o].kind = "create" =>
               \A i \in 1 .. Len(op[o].todo) : op[o].todo[i] \in SpecsOf(op[o].fn)
          /\ op[o].kind = "scale" => op[o].spec \in Specs
      BY DEF HandInv, OpsTyped
    <3> QED
      BY <3>1, HostCalls
  <2> QED
    BY <2>2, <2>3 DEF OpsTyped
<1>6. TablesTyped' /\ MonitorTyped' /\ SeenAreNumbered'
  <2>1. rows' \subseteq Numbered /\ deleting' \subseteq deleting
        /\ (monitor' = monitor \/ monitor' = [at |-> "list", todo |-> {}, ins |-> {}])
    BY DEF HostStep
  <2>2. TablesTyped'
    BY <1>1, <2>1 DEF HandInv, TablesTyped, Numbered
  <2>3. MonitorTyped' /\ monitor'.ins \subseteq Numbered
    BY <2>1 DEF HandInv, MonitorTyped, SeenAreNumbered
  <2>4. \A o \in Ops : op'[o].seen \subseteq Numbered
    BY HostCalls DEF HandInv, SeenAreNumbered
  <2>5. SeenAreNumbered'
    BY <1>2, <2>1, <2>3, <2>4 DEF HandInv, SeenAreNumbered
  <2> QED
    BY <2>2, <2>3, <2>5
<1>7. HandInv'
  BY <1>1, <1>3, <1>5, <1>6, HandFrame
<1> QED
  BY <1>1, <1>2, <1>3, <1>4, <1>7 DEF DeleteCalled

LEMMA OwnCallNext == ASSUME AutoInv, [ANext]_allVars PROVE OwnCall'
<1>1. AutoOp \in Ops /\ OwnCall /\ HandInv
  BY AutoscalerAssumption DEF AutoInv
<1>2. CASE HostStep
  BY <1>1, <1>2, HostCalls DEF OwnCall
<1>3. ASSUME NEW o \in Ops, Continues(o) PROVE OwnCall'
  <2>1. CASE o = AutoOp
    <3>1. op[o].pc # "idle" /\ [Next]_vars
      BY <1>3, ContinuesFrame DEF Next
    <3> QED
      BY <1>1, <2>1, <3>1, CallsStay DEF OwnCall
  <2>2. CASE o # AutoOp
    <3>1. op'[AutoOp] = op[AutoOp]
      BY <1>1, <1>3, <2>2, OneCallMoves
    <3> QED
      BY <1>1, <3>1 DEF OwnCall
  <2> QED
    BY <2>1, <2>2
<1>4. ASSUME NEW o \in Ops \ {AutoOp}, Begins(o) PROVE OwnCall'
  <2>1. op'[AutoOp] = op[AutoOp]
    BY <1>1, <1>4, OneCallMoves
  <2> QED
    BY <1>1, <2>1 DEF OwnCall
<1>5. CASE UNCHANGED op
  BY <1>1, <1>5 DEF OwnCall
<1>6. ASSUME NEW s \in Services, AsyncDelete(s) PROVE OwnCall'
  BY <1>5, <1>6 DEF AsyncDelete
<1>7. CASE ProcessEnds
  BY <1>1, <1>7, OpTyped DEF ProcessEnds, OwnCall, HandInv, OpStates
<1>8. CASE Tick \/ TakesSample \/ ReadsMetadata \/ ReadsInstances \/ ReadFails
           \/ (\E s \in Services : MonitorBringsBack(s))
           \/ \E r \in Reqs : Comes(r) \/ ComesAgain(r) \/ Records(r) \/ Pops(r) \/ Ends(r)
  BY <1>5, <1>8 DEF Tick, TakesSample, ReadsMetadata, ReadsInstances, ReadFails,
                    MonitorBringsBack, Comes, ComesAgain, Records, Pops, Ends, MoveReq, vars
<1>9. ASSUME (\E t \in auto.todo : CallsScale(t)) \/ RoundEnds PROVE OwnCall'
  <2>1. \A x : op' = [op EXCEPT ![AutoOp] = x] => op'[AutoOp] = x
    BY <1>1 DEF HandInv, OpsTyped
  <2>2. ASSUME NEW p, NEW n PROVE ScaleFunction(p, n).kind = "scale" /\ Idle.kind = "none"
    BY DEF ScaleFunction, Idle
  <2> QED
    BY <1>9, <2>1, <2>2 DEF CallsScale, RoundEnds, OwnCall
<1>10. CASE AutoSteps
  BY <1>7, <1>8, <1>9, <1>10 DEF AutoSteps, Panics
<1> QED
  BY <1>3, <1>4, <1>5, <1>6, <1>7, <1>8, <1>10 DEF ANext, Manager, Restart, allVars, vars

(***************************************************************************)
(* The inductive invariant.  What the autoscaler asks for is typed because *)
(* the tables are, and the tables stay typed because what it asks for is.  *)
(***************************************************************************)
LEMMA AutoInvariant == ASpec => []AutoInv
<1>1. AInit => AutoInv
  BY SampleInit, HandInit, AutoscalerAssumption DEF AInit, AutoInv, OwnCall, Init, Idle
<1>2. AutoInv /\ [ANext]_allVars => AutoInv'
  <2> SUFFICES ASSUME AutoInv, [ANext]_allVars PROVE AutoInv'
    OBVIOUS
  <2>1. SampleInv'
    BY SampleNext DEF AutoInv
  <2>2. HandInv'
    BY HostsOrManages, HostHands, HandNext DEF AutoInv
  <2> QED
    BY <2>1, <2>2, OwnCallNext DEF AutoInv
<1> QED
  BY <1>1, <1>2, PTL DEF ASpec

-----------------------------------------------------------------------------
(* The rows and the metadata.                                              *)

(* Every row there has ever been, which the monitor may bring back.        *)
NumberedKnown == \A s \in Numbered : FnOf[specOf[s]] \in meta

RowsKnownInv == KnownInv /\ (~ DeleteCalled => NumberedKnown)

LEMMA KnownHosted ==
  ASSUME HandInv, RowsKnownInv, HostStep
  PROVE  RowsKnownInv'
<1> SUFFICES ASSUME ~ DeleteCalled' PROVE Known' /\ NumberedKnown'
  BY DEF RowsKnownInv, KnownInv
<1>1. Known /\ NumberedKnown
  BY HostHands DEF RowsKnownInv, KnownInv
<1>2. UNCHANGED <<service, specOf, meta>> /\ Numbered' = Numbered
      /\ \A o \in Ops : HeldBy(o)' \subseteq HeldBy(o)
  BY HostHands
<1>3. \A o \in Creators' : o \in Creators /\ op'[o].fn = op[o].fn
  BY HostCalls DEF Creators
<1>4. \A s \in rows' \cup monitor'.ins : s \in Numbered
  <2>1. rows' \subseteq Numbered /\ monitor.ins \subseteq Numbered
    BY DEF HostStep, HandInv, SeenAreNumbered
  <2> QED
    BY <2>1 DEF HostStep
<1>5. ASSUME NEW o \in Ops, op'[o].kind = "scale", op'[o].pc \in {"read", "decide"}
      PROVE  FnOf[op'[o].spec] \in meta'
  BY <1>1, <1>2, <1>5, HostCalls DEF Known
<1>6. NumberedKnown'
  BY <1>1, <1>2 DEF NumberedKnown
<1>7. \A o \in Creators' : op'[o].fn \in meta'
  BY <1>1, <1>2, <1>3 DEF Known
<1>8. \A o1, o2 \in Creators' : op'[o1].fn = op'[o2].fn => o1 = o2
  BY <1>1, <1>3 DEF Known
<1>9. \A s \in rows' \cup monitor'.ins : FnOf[specOf'[s]] \in meta'
  BY <1>1, <1>2, <1>4 DEF NumberedKnown
<1>10. \A o \in Ops : \A s \in HeldBy(o)' : FnOf[specOf'[s]] \in meta'
  BY <1>1, <1>2 DEF Known
<1> QED
  BY <1>5, <1>6, <1>7, <1>8, <1>9, <1>10 DEF Known

LEMMA NumberedKnownNext ==
  ASSUME HandInv, RowsKnownInv, [Next]_vars
  PROVE  RowsKnownInv'
<1>1. KnownInv'
  BY KnownNext DEF RowsKnownInv
<1> SUFFICES ASSUME ~ DeleteCalled', NEW s \in Numbered' PROVE FnOf[specOf'[s]] \in meta'
  BY <1>1 DEF RowsKnownInv, NumberedKnown
<1>2. Known /\ NumberedKnown /\ meta \subseteq meta'
  BY DeleteStaysCalled, MetadataStays DEF RowsKnownInv, KnownInv
<1>3. CASE s \in Numbered
  BY <1>2, <1>3, NumberedStay DEF NumberedKnown
<1>4. CASE s \notin Numbered
  <2>1. PICK o \in Ops : InsertRows(o)
    BY <1>4, StepFrame DEF Numbered
  <2>2. s \in op[o].made /\ op[o].pc = "insert" /\ UNCHANGED specOf
    BY <1>4, <2>1 DEF InsertRows, Insert, Numbered, ecs
  <2>3. s \in HeldBy(o)
    BY <2>2 DEF HeldBy
  <2> QED
    BY <1>2, <2>2, <2>3 DEF Known
<1> QED
  BY <1>3, <1>4

LEMMA RowsKnownInvariant == ASpec => []RowsKnownInv
<1>1. AInit => RowsKnownInv
  BY DEF AInit, Init, RowsKnownInv, NumberedKnown, Numbered, KnownInv, Known, Creators, HeldBy, Idle
<1>2. AutoInv /\ RowsKnownInv /\ [ANext]_allVars => RowsKnownInv'
  BY HostsOrManages, KnownHosted, NumberedKnownNext DEF AutoInv
<1> QED
  BY <1>1, <1>2, AutoInvariant, PTL DEF ASpec

-----------------------------------------------------------------------------
(* The minimum number of replicas.                                         *)

LEMMA KeptHosted ==
  ASSUME HandInv, KeptInv, HostStep
  PROVE  KeptInv'
<1> SUFFICES ASSUME ~ DeleteCalled' PROVE Kept'
  BY DEF KeptInv
<1>1. Kept
  BY HostHands DEF KeptInv
<1>2. UNCHANGED <<service, specOf, role, rowId>> /\ Numbered' = Numbered
      /\ \A o \in Ops : HeldBy(o)' \subseteq HeldBy(o)
  BY HostHands
<1>3. \A o \in Ops : \A s \in HeldBy(o)' : service'[s] = "active"
  BY <1>1, <1>2 DEF Kept
<1>4. ASSUME NEW s \in Numbered
      PROVE  /\ IsLive(s) => IsLive(s)'
             /\ LaunchType(s)' = LaunchType(s) /\ Superiors(s)' = Superiors(s)
  <2>1. IsLive(s) => IsLive(s)'
    BY <1>2 DEF HostStep, IsLive
  <2>2. \A u : LaunchType(u)' = LaunchType(u)
    BY <1>2 DEF LaunchType
  <2>3. Superiors(s)' = Superiors(s)
    BY <1>2, <2>2 DEF Superiors
  <2> QED
    BY <2>1, <2>2, <2>3
<1>5. ASSUME NEW s \in Numbered'
      PROVE  \/ IsLive(s)'
             \/ LaunchType(s)' = ColdPool /\ Cardinality(Superiors(s)') >= MinReplica[specOf'[s]]
  <2>1. s \in Numbered /\ specOf'[s] = specOf[s]
    BY <1>2
  <2>2. IsLive(s) \/ (LaunchType(s) = ColdPool /\ Cardinality(Superiors(s)) >= MinReplica[specOf[s]])
    BY <1>1, <2>1 DEF Kept
  <2>3. /\ IsLive(s) => IsLive(s)'
        /\ LaunchType(s)' = LaunchType(s) /\ Superiors(s)' = Superiors(s)
    BY <1>4, <2>1
  <2> QED
    BY <2>1, <2>2, <2>3
<1>6. ASSUME NEW o \in Ops, op'[o].kind = "scale", op'[o].pc \in {"decide", "shrink"}
      PROVE  /\ \A s \in op'[o].seen : specOf'[s] = op'[o].spec
             /\ op'[o].pc = "shrink" /\ op'[o].cnt < 0 =>
                  Cardinality(op'[o].seen) + op'[o].cnt >= MinReplica[op'[o].spec]
  <2>1. op'[o] = op[o]
    BY <1>6, HostCalls
  <2> QED
    BY <1>1, <1>2, <1>6, <2>1 DEF Kept
<1> QED
  BY <1>3, <1>5, <1>6 DEF Kept

LEMMA AutoKeptInvariant == ASpec => []KeptInv
<1>1. AInit => KeptInv
  BY DEF AInit, Init, KeptInv, Kept, HeldBy, Idle, Numbered
<1>2. AutoInv /\ KeptInv /\ [ANext]_allVars => KeptInv'
  BY HostsOrManages, KeptHosted, KeptNext DEF AutoInv
<1> QED
  BY <1>1, <1>2, AutoInvariant, PTL DEF ASpec

-----------------------------------------------------------------------------
(* The theorems.                                                           *)

(***************************************************************************)
(* Every variable of the autoscaler keeps to the values the code can give  *)
(* it: the window never holds more than WindowLen samples, and every call  *)
(* the autoscaler has still to make is for a known spec and a count other  *)
(* than 0.                                                                 *)
(***************************************************************************)
THEOREM AutoscalerTypesAreKept == ASpec => []ATypeOK
<1>1. AutoInv => ATypeOK
  BY DEF AutoInv, SampleInv, SamplingTyped, Places, Demands, ATypeOK
<1> QED
  BY <1>1, AutoInvariant, PTL

(* GetAllReq misses no request that is there from its first read to its    *)
(* second: the queue is read before the records, and a request is recorded *)
(* before it leaves the queue.  With a window of length 0 the loop keeps   *)
(* no sample at all.                                                       *)
THEOREM NoRequestIsEverMissed ==
  ASSUME WindowLen > 0
  PROVE  ASpec => NoRequestIsMissed
<1>1. AutoInv /\ [ANext]_allVars =>
        [TakesSample => \A r \in held : Head(auto'.his)[r] > 0]_allVars
  BY TakesSampleKeeps DEF AutoInv
<1> QED
  BY <1>1, AutoInvariant, PTL DEF ASpec, NoRequestIsMissed

(***************************************************************************)
(* A request that is in every sample of the window and suffices for an     *)
(* instance of its spec finds one in the table, or the round asks for one: *)
(* no division, rounding or limit of CalResScale loses it.                 *)
(***************************************************************************)
THEOREM WaitingRequestsAreAskedFor == ASpec => WaitingIsAskedFor
<1> DEFINE Asked(r) ==
             LET p == SpecFor[r] IN
             /\ auto.his # <<>> /\ \A i \in DOMAIN auto.his : auto.his[i][r] > 0
             /\ ReqFn[r] \in auto.known /\ Suffices(r, p)
             => RowsOf(p) # {} \/ \E t \in auto'.todo : t[1] = p /\ t[2] > 0
<1>1. AutoInv /\ [ANext]_allVars => [ReadsInstances => \A r \in Reqs : Asked(r)]_allVars
  <2> SUFFICES ASSUME AutoInv, ReadsInstances, NEW r \in Reqs PROVE Asked(r)
    OBVIOUS
  <2>1. /\ HandInv /\ auto.his \in Seq(Samples)
        /\ DOMAIN auto = {"at", "got", "his", "known", "todo"}
    BY DEF AutoInv, SampleInv, SamplingTyped
  <2> QED
    BY <2>1, AsksForInstance
<1> QED
  BY <1>1, AutoInvariant, PTL DEF ASpec, WaitingIsAskedFor

(***************************************************************************)
(* What the autoscaler works towards is always within the limits of the    *)
(* spec, and with a window of length 0, where no sample is kept and the    *)
(* demand is divided by 0, it is the minimum number of replicas.           *)
(***************************************************************************)
THEOREM TargetsStayWithinLimits ==
  ASpec => [](\A p \in Specs :
                /\ Expected(p, auto.his) \in MinReplica[p] .. MaxReplica[p]
                /\ WindowLen = 0 => Expected(p, auto.his) = MinReplica[p])
<1> DEFINE Within == \A p \in Specs :
                       /\ Expected(p, auto.his) \in MinReplica[p] .. MaxReplica[p]
                       /\ WindowLen = 0 => Expected(p, auto.his) = MinReplica[p]
<1>1. AutoInv => Within
  <2> SUFFICES ASSUME AutoInv, NEW p \in Specs
               PROVE  /\ Expected(p, auto.his) \in MinReplica[p] .. MaxReplica[p]
                      /\ WindowLen = 0 => Expected(p, auto.his) = MinReplica[p]
    OBVIOUS
  <2>1. auto.his \in Seq(Samples) /\ Len(auto.his) <= WindowLen
    BY DEF AutoInv, SampleInv, SamplingTyped
  <2>2. WindowLen = 0 => auto.his = <<>>
    BY <2>1
  <2> QED
    BY <2>1, <2>2, ExpectedWithinLimits
<1> QED
  BY <1>1, AutoInvariant, PTL

(***************************************************************************)
(* The tables, the services and the calls keep their types beside the      *)
(* autoscaler, whatever it asks for and wherever its panic ends the        *)
(* process.                                                                *)
(***************************************************************************)
THEOREM TypesAreKeptUnderLoad == ASpec => []TypeOK
<1>1. AutoInv => TypeOK
  BY HandInvTypes DEF AutoInv
<1> QED
  BY <1>1, AutoInvariant, PTL

(***************************************************************************)
(* Beside the autoscaler, and with a monitor that brings back removed      *)
(* rows, of all calls of CreateFunction with one name one at most goes on  *)
(* to create instances.                                                    *)
(***************************************************************************)
THEOREM OneCreatorUnderLoad == ASpec => []OneCreator
<1>1. RowsKnownInv => OneCreator
  BY DEF RowsKnownInv, KnownInv, Known, Creators, OneCreator
<1> QED
  BY <1>1, RowsKnownInvariant, PTL

(***************************************************************************)
(* Until a DeleteFunction, every row belongs to a function with metadata,  *)
(* beside the autoscaler too.  That CalResScale meets a row of a function  *)
(* it does not know, and panics, is no contradiction: it reads the two     *)
(* tables at different times.                                              *)
(***************************************************************************)
THEOREM RowsHaveMetadataUnderLoad == ASpec => []RowsHaveMetadata
<1>1. RowsKnownInv => RowsHaveMetadata
  BY DEF RowsKnownInv, KnownInv, Known, RowsHaveMetadata
<1> QED
  BY <1>1, RowsKnownInvariant, PTL

(***************************************************************************)
(* The autoscaler never takes the serving instances of a spec below the    *)
(* minimum, though it decides on a window of old samples and on rows that  *)
(* the monitor brought back, and clients scale at the same time.           *)
(***************************************************************************)
THEOREM MinReplicasAreKeptUnderLoad == ASpec => MinReplicasAreKept
<1> DEFINE Step == ~ DeleteCalled' =>
             \A p \in Specs :
               Cardinality(Live(p)) >= MinReplica[p] => Cardinality(Live(p)') >= MinReplica[p]
<1>1. AutoInv /\ EnoughInv' /\ [ANext]_allVars => [Step]_vars
  <2> SUFFICES ASSUME AutoInv, EnoughInv', [ANext]_allVars, ~ DeleteCalled', NEW p \in Specs,
                      Cardinality(Live(p)) >= MinReplica[p]
               PROVE  Cardinality(Live(p)') >= MinReplica[p]
    OBVIOUS
  <2>1. InstancesOf(p) \subseteq InstancesOf(p)'
    BY HostsOrManages, HostHands, NumberedStay DEF InstancesOf, AutoInv
  <2>2. InstancesOf(p)' \in SUBSET Services /\ Live(p) \subseteq InstancesOf(p)
    BY DEF InstancesOf, Numbered, Live, RowsOf, AutoInv, HandInv, SeenAreNumbered
  <2>3. Cardinality(Live(p)) <= Cardinality(InstancesOf(p)')
        /\ Cardinality(Live(p)) \in Nat /\ Cardinality(InstancesOf(p)') \in Nat
    BY <2>1, <2>2, SubsetCounts, ServicesFinite
  <2>4. MinReplica[p] \in Nat
    BY ManagerAssumption
  <2>5. Cardinality(InstancesOf(p)') >= MinReplica[p]
    BY <2>3, <2>4
  <2> QED
    BY <2>5 DEF EnoughInv
<1>2. AutoInv /\ KeptInv => EnoughInv
  BY EnoughAreLive DEF AutoInv
<1> QED
  BY <1>1, <1>2, AutoInvariant, AutoKeptInvariant, PTL DEF ASpec, MinReplicasAreKept
===============================================================================
