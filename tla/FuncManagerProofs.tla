--------------------------- MODULE FuncManagerProofs ---------------------------
(***************************************************************************)
(* Theorems about FuncManager, for every set of functions, specs, services *)
(* and concurrent calls, every bound on failures and restarts, and any     *)
(* assignment of the instances to launch types.                            *)
(***************************************************************************)
EXTENDS FuncManager, FiniteOrders

-----------------------------------------------------------------------------
(* Sets of services.                                                       *)

LEMMA ServicesFinite ==
  ASSUME NEW T \in SUBSET Services
  PROVE  IsFiniteSet(T) /\ Cardinality(T) \in Nat /\ Cardinality(T) <= Cardinality(Services)
<1>1. IsFiniteSet(Services)
  BY ManagerAssumption
<1>2. IsFiniteSet(T) /\ Cardinality(T) <= Cardinality(Services)
  BY <1>1, FS_Subset
<1> QED
  BY <1>2, FS_CardinalityType

LEMMA SubsetCounts ==
  ASSUME NEW T \in SUBSET Services, NEW U \in SUBSET T
  PROVE  Cardinality(U) <= Cardinality(T)
BY ServicesFinite, FS_Subset

-----------------------------------------------------------------------------
(* What the operations are built from.                                     *)

LEMMA SpecsHaveOneFunction ==
  /\ FnOf \in [Specs -> Functions]
  /\ \A f \in Functions, p \in Specs : p \in SpecsOf(f) => FnOf[p] = f
<1>1. ASSUME NEW p \in Specs
      PROVE  /\ FnOf[p] \in Functions
             /\ \A f \in Functions : p \in SpecsOf(f) => FnOf[p] = f
  <2>1. PICK f \in Functions : {g \in Functions : p \in SpecsOf(g)} = {f}
    BY SpecAssumption
  <2>2. \A g \in Functions : p \in SpecsOf(g) <=> g = f
    BY <2>1
  <2> QED
    BY <2>2 DEF FnOf
<1> QED
  BY <1>1 DEF FnOf

LEMMA SpecsOfTyped ==
  ASSUME NEW f \in Functions
  PROVE  SpecsOf(f) \subseteq Specs /\ SpecList[f] \in Seq(Specs)
<1>1. SpecList[f] \in Seq(Specs)
  BY ManagerAssumption
<1> QED
  BY <1>1 DEF SpecsOf

(* Fresh names are n unused ones.                                          *)
LEMMA FreshIsUnused ==
  ASSUME NEW n \in Nat, CanCreate(n)
  PROVE  /\ Fresh(n) \subseteq Services /\ Cardinality(Fresh(n)) = n
         /\ \A s \in Fresh(n) : service[s] = "unused"
<1> DEFINE Unused == {s \in Services : service[s] = "unused"}
<1>1. IsFiniteSet(Unused) /\ n <= Cardinality(Unused)
  BY ServicesFinite DEF CanCreate
<1>2. \E M \in SUBSET Unused : Cardinality(M) = n
  <2> HIDE DEF Unused
  <2> QED
    BY <1>1, SubsetOfSize
<1>3. Fresh(n) \in SUBSET Unused /\ Cardinality(Fresh(n)) = n
  BY <1>2 DEF Fresh
<1> QED
  BY <1>3

Numbered == {s \in Services : rowId[s] # 0}

(* Insert gives the new rows numbers of their own, above all others.       *)
LEMMA InsertNumbers ==
  ASSUME NEW M \in SUBSET Services, M \cap Numbered = {}, Insert(M),
         rowId \in [Services -> Nat]
  PROVE  /\ rowId' \in [Services -> Nat]
         /\ Numbered' = Numbered \cup M
         /\ Cardinality(Numbered') = Cardinality(Numbered) + Cardinality(M)
         /\ \A s \in Services \ M : rowId'[s] = rowId[s]
         /\ \A s \in M : rowId'[s] > Cardinality(Numbered) /\ rowId'[s] <= Cardinality(Numbered')
         /\ \A s, t \in M : rowId'[s] = rowId'[t] => s = t
<1> DEFINE UpTo(s) == {t \in M : t <= s}
           last == Cardinality(Numbered)
<1>1. /\ last \in Nat /\ IsFiniteSet(Numbered)
      /\ Cardinality(M) \in Nat /\ IsFiniteSet(M)
  BY ServicesFinite DEF Numbered
<1>2. rowId' = [s \in Services |-> IF s \in M THEN last + Cardinality(UpTo(s)) ELSE rowId[s]]
  BY DEF Insert, Numbered
<1>3. ASSUME NEW s \in M PROVE Cardinality(UpTo(s)) \in 1 .. Cardinality(M)
  <2>1. s \in UpTo(s) /\ UpTo(s) \in SUBSET M
    BY ManagerAssumption
  <2>2. Cardinality(UpTo(s)) \in Nat /\ Cardinality(UpTo(s)) # 0 /\ Cardinality(UpTo(s)) <= Cardinality(M)
    <3> HIDE DEF UpTo
    <3> QED
      BY <1>1, <2>1, FS_Subset, FS_EmptySet, FS_CardinalityType
  <2> QED
    BY <1>1, <2>2
<1>4. ASSUME NEW s \in M, NEW t \in M, s < t
      PROVE  Cardinality(UpTo(s)) < Cardinality(UpTo(t))
  <2> \A u \in M : u \in Int
    BY ManagerAssumption
  <2>1. UpTo(s) \in SUBSET UpTo(t) /\ t \in UpTo(t) /\ t \notin UpTo(s)
    BY <1>4
  <2>2. IsFiniteSet(UpTo(t)) /\ UpTo(t) \in SUBSET M
    BY <1>1, FS_Subset
  <2>3. Cardinality(UpTo(s)) <= Cardinality(UpTo(t)) /\ Cardinality(UpTo(s)) # Cardinality(UpTo(t))
    <3> HIDE DEF UpTo
    <3> QED
      BY <2>1, <2>2, FS_Subset
  <2> QED
    BY <1>3, <2>3
<1> HIDE DEF UpTo
<1>5. Numbered' = Numbered \cup M
  BY <1>1, <1>2, <1>3 DEF Numbered
<1>6. Cardinality(Numbered') = last + Cardinality(M)
  <2>1. Cardinality(Numbered \cup M) = last + Cardinality(M) - Cardinality(Numbered \cap M)
    BY <1>1, FS_Union
  <2>2. Cardinality(Numbered \cap M) = 0
    BY FS_EmptySet
  <2> QED
    BY <1>1, <1>5, <2>1, <2>2
<1>7. \A s \in M : rowId'[s] > last /\ rowId'[s] <= last + Cardinality(M)
  BY <1>1, <1>2, <1>3
<1>8. \A s, t \in M : rowId'[s] = rowId'[t] => s = t
  <2>1. \A s \in M : s \in Nat /\ rowId'[s] = last + Cardinality(UpTo(s)) /\ Cardinality(UpTo(s)) \in Nat
    BY <1>2, <1>3, ManagerAssumption
  <2> QED
    BY <1>1, <1>4, <2>1
<1>9. rowId' \in [Services -> Nat]
  <2>1. \A s \in Services : rowId'[s] \in Nat
    BY <1>1, <1>2, <1>3
  <2> QED
    BY <1>2, <2>1
<1> QED
  BY <1>1, <1>2, <1>5, <1>6, <1>7, <1>8, <1>9

(* The row with the lowest number.                                         *)
LEMMA FirstHasLowestNumber ==
  ASSUME NEW S \in SUBSET Services, S # {}, rowId \in [Services -> Nat]
  PROVE  FirstOf(S) \in S /\ \A t \in S : rowId[FirstOf(S)] <= rowId[t]
<1>1. IsFiniteSet(S)
  BY ServicesFinite
<1>2. PICK num \in [S -> Int] : \A s \in S : num[s] = rowId[s]
  <2>1. [s \in S |-> rowId[s]] \in [S -> Int]
    BY ServicesFinite
  <2> QED
    BY <2>1
<1>3. \E s \in S : \A t \in S : num[s] <= num[t]
  BY <1>1, SmallestNumber
<1> QED
  BY <1>2, <1>3 DEF FirstOf

-----------------------------------------------------------------------------
(* Types, and who has which services in hand.                              *)

Pcs == {"idle", "define", "insertMeta", "make", "insert", "read", "decide", "shrink",
        "services", "deleteMeta", "returned", "failed"}

TablesTyped ==
  /\ meta \subseteq Functions /\ taskDefs \subseteq Specs /\ rows \subseteq Services
  /\ rowId \in [Services -> Nat]
  /\ service \in [Services -> {"unused", "active", "gone"}]
  /\ specOf \in [Services -> Specs \cup {NoSpec}]
  /\ role \in [Services -> {"none", "hot", "cold"}]
  /\ deleting \subseteq Services /\ faults \in 0 .. MaxFaults

OpStates ==
  [pc : Pcs, kind : {"none", "create", "scale", "delete"},
   fn : Functions \cup {NoFn}, spec : Specs \cup {NoSpec}, cnt : Int,
   seen : SUBSET Services, made : SUBSET Services, todo : Seq(Specs)]

OpsTyped ==
  /\ op \in [Ops -> OpStates]
  /\ \A o \in Ops :
       /\ op[o].pc = "idle" => op[o].kind = "none"
       /\ op[o].pc \in {"define", "insertMeta"} => op[o].made = {}
       /\ op[o].kind \in {"create", "delete"} => op[o].fn \in Functions
       /\ op[o].kind = "create" =>
            \A i \in 1 .. Len(op[o].todo) : op[o].todo[i] \in SpecsOf(op[o].fn)
       /\ op[o].kind = "scale" => op[o].spec \in Specs

MonitorTyped ==
  monitor \in [at : {"list", "read", "save"}, todo : SUBSET Functions, ins : SUBSET Services]

(* Rows are numbered from one on, each with a number of its own.           *)
Numbering ==
  /\ \A s \in Services : rowId[s] <= Cardinality(Numbered)
  /\ \A s, t \in Numbered : rowId[s] = rowId[t] => s = t

(* The services a call has created and not yet inserted.                   *)
HeldBy(o) == IF op[o].pc \in {"make", "insert"} THEN op[o].made ELSE {}

Hands ==
  /\ \A s \in Services : IF service[s] = "unused" THEN s \notin Numbered ELSE specOf[s] \in Specs
  /\ \A o \in Ops : \A s \in HeldBy(o) : s \notin Numbered /\ service[s] # "unused"
  /\ \A o1, o2 \in Ops : o1 # o2 => HeldBy(o1) \cap HeldBy(o2) = {}

(* What anybody takes for an instance has once been inserted.              *)
SeenAreNumbered ==
  /\ rows \subseteq Numbered /\ deleting \subseteq Numbered /\ monitor.ins \subseteq Numbered
  /\ \A o \in Ops : op[o].seen \subseteq Numbered

(***************************************************************************)
(* The inductive invariant on types and on services in hand.  The type of  *)
(* rowId alone needs it: a batch can be numbered only because its services *)
(* are new, and they are because no two calls create the same one.         *)
(***************************************************************************)
HandInv ==
  TablesTyped /\ OpsTyped /\ MonitorTyped /\ Numbering /\ Hands /\ SeenAreNumbered

LEMMA HandInvTypes == HandInv => TypeOK
BY DEF HandInv, TablesTyped, OpsTyped, OpStates, MonitorTyped, TypeOK

LEMMA HandInit == Init => HandInv
<1> SUFFICES ASSUME Init PROVE HandInv
  OBVIOUS
<1>1. Numbered = {}
  BY DEF Init, Numbered
<1>2. Cardinality(Services) \in Nat /\ Cardinality(Numbered) = 0
  BY <1>1, ServicesFinite, FS_EmptySet
<1>3. OpsTyped
  BY DEF Init, OpsTyped, OpStates, Pcs, Idle
<1>4. TablesTyped
  BY <1>2, ManagerAssumption DEF Init, TablesTyped
<1>5. MonitorTyped
  BY DEF Init, MonitorTyped
<1>6. Numbering
  BY <1>1, <1>2 DEF Init, Numbering
<1>7. Hands /\ SeenAreNumbered
  BY <1>1 DEF Init, Hands, HeldBy, Idle, SeenAreNumbered
<1> QED
  BY <1>3, <1>4, <1>5, <1>6, <1>7 DEF HandInv

(* Steps that create no service and insert no row.                         *)
LEMMA HandFrame ==
  ASSUME HandInv, TablesTyped', OpsTyped', MonitorTyped', SeenAreNumbered',
         rowId' = rowId, specOf' = specOf,
         \A s \in Services : service'[s] = service[s] \/ (s \in Numbered /\ service'[s] = "gone"),
         \A o \in Ops : HeldBy(o)' \subseteq HeldBy(o)
  PROVE  HandInv'
<1>1. Numbered' = Numbered
  BY DEF Numbered
<1>2. Numbering'
  BY <1>1 DEF HandInv, Numbering
<1>3. Hands'
  <2>1. \A s \in Services : IF service'[s] = "unused" THEN s \notin Numbered ELSE specOf'[s] \in Specs
    BY DEF HandInv, Hands
  <2>2. \A o \in Ops : \A s \in HeldBy(o)' : s \notin Numbered /\ service'[s] # "unused"
    BY DEF HandInv, Hands, HeldBy, OpsTyped, OpStates
  <2>3. \A o1, o2 \in Ops : o1 # o2 => HeldBy(o1)' \cap HeldBy(o2)' = {}
    BY DEF HandInv, Hands
  <2> QED
    BY <1>1, <2>1, <2>2, <2>3 DEF Hands
<1> QED
  BY <1>2, <1>3 DEF HandInv

(* Steps that create the services M on behalf of call o.                   *)
LEMMA HandRun ==
  ASSUME HandInv, TablesTyped', OpsTyped', MonitorTyped', SeenAreNumbered',
         rowId' = rowId, NEW o \in Ops, NEW M \in SUBSET Services,
         \A s \in M : service[s] = "unused",
         NEW p \in Specs, NEW r, Run(M, p, r),
         HeldBy(o)' \subseteq HeldBy(o) \cup M,
         \A x \in Ops \ {o} : HeldBy(x)' = HeldBy(x)
  PROVE  HandInv'
<1>1. Numbered' = Numbered
  BY DEF Numbered
<1>2. Numbering'
  BY <1>1 DEF HandInv, Numbering
<1>3. /\ \A s \in M : s \notin Numbered /\ service'[s] = "active" /\ specOf'[s] = p
      /\ \A s \in Services \ M : service'[s] = service[s] /\ specOf'[s] = specOf[s]
  BY DEF HandInv, Hands, Run
<1>4. \A x \in Ops : HeldBy(x) \cap M = {} /\ HeldBy(x) \subseteq Services
  BY DEF HandInv, Hands, HeldBy, OpsTyped, OpStates
<1>5. Hands'
  <2>1. \A s \in Services : IF service'[s] = "unused" THEN s \notin Numbered ELSE specOf'[s] \in Specs
    BY <1>3 DEF HandInv, Hands
  <2>2. \A x \in Ops : \A s \in HeldBy(x)' : s \notin Numbered /\ service'[s] # "unused"
    BY <1>3, <1>4 DEF HandInv, Hands
  <2>3. \A x, y \in Ops : x # y => HeldBy(x)' \cap HeldBy(y)' = {}
    BY <1>4 DEF HandInv, Hands
  <2> QED
    BY <1>1, <2>1, <2>2, <2>3 DEF Hands
<1> QED
  BY <1>2, <1>5 DEF HandInv

(* A call of the operation o moves on; all other calls stay as they are.   *)
LEMMA OpMoves ==
  ASSUME OpsTyped, NEW o \in Ops, NEW x \in OpStates, op' = [op EXCEPT ![o] = x],
         x.pc = "idle" => x.kind = "none",
         x.pc \in {"define", "insertMeta"} => x.made = {},
         x.kind \in {"create", "delete"} => x.fn \in Functions,
         x.kind = "create" => \A i \in 1 .. Len(x.todo) : x.todo[i] \in SpecsOf(x.fn),
         x.kind = "scale" => x.spec \in Specs
  PROVE  /\ OpsTyped' /\ op'[o] = x
         /\ \A y \in Ops \ {o} : op'[y] = op[y] /\ HeldBy(y)' = HeldBy(y)
<1>1. op'[o] = x /\ \A y \in Ops \ {o} : op'[y] = op[y]
  BY DEF OpsTyped
<1>2. OpsTyped'
  BY <1>1 DEF OpsTyped
<1> QED
  BY <1>1, <1>2 DEF HeldBy

LEMMA IdleTyped == Idle \in OpStates /\ Idle.seen = {} /\ Idle.made = {}
BY DEF Idle, OpStates, Pcs

LEMMA HandBegins ==
  ASSUME HandInv, NEW o \in Ops, Begins(o)
  PROVE  HandInv'
<1> USE DEF HandInv
<1>1. ASSUME NEW x \in OpStates, op' = [op EXCEPT ![o] = x], x.pc # "idle",
             x.kind \in {"create", "delete"} => x.fn \in Functions,
             x.kind = "create" => \A i \in 1 .. Len(x.todo) : x.todo[i] \in SpecsOf(x.fn),
             x.kind = "scale" => x.spec \in Specs,
             x.seen = {}, x.made = {},
             UNCHANGED <<tables, ecs, deleting, monitor, faults>>
      PROVE  HandInv'
  <2>1. OpsTyped' /\ op'[o] = x /\ \A y \in Ops \ {o} : op'[y] = op[y] /\ HeldBy(y)' = HeldBy(y)
    BY <1>1, OpMoves
  <2>2. TablesTyped' /\ MonitorTyped'
    BY <1>1 DEF TablesTyped, MonitorTyped, tables, ecs
  <2>3. SeenAreNumbered'
    BY <1>1, <2>1 DEF SeenAreNumbered, Numbered, tables
  <2>4. \A y \in Ops : HeldBy(y)' \subseteq HeldBy(y)
    BY <1>1, <2>1 DEF HeldBy
  <2> QED
    BY <1>1, <2>1, <2>2, <2>3, <2>4, HandFrame DEF tables, ecs
<1>2. ASSUME NEW f \in Functions, BeginCreate(o, f) PROVE HandInv'
  <2> DEFINE x == [Idle EXCEPT !.kind = "create", !.fn = f, !.todo = SpecList[f],
                               !.pc = IF f \in meta THEN "failed" ELSE "define"]
  <2>1. x \in OpStates
    BY IdleTyped, SpecsOfTyped DEF OpStates, Pcs
  <2>2. /\ x.kind = "create" /\ x.fn = f /\ x.todo = SpecList[f] /\ x.seen = {} /\ x.made = {}
        /\ x.pc # "idle"
    BY IdleTyped DEF OpStates
  <2>3. \A i \in 1 .. Len(SpecList[f]) : SpecList[f][i] \in SpecsOf(f)
    BY SpecsOfTyped DEF SpecsOf
  <2>4. op' = [op EXCEPT ![o] = x] /\ UNCHANGED <<tables, ecs, deleting, monitor, faults>>
    BY <1>2 DEF BeginCreate
  <2> HIDE DEF x
  <2> QED
    BY <1>1, <2>1, <2>2, <2>3, <2>4
<1>3. ASSUME NEW f \in Functions, BeginDelete(o, f) PROVE HandInv'
  <2> DEFINE x == [Idle EXCEPT !.kind = "delete", !.fn = f,
                               !.pc = IF f \in meta THEN "read" ELSE "failed"]
  <2>1. x \in OpStates /\ x.kind = "delete" /\ x.fn = f /\ x.seen = {} /\ x.made = {} /\ x.pc # "idle"
    BY IdleTyped DEF OpStates, Pcs
  <2>2. op' = [op EXCEPT ![o] = x] /\ UNCHANGED <<tables, ecs, deleting, monitor, faults>>
    BY <1>3 DEF BeginDelete
  <2> HIDE DEF x
  <2> QED
    BY <1>1, <2>1, <2>2
<1>4. ASSUME NEW p \in Specs, NEW n \in Counts, BeginScale(o, p, n) PROVE HandInv'
  <2>1. n \in Int
    BY ManagerAssumption
  <2> DEFINE x == ScaleFunction(p, n)
  <2>2. x \in OpStates /\ x.kind = "scale" /\ x.spec = p /\ x.seen = {} /\ x.made = {} /\ x.pc # "idle"
    BY <2>1, IdleTyped DEF ScaleFunction, OpStates, Pcs
  <2>3. op' = [op EXCEPT ![o] = x] /\ UNCHANGED <<tables, ecs, deleting, monitor, faults>>
    BY <1>4 DEF BeginScale
  <2> HIDE DEF x
  <2> QED
    BY <1>1, <2>2, <2>3
<1> QED
  BY <1>2, <1>3, <1>4 DEF Begins

(* A call moves on without creating a service or inserting a row.          *)
LEMMA HandContinues ==
  ASSUME HandInv, NEW o \in Ops, op[o].pc # "idle",
         NEW x \in OpStates, op' = [op EXCEPT ![o] = x], x.pc # "idle",
         x.kind = op[o].kind, x.fn = op[o].fn, x.spec = op[o].spec,
         x.todo = op[o].todo, x.made = op[o].made,
         x.pc \in {"define", "insertMeta"} => x.made = {},
         x.pc \in {"make", "insert"} => x.made = HeldBy(o),
         x.seen \subseteq Numbered, rows' \subseteq Numbered, deleting' \subseteq Numbered,
         meta' \subseteq Functions, taskDefs' \subseteq Specs, faults' \in 0 .. MaxFaults,
         \/ UNCHANGED service
         \/ \E s \in Numbered : service' = [service EXCEPT ![s] = "gone"],
         UNCHANGED <<rowId, specOf, role, monitor>>
  PROVE  HandInv'
<1> USE DEF HandInv
<1>1. OpsTyped' /\ op'[o] = x /\ \A y \in Ops \ {o} : op'[y] = op[y] /\ HeldBy(y)' = HeldBy(y)
  <2>1. /\ op[o].kind \in {"create", "delete"} => op[o].fn \in Functions
        /\ op[o].kind = "create" => \A i \in 1 .. Len(op[o].todo) : op[o].todo[i] \in SpecsOf(op[o].fn)
        /\ op[o].kind = "scale" => op[o].spec \in Specs
    BY DEF OpsTyped
  <2> QED
    BY <2>1, OpMoves
<1>2. \A y \in Ops : HeldBy(y)' \subseteq HeldBy(y)
  BY <1>1 DEF HeldBy
<1>3. \A s \in Services : service'[s] = service[s] \/ (s \in Numbered /\ service'[s] = "gone")
  BY DEF TablesTyped, Numbered
<1>4. TablesTyped'
  BY DEF TablesTyped, Numbered
<1>5. MonitorTyped'
  BY DEF MonitorTyped
<1>6. SeenAreNumbered'
  BY <1>1 DEF SeenAreNumbered, Numbered
<1> QED
  BY <1>1, <1>2, <1>3, <1>4, <1>5, <1>6, HandFrame

LEMMA OpTyped == ASSUME OpsTyped, NEW o \in Ops PROVE op[o] \in OpStates
BY DEF OpsTyped

(* A call goes to another point of its code; all but the tables stays.     *)
LEMMA HandGoes ==
  ASSUME HandInv, NEW o \in Ops, op[o].pc # "idle",
         NEW pc \in Pcs \ {"idle"}, Goto(o, pc),
         pc \in {"define", "insertMeta"} => op[o].made = {},
         pc \in {"make", "insert"} => op[o].made = HeldBy(o),
         rows' \subseteq rows, meta' \subseteq Functions, taskDefs' \subseteq Specs,
         faults' \in 0 .. MaxFaults, UNCHANGED <<rowId, ecs, deleting, monitor>>
  PROVE  HandInv'
<1> DEFINE x == [op[o] EXCEPT !.pc = pc]
<1>1. op[o] \in OpStates
  BY OpTyped DEF HandInv
<1>2. /\ x \in OpStates /\ x.pc = pc
      /\ x.kind = op[o].kind /\ x.fn = op[o].fn /\ x.spec = op[o].spec
      /\ x.todo = op[o].todo /\ x.made = op[o].made /\ x.seen = op[o].seen
  BY <1>1 DEF OpStates
<1>3. op' = [op EXCEPT ![o] = x]
  BY DEF Goto
<1>4. op[o].seen \subseteq Numbered /\ rows' \subseteq Numbered /\ deleting' \subseteq Numbered
  BY DEF HandInv, SeenAreNumbered
<1> HIDE DEF x
<1> QED
  BY <1>2, <1>3, <1>4, HandContinues DEF ecs

LEMMA FaultTyped ==
  ASSUME TablesTyped, UNCHANGED faults \/ (\E kind \in FaultKinds : Fault(kind))
  PROVE  faults' \in 0 .. MaxFaults
BY ManagerAssumption DEF TablesTyped, Fault

LEMMA HandCreate ==
  ASSUME HandInv, NEW o \in Ops, DefineTasks(o) \/ InsertMeta(o) \/ AllHotMade(o)
  PROVE  HandInv'
<1>1. CASE DefineTasks(o)
  <2>1. op[o].fn \in Functions /\ op[o].pc = "define" /\ op[o].made = {}
    BY <1>1 DEF HandInv, OpsTyped, DefineTasks, At
  <2>2. SpecsOf(op[o].fn) \subseteq Specs /\ \A j \in DOMAIN SpecList[op[o].fn] : SpecList[op[o].fn][j] \in Specs
    BY <2>1, SpecsOfTyped
  <2>3. taskDefs' \subseteq Specs
    <3>1. CASE taskDefs' = taskDefs \cup SpecsOf(op[o].fn)
      BY <2>2, <3>1 DEF HandInv, TablesTyped
    <3>2. CASE \E p \in SpecsOf(op[o].fn) : taskDefs' = taskDefs \cup (SpecsOf(op[o].fn) \ {p})
      BY <2>2, <3>2 DEF HandInv, TablesTyped
    <3>3. CASE \E i \in DOMAIN SpecList[op[o].fn] :
                 taskDefs' = taskDefs \cup {SpecList[op[o].fn][j] : j \in 1 .. i - 1}
      <4>1. PICK i \in DOMAIN SpecList[op[o].fn] :
              taskDefs' = taskDefs \cup {SpecList[op[o].fn][j] : j \in 1 .. i - 1}
        BY <3>3
      <4>2. i \in 1 .. Len(SpecList[op[o].fn]) /\ DOMAIN SpecList[op[o].fn] = 1 .. Len(SpecList[op[o].fn])
        BY <2>1, <4>1, SpecsOfTyped
      <4>3. \A j \in 1 .. i - 1 : j \in DOMAIN SpecList[op[o].fn]
        BY <2>1, <4>2, SpecsOfTyped
      <4> QED
        BY <2>2, <4>1, <4>3 DEF HandInv, TablesTyped
    <3> QED
      BY <1>1, <3>1, <3>2, <3>3 DEF DefineTasks
  <2>4. PICK pc \in {"insertMeta", "failed"} : Goto(o, pc)
    BY <1>1 DEF DefineTasks, Fail
  <2>5. faults' \in 0 .. MaxFaults
    BY <1>1, FaultTyped DEF HandInv, DefineTasks, FaultKinds
  <2>6. pc \in Pcs \ {"idle"} /\ meta' \subseteq Functions
        /\ UNCHANGED <<rows, rowId, ecs, deleting, monitor>>
    BY <1>1, <2>4 DEF DefineTasks, Pcs, HandInv, TablesTyped
  <2> QED
    BY <2>1, <2>3, <2>4, <2>5, <2>6, HandGoes
<1>2. CASE InsertMeta(o)
  <2>1. op[o].fn \in Functions /\ op[o].pc = "insertMeta" /\ op[o].made = {} /\ HeldBy(o) = {}
    BY <1>2 DEF HandInv, OpsTyped, InsertMeta, At, HeldBy
  <2>2. PICK pc \in {"make", "failed"} : Goto(o, pc)
    BY <1>2 DEF InsertMeta, Fail
  <2>3. faults' \in 0 .. MaxFaults
    BY <1>2, FaultTyped DEF HandInv, InsertMeta, FaultKinds
  <2>4. pc \in Pcs \ {"idle"} /\ meta' \subseteq Functions /\ taskDefs' \subseteq Specs
        /\ UNCHANGED <<rows, rowId, ecs, deleting, monitor>>
    BY <1>2, <2>1, <2>2 DEF InsertMeta, Pcs, HandInv, TablesTyped
  <2> QED
    BY <2>1, <2>2, <2>3, <2>4, HandGoes
<1>3. CASE AllHotMade(o)
  <2>1. op[o].pc = "make" /\ op[o].made = HeldBy(o) /\ Goto(o, "insert")
        /\ UNCHANGED <<tables, ecs, deleting, monitor, faults>>
    BY <1>3 DEF AllHotMade, At, HeldBy
  <2>2. meta' \subseteq Functions /\ taskDefs' \subseteq Specs /\ faults' \in 0 .. MaxFaults
        /\ rows' = rows /\ rowId' = rowId
    BY <2>1 DEF HandInv, TablesTyped, tables
  <2> QED
    BY <2>1, <2>2, HandGoes DEF Pcs
<1> QED
  BY <1>1, <1>2, <1>3

LEMMA RunTyped ==
  ASSUME TablesTyped, NEW M \in SUBSET Services, NEW p \in Specs, NEW r \in {"hot", "cold"},
         Run(M, p, r), UNCHANGED <<tables, deleting>>, faults' \in 0 .. MaxFaults
  PROVE  TablesTyped'
<1>1. service' \in [Services -> {"unused", "active", "gone"}]
  BY DEF TablesTyped, Run
<1>2. specOf' \in [Services -> Specs \cup {NoSpec}] /\ role' \in [Services -> {"none", "hot", "cold"}]
  BY DEF TablesTyped, Run
<1> QED
  BY <1>1, <1>2 DEF TablesTyped, tables

(* Services are created for a call, which goes on or fails.                *)
LEMMA HandMakes ==
  ASSUME HandInv, NEW o \in Ops, op[o].pc # "idle",
         NEW x \in OpStates, op' = [op EXCEPT ![o] = x], x.pc \in {"make", "insert", "failed"},
         x.kind = op[o].kind, x.fn = op[o].fn, x.spec = op[o].spec, x.seen = op[o].seen,
         x.kind = "create" => \A i \in 1 .. Len(x.todo) : x.todo[i] \in SpecsOf(x.fn),
         NEW n \in Nat, CanCreate(n), NEW p \in Specs, NEW r \in {"hot", "cold"},
         Run(Fresh(n), p, r),
         x.pc # "failed" => x.made \subseteq HeldBy(o) \cup Fresh(n),
         UNCHANGED <<tables, deleting, monitor>>, faults' \in 0 .. MaxFaults
  PROVE  HandInv'
<1> USE DEF HandInv
<1>1. Fresh(n) \subseteq Services /\ \A s \in Fresh(n) : service[s] = "unused"
  BY FreshIsUnused
<1>2. OpsTyped' /\ op'[o] = x /\ \A y \in Ops \ {o} : op'[y] = op[y] /\ HeldBy(y)' = HeldBy(y)
  <2>1. /\ op[o].kind \in {"create", "delete"} => op[o].fn \in Functions
        /\ op[o].kind = "scale" => op[o].spec \in Specs
    BY DEF OpsTyped
  <2> QED
    BY <2>1, OpMoves
<1>3. TablesTyped'
  BY <1>1, RunTyped
<1>4. MonitorTyped'
  BY DEF MonitorTyped
<1>5. SeenAreNumbered'
  BY <1>2 DEF SeenAreNumbered, Numbered, tables
<1>6. HeldBy(o)' \subseteq HeldBy(o) \cup Fresh(n)
  BY <1>2 DEF HeldBy
<1> QED
  BY <1>1, <1>2, <1>3, <1>4, <1>5, <1>6, HandRun DEF tables

LEMMA HandMakeFails ==
  ASSUME HandInv, NEW o \in Ops, op[o].pc # "idle",
         NEW n \in Nat, NEW p \in Specs, NEW r \in {"hot", "cold"},
         BatchCreateFails(o, n, p, r), UNCHANGED <<tables, deleting, monitor>>
  PROVE  HandInv'
<1>1. op[o] \in OpStates
  BY OpTyped DEF HandInv
<1>2. PICK x \in OpStates :
        /\ op' = [op EXCEPT ![o] = x] /\ x.pc = "failed"
        /\ x.kind = op[o].kind /\ x.fn = op[o].fn /\ x.spec = op[o].spec
        /\ x.todo = op[o].todo /\ x.seen = op[o].seen
  <2> DEFINE x == [op[o] EXCEPT !.pc = "failed"]
  <2>1. x \in OpStates /\ op' = [op EXCEPT ![o] = x]
    BY <1>1 DEF OpStates, Pcs, BatchCreateFails, Fail, Goto
  <2> QED
    BY <1>1, <2>1 DEF OpStates
<1>3. x.kind = "create" => \A i \in 1 .. Len(x.todo) : x.todo[i] \in SpecsOf(x.fn)
  BY <1>2 DEF HandInv, OpsTyped
<1>4. faults' \in 0 .. MaxFaults
  BY FaultTyped DEF BatchCreateFails, HandInv, FaultKinds
<1>5. PICK k \in Nat : CanCreate(k) /\ Run(Fresh(k), p, r)
  BY DEF BatchCreateFails
<1> QED
  BY <1>2, <1>3, <1>4, <1>5, HandMakes

LEMMA HandMakeHot ==
  ASSUME HandInv, NEW o \in Ops, MakeHot(o)
  PROVE  HandInv'
<1> DEFINE p == Head(op[o].todo)
           n == MinReplica[p]
           x == [op[o] EXCEPT !.todo = Tail(@), !.made = @ \cup Fresh(n)]
<1>1. op[o] \in OpStates /\ op[o].pc = "make" /\ op[o].kind = "create" /\ op[o].todo # <<>>
  BY OpTyped DEF HandInv, MakeHot, At
<1>2. op[o].todo \in Seq(Specs)
  BY <1>1 DEF OpStates
<1>3. p \in Specs /\ n \in Nat /\ Tail(op[o].todo) \in Seq(Specs)
  BY <1>1, <1>2, ManagerAssumption
<1>4. UNCHANGED <<tables, deleting, monitor>>
  BY DEF MakeHot
<1>5. CASE BatchCreateFails(o, n, p, "hot")
  BY <1>1, <1>3, <1>4, <1>5, HandMakeFails
<1>6. CASE CanCreate(n) /\ Run(Fresh(n), p, "hot") /\ op' = [op EXCEPT ![o] = x] /\ UNCHANGED faults
  <2>1. Fresh(n) \subseteq Services
    BY <1>3, <1>6, FreshIsUnused
  <2>2. /\ x \in OpStates /\ x.pc = "make" /\ x.kind = op[o].kind /\ x.fn = op[o].fn
        /\ x.spec = op[o].spec /\ x.seen = op[o].seen
        /\ x.todo = Tail(op[o].todo) /\ x.made = op[o].made \cup Fresh(n)
    BY <1>1, <1>3, <2>1 DEF OpStates
  <2>3. \A i \in 1 .. Len(x.todo) : x.todo[i] \in SpecsOf(x.fn)
    <3>1. \A i \in 1 .. Len(op[o].todo) : op[o].todo[i] \in SpecsOf(op[o].fn)
      BY <1>1 DEF HandInv, OpsTyped
    <3>2. \A i \in 1 .. Len(Tail(op[o].todo)) :
            i + 1 \in 1 .. Len(op[o].todo) /\ Tail(op[o].todo)[i] = op[o].todo[i + 1]
      BY <1>1, <1>2
    <3> QED
      BY <2>2, <3>1, <3>2
  <2>4. x.made \subseteq HeldBy(o) \cup Fresh(n)
    BY <1>1, <2>2 DEF HeldBy
  <2>5. faults' \in 0 .. MaxFaults
    BY <1>6 DEF HandInv, TablesTyped
  <2> HIDE DEF x, n, p
  <2> QED
    BY <1>1, <1>3, <1>4, <1>6, <2>2, <2>3, <2>4, <2>5, HandMakes
<1>7. op' = [op EXCEPT ![o].todo = Tail(@), ![o].made = @ \cup Fresh(n)] => op' = [op EXCEPT ![o] = x]
  BY <1>1 DEF HandInv, OpsTyped, OpStates
<1> QED
  BY <1>5, <1>6, <1>7 DEF MakeHot

LEMMA HandDecide ==
  ASSUME HandInv, NEW o \in Ops, Decide(o)
  PROVE  HandInv'
<1> DEFINE p == op[o].spec
           n == RealScaleCnt(p, Cardinality(op[o].seen), op[o].cnt)
           made == [op[o] EXCEPT !.made = Fresh(n), !.pc = "insert"]
           shrunk == [op[o] EXCEPT !.cnt = n, !.pc = "shrink"]
<1>1. op[o] \in OpStates /\ op[o].pc = "decide" /\ op[o].kind = "scale" /\ p \in Specs
  BY OpTyped DEF HandInv, OpsTyped, Decide, At
<1>2. n \in Int
  <2>1. Cardinality(op[o].seen) \in Nat /\ op[o].cnt \in Int
    BY <1>1, ServicesFinite DEF OpStates
  <2> QED
    BY <1>1, <2>1, ManagerAssumption DEF RealScaleCnt
<1>3. UNCHANGED <<tables, deleting, monitor>>
  BY DEF Decide
<1>4. CASE Fail(o) /\ UNCHANGED <<ecs, faults>>
  <2>1. Goto(o, "failed") /\ meta' \subseteq Functions /\ taskDefs' \subseteq Specs
        /\ faults' \in 0 .. MaxFaults /\ rows' = rows /\ rowId' = rowId
    BY <1>3, <1>4 DEF Fail, HandInv, TablesTyped, tables
  <2> QED
    BY <1>1, <1>3, <1>4, <2>1, HandGoes DEF Pcs
<1>5. CASE n > 0 /\ BatchCreateFails(o, n, p, "cold")
  BY <1>1, <1>2, <1>3, <1>5, HandMakeFails
<1>6. CASE n > 0 /\ CanCreate(n) /\ Run(Fresh(n), p, "cold") /\ op' = [op EXCEPT ![o] = made]
           /\ UNCHANGED faults
  <2>1. Fresh(n) \subseteq Services
    BY <1>2, <1>6, FreshIsUnused
  <2>2. /\ made \in OpStates /\ made.pc = "insert" /\ made.kind = op[o].kind /\ made.fn = op[o].fn
        /\ made.spec = op[o].spec /\ made.seen = op[o].seen /\ made.made = Fresh(n)
    BY <1>1, <2>1 DEF OpStates, Pcs
  <2>3. faults' \in 0 .. MaxFaults
    BY <1>6 DEF HandInv, TablesTyped
  <2>4. n \in Nat /\ made.pc \in {"make", "insert", "failed"} /\ "cold" \in {"hot", "cold"}
        /\ made.made \subseteq HeldBy(o) \cup Fresh(n) /\ made.kind # "create"
    BY <1>1, <1>2, <1>6, <2>2
  <2> HIDE DEF made, n, p
  <2> QED
    BY <1>1, <1>3, <1>6, <2>2, <2>3, <2>4, HandMakes
<1>7. CASE op' = [op EXCEPT ![o] = shrunk] /\ UNCHANGED <<ecs, faults>>
  <2>1. /\ shrunk \in OpStates /\ shrunk.pc = "shrink" /\ shrunk.kind = op[o].kind
        /\ shrunk.fn = op[o].fn /\ shrunk.spec = op[o].spec /\ shrunk.todo = op[o].todo
        /\ shrunk.made = op[o].made /\ shrunk.seen = op[o].seen
    BY <1>1, <1>2 DEF OpStates, Pcs
  <2>2. /\ op[o].seen \subseteq Numbered /\ rows' \subseteq Numbered /\ deleting' \subseteq Numbered
        /\ meta' \subseteq Functions /\ taskDefs' \subseteq Specs /\ faults' \in 0 .. MaxFaults
        /\ UNCHANGED <<service, rowId, specOf, role, monitor>>
    BY <1>3, <1>7 DEF HandInv, TablesTyped, SeenAreNumbered, tables, ecs
  <2> HIDE DEF shrunk
  <2> QED
    BY <1>1, <1>7, <2>1, <2>2, HandContinues
<1>8. /\ op' = [op EXCEPT ![o].made = Fresh(n), ![o].pc = "insert"] => op' = [op EXCEPT ![o] = made]
      /\ op' = [op EXCEPT ![o].cnt = n, ![o].pc = "shrink"] => op' = [op EXCEPT ![o] = shrunk]
  BY <1>1 DEF HandInv, OpsTyped, OpStates
<1> QED
  BY <1>4, <1>5, <1>6, <1>7, <1>8 DEF Decide

LEMMA HandInsert ==
  ASSUME HandInv, NEW o \in Ops, InsertRows(o)
  PROVE  HandInv'
<1> USE DEF HandInv
<1> DEFINE M == op[o].made
<1>1. /\ op[o] \in OpStates /\ op[o].pc = "insert" /\ M = HeldBy(o) /\ M \in SUBSET Services
      /\ M \cap Numbered = {} /\ \A s \in M : service[s] # "unused"
  BY OpTyped DEF InsertRows, HeldBy, Hands, OpStates
<1>2. UNCHANGED <<meta, taskDefs, ecs, deleting, monitor>>
  BY DEF InsertRows
<1>3. CASE Fault("insert") /\ Fail(o) /\ UNCHANGED <<rows, rowId>>
  <2>1. Goto(o, "failed") /\ meta' \subseteq Functions /\ taskDefs' \subseteq Specs
        /\ faults' \in 0 .. MaxFaults
    BY <1>2, <1>3, FaultTyped DEF Fail, TablesTyped, FaultKinds
  <2> QED
    BY <1>1, <1>2, <1>3, <2>1, HandGoes DEF Pcs
<1>4. CASE Insert(M) /\ Return(o) /\ UNCHANGED faults
  <2>1. rowId \in [Services -> Nat]
    BY DEF TablesTyped
  <2>2. /\ rowId' \in [Services -> Nat]
        /\ Numbered' = Numbered \cup M
        /\ Cardinality(Numbered') = Cardinality(Numbered) + Cardinality(M)
        /\ \A s \in Services \ M : rowId'[s] = rowId[s]
        /\ \A s \in M : rowId'[s] > Cardinality(Numbered) /\ rowId'[s] <= Cardinality(Numbered')
        /\ \A s, t \in M : rowId'[s] = rowId'[t] => s = t
    <3> HIDE DEF M
    <3> QED
      BY <1>1, <1>4, <2>1, InsertNumbers
  <2>3. rows' = rows \cup M
    BY <1>4 DEF Insert
  <2>4. PICK x \in OpStates :
          /\ op' = [op EXCEPT ![o] = x] /\ x.pc = "returned"
          /\ x.kind = op[o].kind /\ x.fn = op[o].fn /\ x.spec = op[o].spec
          /\ x.todo = op[o].todo /\ x.seen = op[o].seen
    <3> DEFINE x == [op[o] EXCEPT !.pc = "returned"]
    <3>1. x \in OpStates /\ op' = [op EXCEPT ![o] = x]
      BY <1>1, <1>4 DEF OpStates, Pcs, Return, Goto
    <3> QED
      BY <1>1, <3>1 DEF OpStates
  <2>5. OpsTyped' /\ op'[o] = x /\ \A y \in Ops \ {o} : op'[y] = op[y] /\ HeldBy(y)' = HeldBy(y)
    <3>1. /\ op[o].kind \in {"create", "delete"} => op[o].fn \in Functions
          /\ op[o].kind = "create" => \A i \in 1 .. Len(op[o].todo) : op[o].todo[i] \in SpecsOf(op[o].fn)
          /\ op[o].kind = "scale" => op[o].spec \in Specs
      BY DEF OpsTyped
    <3> QED
      BY <2>4, <3>1, OpMoves
  <2>6. HeldBy(o)' = {}
    BY <2>4, <2>5 DEF HeldBy
  <2>7. TablesTyped'
    BY <1>1, <1>2, <1>4, <2>2, <2>3 DEF TablesTyped, ecs
  <2>8. MonitorTyped'
    BY <1>2 DEF MonitorTyped
  <2>9. Numbering'
    <3>1. Cardinality(Numbered) \in Nat /\ Cardinality(M) \in Nat
      BY <1>1, ServicesFinite DEF Numbered
    <3>2. ASSUME NEW s \in Services PROVE rowId'[s] <= Cardinality(Numbered')
      <4>1. s \notin M => rowId'[s] = rowId[s] /\ rowId[s] <= Cardinality(Numbered) /\ rowId[s] \in Int
        BY <2>1, <2>2, ServicesFinite DEF Numbering
      <4> QED
        BY <2>2, <3>1, <4>1
    <3>3. ASSUME NEW s \in Numbered', NEW t \in Numbered', rowId'[s] = rowId'[t] PROVE s = t
      <4>1. s \in Services /\ t \in Services /\ (s \in M \/ s \in Numbered) /\ (t \in M \/ t \in Numbered)
        BY <2>2 DEF Numbered
      <4>2. \A u \in Numbered : rowId'[u] = rowId[u] /\ rowId[u] <= Cardinality(Numbered) /\ rowId[u] \in Int
        BY <1>1, <2>1, <2>2, ServicesFinite DEF Numbering, Numbered
      <4>3. \A u \in M : rowId'[u] > Cardinality(Numbered) /\ rowId'[u] \in Int
        BY <1>1, <2>2, ServicesFinite
      <4> QED
        BY <2>2, <3>1, <3>3, <4>1, <4>2, <4>3 DEF Numbering
    <3> QED
      BY <3>2, <3>3 DEF Numbering
  <2>10. Hands'
    <3>1. \A s \in Services : IF service'[s] = "unused" THEN s \notin Numbered' ELSE specOf'[s] \in Specs
      BY <1>1, <1>2, <2>2 DEF Hands, ecs
    <3>2. \A y \in Ops : \A s \in HeldBy(y)' : s \notin Numbered' /\ service'[s] # "unused"
      BY <1>1, <1>2, <2>2, <2>5, <2>6 DEF Hands, ecs
    <3>3. \A y, z \in Ops : y # z => HeldBy(y)' \cap HeldBy(z)' = {}
      BY <2>5, <2>6 DEF Hands
    <3> QED
      BY <3>1, <3>2, <3>3 DEF Hands
  <2>11. SeenAreNumbered'
    BY <1>2, <2>2, <2>3, <2>4, <2>5 DEF SeenAreNumbered
  <2> QED
    BY <2>5, <2>7, <2>8, <2>9, <2>10, <2>11
<1> QED
  BY <1>3, <1>4 DEF InsertRows

LEMMA HandScale ==
  ASSUME HandInv, NEW o \in Ops, ReadInstances(o) \/ Shrink(o) \/ ShrinkDone(o)
  PROVE  HandInv'
<1> USE DEF HandInv
<1>1. op[o] \in OpStates /\ rows \subseteq Numbered /\ op[o].seen \subseteq Numbered
  BY OpTyped DEF SeenAreNumbered
<1>2. meta \subseteq Functions /\ taskDefs \subseteq Specs /\ faults \in 0 .. MaxFaults
  BY DEF TablesTyped
<1>3. CASE ReadInstances(o)
  <2>1. op[o].pc = "read" /\ UNCHANGED <<tables, ecs, deleting, monitor>>
    BY <1>3 DEF ReadInstances, At
  <2>2. CASE Fault("read") /\ Fail(o)
    <3>1. Goto(o, "failed") /\ faults' \in 0 .. MaxFaults
      BY <2>2, FaultTyped DEF Fail, FaultKinds
    <3> QED
      BY <1>2, <2>1, <3>1, HandGoes DEF Pcs, tables
  <2>3. CASE op' = [op EXCEPT ![o].seen = RowsOf(op[o].spec), ![o].pc = "decide"] /\ UNCHANGED faults
    <3>1. RowsOf(op[o].spec) \subseteq rows
      BY DEF RowsOf
    <3>2. PICK x \in OpStates :
            /\ op' = [op EXCEPT ![o] = x] /\ x.pc = "decide" /\ x.seen = RowsOf(op[o].spec)
            /\ x.kind = op[o].kind /\ x.fn = op[o].fn /\ x.spec = op[o].spec
            /\ x.todo = op[o].todo /\ x.made = op[o].made
      <4> DEFINE x == [op[o] EXCEPT !.seen = RowsOf(op[o].spec), !.pc = "decide"]
      <4>1. x \in OpStates /\ op' = [op EXCEPT ![o] = x]
        BY <1>1, <2>3, <3>1 DEF OpStates, Pcs, OpsTyped, TablesTyped
      <4> QED
        BY <1>1, <4>1 DEF OpStates
    <3>3. deleting' \subseteq Numbered /\ rows' \subseteq Numbered
          /\ UNCHANGED <<meta, taskDefs, faults, service, rowId, specOf, role, monitor>>
      BY <1>1, <2>1, <2>3 DEF SeenAreNumbered, tables, ecs
    <3> QED
      BY <1>1, <1>2, <2>1, <3>1, <3>2, <3>3, HandContinues
  <2> QED
    BY <1>3, <2>2, <2>3 DEF ReadInstances
<1>4. CASE Shrink(o)
  <2> DEFINE s == FirstOf(Removable(o))
  <2>1. op[o].pc = "shrink" /\ Removable(o) # {} /\ Removable(o) \subseteq op[o].seen
        /\ op[o].seen \subseteq Services
    BY <1>1, <1>4 DEF Shrink, At, Removable, OpStates
  <2>2. s \in Numbered
    BY <1>1, <2>1, FirstHasLowestNumber DEF TablesTyped
  <2>3. PICK x \in OpStates :
          /\ op' = [op EXCEPT ![o] = x] /\ x.pc = "shrink" /\ x.seen = op[o].seen \ {s}
          /\ x.kind = op[o].kind /\ x.fn = op[o].fn /\ x.spec = op[o].spec
          /\ x.todo = op[o].todo /\ x.made = op[o].made
    <3> DEFINE x == [op[o] EXCEPT !.cnt = @ + 1, !.seen = @ \ {s}]
    <3>1. op' = [op EXCEPT ![o].cnt = @ + 1, ![o].seen = @ \ {s}]
      BY <1>4 DEF Shrink
    <3> HIDE DEF s
    <3>2. op' = [op EXCEPT ![o] = x]
      BY <1>1, <3>1 DEF OpStates, OpsTyped
    <3>3. x \in OpStates
      <4>1. op[o].cnt + 1 \in Int /\ op[o].seen \ {s} \in SUBSET Services
        BY <1>1, <2>1 DEF OpStates
      <4> QED
        BY <1>1, <4>1 DEF OpStates
    <3> QED
      BY <1>1, <2>1, <3>2, <3>3 DEF OpStates
  <2>4. /\ rows' \subseteq Numbered /\ deleting' \subseteq Numbered /\ faults' \in 0 .. MaxFaults
        /\ UNCHANGED <<meta, taskDefs, service, rowId, specOf, role, monitor>>
    BY <1>1, <1>4, <2>2, FaultTyped DEF Shrink, SeenAreNumbered, ecs, FaultKinds
  <2> QED
    BY <1>1, <1>2, <2>1, <2>3, <2>4, HandContinues
<1>5. CASE ShrinkDone(o)
  <2>1. op[o].pc = "shrink" /\ Goto(o, "returned") /\ UNCHANGED <<tables, ecs, deleting, monitor, faults>>
    BY <1>5 DEF ShrinkDone, At, Return
  <2> QED
    BY <1>2, <2>1, HandGoes DEF Pcs, tables
<1> QED
  BY <1>3, <1>4, <1>5

LEMMA HandDelete ==
  ASSUME HandInv, NEW o \in Ops,
         ReadDoomed(o) \/ DeleteService(o) \/ DeleteRows(o) \/ DeleteMeta(o)
  PROVE  HandInv'
<1>1. op[o] \in OpStates /\ rows \subseteq Numbered /\ deleting \subseteq Numbered
      /\ op[o].seen \subseteq Numbered /\ op[o].seen \subseteq Services
  BY OpTyped DEF HandInv, SeenAreNumbered, OpStates
<1>2. /\ meta \subseteq Functions /\ taskDefs \subseteq Specs /\ rows \subseteq Services
      /\ faults \in 0 .. MaxFaults /\ rowId \in [Services -> Nat]
  BY DEF HandInv, TablesTyped
<1>3. ASSUME UNCHANGED faults \/ (\E kind \in FaultKinds : Fault(kind))
      PROVE  faults' \in 0 .. MaxFaults
  BY <1>3, FaultTyped DEF HandInv
<1>4. CASE ReadDoomed(o)
  <2>1. op[o].pc = "read" /\ UNCHANGED <<tables, ecs, deleting, monitor>>
    BY <1>4 DEF ReadDoomed, At
  <2>2. CASE Fault("read") /\ Fail(o)
    <3>1. Goto(o, "failed") /\ faults' \in 0 .. MaxFaults
      BY <1>3, <2>2 DEF Fail, FaultKinds
    <3> QED
      BY <1>2, <2>1, <3>1, HandGoes DEF Pcs, tables
  <2>3. CASE op' = [op EXCEPT ![o].seen = RowsOfFn(op[o].fn), ![o].pc = "services"]
             /\ UNCHANGED faults
    <3>1. RowsOfFn(op[o].fn) \subseteq rows /\ RowsOfFn(op[o].fn) \subseteq Services
      BY <1>2 DEF RowsOfFn
    <3>2. PICK x \in OpStates :
            /\ op' = [op EXCEPT ![o] = x] /\ x.pc = "services" /\ x.seen = RowsOfFn(op[o].fn)
            /\ x.kind = op[o].kind /\ x.fn = op[o].fn /\ x.spec = op[o].spec
            /\ x.todo = op[o].todo /\ x.made = op[o].made
      <4> DEFINE x == [op[o] EXCEPT !.seen = RowsOfFn(op[o].fn), !.pc = "services"]
      <4>1. op' = [op EXCEPT ![o] = x]
        BY <1>1, <2>3 DEF OpStates, HandInv, OpsTyped
      <4>2. x \in OpStates
        BY <1>1, <3>1 DEF OpStates, Pcs
      <4> QED
        BY <1>1, <4>1, <4>2 DEF OpStates
    <3>3. deleting' \subseteq Numbered /\ rows' \subseteq Numbered
          /\ UNCHANGED <<meta, taskDefs, faults, service, rowId, specOf, role, monitor>>
      BY <1>1, <2>1, <2>3 DEF tables, ecs
    <3> QED
      BY <1>1, <1>2, <2>1, <3>1, <3>2, <3>3, HandContinues
  <2> QED
    BY <1>4, <2>2, <2>3 DEF ReadDoomed
<1>5. CASE DeleteService(o)
  <2> DEFINE s == FirstOf(op[o].seen)
  <2>1. op[o].pc = "services" /\ s \in Numbered
    BY <1>1, <1>2, <1>5, FirstHasLowestNumber DEF DeleteService, At
  <2>2. PICK x \in OpStates :
          /\ op' = [op EXCEPT ![o] = x] /\ x.pc = "services" /\ x.seen = op[o].seen \ {s}
          /\ x.kind = op[o].kind /\ x.fn = op[o].fn /\ x.spec = op[o].spec
          /\ x.todo = op[o].todo /\ x.made = op[o].made
    <3> DEFINE x == [op[o] EXCEPT !.seen = @ \ {s}]
    <3>1. op' = [op EXCEPT ![o] = x]
      BY <1>5 DEF DeleteService
    <3> HIDE DEF s
    <3>2. x \in OpStates
      BY <1>1 DEF OpStates
    <3> QED
      BY <1>1, <2>1, <3>1, <3>2 DEF OpStates
  <2>3. /\ UNCHANGED service \/ service' = [service EXCEPT ![s] = "gone"]
        /\ UNCHANGED <<tables, specOf, role, deleting, monitor>>
    BY <1>5 DEF DeleteService
  <2>4. faults' \in 0 .. MaxFaults
    BY <1>3, <1>5 DEF DeleteService, FaultKinds
  <2> HIDE DEF s
  <2> QED
    BY <1>1, <1>2, <2>1, <2>2, <2>3, <2>4, HandContinues DEF tables
<1>6. CASE DeleteRows(o)
  <2>1. /\ op[o].pc = "services" /\ Goto(o, "deleteMeta") /\ rows' \subseteq rows
        /\ UNCHANGED <<meta, taskDefs, rowId, ecs, deleting, monitor>>
    BY <1>6 DEF DeleteRows, At
  <2>2. faults' \in 0 .. MaxFaults
    BY <1>3, <1>6 DEF DeleteRows, FaultKinds
  <2> QED
    BY <1>2, <2>1, <2>2, HandGoes DEF Pcs
<1>7. CASE DeleteMeta(o)
  <2>1. /\ op[o].pc = "deleteMeta" /\ Goto(o, "returned") /\ meta' \subseteq meta
        /\ UNCHANGED <<taskDefs, rows, rowId, ecs, deleting, monitor>>
    BY <1>7 DEF DeleteMeta, At, Return
  <2>2. faults' \in 0 .. MaxFaults
    BY <1>3, <1>7 DEF DeleteMeta, FaultKinds
  <2> QED
    BY <1>2, <2>1, <2>2, HandGoes DEF Pcs
<1> QED
  BY <1>4, <1>5, <1>6, <1>7

LEMMA HandBackground ==
  ASSUME HandInv, Background
  PROVE  HandInv'
<1> USE DEF HandInv
<1>1. rows \subseteq Numbered /\ deleting \subseteq Numbered /\ monitor.ins \subseteq Numbered
  BY DEF SeenAreNumbered
<1>2. UNCHANGED <<op, rowId, specOf>>
  BY DEF Background, AsyncDelete, MonitorLists, MonitorReads, MonitorSaves, tables, ecs
<1>3. OpsTyped' /\ \A o \in Ops : HeldBy(o)' = HeldBy(o)
  BY <1>2 DEF OpsTyped, HeldBy
<1>4. Numbered' = Numbered /\ \A o \in Ops : op'[o].seen \subseteq Numbered
  BY <1>2 DEF Numbered, SeenAreNumbered
<1>5. ASSUME NEW s \in Services, AsyncDelete(s) PROVE HandInv'
  <2>1. /\ s \in Numbered /\ deleting' \subseteq deleting /\ UNCHANGED <<tables, specOf, role, monitor>>
        /\ UNCHANGED service \/ service' = [service EXCEPT ![s] = "gone"]
    BY <1>1, <1>5 DEF AsyncDelete
  <2>2. faults' \in 0 .. MaxFaults
    BY <1>5, FaultTyped DEF AsyncDelete, FaultKinds
  <2>3. TablesTyped' /\ MonitorTyped' /\ SeenAreNumbered'
    BY <1>1, <1>4, <2>1, <2>2 DEF TablesTyped, MonitorTyped, SeenAreNumbered, tables
  <2>4. \A t \in Services : service'[t] = service[t] \/ (t \in Numbered /\ service'[t] = "gone")
    BY <2>1 DEF TablesTyped
  <2> QED
    BY <1>2, <1>3, <2>3, <2>4, HandFrame
<1>6. ASSUME MonitorTyped', monitor'.ins \subseteq Numbered, rows' \subseteq Numbered,
             UNCHANGED <<meta, taskDefs, rowId, ecs, deleting, faults>>
      PROVE  HandInv'
  <2>1. TablesTyped' /\ SeenAreNumbered'
    BY <1>1, <1>4, <1>6 DEF TablesTyped, SeenAreNumbered, ecs, Numbered
  <2> QED
    BY <1>2, <1>3, <1>6, <2>1, HandFrame DEF ecs
<1>7. CASE MonitorLists
  BY <1>1, <1>6, <1>7 DEF MonitorLists, MonitorTyped, TablesTyped, tables
<1>8. CASE MonitorReads
  <2>1. UNCHANGED <<tables, ecs, deleting, faults>>
    BY <1>8 DEF MonitorReads
  <2>2. MonitorTyped' /\ monitor'.ins \subseteq Numbered
    <3>1. CASE monitor' = [monitor EXCEPT !.at = "list"]
      BY <1>1, <3>1 DEF MonitorTyped
    <3>2. CASE \E f \in monitor.todo : \E ins \in SUBSET RowsOfFn(f) :
                 monitor' = [at |-> "save", todo |-> monitor.todo \ {f}, ins |-> ins]
      BY <1>1, <3>2 DEF MonitorTyped, RowsOfFn, Numbered
    <3> QED
      BY <1>8, <3>1, <3>2 DEF MonitorReads
  <2> QED
    BY <1>1, <1>6, <2>1, <2>2 DEF tables
<1>9. CASE MonitorSaves
  <2>1. rows' = rows \cup monitor.ins /\ monitor' = [monitor EXCEPT !.at = "read", !.ins = {}]
        /\ UNCHANGED <<meta, taskDefs, rowId, ecs, deleting, faults>>
    BY <1>9 DEF MonitorSaves
  <2>2. MonitorTyped' /\ monitor'.ins = {}
    BY <2>1 DEF MonitorTyped
  <2> QED
    BY <1>1, <1>6, <2>1, <2>2
<1> QED
  BY <1>5, <1>7, <1>8, <1>9 DEF Background

LEMMA HandRestart ==
  ASSUME HandInv, Restart
  PROVE  HandInv'
<1> USE DEF HandInv
<1>1. UNCHANGED <<tables, ecs>> /\ deleting' = {} /\ monitor' = [at |-> "list", todo |-> {}, ins |-> {}]
  BY DEF Restart, ProcessEnds
<1>2. faults' \in 0 .. MaxFaults
  BY FaultTyped DEF Restart, FaultKinds
<1>3. TablesTyped' /\ MonitorTyped'
  BY <1>1, <1>2 DEF TablesTyped, MonitorTyped, tables, ecs
<1>4. ASSUME NEW o \in Ops
      PROVE  /\ op'[o] \in OpStates
             /\ op'[o] = op[o] \/ op'[o].pc = "failed"
             /\ op'[o].kind = op[o].kind /\ op'[o].fn = op[o].fn /\ op'[o].spec = op[o].spec
             /\ op'[o].todo = op[o].todo /\ op'[o].made = op[o].made /\ op'[o].seen = op[o].seen
  <2>1. op[o] \in OpStates
    BY OpTyped
  <2>2. op'[o] = op[o] \/ op'[o] = [op[o] EXCEPT !.pc = "failed"]
    BY DEF Restart, ProcessEnds
  <2> QED
    BY <2>1, <2>2 DEF OpStates, Pcs
<1>5. OpsTyped'
  <2>1. op' \in [Ops -> OpStates]
    BY <1>4 DEF Restart, ProcessEnds
  <2> QED
    BY <1>4, <2>1 DEF OpsTyped
<1>6. SeenAreNumbered'
  BY <1>1, <1>4 DEF SeenAreNumbered, Numbered, tables
<1>7. \A o \in Ops : HeldBy(o)' \subseteq HeldBy(o)
  BY <1>4 DEF HeldBy
<1> QED
  BY <1>1, <1>3, <1>5, <1>6, <1>7, HandFrame DEF tables, ecs

LEMMA HandNext == HandInv /\ [Next]_vars => HandInv'
<1> SUFFICES ASSUME HandInv, [Next]_vars PROVE HandInv'
  OBVIOUS
<1>1. ASSUME NEW o \in Ops, Begins(o) \/ Continues(o) PROVE HandInv'
  BY <1>1, HandBegins, HandCreate, HandMakeHot, HandInsert, HandScale, HandDecide, HandDelete
     DEF Continues
<1>2. CASE UNCHANGED vars
  <2>1. TablesTyped' /\ OpsTyped' /\ MonitorTyped' /\ SeenAreNumbered'
    BY <1>2 DEF HandInv, TablesTyped, OpsTyped, MonitorTyped, SeenAreNumbered, Numbered,
                vars, tables, ecs
  <2>2. \A o \in Ops : HeldBy(o)' = HeldBy(o)
    BY <1>2 DEF HeldBy, vars
  <2> QED
    BY <1>2, <2>1, <2>2, HandFrame DEF vars, tables, ecs
<1> QED
  BY <1>1, <1>2, HandBackground, HandRestart DEF Next

THEOREM HandInvariant == Spec => []HandInv
BY HandInit, HandNext, PTL DEF Spec

(***************************************************************************)
(* Every variable keeps to the values the code can give it: in particular  *)
(* no call goes on with a service whose creation failed, and no row is     *)
(* inserted for one.                                                       *)
(***************************************************************************)
THEOREM TypesAreKept == Spec => []TypeOK
BY HandInvariant, HandInvTypes, PTL

-----------------------------------------------------------------------------
(* What no step ever changes.                                              *)

(* What the steps of a call leave alone.                                   *)
LEMMA ContinuesFrame ==
  ASSUME NEW o \in Ops, Continues(o)
  PROVE  /\ op[o].pc # "idle"
         /\ faults' \in {faults, faults + 1}
         /\ UNCHANGED monitor
         /\ UNCHANGED <<specOf, role>> \/ MakeHot(o) \/ Decide(o)
         /\ UNCHANGED service \/ MakeHot(o) \/ Decide(o) \/ DeleteService(o)
         /\ UNCHANGED rowId \/ InsertRows(o)
         /\ rows' \subseteq rows \/ InsertRows(o)
         /\ rows \subseteq rows' \/ Shrink(o) \/ DeleteRows(o)
         /\ UNCHANGED deleting \/ Shrink(o)
         /\ meta \subseteq meta' \/ DeleteMeta(o)
<1> USE DEF Fault, At, tables, ecs
<1>1. CASE DefineTasks(o)
  BY <1>1 DEF DefineTasks
<1>2. CASE InsertMeta(o)
  BY <1>2 DEF InsertMeta
<1>3. CASE MakeHot(o)
  BY <1>3 DEF MakeHot, BatchCreateFails
<1>4. CASE AllHotMade(o)
  BY <1>4 DEF AllHotMade
<1>5. CASE InsertRows(o)
  BY <1>5 DEF InsertRows, Insert
<1>6. CASE ReadInstances(o)
  BY <1>6 DEF ReadInstances
<1>7. CASE Decide(o)
  BY <1>7 DEF Decide, BatchCreateFails
<1>8. CASE Shrink(o)
  BY <1>8 DEF Shrink
<1>9. CASE ShrinkDone(o)
  BY <1>9 DEF ShrinkDone
<1>10. CASE ReadDoomed(o)
  BY <1>10 DEF ReadDoomed
<1>11. CASE DeleteService(o)
  BY <1>11 DEF DeleteService
<1>12. CASE DeleteRows(o)
  BY <1>12 DEF DeleteRows
<1>13. CASE DeleteMeta(o)
  BY <1>13 DEF DeleteMeta
<1> QED
  BY <1>1, <1>2, <1>3, <1>4, <1>5, <1>6, <1>7, <1>8, <1>9, <1>10, <1>11, <1>12, <1>13 DEF Continues

LEMMA BeginsFrame ==
  ASSUME NEW o \in Ops, Begins(o)
  PROVE  op[o].pc = "idle" /\ UNCHANGED <<tables, ecs, deleting, monitor, faults>>
BY DEF Begins, BeginCreate, BeginDelete, BeginScale

LEMMA BackgroundFrame ==
  ASSUME Background
  PROVE  /\ UNCHANGED <<meta, rowId, specOf, role, op>> /\ faults' \in {faults, faults + 1}
         /\ UNCHANGED service \/ \E t \in Services : AsyncDelete(t)
         /\ rows \subseteq rows' /\ (UNCHANGED rows \/ MonitorSaves)
         /\ deleting' \subseteq deleting
         /\ UNCHANGED monitor \/ MonitorLists \/ MonitorReads \/ MonitorSaves
<1> USE DEF Fault, tables, ecs
<1>1. ASSUME NEW t \in Services, AsyncDelete(t)
      PROVE  /\ UNCHANGED <<meta, rows, rowId, specOf, role, op, monitor>>
             /\ faults' \in {faults, faults + 1} /\ deleting' \subseteq deleting
  BY <1>1 DEF AsyncDelete
<1>2. CASE MonitorLists
  BY <1>2 DEF MonitorLists
<1>3. CASE MonitorReads
  BY <1>3 DEF MonitorReads
<1>4. CASE MonitorSaves
  BY <1>4 DEF MonitorSaves
<1> QED
  BY <1>1, <1>2, <1>3, <1>4 DEF Background

LEMMA RestartFrame ==
  ASSUME Restart
  PROVE  /\ UNCHANGED <<tables, ecs>> /\ faults' = faults + 1 /\ deleting' = {}
         /\ monitor' = [at |-> "list", todo |-> {}, ins |-> {}]
BY DEF Restart, ProcessEnds, Fault

(* Which steps change what.                                                *)
LEMMA StepFrame ==
  ASSUME [Next]_vars
  PROVE  /\ faults' \in {faults, faults + 1}
         /\ UNCHANGED <<specOf, role>> \/ \E o \in Ops : MakeHot(o) \/ Decide(o)
         /\ \/ UNCHANGED service
            \/ \E o \in Ops : MakeHot(o) \/ Decide(o) \/ DeleteService(o)
            \/ \E t \in Services : AsyncDelete(t)
         /\ UNCHANGED rowId \/ \E o \in Ops : InsertRows(o)
         /\ rows' \subseteq rows \/ MonitorSaves \/ \E o \in Ops : InsertRows(o)
         /\ rows \subseteq rows' \/ \E o \in Ops : Shrink(o) \/ DeleteRows(o)
         /\ deleting' \subseteq deleting \/ \E o \in Ops : Shrink(o)
         /\ meta \subseteq meta' \/ \E o \in Ops : DeleteMeta(o)
         /\ \/ UNCHANGED monitor
            \/ MonitorLists \/ MonitorReads \/ MonitorSaves
            \/ monitor' = [at |-> "list", todo |-> {}, ins |-> {}]
<1>1. ASSUME NEW o \in Ops, Begins(o)
      PROVE  UNCHANGED <<meta, rows, rowId, service, specOf, role, deleting, monitor, faults>>
  BY <1>1, BeginsFrame DEF tables, ecs
<1>2. CASE \E o \in Ops : Begins(o)
  BY <1>1, <1>2
<1>3. CASE \E o \in Ops : Continues(o)
  BY <1>3, ContinuesFrame
<1>4. CASE Background
  BY <1>4, BackgroundFrame
<1>5. CASE Restart
  BY <1>5, RestartFrame DEF tables, ecs
<1>6. CASE UNCHANGED vars
  BY <1>6 DEF vars, tables, ecs
<1> QED
  BY <1>2, <1>3, <1>4, <1>5, <1>6 DEF Next

(* A call keeps its operation and its arguments.                           *)
LEMMA CallsStay ==
  ASSUME HandInv, [Next]_vars, NEW o \in Ops, op[o].pc # "idle"
  PROVE  op'[o].kind = op[o].kind /\ op'[o].fn = op[o].fn /\ op'[o].spec = op[o].spec
<1>1. OpsTyped /\ op[o] \in OpStates
  BY OpTyped DEF HandInv
<1>2. ASSUME NEW y \in Ops, NEW pc, Goto(y, pc)
      PROVE  op'[o].kind = op[o].kind /\ op'[o].fn = op[o].fn /\ op'[o].spec = op[o].spec
  BY <1>1, <1>2 DEF Goto, OpsTyped, OpStates
<1>3. ASSUME NEW y \in Ops, Begins(y)
      PROVE  op'[o].kind = op[o].kind /\ op'[o].fn = op[o].fn /\ op'[o].spec = op[o].spec
  BY <1>1, <1>3 DEF Begins, BeginCreate, BeginDelete, BeginScale, OpsTyped
<1>4. ASSUME NEW y \in Ops, Continues(y)
      PROVE  op'[o].kind = op[o].kind /\ op'[o].fn = op[o].fn /\ op'[o].spec = op[o].spec
  <2>1. CASE DefineTasks(y) \/ InsertMeta(y) \/ AllHotMade(y) \/ InsertRows(y) \/ ShrinkDone(y)
             \/ DeleteRows(y) \/ DeleteMeta(y)
    BY <1>2, <2>1 DEF DefineTasks, InsertMeta, AllHotMade, InsertRows, ShrinkDone, DeleteRows,
                      DeleteMeta, Return, Fail
  <2>2. CASE MakeHot(y)
    <3>1. CASE op' = [op EXCEPT ![y].todo = Tail(@), ![y].made = @ \cup Fresh(MinReplica[Head(op[y].todo)])]
      BY <1>1, <3>1 DEF OpsTyped, OpStates
    <3> QED
      BY <1>2, <2>2, <3>1 DEF MakeHot, BatchCreateFails, Fail
  <2>3. CASE ReadInstances(y)
    <3>1. CASE op' = [op EXCEPT ![y].seen = RowsOf(op[y].spec), ![y].pc = "decide"]
      BY <1>1, <3>1 DEF OpsTyped, OpStates
    <3> QED
      BY <1>2, <2>3, <3>1 DEF ReadInstances, Fail
  <2>4. CASE ReadDoomed(y)
    <3>1. CASE op' = [op EXCEPT ![y].seen = RowsOfFn(op[y].fn), ![y].pc = "services"]
      BY <1>1, <3>1 DEF OpsTyped, OpStates
    <3> QED
      BY <1>2, <2>4, <3>1 DEF ReadDoomed, Fail
  <2>5. CASE Decide(y)
    BY <1>1, <1>2, <2>5 DEF Decide, BatchCreateFails, Fail, OpsTyped, OpStates
  <2>6. CASE Shrink(y)
    BY <1>1, <2>6 DEF Shrink, OpsTyped, OpStates
  <2>7. CASE DeleteService(y)
    BY <1>1, <2>7 DEF DeleteService, OpsTyped, OpStates
  <2> QED
    BY <1>4, <2>1, <2>2, <2>3, <2>4, <2>5, <2>6, <2>7 DEF Continues
<1>5. CASE Background \/ UNCHANGED vars
  BY <1>5 DEF Background, AsyncDelete, MonitorLists, MonitorReads, MonitorSaves, vars
<1>6. CASE Restart
  BY <1>1, <1>6 DEF Restart, ProcessEnds, OpStates
<1> QED
  BY <1>3, <1>4, <1>5, <1>6 DEF Next

LEMMA DeleteStaysCalled ==
  ASSUME HandInv, [Next]_vars, DeleteCalled
  PROVE  DeleteCalled'
<1>1. PICK o \in Ops : op[o].kind = "delete"
  BY DEF DeleteCalled
<1>2. op[o].pc # "idle"
  BY <1>1 DEF HandInv, OpsTyped
<1> QED
  BY <1>1, <1>2, CallsStay DEF DeleteCalled

(* Only MakeHot and Decide create services, for specs that are unused.     *)
LEMMA RunsStay ==
  ASSUME HandInv, [Next]_vars, NEW s \in Services, service[s] # "unused"
  PROVE  specOf'[s] = specOf[s] /\ role'[s] = role[s]
<1>1. ASSUME NEW n \in Nat, NEW p, NEW r, CanCreate(n), Run(Fresh(n), p, r)
      PROVE  specOf'[s] = specOf[s] /\ role'[s] = role[s]
  BY <1>1, FreshIsUnused DEF Run
<1>2. ASSUME NEW o \in Ops, NEW n \in Nat, NEW p, NEW r, BatchCreateFails(o, n, p, r)
      PROVE  specOf'[s] = specOf[s] /\ role'[s] = role[s]
  BY <1>1, <1>2 DEF BatchCreateFails
<1>3. ASSUME NEW o \in Ops, MakeHot(o)
      PROVE  specOf'[s] = specOf[s] /\ role'[s] = role[s]
  <2>1. MinReplica[Head(op[o].todo)] \in Nat
    <3>1. op[o].todo \in Seq(Specs) /\ op[o].todo # <<>>
      BY <1>3, OpTyped DEF HandInv, OpStates, MakeHot
    <3> QED
      BY <3>1, ManagerAssumption
  <2> QED
    BY <1>1, <1>2, <1>3, <2>1 DEF MakeHot
<1>4. ASSUME NEW o \in Ops, Decide(o)
      PROVE  specOf'[s] = specOf[s] /\ role'[s] = role[s]
  <2> DEFINE n == RealScaleCnt(op[o].spec, Cardinality(op[o].seen), op[o].cnt)
  <2>1. n \in Int
    <3>1. op[o].spec \in Specs /\ op[o].cnt \in Int /\ Cardinality(op[o].seen) \in Nat
      BY <1>4, OpTyped, ServicesFinite DEF HandInv, OpsTyped, OpStates, Decide, At
    <3> QED
      BY <3>1, ManagerAssumption DEF RealScaleCnt
  <2> HIDE DEF n
  <2>2. CASE n > 0 /\ CanCreate(n) /\ Run(Fresh(n), op[o].spec, "cold")
    BY <1>1, <2>1, <2>2
  <2>3. CASE n > 0 /\ BatchCreateFails(o, n, op[o].spec, "cold")
    BY <1>2, <2>1, <2>3
  <2> QED
    BY <1>4, <2>2, <2>3 DEF Decide, ecs, n
<1> QED
  BY <1>3, <1>4, StepFrame

LEMMA NumbersStay ==
  ASSUME HandInv, [Next]_vars, NEW s \in Numbered
  PROVE  rowId'[s] = rowId[s]
<1>1. ASSUME NEW o \in Ops, InsertRows(o) PROVE rowId'[s] = rowId[s]
  <2>1. s \in Services /\ s \notin op[o].made
    BY <1>1 DEF InsertRows, HandInv, Hands, HeldBy, Numbered
  <2> QED
    BY <1>1, <2>1 DEF InsertRows, Insert
<1> QED
  BY <1>1, StepFrame

-----------------------------------------------------------------------------
(* No service is lost.                                                     *)

Owned(s) == s \in rows \/ s \in deleting \/ \E o \in Ops : s \in HeldBy(o)

LEMMA LostNext == HandInv /\ NoServiceIsLost /\ [Next]_vars => NoServiceIsLost'
<1> SUFFICES ASSUME HandInv, NoServiceIsLost, [Next]_vars, faults' = 0, ~ DeleteCalled',
                    NEW s \in Services, service'[s] = "active"
             PROVE  Owned(s)'
  BY DEF NoServiceIsLost, Owned, HeldBy
<1>1. faults = 0 /\ ~ DeleteCalled /\ UNCHANGED faults
  BY StepFrame, DeleteStaysCalled DEF HandInv, TablesTyped
<1>2. \A kind : ~ Fault(kind)
  BY <1>1 DEF Fault
<1>3. service[s] = "active" => Owned(s)
  BY <1>1 DEF NoServiceIsLost, Owned, HeldBy
<1>4. OpsTyped /\ \A y \in Ops : op[y] \in OpStates
  BY OpTyped DEF HandInv
<1>5. ASSUME service[s] = "active", s \in rows \/ s \in deleting => s \in rows' \/ s \in deleting',
             \A y \in Ops : s \in HeldBy(y) => s \in HeldBy(y)'
      PROVE  Owned(s)'
  BY <1>3, <1>5 DEF Owned
<1>6. ASSUME NEW o \in Ops, NEW x, op' = [op EXCEPT ![o] = x],
             op[o].pc \notin {"make", "insert"}, service[s] = "active",
             s \in rows \/ s \in deleting => s \in rows' \/ s \in deleting'
      PROVE  Owned(s)'
  BY <1>4, <1>5, <1>6 DEF HeldBy, OpsTyped
<1>7. ASSUME NEW o \in Ops, NEW pc, Goto(o, pc),
             op[o].pc \notin {"make", "insert"}, UNCHANGED <<tables, ecs, deleting>>
      PROVE  Owned(s)'
  <2>1. UNCHANGED <<service, rows, deleting>>
    BY <1>7 DEF tables, ecs
  <2> QED
    BY <1>6, <1>7, <2>1 DEF Goto
<1>8. ASSUME NEW o \in Ops, Begins(o) PROVE Owned(s)'
  <2>1. op[o].pc = "idle" /\ UNCHANGED <<service, rows, deleting>> /\ \E x : op' = [op EXCEPT ![o] = x]
    BY <1>8 DEF Begins, BeginCreate, BeginDelete, BeginScale, tables, ecs
  <2> QED
    BY <1>6, <2>1
<1>9. ASSUME NEW o \in Ops, Continues(o) PROVE Owned(s)'
  <2>1. op[o].kind # "delete"
    BY <1>1 DEF DeleteCalled
  <2>2. CASE DefineTasks(o) \/ InsertMeta(o)
    <3>1. UNCHANGED <<service, rows, deleting>> /\ op[o].pc \notin {"make", "insert"}
          /\ \E pc : Goto(o, pc)
      BY <2>2 DEF DefineTasks, InsertMeta, Fail, ecs, At
    <3> QED
      BY <1>6, <3>1 DEF Goto
  <2>3. CASE MakeHot(o)
    <3> DEFINE n == MinReplica[Head(op[o].todo)]
    <3>1. /\ op[o].pc = "make" /\ Run(Fresh(n), Head(op[o].todo), "hot") /\ UNCHANGED <<rows, deleting>>
          /\ op' = [op EXCEPT ![o].todo = Tail(@), ![o].made = @ \cup Fresh(n)]
      BY <1>2, <2>3 DEF MakeHot, BatchCreateFails, At, tables
    <3>2. op'[o].pc = "make" /\ op'[o].made = op[o].made \cup Fresh(n)
          /\ \A y \in Ops \ {o} : op'[y] = op[y]
      BY <1>4, <3>1 DEF OpsTyped, OpStates
    <3>3. s \in Fresh(n) \/ service[s] = "active"
      BY <3>1 DEF Run
    <3>4. s \in Fresh(n) => s \in HeldBy(o)'
      BY <3>2 DEF HeldBy
    <3>5. \A y \in Ops : s \in HeldBy(y) => s \in HeldBy(y)'
      BY <3>1, <3>2 DEF HeldBy
    <3> QED
      BY <1>5, <3>1, <3>3, <3>4, <3>5 DEF Owned
  <2>4. CASE AllHotMade(o)
    <3>1. op[o].pc = "make" /\ Goto(o, "insert") /\ UNCHANGED <<service, rows, deleting>>
      BY <2>4 DEF AllHotMade, At, tables, ecs
    <3>2. op'[o].pc = "insert" /\ op'[o].made = op[o].made /\ \A y \in Ops \ {o} : op'[y] = op[y]
      BY <1>4, <3>1 DEF OpsTyped, OpStates, Goto
    <3> QED
      BY <1>5, <3>1, <3>2 DEF HeldBy
  <2>5. CASE InsertRows(o)
    <3>1. op[o].pc = "insert" /\ rows' = rows \cup op[o].made /\ UNCHANGED <<service, deleting>>
          /\ Goto(o, "returned")
      BY <1>2, <2>5 DEF InsertRows, Insert, Return, ecs
    <3>2. s \in HeldBy(o) => s \in rows'
      BY <3>1 DEF HeldBy
    <3>3. \A y \in Ops \ {o} : op'[y] = op[y]
      BY <1>4, <3>1 DEF Goto, OpsTyped
    <3> QED
      BY <1>3, <3>1, <3>2, <3>3 DEF Owned, HeldBy
  <2>6. CASE ReadInstances(o)
    <3>1. /\ op[o].pc = "read" /\ UNCHANGED <<service, rows, deleting>>
          /\ op' = [op EXCEPT ![o].seen = RowsOf(op[o].spec), ![o].pc = "decide"]
      BY <1>2, <2>6 DEF ReadInstances, At, tables, ecs
    <3>2. HeldBy(o) = {} /\ \A y \in Ops \ {o} : op'[y] = op[y]
      BY <1>4, <3>1 DEF OpsTyped, HeldBy
    <3> QED
      BY <1>5, <3>1, <3>2 DEF HeldBy
  <2>7. CASE Decide(o)
    <3> DEFINE n == RealScaleCnt(op[o].spec, Cardinality(op[o].seen), op[o].cnt)
    <3>1. op[o].pc = "decide" /\ UNCHANGED <<rows, deleting>>
      BY <2>7 DEF Decide, At, tables
    <3>2. HeldBy(o) = {}
      BY <3>1 DEF HeldBy
    <3>3. CASE Fail(o) /\ UNCHANGED ecs
      BY <1>7, <2>7, <3>1, <3>3 DEF Fail, Decide
    <3>4. CASE Run(Fresh(n), op[o].spec, "cold") /\ op' = [op EXCEPT ![o].made = Fresh(n), ![o].pc = "insert"]
      <4>1. s \in Fresh(n) \/ service[s] = "active"
        BY <3>4 DEF Run
      <4> HIDE DEF n
      <4>2. op'[o].pc = "insert" /\ op'[o].made = Fresh(n) /\ \A y \in Ops \ {o} : op'[y] = op[y]
        BY <1>4, <3>4 DEF OpsTyped, OpStates
      <4>3. \A y \in Ops : s \in HeldBy(y) => s \in HeldBy(y)'
        BY <3>2, <4>2 DEF HeldBy
      <4> QED
        BY <1>5, <3>1, <4>1, <4>2, <4>3 DEF Owned, HeldBy
    <3>5. CASE op' = [op EXCEPT ![o].cnt = n, ![o].pc = "shrink"] /\ UNCHANGED ecs
      <4> HIDE DEF n
      <4>1. \A y \in Ops \ {o} : op'[y] = op[y]
        BY <1>4, <3>5 DEF OpsTyped
      <4> QED
        BY <1>5, <3>1, <3>2, <3>5, <4>1 DEF HeldBy, ecs
    <3> QED
      BY <1>2, <2>7, <3>3, <3>4, <3>5 DEF Decide, BatchCreateFails
  <2>8. CASE Shrink(o)
    <3> DEFINE first == FirstOf(Removable(o))
    <3>1. /\ op[o].pc = "shrink" /\ UNCHANGED service
          /\ rows' = rows \ {first} /\ deleting' = deleting \cup {first}
          /\ op' = [op EXCEPT ![o].cnt = @ + 1, ![o].seen = @ \ {first}]
      BY <1>2, <2>8 DEF Shrink, At, ecs
    <3> HIDE DEF first
    <3>2. HeldBy(o) = {} /\ \A y \in Ops \ {o} : op'[y] = op[y]
      BY <1>4, <3>1 DEF OpsTyped, HeldBy
    <3> QED
      BY <1>5, <3>1, <3>2 DEF HeldBy
  <2>9. CASE ShrinkDone(o)
    BY <1>7, <2>9 DEF ShrinkDone, Return, At
  <2>10. ~ (ReadDoomed(o) \/ DeleteService(o) \/ DeleteRows(o) \/ DeleteMeta(o))
    BY <2>1 DEF ReadDoomed, DeleteService, DeleteRows, DeleteMeta, At
  <2> QED
    BY <1>9, <2>2, <2>3, <2>4, <2>5, <2>6, <2>7, <2>8, <2>9, <2>10 DEF Continues
<1>10. CASE Background \/ UNCHANGED vars
  <2>1. UNCHANGED op
    BY <1>10 DEF Background, AsyncDelete, MonitorLists, MonitorReads, MonitorSaves, vars
  <2>2. CASE \E t \in Services : AsyncDelete(t)
    <3>1. PICK t \in Services : AsyncDelete(t)
      BY <2>2
    <3>2. /\ UNCHANGED rows /\ deleting' = deleting \ {t} /\ service' = [service EXCEPT ![t] = "gone"]
      BY <1>2, <3>1 DEF AsyncDelete, tables
    <3>3. s # t /\ service[s] = "active"
      BY <3>2 DEF HandInv, TablesTyped
    <3> QED
      BY <1>5, <2>1, <3>2, <3>3 DEF HeldBy
  <2>3. CASE ~ \E t \in Services : AsyncDelete(t)
    <3>1. rows \subseteq rows' /\ UNCHANGED <<service, deleting>>
      BY <1>10, <2>3 DEF Background, MonitorLists, MonitorReads, MonitorSaves, vars, tables, ecs
    <3> QED
      BY <1>5, <2>1, <3>1 DEF HeldBy
  <2> QED
    BY <2>2, <2>3
<1> QED
  BY <1>2, <1>8, <1>9, <1>10 DEF Next, Restart

(***************************************************************************)
(* Every service that runs is in the table, is about to be deleted, or is  *)
(* held by a call that will insert it, as long as nothing has failed and   *)
(* no DeleteFunction has been called.                                      *)
(***************************************************************************)
THEOREM NoServiceIsEverLost == Spec => []NoServiceIsLost
<1>1. Init => NoServiceIsLost
  BY DEF Init, NoServiceIsLost
<1> QED
  BY <1>1, HandInvariant, LostNext, PTL DEF Spec

-----------------------------------------------------------------------------
(* Instances of functions with metadata.                                   *)

LEMMA OneCallMoves ==
  ASSUME HandInv, NEW o \in Ops, NEW y \in Ops \ {o}, Begins(y) \/ Continues(y)
  PROVE  op'[o] = op[o]
<1>1. \A x : op' = [op EXCEPT ![y] = x] => op'[o] = op[o]
  BY DEF HandInv, OpsTyped
<1>2. ASSUME NEW pc, Goto(y, pc) PROVE op'[o] = op[o]
  BY <1>1, <1>2 DEF Goto
<1>3. ASSUME Begins(y) PROVE op'[o] = op[o]
  BY <1>1, <1>3 DEF Begins, BeginCreate, BeginDelete, BeginScale
<1>4. CASE DefineTasks(y) \/ InsertMeta(y) \/ AllHotMade(y) \/ InsertRows(y) \/ ShrinkDone(y)
           \/ DeleteRows(y) \/ DeleteMeta(y)
  BY <1>2, <1>4 DEF DefineTasks, InsertMeta, AllHotMade, InsertRows, ShrinkDone, DeleteRows,
                    DeleteMeta, Return, Fail
<1>5. CASE MakeHot(y)
  BY <1>2, <1>5 DEF MakeHot, BatchCreateFails, Fail, HandInv, OpsTyped
<1>6. CASE ReadInstances(y)
  BY <1>2, <1>6 DEF ReadInstances, Fail, HandInv, OpsTyped
<1>7. CASE ReadDoomed(y)
  BY <1>2, <1>7 DEF ReadDoomed, Fail, HandInv, OpsTyped
<1>8. CASE Decide(y)
  BY <1>2, <1>8 DEF Decide, BatchCreateFails, Fail, HandInv, OpsTyped
<1>9. CASE Shrink(y)
  BY <1>9 DEF Shrink, HandInv, OpsTyped
<1>10. CASE DeleteService(y)
  BY <1>10 DEF DeleteService, HandInv, OpsTyped
<1> QED
  BY <1>3, <1>4, <1>5, <1>6, <1>7, <1>8, <1>9, <1>10 DEF Continues

(* A step that is not a call's leaves the calls alone, or ends them.       *)
LEMMA CallsMove ==
  ASSUME HandInv, [Next]_vars, NEW o \in Ops
  PROVE  \/ op'[o] = op[o]
         \/ op'[o].pc = "failed"
         \/ Begins(o)
         \/ Continues(o)
<1>1. CASE \E y \in Ops : Begins(y) \/ Continues(y)
  BY <1>1, OneCallMoves
<1>2. CASE Background \/ UNCHANGED vars
  BY <1>2 DEF Background, AsyncDelete, MonitorLists, MonitorReads, MonitorSaves, vars
<1>3. CASE Restart
  BY <1>3, OpTyped DEF Restart, ProcessEnds, HandInv, OpStates
<1> QED
  BY <1>1, <1>2, <1>3 DEF Next

(* Calls of CreateFunction that have inserted the metadata.                *)
Creators == {o \in Ops : op[o].kind = "create" /\ op[o].pc \in {"make", "insert", "returned"}}

(* What the calls, the table and the monitor take for known functions.     *)
Known ==
  /\ \A o \in Creators : op[o].fn \in meta
  /\ \A o1, o2 \in Creators : op[o1].fn = op[o2].fn => o1 = o2
  /\ \A s \in rows \cup monitor.ins : FnOf[specOf[s]] \in meta
  /\ \A o \in Ops : \A s \in HeldBy(o) : FnOf[specOf[s]] \in meta
  /\ \A o \in Ops : op[o].kind = "scale" /\ op[o].pc \in {"read", "decide"} => FnOf[op[o].spec] \in meta

(* How a call begins.                                                      *)
LEMMA BeginsWith ==
  ASSUME HandInv, NEW o \in Ops, Begins(o)
  PROVE  /\ op[o].pc = "idle"
         /\ \/ op'[o].pc = "failed"
            \/ op'[o].kind = "create" /\ op'[o].pc = "define"
            \/ op'[o].kind = "scale" /\ op'[o].pc = "read" /\ FnOf[op'[o].spec] \in meta
            \/ op'[o].kind = "delete" /\ op'[o].pc = "read"
         /\ \A y \in Ops \ {o} : op'[y] = op[y]
         /\ UNCHANGED <<tables, ecs, deleting, monitor, faults>>
<1>1. op \in [Ops -> OpStates]
  BY DEF HandInv, OpsTyped
<1>2. ASSUME NEW f \in Functions, BeginCreate(o, f)
      PROVE  op'[o].kind = "create" /\ op'[o].pc \in {"define", "failed"}
             /\ \A y \in Ops \ {o} : op'[y] = op[y]
  BY <1>1, <1>2, IdleTyped DEF BeginCreate, OpStates
<1>3. ASSUME NEW f \in Functions, BeginDelete(o, f)
      PROVE  op'[o].kind = "delete" /\ op'[o].pc \in {"read", "failed"}
             /\ \A y \in Ops \ {o} : op'[y] = op[y]
  BY <1>1, <1>3, IdleTyped DEF BeginDelete, OpStates
<1>4. ASSUME NEW p \in Specs, NEW n \in Counts, BeginScale(o, p, n)
      PROVE  op'[o].kind = "scale" /\ op'[o].spec = p
             /\ op'[o].pc = (IF FnOf[p] \in meta THEN "read" ELSE "failed")
             /\ \A y \in Ops \ {o} : op'[y] = op[y]
  BY <1>1, <1>4, IdleTyped DEF BeginScale, ScaleFunction, OpStates
<1> QED
  BY <1>2, <1>3, <1>4, BeginsFrame DEF Begins

LEMMA MetadataStays ==
  ASSUME HandInv, [Next]_vars, ~ DeleteCalled
  PROVE  meta \subseteq meta'
<1>1. ASSUME NEW o \in Ops, DeleteMeta(o) PROVE FALSE
  BY <1>1 DEF DeleteMeta, At, DeleteCalled
<1> QED
  BY <1>1, StepFrame

(* A call becomes a creator only by inserting the metadata itself.         *)
LEMMA CreatorsBecome ==
  ASSUME HandInv, [Next]_vars, NEW o \in Creators'
  PROVE  \/ o \in Creators
         \/ /\ op[o].pc # "idle" /\ op[o].fn \notin meta /\ op[o].fn \in meta'
            /\ \A y \in Ops \ {o} : op'[y] = op[y]
<1>1. o \in Ops /\ op'[o].kind = "create" /\ op'[o].pc \in {"make", "insert", "returned"}
  BY DEF Creators
<1>2. op[o] \in OpStates /\ OpsTyped
  BY <1>1, OpTyped DEF HandInv
<1>3. CASE op'[o] = op[o]
  BY <1>1, <1>3 DEF Creators
<1>4. ASSUME Begins(o) PROVE FALSE
  BY <1>1, <1>4, BeginsWith
<1>5. ASSUME op[o].kind = "create", op[o].pc \in {"make", "insert", "returned"}
      PROVE  o \in Creators
  BY <1>1, <1>5 DEF Creators
<1>6. ASSUME NEW pc, Goto(o, pc)
      PROVE  op'[o].pc = pc /\ op'[o].kind = op[o].kind /\ op'[o].fn = op[o].fn
             /\ \A y \in Ops \ {o} : op'[y] = op[y]
  BY <1>1, <1>2, <1>6 DEF Goto, OpsTyped, OpStates
<1>7. ASSUME Continues(o)
      PROVE  \/ o \in Creators
             \/ /\ op[o].pc # "idle" /\ op[o].fn \notin meta /\ op[o].fn \in meta'
                /\ \A y \in Ops \ {o} : op'[y] = op[y]
  <2>1. op[o].pc # "idle"
    BY <1>1, <1>7, ContinuesFrame
  <2>2. op[o].kind = "create"
    BY <1>1, <2>1, CallsStay
  <2>3. CASE DefineTasks(o)
    BY <1>1, <1>6, <2>3 DEF DefineTasks, Fail
  <2>4. CASE InsertMeta(o)
    BY <1>1, <1>6, <2>1, <2>4 DEF InsertMeta, Fail
  <2>5. CASE MakeHot(o) \/ AllHotMade(o) \/ InsertRows(o)
    BY <1>5, <2>2, <2>5 DEF MakeHot, AllHotMade, InsertRows, At
  <2> QED
    BY <1>7, <2>2, <2>3, <2>4, <2>5 DEF Continues, ReadInstances, Decide, Shrink, ShrinkDone,
                                       ReadDoomed, DeleteService, DeleteRows, DeleteMeta, At
<1> QED
  BY <1>1, <1>3, <1>4, <1>7, CallsMove

(* Where the rows of the table and of the monitor come from.               *)
LEMMA RowsCome ==
  ASSUME HandInv, [Next]_vars
  PROVE  /\ \A s \in rows' : s \in rows \/ s \in monitor.ins \/ \E o \in Ops : s \in HeldBy(o)
         /\ monitor'.ins \subseteq rows \cup monitor.ins
<1>1. ASSUME NEW o \in Ops, InsertRows(o)
      PROVE  \A s \in rows' : s \in rows \/ s \in HeldBy(o)
  BY <1>1 DEF InsertRows, Insert, HeldBy
<1>2. CASE MonitorLists \/ MonitorReads \/ MonitorSaves
  <2>1. rows' \subseteq rows \cup monitor.ins
    BY <1>2 DEF MonitorLists, MonitorReads, MonitorSaves, tables
  <2>2. monitor'.ins \subseteq rows \cup monitor.ins
    <3>1. MonitorTyped
      BY DEF HandInv
    <3>2. CASE MonitorLists \/ MonitorSaves
      BY <3>1, <3>2 DEF MonitorLists, MonitorSaves, MonitorTyped
    <3>3. CASE monitor' = [monitor EXCEPT !.at = "list"]
      BY <3>1, <3>3 DEF MonitorTyped
    <3>4. ASSUME NEW f, NEW ins \in SUBSET RowsOfFn(f),
                 monitor' = [at |-> "save", todo |-> monitor.todo \ {f}, ins |-> ins]
          PROVE  monitor'.ins \subseteq rows
      BY <3>4 DEF RowsOfFn
    <3> QED
      BY <1>2, <3>2, <3>3, <3>4 DEF MonitorReads
  <2> QED
    BY <2>1, <2>2
<1>3. monitor' = [at |-> "list", todo |-> {}, ins |-> {}] => monitor'.ins = {}
  OBVIOUS
<1> QED
  BY <1>1, <1>2, <1>3, StepFrame

(* Where the services in hand come from.                                   *)
LEMMA HandsFill ==
  ASSUME HandInv, [Next]_vars, NEW o \in Ops, NEW s \in HeldBy(o)'
  PROVE  \/ s \in HeldBy(o)
         \/ /\ s \in Services /\ service[s] = "unused" /\ service'[s] = "active"
            /\ \/ o \in Creators /\ specOf'[s] \in SpecsOf(op[o].fn) /\ role'[s] = "hot"
               \/ /\ At(o, "scale", "decide") /\ specOf'[s] = op[o].spec /\ role'[s] = "cold"
<1>1. op[o] \in OpStates /\ OpsTyped /\ op'[o].pc \in {"make", "insert"} /\ s \in op'[o].made
  BY OpTyped DEF HandInv, HeldBy
<1>2. CASE op'[o] = op[o]
  BY <1>2 DEF HeldBy
<1>3. ASSUME Begins(o) PROVE FALSE
  BY <1>1, <1>3, BeginsWith
<1>4. ASSUME NEW pc, Goto(o, pc)
      PROVE  op'[o].pc = pc /\ op'[o].made = op[o].made
  BY <1>1, <1>4 DEF Goto, OpsTyped, OpStates
<1>5. CASE DefineTasks(o) \/ InsertRows(o) \/ ShrinkDone(o) \/ DeleteRows(o) \/ DeleteMeta(o)
  BY <1>1, <1>4, <1>5 DEF DefineTasks, InsertRows, ShrinkDone, DeleteRows, DeleteMeta, Return, Fail
<1>6. CASE InsertMeta(o)
  <2>1. op[o].made = {}
    BY <1>1, <1>6 DEF InsertMeta, At, OpsTyped
  <2> QED
    BY <1>1, <1>4, <1>6, <2>1 DEF InsertMeta, Fail
<1>7. CASE AllHotMade(o)
  BY <1>1, <1>4, <1>7 DEF AllHotMade, At, HeldBy
<1>8. CASE MakeHot(o)
  <2> DEFINE p == Head(op[o].todo)
             n == MinReplica[p]
  <2>1. op[o].pc = "make" /\ op[o].kind = "create" /\ op[o].todo # <<>> /\ op[o].todo \in Seq(Specs)
    BY <1>1, <1>8 DEF MakeHot, At, OpStates
  <2>2. p \in SpecsOf(op[o].fn) /\ p \in Specs /\ n \in Nat
    <3>1. op[o].todo[1] \in SpecsOf(op[o].fn) /\ p = op[o].todo[1]
      BY <1>1, <2>1 DEF OpsTyped
    <3> QED
      BY <2>1, <3>1, ManagerAssumption
  <2>3. CASE BatchCreateFails(o, n, p, "hot")
    BY <1>1, <1>4, <2>3 DEF BatchCreateFails, Fail
  <2>4. CASE /\ CanCreate(n) /\ Run(Fresh(n), p, "hot")
             /\ op' = [op EXCEPT ![o].todo = Tail(@), ![o].made = @ \cup Fresh(n)]
    <3>1. Fresh(n) \subseteq Services /\ \A t \in Fresh(n) : service[t] = "unused"
      BY <2>2, <2>4, FreshIsUnused
    <3> HIDE DEF n, p
    <3>2. op'[o].made = op[o].made \cup Fresh(n)
      BY <1>1, <2>4 DEF OpsTyped, OpStates
    <3>3. s \in HeldBy(o) \/ s \in Fresh(n)
      BY <1>1, <2>1, <3>2 DEF HeldBy
    <3>4. o \in Creators
      BY <2>1 DEF Creators
    <3> QED
      BY <2>2, <2>4, <3>1, <3>3, <3>4 DEF Run
  <2> QED
    BY <1>8, <2>3, <2>4 DEF MakeHot
<1>9. CASE ReadInstances(o)
  <2>1. op'[o].pc \in {"decide", "failed"}
    <3>1. CASE op' = [op EXCEPT ![o].seen = RowsOf(op[o].spec), ![o].pc = "decide"]
      BY <1>1, <3>1 DEF OpsTyped, OpStates
    <3> QED
      BY <1>4, <1>9, <3>1 DEF ReadInstances, Fail
  <2> QED
    BY <1>1, <2>1
<1>10. CASE Decide(o)
  <2> DEFINE n == RealScaleCnt(op[o].spec, Cardinality(op[o].seen), op[o].cnt)
  <2>1. n \in Int
    <3>1. op[o].spec \in Specs /\ op[o].cnt \in Int /\ Cardinality(op[o].seen) \in Nat
      BY <1>1, <1>10, ServicesFinite DEF OpsTyped, OpStates, Decide, At
    <3> QED
      BY <3>1, ManagerAssumption DEF RealScaleCnt
  <2> HIDE DEF n
  <2>2. At(o, "scale", "decide")
    BY <1>10 DEF Decide
  <2>3. CASE Fail(o) \/ BatchCreateFails(o, n, op[o].spec, "cold")
    BY <1>1, <1>4, <2>3 DEF BatchCreateFails, Fail
  <2>4. CASE /\ n > 0 /\ CanCreate(n) /\ Run(Fresh(n), op[o].spec, "cold")
             /\ op' = [op EXCEPT ![o].made = Fresh(n), ![o].pc = "insert"]
    <3>1. Fresh(n) \subseteq Services /\ \A t \in Fresh(n) : service[t] = "unused"
      BY <2>1, <2>4, FreshIsUnused
    <3>2. op'[o].made = Fresh(n)
      BY <1>1, <2>4 DEF OpsTyped, OpStates
    <3> QED
      BY <1>1, <2>2, <2>4, <3>1, <3>2 DEF Run
  <2>5. CASE op' = [op EXCEPT ![o].cnt = n, ![o].pc = "shrink"]
    <3>1. op'[o].pc = "shrink"
      BY <1>1, <2>5 DEF OpsTyped, OpStates
    <3> QED
      BY <1>1, <3>1
  <2> QED
    BY <1>10, <2>3, <2>4, <2>5 DEF Decide, n
<1>11. CASE Shrink(o)
  <2>1. op[o].pc = "shrink" /\ op'[o].pc = op[o].pc
    BY <1>1, <1>11 DEF Shrink, At, OpsTyped, OpStates
  <2> QED
    BY <1>1, <2>1
<1>12. CASE ReadDoomed(o)
  <2>1. op'[o].pc \in {"services", "failed"}
    <3>1. CASE op' = [op EXCEPT ![o].seen = RowsOfFn(op[o].fn), ![o].pc = "services"]
      BY <1>1, <3>1 DEF OpsTyped, OpStates
    <3> QED
      BY <1>4, <1>12, <3>1 DEF ReadDoomed, Fail
  <2> QED
    BY <1>1, <2>1
<1>13. CASE DeleteService(o)
  <2>1. op[o].pc = "services" /\ op'[o].pc = op[o].pc
    BY <1>1, <1>13 DEF DeleteService, At, OpsTyped, OpStates
  <2> QED
    BY <1>1, <2>1
<1> QED
  BY <1>1, <1>2, <1>3, <1>5, <1>6, <1>7, <1>8, <1>9, <1>10, <1>11, <1>12, <1>13, CallsMove
     DEF Continues

(* A call of ScaleFunction begins only for a function with metadata.       *)
LEMMA ScalersBegin ==
  ASSUME HandInv, [Next]_vars, NEW o \in Ops,
         op'[o].kind = "scale", op'[o].pc \in {"read", "decide"}
  PROVE  \/ op[o].kind = "scale" /\ op[o].pc \in {"read", "decide"} /\ op'[o].spec = op[o].spec
         \/ FnOf[op'[o].spec] \in meta
<1>1. op[o] \in OpStates /\ OpsTyped
  BY OpTyped DEF HandInv
<1>2. CASE Begins(o)
  BY <1>2, BeginsWith
<1>3. CASE Continues(o)
  <2>1. op[o].pc # "idle"
    BY <1>3, ContinuesFrame
  <2>2. op[o].kind = "scale" /\ op'[o].spec = op[o].spec
    BY <2>1, CallsStay
  <2>3. CASE InsertRows(o)
    BY <1>1, <2>3 DEF InsertRows, Return, Fail, Goto, OpsTyped, OpStates
  <2>4. CASE ShrinkDone(o)
    BY <1>1, <2>4 DEF ShrinkDone, Return, Goto, OpsTyped, OpStates
  <2>5. CASE Shrink(o)
    BY <1>1, <2>5 DEF Shrink, At, OpsTyped, OpStates
  <2>6. CASE ReadInstances(o) \/ Decide(o)
    BY <2>2, <2>6 DEF ReadInstances, Decide, At
  <2> QED
    BY <1>3, <2>2, <2>3, <2>4, <2>5, <2>6
       DEF Continues, DefineTasks, InsertMeta, MakeHot, AllHotMade, ReadDoomed, DeleteService,
           DeleteRows, DeleteMeta, At
<1> QED
  BY <1>2, <1>3, CallsMove

(***************************************************************************)
(* The inductive invariant behind the two theorems below.                  *)
(***************************************************************************)
KnownInv == ~ DeleteCalled => Known

LEMMA KnownNext == HandInv /\ KnownInv /\ [Next]_vars => KnownInv'
<1> SUFFICES ASSUME HandInv, KnownInv, [Next]_vars, ~ DeleteCalled' PROVE Known'
  BY DEF KnownInv
<1>1. Known /\ meta \subseteq meta'
  BY DeleteStaysCalled, MetadataStays DEF KnownInv
<1>2. \A o \in Creators : op[o].pc # "idle"
  BY DEF Creators
<1>3. \A o \in Creators' : o \in Ops /\ op'[o].fn = op[o].fn
  BY <1>2, CreatorsBecome, CallsStay DEF Creators
<1>4. ASSUME NEW o \in Creators' PROVE op'[o].fn \in meta'
  BY <1>1, <1>3, CreatorsBecome DEF Known
<1>5. ASSUME NEW o1 \in Creators', NEW o2 \in Creators', op'[o1].fn = op'[o2].fn PROVE o1 = o2
  <2>1. CASE o1 \in Creators /\ o2 \in Creators
    BY <1>1, <1>3, <1>5, <2>1 DEF Known
  <2>2. ASSUME NEW a \in Creators', NEW b \in Creators', a \notin Creators, b \in Creators,
               op'[a].fn = op'[b].fn
        PROVE  FALSE
    BY <1>1, <1>3, <2>2, CreatorsBecome DEF Known
  <2>3. ASSUME NEW a \in Creators', NEW b \in Creators', a \notin Creators, b \notin Creators, a # b
        PROVE  FALSE
    <3>1. op'[b] = op[b]
      BY <1>3, <2>3, CreatorsBecome
    <3> QED
      BY <1>3, <2>3, <3>1 DEF Creators
  <2> QED
    BY <1>5, <2>1, <2>2, <2>3
<1>6. ASSUME NEW s \in rows' \cup monitor'.ins PROVE FnOf[specOf'[s]] \in meta'
  <2>1. s \in rows \/ s \in monitor.ins \/ \E o \in Ops : s \in HeldBy(o)
    BY RowsCome
  <2>2. s \in Services /\ service[s] # "unused"
    BY <2>1 DEF HandInv, Hands, HeldBy, OpsTyped, OpStates, TablesTyped, MonitorTyped, SeenAreNumbered
  <2>3. FnOf[specOf[s]] \in meta
    BY <1>1, <2>1 DEF Known
  <2> QED
    BY <1>1, <2>2, <2>3, RunsStay
<1>7. ASSUME NEW o \in Ops, NEW s \in HeldBy(o)' PROVE FnOf[specOf'[s]] \in meta'
  <2>1. CASE s \in HeldBy(o)
    <3>1. s \in Services /\ service[s] # "unused"
      BY <2>1 DEF HandInv, Hands, HeldBy, OpsTyped, OpStates
    <3> QED
      BY <1>1, <2>1, <3>1, RunsStay DEF Known
  <2>2. CASE o \in Creators /\ specOf'[s] \in SpecsOf(op[o].fn)
    <3>1. op[o].fn \in Functions /\ op[o].fn \in meta
      BY <1>1, <2>2 DEF Creators, HandInv, OpsTyped, Known
    <3>2. specOf'[s] \in Specs
      BY <2>2, <3>1, SpecsOfTyped
    <3> QED
      BY <1>1, <2>2, <3>1, <3>2, SpecsHaveOneFunction
  <2>3. CASE At(o, "scale", "decide") /\ specOf'[s] = op[o].spec
    BY <1>1, <2>3 DEF Known, At
  <2> QED
    BY <2>1, <2>2, <2>3, HandsFill
<1>8. ASSUME NEW o \in Ops, op'[o].kind = "scale", op'[o].pc \in {"read", "decide"}
      PROVE  FnOf[op'[o].spec] \in meta'
  BY <1>1, <1>8, ScalersBegin DEF Known
<1> QED
  BY <1>4, <1>5, <1>6, <1>7, <1>8 DEF Known

LEMMA KnownInvariant == Spec => []KnownInv
<1>1. Init => KnownInv
  BY DEF Init, KnownInv, Known, Creators, HeldBy, Idle
<1> QED
  BY <1>1, HandInvariant, KnownNext, PTL DEF Spec

(***************************************************************************)
(* Of any number of concurrent calls of CreateFunction with one name, one  *)
(* goes on to create instances, until a DeleteFunction frees the name.     *)
(***************************************************************************)
THEOREM OneCreatorAtMost == Spec => []OneCreator
<1>1. KnownInv => OneCreator
  BY DEF KnownInv, Known, Creators, OneCreator
<1> QED
  BY <1>1, KnownInvariant, PTL

(***************************************************************************)
(* Until a DeleteFunction is called, every instance row belongs to a       *)
(* function with metadata, whatever fails and whenever the process dies.   *)
(***************************************************************************)
THEOREM AllRowsHaveMetadata == Spec => []RowsHaveMetadata
<1>1. KnownInv => RowsHaveMetadata
  BY DEF KnownInv, Known, RowsHaveMetadata
<1> QED
  BY <1>1, KnownInvariant, PTL

-----------------------------------------------------------------------------
(* Scaling keeps the minimum number of replicas.                           *)

IsLive(s) == s \in rows /\ service[s] = "active" /\ s \notin deleting

(* The instances that a call removes only after s, or never.               *)
Superiors(s) ==
  {u \in Numbered : specOf[u] = specOf[s] /\ (LaunchType(u) # ColdPool \/ rowId[u] > rowId[s])}

(***************************************************************************)
(* Until a DeleteFunction is called: what a call holds runs; an instance   *)
(* that has ceased to be live left the minimum of superiors behind; and    *)
(* what a call will leave of the instances it read is the minimum or more. *)
(***************************************************************************)
Kept ==
  /\ \A o \in Ops : \A s \in HeldBy(o) : service[s] = "active"
  /\ \A s \in Numbered :
       IsLive(s) \/ (LaunchType(s) = ColdPool /\ Cardinality(Superiors(s)) >= MinReplica[specOf[s]])
  /\ \A o \in Ops :
       op[o].kind = "scale" /\ op[o].pc \in {"decide", "shrink"} =>
         /\ \A s \in op[o].seen : specOf[s] = op[o].spec
         /\ op[o].pc = "shrink" /\ op[o].cnt < 0 =>
              Cardinality(op[o].seen) + op[o].cnt >= MinReplica[op[o].spec]

KeptInv == ~ DeleteCalled => Kept

LEMMA NumberedStay ==
  ASSUME HandInv, [Next]_vars, NEW s \in Numbered
  PROVE  /\ s \in Services /\ service[s] # "unused" /\ specOf[s] \in Specs
         /\ s \in Numbered' /\ rowId'[s] = rowId[s] /\ specOf'[s] = specOf[s]
         /\ LaunchType(s)' = LaunchType(s)
<1>1. s \in Services /\ service[s] # "unused" /\ specOf[s] \in Specs
  BY DEF HandInv, Hands, Numbered
<1>2. rowId'[s] = rowId[s] /\ specOf'[s] = specOf[s] /\ role'[s] = role[s]
  BY <1>1, NumbersStay, RunsStay
<1> QED
  BY <1>1, <1>2 DEF Numbered, LaunchType

LEMMA SuperiorsStay ==
  ASSUME HandInv, [Next]_vars, NEW s \in Numbered
  PROVE  /\ Superiors(s) \subseteq Superiors(s)' /\ Superiors(s)' \in SUBSET Services
         /\ Cardinality(Superiors(s)) <= Cardinality(Superiors(s)')
<1>1. Superiors(s) \subseteq Superiors(s)'
  BY NumberedStay DEF Superiors
<1>2. Superiors(s)' \in SUBSET Services
  BY DEF Superiors, Numbered
<1> QED
  BY <1>1, <1>2, SubsetCounts

(* Only the removal of a row by ScaleFunction ends the life of an instance.*)
LEMMA OnlyShrinkEnds ==
  ASSUME HandInv, Kept, [Next]_vars, ~ DeleteCalled',
         NEW s \in Numbered', s \in Numbered => IsLive(s),
         \A o \in Ops : Shrink(o) => s # FirstOf(Removable(o))
  PROVE  IsLive(s)'
<1>1. s \in Services /\ \A o \in Ops : op[o].kind # "delete"
  BY DeleteStaysCalled DEF Numbered, DeleteCalled
<1>2. \A o \in Ops : ~ (ReadDoomed(o) \/ DeleteService(o) \/ DeleteRows(o) \/ DeleteMeta(o))
  BY <1>1 DEF ReadDoomed, DeleteService, DeleteRows, DeleteMeta, At
<1>3. CASE s \notin Numbered
  <2>1. PICK o \in Ops : InsertRows(o)
    BY <1>3, StepFrame DEF Numbered
  <2>2. s \in HeldBy(o) /\ s \in rows' /\ UNCHANGED <<service, deleting>>
    BY <1>1, <1>3, <2>1 DEF InsertRows, Insert, Numbered, HeldBy, ecs
  <2> QED
    BY <1>3, <2>2 DEF Kept, IsLive, HandInv, SeenAreNumbered
<1>4. CASE IsLive(s)
  <2>1. s \in rows /\ service[s] = "active" /\ s \notin deleting
    BY <1>4 DEF IsLive
  <2>2. s \in rows'
    <3>1. ASSUME NEW o \in Ops, Shrink(o) PROVE s \in rows'
      BY <2>1, <3>1 DEF Shrink
    <3> QED
      BY <1>2, <2>1, <3>1, StepFrame
  <2>3. s \notin deleting'
    <3>1. ASSUME NEW o \in Ops, Shrink(o) PROVE s \notin deleting'
      BY <2>1, <3>1 DEF Shrink
    <3> QED
      BY <2>1, <3>1, StepFrame
  <2>4. service'[s] = "active"
    <3>1. \A M, p, r : Run(M, p, r) => service'[s] = "active"
      BY <1>1, <2>1 DEF Run
    <3>2. ASSUME NEW o \in Ops, MakeHot(o) PROVE service'[s] = "active"
      BY <3>1, <3>2 DEF MakeHot, BatchCreateFails
    <3>3. ASSUME NEW o \in Ops, Decide(o) PROVE service'[s] = "active"
      BY <2>1, <3>1, <3>3 DEF Decide, BatchCreateFails, ecs
    <3>4. ASSUME NEW t \in Services, AsyncDelete(t) PROVE service'[s] = "active"
      BY <1>1, <2>1, <3>4 DEF AsyncDelete, HandInv, TablesTyped
    <3> QED
      BY <1>2, <2>1, <3>2, <3>3, <3>4, StepFrame
  <2> QED
    BY <2>2, <2>3, <2>4 DEF IsLive
<1> QED
  BY <1>3, <1>4

(* What it removes leaves the minimum of superiors behind.                 *)
LEMMA ShrinkLeavesEnough ==
  ASSUME HandInv, Kept, [Next]_vars, NEW o \in Ops, Shrink(o)
  PROVE  LET s == FirstOf(Removable(o))
         IN  s \in Numbered /\ LaunchType(s) = ColdPool /\ Cardinality(Superiors(s)) >= MinReplica[specOf[s]]
<1> DEFINE s == FirstOf(Removable(o))
           left == op[o].seen \ {s}
<1>1. /\ op[o] \in OpStates /\ op[o].kind = "scale" /\ op[o].pc = "shrink" /\ op[o].cnt < 0
      /\ op[o].cnt \in Int /\ op[o].spec \in Specs /\ op[o].seen \in SUBSET Services
      /\ op[o].seen \subseteq Numbered /\ Removable(o) # {}
  BY OpTyped DEF HandInv, OpsTyped, OpStates, SeenAreNumbered, Shrink, At
<1>2. /\ s \in op[o].seen /\ LaunchType(s) = ColdPool
      /\ \A t \in op[o].seen : LaunchType(t) = ColdPool => rowId[s] <= rowId[t]
  BY <1>1, FirstHasLowestNumber DEF Removable, HandInv, TablesTyped
<1> HIDE DEF s
<1>3. Cardinality(left) + 1 + op[o].cnt >= MinReplica[specOf[s]] /\ Cardinality(left) \in Nat
  <2>1. IsFiniteSet(op[o].seen) /\ Cardinality(op[o].seen) \in Nat
    BY <1>1, ServicesFinite
  <2>2. Cardinality(left) = Cardinality(op[o].seen) - 1
    BY <1>2, <2>1, FS_RemoveElement
  <2>3. Cardinality(left) \in Nat
    BY <1>1, ServicesFinite
  <2>4. specOf[s] = op[o].spec /\ Cardinality(op[o].seen) + op[o].cnt >= MinReplica[op[o].spec]
    BY <1>1, <1>2 DEF Kept
  <2>5. MinReplica[op[o].spec] \in Nat
    BY <1>1, ManagerAssumption
  <2> QED
    BY <1>1, <2>1, <2>2, <2>3, <2>4, <2>5
<1>4. left \subseteq Superiors(s)
  <2>1. ASSUME NEW t \in left, LaunchType(t) = ColdPool PROVE rowId[t] > rowId[s]
    <3>1. rowId[s] <= rowId[t] /\ t # s /\ t \in Numbered /\ s \in Numbered
      BY <1>1, <1>2, <2>1
    <3>2. rowId[s] # rowId[t] /\ rowId[s] \in Int /\ rowId[t] \in Int
      BY <3>1, ServicesFinite DEF HandInv, Numbering, TablesTyped, Numbered
    <3> QED
      BY <3>1, <3>2
  <2>2. \A t \in left : t \in Numbered /\ specOf[t] = specOf[s]
    BY <1>1, <1>2 DEF Kept
  <2> QED
    BY <2>1, <2>2 DEF Superiors
<1>5. Superiors(s) \in SUBSET Services
  BY DEF Superiors, Numbered
<1>6. Cardinality(left) <= Cardinality(Superiors(s)) /\ Cardinality(Superiors(s)) \in Nat
  BY <1>4, <1>5, SubsetCounts, ServicesFinite
<1>7. MinReplica[specOf[s]] \in Nat
  BY <1>1, <1>2, ManagerAssumption DEF Kept
<1> QED
  BY <1>1, <1>2, <1>3, <1>6, <1>7 DEF s

(* The bounds that RealScaleCnt keeps to when it asks for a removal.       *)
LEMMA CutKeepsMinimum ==
  ASSUME NEW p \in Specs, NEW current \in Nat, NEW n \in Int, RealScaleCnt(p, current, n) < 0
  PROVE  current + RealScaleCnt(p, current, n) >= MinReplica[p]
<1>1. MinReplica[p] \in Nat /\ MaxReplica[p] \in Nat /\ MinReplica[p] <= MaxReplica[p]
  BY ManagerAssumption, ReplicaAssumption
<1> QED
  BY <1>1 DEF RealScaleCnt

LEMMA ScalersLeaveEnough ==
  ASSUME HandInv, Kept, [Next]_vars, NEW o \in Ops,
         op'[o].kind = "scale", op'[o].pc \in {"decide", "shrink"}
  PROVE  /\ \A s \in op'[o].seen : specOf'[s] = op'[o].spec
         /\ op'[o].pc = "shrink" /\ op'[o].cnt < 0 =>
              Cardinality(op'[o].seen) + op'[o].cnt >= MinReplica[op'[o].spec]
<1>1. /\ op[o] \in OpStates /\ OpsTyped /\ op[o].seen \subseteq Numbered /\ rows \subseteq Numbered
      /\ op[o].cnt \in Int /\ op[o].seen \in SUBSET Services
  BY OpTyped DEF HandInv, SeenAreNumbered, OpStates
<1>2. \A s \in Numbered : specOf'[s] = specOf[s]
  BY NumberedStay
<1>3. CASE op'[o] = op[o]
  BY <1>1, <1>2, <1>3 DEF Kept
<1>4. ASSUME Begins(o) PROVE FALSE
  BY <1>4, BeginsWith
<1>5. ASSUME NEW pc, Goto(o, pc), pc \in {"returned", "failed"} PROVE FALSE
  BY <1>1, <1>5 DEF Goto, OpsTyped, OpStates
<1>6. ASSUME Continues(o)
      PROVE  op[o].kind = "scale" /\ op[o].spec \in Specs /\ op'[o].spec = op[o].spec
  <2>1. op[o].pc # "idle"
    BY <1>6, ContinuesFrame
  <2> QED
    BY <1>1, <2>1, CallsStay DEF OpsTyped
<1>7. CASE InsertRows(o) \/ ShrinkDone(o)
  BY <1>5, <1>7 DEF InsertRows, ShrinkDone, Return, Fail
<1>8. CASE ReadInstances(o)
  <2>1. op' = [op EXCEPT ![o].seen = RowsOf(op[o].spec), ![o].pc = "decide"]
    BY <1>5, <1>8 DEF ReadInstances, Fail
  <2>2. op'[o].seen = RowsOf(op[o].spec) /\ op'[o].pc = "decide"
    BY <1>1, <2>1 DEF OpsTyped, OpStates
  <2> QED
    BY <1>1, <1>2, <1>6, <1>8, <2>2 DEF Continues, RowsOf
<1>9. CASE Decide(o)
  <2> DEFINE n == RealScaleCnt(op[o].spec, Cardinality(op[o].seen), op[o].cnt)
  <2>1. op[o].pc = "decide" /\ op[o].kind = "scale" /\ op'[o].spec = op[o].spec /\ op[o].spec \in Specs
    BY <1>6, <1>9 DEF Continues, Decide, At
  <2>2. \/ op' = [op EXCEPT ![o].cnt = n, ![o].pc = "shrink"]
        \/ op' = [op EXCEPT ![o].made = Fresh(n), ![o].pc = "insert"]
    BY <1>5, <1>9 DEF Decide, BatchCreateFails, Fail
  <2>3. Cardinality(op[o].seen) \in Nat
    BY <1>1, ServicesFinite
  <2>4. n < 0 => Cardinality(op[o].seen) + n >= MinReplica[op[o].spec]
    BY <1>1, <2>1, <2>3, CutKeepsMinimum
  <2> HIDE DEF n
  <2>5. op'[o].seen = op[o].seen /\ op'[o].cnt = n
    BY <1>1, <2>2 DEF OpsTyped, OpStates
  <2> QED
    BY <1>1, <1>2, <2>1, <2>4, <2>5 DEF Kept
<1>10. CASE Shrink(o)
  <2> DEFINE s == FirstOf(Removable(o))
  <2>1. /\ op[o].pc = "shrink" /\ op[o].kind = "scale" /\ op[o].cnt < 0 /\ Removable(o) # {}
        /\ op'[o].spec = op[o].spec
        /\ op' = [op EXCEPT ![o].cnt = @ + 1, ![o].seen = @ \ {s}]
    BY <1>6, <1>10 DEF Continues, Shrink, At
  <2>2. s \in op[o].seen
    BY <1>1, <2>1, FirstHasLowestNumber DEF Removable, HandInv, TablesTyped
  <2> HIDE DEF s
  <2>3. op'[o].seen = op[o].seen \ {s} /\ op'[o].cnt = op[o].cnt + 1
    BY <1>1, <2>1 DEF OpsTyped, OpStates
  <2>4. Cardinality(op'[o].seen) = Cardinality(op[o].seen) - 1 /\ Cardinality(op[o].seen) \in Nat
    <3>1. IsFiniteSet(op[o].seen) /\ Cardinality(op[o].seen) \in Nat
      BY <1>1, ServicesFinite
    <3>2. Cardinality(op[o].seen \ {s}) = Cardinality(op[o].seen) - 1
      BY <2>2, <3>1, FS_RemoveElement
    <3> QED
      BY <2>3, <3>1, <3>2
  <2>5. /\ \A t \in op[o].seen : specOf[t] = op[o].spec
        /\ Cardinality(op[o].seen) + op[o].cnt >= MinReplica[op[o].spec]
    BY <2>1 DEF Kept
  <2>6. Cardinality(op'[o].seen) + op'[o].cnt = Cardinality(op[o].seen) + op[o].cnt
    BY <1>1, <2>3, <2>4
  <2> QED
    BY <1>1, <1>2, <2>1, <2>3, <2>5, <2>6
<1> QED
  BY <1>3, <1>4, <1>6, <1>7, <1>8, <1>9, <1>10, CallsMove
     DEF Continues, DefineTasks, InsertMeta, MakeHot, AllHotMade, ReadDoomed, DeleteService,
         DeleteRows, DeleteMeta, At

LEMMA HeldKeepRunning ==
  ASSUME HandInv, Kept, [Next]_vars, ~ DeleteCalled', NEW o \in Ops, NEW s \in HeldBy(o)'
  PROVE  service'[s] = "active"
<1>1. CASE s \in HeldBy(o)
  <2>1. s \in Services /\ service[s] = "active" /\ s \notin Numbered
    BY <1>1 DEF Kept, HandInv, Hands, HeldBy, OpsTyped, OpStates
  <2>2. \A y \in Ops : ~ DeleteService(y)
    BY DeleteStaysCalled DEF DeleteCalled, DeleteService, At
  <2>3. \A M, p, r : Run(M, p, r) => service'[s] = "active"
    BY <2>1 DEF Run
  <2>4. ASSUME NEW y \in Ops, MakeHot(y) PROVE service'[s] = "active"
    BY <2>3, <2>4 DEF MakeHot, BatchCreateFails
  <2>5. ASSUME NEW y \in Ops, Decide(y) PROVE service'[s] = "active"
    BY <2>1, <2>3, <2>5 DEF Decide, BatchCreateFails, ecs
  <2>6. ASSUME NEW t \in Services, AsyncDelete(t) PROVE service'[s] = "active"
    BY <2>1, <2>6 DEF AsyncDelete, HandInv, TablesTyped, SeenAreNumbered
  <2> QED
    BY <2>1, <2>2, <2>4, <2>5, <2>6, StepFrame
<1>2. CASE service'[s] = "active"
  BY <1>2
<1> QED
  BY <1>1, <1>2, HandsFill

LEMMA KeptNext == HandInv /\ KeptInv /\ [Next]_vars => KeptInv'
<1> SUFFICES ASSUME HandInv, KeptInv, [Next]_vars, ~ DeleteCalled' PROVE Kept'
  BY DEF KeptInv
<1>1. Kept
  BY DeleteStaysCalled DEF KeptInv
<1>2. \A o \in Ops : \A s \in HeldBy(o)' : service'[s] = "active"
  BY <1>1, HeldKeepRunning
<1>3. ASSUME NEW s \in Numbered', ~ IsLive(s)'
      PROVE  LaunchType(s)' = ColdPool /\ Cardinality(Superiors(s)') >= MinReplica[specOf'[s]]
  <2>1. s \in Numbered /\ LaunchType(s) = ColdPool /\ Cardinality(Superiors(s)) >= MinReplica[specOf[s]]
    <3>1. CASE s \in Numbered /\ ~ IsLive(s)
      BY <1>1, <3>1 DEF Kept
    <3>2. CASE s \in Numbered => IsLive(s)
      <4>1. PICK o \in Ops : Shrink(o) /\ s = FirstOf(Removable(o))
        BY <1>1, <1>3, <3>2, OnlyShrinkEnds
      <4> QED
        BY <1>1, <4>1, ShrinkLeavesEnough
    <3> QED
      BY <3>1, <3>2
  <2>2. Cardinality(Superiors(s)) \in Nat /\ Cardinality(Superiors(s)') \in Nat
        /\ Cardinality(Superiors(s)) <= Cardinality(Superiors(s)')
    <3>1. Superiors(s) \in SUBSET Services /\ Superiors(s)' \in SUBSET Services
      BY DEF Superiors, Numbered
    <3> QED
      BY <2>1, <3>1, SuperiorsStay, ServicesFinite
  <2>3. MinReplica[specOf[s]] \in Nat
    BY <2>1, NumberedStay, ManagerAssumption
  <2> QED
    BY <2>1, <2>2, <2>3, NumberedStay
<1>4. ASSUME NEW o \in Ops, op'[o].kind = "scale", op'[o].pc \in {"decide", "shrink"}
      PROVE  /\ \A s \in op'[o].seen : specOf'[s] = op'[o].spec
             /\ op'[o].pc = "shrink" /\ op'[o].cnt < 0 =>
                  Cardinality(op'[o].seen) + op'[o].cnt >= MinReplica[op'[o].spec]
  BY <1>1, <1>4, ScalersLeaveEnough
<1> QED
  BY <1>2, <1>3, <1>4 DEF Kept

LEMMA KeptInvariant == Spec => []KeptInv
<1>1. Init => KeptInv
  BY DEF Init, KeptInv, Kept, HeldBy, Idle, Numbered
<1> QED
  BY <1>1, HandInvariant, KeptNext, PTL DEF Spec

(* All instances of a spec that have ever been in the table.               *)
InstancesOf(p) == {s \in Numbered : specOf[s] = p}

EnoughInv ==
  ~ DeleteCalled =>
    \A p \in Specs : Cardinality(InstancesOf(p)) >= MinReplica[p] => Cardinality(Live(p)) >= MinReplica[p]

(* The last one to have ceased to be live has only live superiors.         *)
LEMMA EnoughAreLive == HandInv /\ KeptInv => EnoughInv
<1> SUFFICES ASSUME HandInv, Kept, NEW p \in Specs, Cardinality(InstancesOf(p)) >= MinReplica[p]
             PROVE  Cardinality(Live(p)) >= MinReplica[p]
  BY DEF KeptInv, EnoughInv
<1> DEFINE Ended == InstancesOf(p) \ Live(p)
<1>1. /\ Live(p) \subseteq InstancesOf(p) /\ InstancesOf(p) \in SUBSET Services
      /\ Live(p) = {s \in InstancesOf(p) : IsLive(s)}
  BY DEF Live, RowsOf, InstancesOf, IsLive, Numbered, HandInv, SeenAreNumbered
<1>2. IsFiniteSet(Ended) /\ \A s \in Ended : rowId[s] \in Int
  BY <1>1, ServicesFinite DEF HandInv, TablesTyped
<1>3. CASE Ended = {}
  BY <1>1, <1>3
<1>4. CASE Ended # {}
  <2>1. [s \in Ended |-> rowId[s]] \in [Ended -> Int]
    BY <1>2
  <2>2. PICK num \in [Ended -> Int] : \A s \in Ended : num[s] = rowId[s]
    BY <2>1
  <2>3. PICK s \in Ended : \A t \in Ended : num[t] <= num[s]
    <3> HIDE DEF Ended
    <3> QED
      BY <1>2, <1>4, LargestNumber
  <2>4. \A t \in Ended : rowId[t] <= rowId[s]
    BY <2>2, <2>3
  <2>5. /\ s \in Numbered /\ specOf[s] = p /\ LaunchType(s) = ColdPool
        /\ Cardinality(Superiors(s)) >= MinReplica[p]
    BY <1>1, <2>3 DEF InstancesOf, Kept
  <2>6. Superiors(s) \subseteq Live(p)
    <3>1. ASSUME NEW u \in Superiors(s) PROVE IsLive(u)
      <4>1. u \in InstancesOf(p) /\ (LaunchType(u) # ColdPool \/ rowId[u] > rowId[s])
        BY <2>5 DEF Superiors, InstancesOf
      <4>2. LaunchType(u) # ColdPool => IsLive(u)
        BY <4>1 DEF Kept, InstancesOf
      <4>3. rowId[u] > rowId[s] => u \notin Ended
        <5>1. u \in Services /\ s \in Services
          BY <2>5, <4>1 DEF InstancesOf, Numbered
        <5>2. rowId[u] \in Int /\ rowId[s] \in Int
          BY <5>1, ServicesFinite DEF HandInv, TablesTyped
        <5> QED
          BY <2>4, <5>2
      <4> QED
        BY <1>1, <4>1, <4>2, <4>3
    <3>2. Superiors(s) \subseteq InstancesOf(p)
      BY <2>5 DEF Superiors, InstancesOf
    <3> QED
      BY <1>1, <3>1, <3>2
  <2>7. Cardinality(Superiors(s)) <= Cardinality(Live(p))
        /\ Cardinality(Superiors(s)) \in Nat /\ Cardinality(Live(p)) \in Nat
    BY <1>1, <2>6, SubsetCounts, ServicesFinite
  <2>8. MinReplica[p] \in Nat
    BY ManagerAssumption
  <2> QED
    BY <2>5, <2>7, <2>8
<1> QED
  BY <1>3, <1>4

(***************************************************************************)
(* A spec that has the minimum of live instances keeps it, through any     *)
(* number of concurrent calls, failures and restarts, until a              *)
(* DeleteFunction is called.                                               *)
(***************************************************************************)
THEOREM MinReplicasAreNeverLost == Spec => MinReplicasAreKept
<1> DEFINE Step == ~ DeleteCalled' =>
             \A p \in Specs :
               Cardinality(Live(p)) >= MinReplica[p] => Cardinality(Live(p)') >= MinReplica[p]
<1>1. HandInv /\ EnoughInv' /\ [Next]_vars => [Step]_vars
  <2> SUFFICES ASSUME HandInv, EnoughInv', [Next]_vars, ~ DeleteCalled', NEW p \in Specs,
                      Cardinality(Live(p)) >= MinReplica[p]
               PROVE  Cardinality(Live(p)') >= MinReplica[p]
    OBVIOUS
  <2>1. InstancesOf(p) \subseteq InstancesOf(p)'
    BY NumberedStay DEF InstancesOf
  <2>2. InstancesOf(p)' \in SUBSET Services /\ Live(p) \subseteq InstancesOf(p)
    BY DEF InstancesOf, Numbered, Live, RowsOf, HandInv, SeenAreNumbered
  <2>3. Cardinality(Live(p)) <= Cardinality(InstancesOf(p)')
        /\ Cardinality(Live(p)) \in Nat /\ Cardinality(InstancesOf(p)') \in Nat
    BY <2>1, <2>2, SubsetCounts, ServicesFinite
  <2>4. MinReplica[p] \in Nat
    BY ManagerAssumption
  <2>5. Cardinality(InstancesOf(p)') >= MinReplica[p]
    BY <2>3, <2>4
  <2> QED
    BY <2>5 DEF EnoughInv
<1> QED
  BY <1>1, HandInvariant, KeptInvariant, EnoughAreLive, PTL DEF Spec, MinReplicasAreKept
=============================================================================
