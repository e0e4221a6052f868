----------------------------- MODULE SizesProofs -----------------------------
(***************************************************************************)
(* Proofs about Sizes, for every value of its constants: type correctness, *)
(* that row and hypervisor agree on a VM's sizes, that a disk grows no     *)
(* more than its clients asked for, that an answer of success stands for   *)
(* growth of its own, and that the disks of a tenant keep to its quota.    *)
(*                                                                         *)
(* Every step is first reduced to what it does to one VM and one thread    *)
(* (Frame, With and the ...Facts); what holds of another VM, or of another *)
(* thread on it, then holds still.  The sums over threads and rows are     *)
(* counted in units (Total), so that one term of a sum can change without  *)
(* an induction over its others.                                           *)
(***************************************************************************)
EXTENDS Sizes, FiniteSetTheorems, TLAPS

On(p, v) == req[p] # Idle /\ req[p].v = v
DiskOn(p, v) == req[p].pc \in DiskPc /\ req[p].v = v
Free(v, S) == marks[v] \cap S = {}

-----------------------------------------------------------------------------
(* The parts of the inductive invariant.                                   *)

\* A row knows its disk, and only a row's resizing is checked and read again.
RowsKnown ==
    /\ \A v \in Rows : rows[v].disk # None
    /\ \A p \in Threads : req[p].pc \in {"check", "reread"} => req[p].v \in Rows

\* What clients asked for and have no answer to is part of what they asked for.
Held(v) == [p \in Threads |-> IF DiskOn(p, v) THEN req[p].by ELSE 0]
HeldOpen(v) == IF open[v] # None THEN open[v].by ELSE 0
AskedAt(v) == Start + Total(Held(v)) + HeldOpen(v) <= asked[v]
AskedInv == \A v \in Targets : AskedAt(v)

\* A request that nothing overlapped and nothing cut knows both sizes.
Changing(p, v) == On(p, v) /\ req[p].pc \in {"cycle", "keep"}
Grown(p, v) == On(p, v) /\ req[p].pc \in {"read", "save"}
SizeKnown(v) ==
    /\ (\A p \in Threads : ~Changing(p, v)) => Knows(v, rows[v].size, pve[v].cfg.size)
    /\ \A p \in Threads : On(p, v) =>
        /\ req[p].pc \in {"digest", "put", "cycle", "keep"} => req[p].seen = rows[v].size
        /\ req[p].pc \in {"cycle", "keep"} => pve[v].cfg.size = req[p].size
DiskKnown(v) ==
    /\ late[v] = 0
    /\ (\A p \in Threads : ~Grown(p, v)) => Knows(v, rows[v].disk, DiskOf(v))
    /\ \A p \in Threads : On(p, v) =>
        /\ req[p].pc \in {"check", "grow", "read", "save", "restart", "reread"} =>
              req[p].seen = rows[v].disk
        /\ req[p].pc \in {"check", "grow"} => req[p].prev = DiskOf(v)
        /\ req[p].pc \in {"read", "save"} => DiskOf(v) = req[p].prev + req[p].by
        /\ req[p].pc = "save" => req[p].new = DiskOf(v)
SizesAt(v) ==
    Free(v, {"overlap", "cut"}) =>
        /\ \A p, q \in Threads : On(p, v) /\ On(q, v) => p = q
        /\ SizeKnown(v)
        /\ Free(v, {"late"}) => DiskKnown(v)
SizesInv == \A v \in Targets : SizesAt(v)

\* A request whose growth the newest record shows is served; any other may
\* still grow the disk.
Served(v, by) ==
    \/ DoneBefore(v, by) /\ DiskOf(v) <= asked[v]
    \/ DiskOf(v) + by <= asked[v]
Disturbing == {"overlap", "cut", "late", "aged", "hidden", "passed", "refused"}
GrownAt(v) ==
    Free(v, Disturbing) =>
        /\ DiskOf(v) <= asked[v]
        /\ open[v] # None => Served(v, open[v].by) /\ \A p \in Threads : ~DiskOn(p, v)
        /\ \A p \in Threads : DiskOn(p, v) =>
            LET r == req[p] IN
            /\ r.pc = "check" /\ r.again => Served(v, r.by)
            /\ r.pc = "grow" \/ (r.pc = "check" /\ ~r.again) => DiskOf(v) + r.by <= asked[v]
            /\ r.pc \in {"restart", "reread", "answer"} => DoneBefore(v, r.by)
GrownInv == \A v \in Rows : GrownAt(v)

\* A disk has grown by every request that got past the growth, and by one that
\* is to be repeated and whose own growth the newest record shows.
Shown(v, by) == v \in Rows /\ DoneBefore(v, by) /\ last[v].by = by
Past(p) == req[p].pc \in {"read", "save", "restart", "reread", "answer"}
Retrying(p) == req[p].pc = "check" /\ req[p].again
Credit(v) ==
    [p \in Threads |->
        IF DiskOn(p, v) /\ (Past(p) \/ (Retrying(p) /\ Shown(v, req[p].by)))
        THEN req[p].by ELSE 0]
CreditOpen(v) == IF open[v] # None /\ Shown(v, open[v].by) THEN open[v].by ELSE 0
Backed(v) == owed[v] + Total(Credit(v)) + CreditOpen(v) <= DiskOf(v) + late[v]

\* No two requests that want the same amount, one to be repeated included.
Apart(v) ==
    /\ \A p, q \in Threads :
          DiskOn(p, v) /\ DiskOn(q, v) /\ req[p].by = req[q].by => p = q
    /\ \A p \in Threads : DiskOn(p, v) /\ open[v] # None => req[p].by # open[v].by

\* No record shows the growth of a request that is yet to grow the disk.
Ahead(p) == req[p].pc = "grow" \/ (req[p].pc = "check" /\ ~req[p].again)
Fresh(v) == \A p \in Threads : DiskOn(p, v) /\ Ahead(p) => ~Shown(v, req[p].by)
AnsweredAt(v) == Free(v, {"twice", "mistaken"}) => Backed(v) /\ Apart(v) /\ Fresh(v)
AnsweredInv == \A v \in Targets : AnsweredAt(v)

\* One request at most is between its check and its commit; until then its
\* growth is kept free.
Quiet == \A v \in Rows : Free(v, {"rush", "cut", "late", "guessed"})
RowKept(v) ==
    /\ late[v] = 0
    /\ rows[v].disk <= DiskOf(v)
    /\ (\A p \in Threads : ~Grown(p, v)) => rows[v].disk = DiskOf(v)
Room(p, v) ==
    /\ req[p].pc # "answer" /\ req[p].seen # None => req[p].seen <= rows[v].disk
    /\ req[p].pc = "grow" => Usage + req[p].by <= Quota + Slack
    /\ req[p].pc \in {"read", "save"} => Usage + (DiskOf(v) - rows[v].disk) <= Quota + Slack
    /\ req[p].pc = "save" => req[p].new = DiskOf(v)
Within ==
    /\ Usage <= Quota + Slack
    /\ \A p, q \in Threads : Growing(p) /\ Growing(q) => p = q
    /\ \A v \in Rows : RowKept(v) /\ \A p \in Threads : DiskOn(p, v) => Room(p, v)
QuotaInv == Quiet => Within

IInv == TypeOK /\ RowsKnown /\ AskedInv /\ SizesInv /\ GrownInv /\ AnsweredInv /\ QuotaInv

-----------------------------------------------------------------------------
(* Sums (Total).                                                           *)

Units(f, S) == UNION {{x} \X (1..f[x]) : x \in S}

LEMMA Column ==
    ASSUME NEW x, NEW n \in Nat
    PROVE  IsFiniteSet({x} \X (1..n)) /\ Cardinality({x} \X (1..n)) = n
<1> DEFINE A == {x}
           B == 1..n
<1>1. IsFiniteSet(A) /\ Cardinality(A) = 1
    BY FS_Singleton
<1>2. IsFiniteSet(B) /\ Cardinality(B) = n
    BY FS_Interval
<1>3. IsFiniteSet(A \X B) /\ Cardinality(A \X B) = Cardinality(A) * Cardinality(B)
  <2> HIDE DEF A, B
  <2> QED
    BY <1>1, <1>2, FS_Product
<1> QED
    BY <1>1, <1>2, <1>3

LEMMA UnitsFinite ==
    ASSUME NEW S, IsFiniteSet(S), NEW f \in [S -> Nat], NEW R \in SUBSET S
    PROVE  IsFiniteSet(Units(f, R)) /\ Cardinality(Units(f, R)) \in Nat
<1> DEFINE U == [x \in R |-> {x} \X (1..f[x])]
           Parts == {{x} \X (1..f[x]) : x \in R}
<1>1. IsFiniteSet(R)
    BY FS_Subset
<1>2. U \in Surjection(R, Parts)
    BY DEF Surjection
<1>3. IsFiniteSet(Parts)
  <2> HIDE DEF U, Parts
  <2> QED
    BY <1>1, <1>2, FS_Surjection
<1>4. \A P \in Parts : IsFiniteSet(P)
    <2> TAKE P \in Parts
    <2>1. PICK x \in R : P = {x} \X (1..f[x])
        OBVIOUS
    <2> QED
        BY <2>1, Column
<1>5. IsFiniteSet(UNION Parts)
  <2> HIDE DEF Parts
  <2> QED
    BY <1>3, <1>4, FS_UNION
<1> QED
    BY <1>5, FS_CardinalityType DEF Units

LEMMA UnitsSplit ==
    ASSUME NEW S, IsFiniteSet(S), NEW f \in [S -> Nat], NEW x \in S
    PROVE  Total(f) = Cardinality(Units(f, S \ {x})) + f[x]
<1> DEFINE A == Units(f, S \ {x})
           B == {x} \X (1..f[x])
<1>1. IsFiniteSet(A) /\ Cardinality(A) \in Nat
    BY UnitsFinite
<1>2. IsFiniteSet(B) /\ Cardinality(B) = f[x]
    BY Column
<1>3. A \cap B = {}
    BY DEF Units
<1>4. Total(f) = Cardinality(A \cup B)
    BY DEF Units, Total
<1>5. Cardinality(A \cap B) = 0
    BY <1>3, FS_EmptySet
<1> QED
  <2> HIDE DEF A, B
  <2>1. Cardinality(A \cup B) = Cardinality(A) + Cardinality(B) - Cardinality(A \cap B)
    BY <1>1, <1>2, FS_Union
  <2>2. Total(f) = Cardinality(A) + f[x]
    BY <1>1, <1>2, <1>4, <1>5, <2>1
  <2> QED
    BY <2>2 DEF A

LEMMA TotalTyped ==
    ASSUME NEW S, IsFiniteSet(S), NEW f \in [S -> Nat]
    PROVE  Total(f) \in Nat /\ \A x \in S : f[x] <= Total(f)
<1>1. Total(f) \in Nat
    BY UnitsFinite DEF Units, Total
<1>2. ASSUME NEW x \in S PROVE f[x] <= Total(f)
    <2>1. Cardinality(Units(f, S \ {x})) \in Nat
        BY UnitsFinite
    <2> QED
        BY <1>1, <2>1, UnitsSplit
<1> QED
    BY <1>1, <1>2

\* No value is greater, so the sum is not.
LEMMA UnitsFewer ==
    ASSUME NEW S, IsFiniteSet(S), NEW f \in [S -> Nat], NEW g \in [S -> Nat],
           NEW R \in SUBSET S, \A y \in R : g[y] <= f[y]
    PROVE  Cardinality(Units(g, R)) <= Cardinality(Units(f, R))
<1>1. Units(g, R) \subseteq Units(f, R)
    <2>1. \A y \in R : 1..g[y] \subseteq 1..f[y]
        OBVIOUS
    <2> QED
        BY <2>1 DEF Units
<1>2. IsFiniteSet(Units(f, R))
    BY UnitsFinite
<1> QED
    BY <1>1, <1>2, FS_Subset

LEMMA TotalFewer ==
    ASSUME NEW S, IsFiniteSet(S), NEW f \in [S -> Nat], NEW g \in [S -> Nat],
           \A y \in S : g[y] <= f[y]
    PROVE  Total(g) <= Total(f)
BY UnitsFewer DEF Units, Total

\* No value but one is greater, so the sum grows by no more than that one.
LEMMA TotalMove ==
    ASSUME NEW S, IsFiniteSet(S), NEW f \in [S -> Nat], NEW g \in [S -> Nat],
           NEW x \in S, \A y \in S \ {x} : g[y] <= f[y]
    PROVE  Total(g) + f[x] <= Total(f) + g[x]
<1>1. Cardinality(Units(g, S \ {x})) <= Cardinality(Units(f, S \ {x}))
    BY UnitsFewer
<1>2. /\ Cardinality(Units(g, S \ {x})) \in Nat
      /\ Cardinality(Units(f, S \ {x})) \in Nat
    BY UnitsFinite
<1>3. /\ Total(f) = Cardinality(Units(f, S \ {x})) + f[x]
      /\ Total(g) = Cardinality(Units(g, S \ {x})) + g[x]
    BY UnitsSplit
<1> QED
    BY <1>1, <1>2, <1>3

LEMMA TotalZero == ASSUME NEW S PROVE Total([x \in S |-> 0]) = 0
<1>1. UNION {{x} \X (1..[y \in S |-> 0][x]) : x \in S} = {}
    OBVIOUS
<1> QED
    BY <1>1, FS_EmptySet DEF Total

LEMMA TotalOnes ==
    ASSUME NEW S, IsFiniteSet(S) PROVE Total([x \in S |-> 1]) = Cardinality(S)
<1> DEFINE U == UNION {{x} \X (1..[y \in S |-> 1][x]) : x \in S}
<1>1. U = S \X {1}
    OBVIOUS
<1>2. IsFiniteSet({1}) /\ Cardinality({1}) = 1
    BY FS_Singleton
<1>3. Cardinality(S \X {1}) = Cardinality(S) * 1
    BY <1>2, FS_Product
<1>4. Cardinality(S) \in Nat
    BY FS_CardinalityType
<1>5. Total([x \in S |-> 1]) = Cardinality(U)
    BY DEF Total
<1>6. Cardinality(U) = Cardinality(S)
  <2> HIDE DEF U
  <2> QED
    BY <1>1, <1>3, <1>4
<1> QED
    BY <1>5, <1>6

-----------------------------------------------------------------------------
(* Type correctness, which needs AskedInv: what a refused request takes    *)
(* from "asked" was asked for.                                             *)

SizePc == {"digest", "put", "cycle", "keep", "boot"}

LEMMA Shapes ==
    ASSUME TypeOK, NEW p \in Threads
    PROVE  /\ req[p].pc \in DiskPc => req[p] \in DiskRequest
           /\ req[p].pc \in SizePc => req[p] \in SizeRequest
           /\ req[p] = Idle <=> req[p].pc \notin DiskPc \cup SizePc
           /\ req[p] # Idle => req[p].v \in Targets
<1>1. req[p] \in {Idle} \cup DiskRequest \cup SizeRequest
    BY DEF TypeOK
<1>2. ASSUME req[p] = Idle PROVE req[p].pc \notin DiskPc \cup SizePc
    BY <1>2 DEF Idle, DiskPc, SizePc
<1>3. ASSUME req[p] \in DiskRequest PROVE req[p].pc \in DiskPc /\ req[p].v \in Targets
    BY <1>3 DEF DiskRequest
<1>4. ASSUME req[p] \in SizeRequest PROVE req[p].pc \in SizePc /\ req[p].v \in Targets
    BY <1>4 DEF SizeRequest, SizePc
<1>5. DiskPc \cap SizePc = {}
    BY DEF DiskPc, SizePc
<1> QED
    BY <1>1, <1>2, <1>3, <1>4, <1>5

LEMMA AsksTyped ==
    /\ asks \in 0..MaxAsks /\ asks < MaxAsks => asks + 1 \in 0..MaxAsks
    /\ mishaps \in 0..MaxMishaps /\ Mishap => mishaps' \in 0..MaxMishaps
BY SizesAssumption DEF Mishap

LEMMA MarkTyped ==
    ASSUME TypeOK, NEW v \in Targets, NEW S \in SUBSET Marks, Marked(v, S)
    PROVE  marks' \in [Targets -> SUBSET Marks]
BY DEF TypeOK, Marked

LEMMA BecomeTyped ==
    ASSUME TypeOK, NEW p \in Threads, NEW r \in {Idle} \cup DiskRequest \cup SizeRequest,
           Become(p, r)
    PROVE  req' \in [Threads -> {Idle} \cup DiskRequest \cup SizeRequest]
BY DEF TypeOK, Become

LEMMA GotoTyped ==
    ASSUME TypeOK, NEW p \in Threads, NEW pc, Goto(p, pc),
           \/ req[p].pc \in DiskPc /\ pc \in DiskPc
           \/ req[p].pc \in SizePc /\ pc \in SizePc
    PROVE  req' \in [Threads -> {Idle} \cup DiskRequest \cup SizeRequest]
<1>1. [req[p] EXCEPT !.pc = pc] \in DiskRequest \cup SizeRequest
    <2>1. CASE req[p].pc \in DiskPc /\ pc \in DiskPc
        BY <2>1, Shapes DEF DiskRequest
    <2>2. CASE req[p].pc \in SizePc /\ pc \in SizePc
        BY <2>2, Shapes DEF SizeRequest, SizePc
    <2> QED
        BY <2>1, <2>2
<1> QED
    BY <1>1 DEF TypeOK, Goto

LEMMA StartTyped ==
    ASSUME NEW s \in Sizes
    PROVE  [cfg |-> [disk |-> Start, size |-> s], on |-> TRUE] \in [cfg : Config, on : BOOLEAN]
BY DEF Config, Disk, Start

\* A set of numbers that is not empty has a least one.
LEMMA LeastNumber ==
    ASSUME NEW D, D \subseteq Nat, D # {}
    PROVE  \E d \in D : \A e \in D : d <= e
<1> DEFINE T == {0..d : d \in D}
<1>1. \A d \in D : 0..d \in FiniteSubsetsOf(Nat)
    <2> TAKE d \in D
    <2>1. IsFiniteSet(0..d)
        BY FS_Interval
    <2> QED
        BY <2>1 DEF FiniteSubsetsOf
<1>2. T \subseteq FiniteSubsetsOf(Nat) /\ T # {}
    BY <1>1
<1>3. PICK x \in T : \A y \in T : ~(<<y, x>> \in StrictSubsetOrdering(Nat))
  <2> HIDE DEF T
  <2> QED
    BY <1>2, FS_StrictSubsetOrderingWellFounded, WFMin
<1>4. PICK d \in D : x = 0..d
    BY <1>3
<1>5. ASSUME NEW e \in D PROVE d <= e
    <2> SUFFICES ASSUME e < d PROVE FALSE
        BY <1>4
    <2>1. 0..e \in T
        OBVIOUS
    <2>2. 0..e \subseteq 0..d /\ 0..e # 0..d
        BY <1>4
    <2>3. <<0..e, 0..d>> \in StrictSubsetOrdering(Nat)
        BY <2>2, 0..e \in SUBSET Nat, 0..d \in SUBSET Nat DEF StrictSubsetOrdering
    <2> QED
        BY <1>3, <1>4, <2>1, <2>3
<1> QED
    BY <1>5

LEMMA Smallest == (CHOOSE s \in Sizes : \A o \in Sizes : s <= o) \in Sizes
<1>1. Sizes \subseteq Nat /\ Sizes # {}
    BY SizesAssumption
<1> QED
    BY <1>1, LeastNumber

LEMMA InitTyped == Init => TypeOK /\ RowsKnown
<1> SUFFICES ASSUME Init PROVE TypeOK /\ RowsKnown
    OBVIOUS
<1> DEFINE s == CHOOSE s \in Sizes : \A o \in Sizes : s <= o
<1>1. s \in Sizes
    BY Smallest
<1>2. /\ rows = [v \in Targets |->
                    [disk |-> IF v \in Rows THEN Start ELSE None,
                     size |-> IF v \in Rows THEN s ELSE None, status |-> "running"]]
      /\ pve = [v \in Targets |-> [cfg |-> [disk |-> Start, size |-> s], on |-> TRUE]]
    BY DEF Init
<1> HIDE DEF s
<1>3. rows \in [Targets -> Row]
    BY <1>1, <1>2 DEF Row, Disk, Start
<1>4. pve \in [Targets -> [cfg : Config, on : BOOLEAN]]
    BY <1>1, <1>2, StartTyped
<1>5. 0 \in 0..MaxAsks /\ 0 \in 0..MaxMishaps
    BY SizesAssumption
<1>6. RowsKnown
    BY <1>2, SizesAssumption DEF RowsKnown, Start, Targets, Init, Idle
<1>7. asked \in [Targets -> Disk] /\ owed \in [Targets -> Disk] /\ late \in [Targets -> Disk]
    BY DEF Init, Disk, Start
<1> QED
    BY <1>3, <1>4, <1>5, <1>6, <1>7 DEF Init, TypeOK

LEMMA Amounts == \A by \in Steps : by \in Nat /\ by > 0
BY SizesAssumption

LEMMA DiskAskTyped ==
    ASSUME TypeOK, NEW v \in Targets, NEW i \in Intent, NEW again \in BOOLEAN
    PROVE  DiskAsk(v, i, again) \in DiskRequest
<1>1. DiskOf(v) \in Disk
    BY DEF TypeOK, DiskOf, Config
<1>2. rows[v].disk \in Disk \cup {None}
    BY DEF TypeOK, Row
<1> QED
    BY <1>1, <1>2 DEF DiskAsk, DiskRequest, DiskPc, Intent

LEMMA OverlapTyped == \A v \in Targets : Overlap(v) \in SUBSET Marks
BY DEF Overlap, Marks

LEMMA GrowthTyped ==
    ASSUME TypeOK, NEW f \in [Targets -> Disk], NEW v \in Targets, NEW by \in Steps
    PROVE  [f EXCEPT ![v] = @ + by] \in [Targets -> Disk]
BY SizesAssumption DEF Disk

LEMMA AskTyped ==
    ASSUME TypeOK, NEW p \in Threads, NEW v \in Targets, NEW by \in Steps,
           NEW restart \in BOOLEAN, Ask(p, v, by, restart)
    PROVE  TypeOK'
<1>1. DiskAsk(v, [by |-> by, restart |-> restart], FALSE) \in DiskRequest
    BY DiskAskTyped DEF Intent
<1>2. req' \in [Threads -> {Idle} \cup DiskRequest \cup SizeRequest]
    BY <1>1, BecomeTyped DEF Ask
<1>3. marks' \in [Targets -> SUBSET Marks]
    <2> DEFINE S == Overlap(v) \cup (IF open[v] # None THEN {"passed"} ELSE {})
                               \cup (IF Again(v, by) THEN {"twice"} ELSE {})
    <2>1. S \in SUBSET Marks
        BY OverlapTyped DEF Marks
    <2>2. Marked(v, S)
        BY DEF Ask
    <2> QED
      <3> HIDE DEF S
      <3> QED
        BY <2>1, <2>2, MarkTyped
<1>4. asks' \in 0..MaxAsks
    BY AsksTyped DEF Ask, TypeOK
<1>5. asked' \in [Targets -> Disk]
    BY GrowthTyped DEF Ask, TypeOK
<1> QED
    BY <1>2, <1>3, <1>4, <1>5 DEF TypeOK, Ask

LEMMA RepeatTyped ==
    ASSUME TypeOK, NEW p \in Threads, NEW v \in Targets, RepeatDisk(p, v)
    PROVE  TypeOK'
<1>1. DiskAsk(v, open[v], TRUE) \in DiskRequest
    BY DiskAskTyped DEF RepeatDisk, TypeOK
<1>2. req' \in [Threads -> {Idle} \cup DiskRequest \cup SizeRequest]
    BY <1>1, BecomeTyped DEF RepeatDisk
<1>3. marks' \in [Targets -> SUBSET Marks]
    BY OverlapTyped, MarkTyped DEF RepeatDisk
<1> QED
    BY <1>2, <1>3 DEF TypeOK, RepeatDisk

LEMMA HeldTyped ==
    ASSUME TypeOK, NEW v \in Targets
    PROVE  /\ Held(v) \in [Threads -> Nat] /\ Total(Held(v)) \in Nat
           /\ HeldOpen(v) \in Nat
           /\ \A p \in Threads : DiskOn(p, v) =>
                 req[p].by \in Steps /\ req[p].by \in Nat /\ req[p].by > 0
                 /\ req[p].by <= Total(Held(v))
           /\ open[v] # None => open[v].by \in Nat /\ open[v].by > 0
<1>1. \A p \in Threads : DiskOn(p, v) =>
        req[p].by \in Steps /\ req[p].by \in Nat /\ req[p].by > 0
    <2> TAKE p \in Threads
    <2>1. DiskOn(p, v) => req[p] \in DiskRequest
        BY Shapes DEF DiskOn
    <2>2. DiskOn(p, v) => req[p].by \in Steps
        BY <2>1 DEF DiskRequest
    <2> QED
        BY <2>2, Amounts
<1>2. Held(v) \in [Threads -> Nat]
    BY <1>1 DEF Held
<1>3. Total(Held(v)) \in Nat /\ \A p \in Threads : Held(v)[p] <= Total(Held(v))
    <2>1. IsFiniteSet(Threads)
        BY SizesAssumption
    <2> DEFINE H == Held(v)
    <2>2. H \in [Threads -> Nat]
        BY <1>2
    <2> HIDE DEF H
    <2>3. Total(H) \in Nat /\ \A p \in Threads : H[p] <= Total(H)
        BY <2>1, <2>2, TotalTyped
    <2> QED
        BY <2>3 DEF H
<1>4. open[v] # None => open[v].by \in Nat /\ open[v].by > 0
    BY Amounts DEF TypeOK, Intent
<1> QED
    BY <1>1, <1>2, <1>3, <1>4 DEF Held, HeldOpen

LEMMA CheckTyped ==
    ASSUME TypeOK, AskedInv, NEW p \in Threads,
           QuotaRefuses(p) \/ AlreadyResized(p) \/ CheckDisk(p)
    PROVE  TypeOK'
<1> DEFINE r == req[p]
<1>1. req[p] \in DiskRequest /\ r.pc \in DiskPc
    BY Shapes DEF QuotaRefuses, AlreadyResized, CheckDisk, At, DiskPc
<1>2. r.v \in Targets
    BY <1>1 DEF DiskRequest
<1>3. CASE QuotaRefuses(p)
    <2>1. req' \in [Threads -> {Idle} \cup DiskRequest \cup SizeRequest]
        BY <1>3, BecomeTyped DEF QuotaRefuses
    <2>2. marks' \in [Targets -> SUBSET Marks]
        <3>1. (IF r.again THEN {"refused"} ELSE {}) \in SUBSET Marks
            BY DEF Marks
        <3> QED
            BY <1>2, <1>3, <3>1, MarkTyped DEF QuotaRefuses
    <2>3. asked[r.v] - r.by \in Nat
        <3>1. DiskOn(p, r.v)
            BY <1>1 DEF DiskOn
        <3>2. Start + Total(Held(r.v)) + HeldOpen(r.v) <= asked[r.v]
            BY <1>2 DEF AskedInv, AskedAt
        <3>3. asked[r.v] \in Nat
            BY <1>2 DEF TypeOK, Disk
        <3> QED
            BY <1>2, <3>1, <3>2, <3>3, HeldTyped DEF Start
    <2>4. asked' \in [Targets -> Disk]
        BY <1>2, <1>3, <2>3 DEF QuotaRefuses, TypeOK, Disk
    <2> QED
        BY <1>3, <2>1, <2>2, <2>4 DEF TypeOK, QuotaRefuses
<1>4. CASE AlreadyResized(p)
    <2>1. req' \in [Threads -> {Idle} \cup DiskRequest \cup SizeRequest]
        BY <1>1, <1>4, GotoTyped DEF AlreadyResized, DiskPc
    <2>2. marks' \in [Targets -> SUBSET Marks]
        <3> DEFINE S == IF ~r.again THEN {"twice"}
                        ELSE IF last[r.v].by # r.by THEN {"mistaken"} ELSE {}
        <3>1. S \in SUBSET Marks
            BY DEF Marks
        <3>2. Marked(r.v, S)
            BY <1>4 DEF AlreadyResized
        <3> QED
          <4> HIDE DEF S
          <4> QED
            BY <1>2, <3>1, <3>2, MarkTyped
    <2> QED
        BY <1>4, <2>1, <2>2 DEF TypeOK, AlreadyResized
<1>5. CASE CheckDisk(p)
    <2>1. req' \in [Threads -> {Idle} \cup DiskRequest \cup SizeRequest]
        BY <1>1, <1>5, GotoTyped DEF CheckDisk, DiskPc
    <2>2. marks' \in [Targets -> SUBSET Marks]
        <3> DEFINE S == IF \E q \in Threads : Growing(q) THEN {"rush"} ELSE {}
        <3>1. S \in SUBSET Marks
            BY DEF Marks
        <3>2. Marked(r.v, S)
            BY <1>5 DEF CheckDisk
        <3> QED
          <4> HIDE DEF S
          <4> QED
            BY <1>2, <3>1, <3>2, MarkTyped
    <2> QED
        BY <1>5, <2>1, <2>2 DEF TypeOK, CheckDisk
<1> QED
    BY <1>3, <1>4, <1>5

LEMMA IntentTyped ==
    ASSUME TypeOK, NEW r \in DiskRequest
    PROVE  /\ [by |-> r.by, restart |-> r.restart] \in Intent
           /\ [open EXCEPT ![r.v] = [by |-> r.by, restart |-> r.restart]]
                \in [Targets -> Intent \cup {None}]
BY DEF TypeOK, Intent, DiskRequest

LEMMA PveDiskTyped ==
    ASSUME TypeOK, NEW v \in Targets, NEW d \in Nat
    PROVE  [pve EXCEPT ![v].cfg.disk = @ + d] \in [Targets -> [cfg : Config, on : BOOLEAN]]
<1>1. pve[v] \in [cfg : Config, on : BOOLEAN] /\ pve[v].cfg \in Config
    BY DEF TypeOK
<1>2. [pve[v].cfg EXCEPT !.disk = @ + d] \in Config
    BY <1>1 DEF Config, Disk
<1> QED
    BY <1>1, <1>2 DEF TypeOK

LEMMA GrowTyped ==
    ASSUME TypeOK, NEW p \in Threads, GrowDisk(p) \/ GrowFails(p)
    PROVE  TypeOK'
<1> DEFINE r == req[p]
<1>1. r \in DiskRequest /\ r.pc \in DiskPc
    BY Shapes DEF GrowDisk, GrowFails, At, DiskPc
<1>2. r.v \in Targets /\ r.by \in Steps /\ r.by \in Nat
    BY <1>1, SizesAssumption DEF DiskRequest
<1>3. pve' = pve \/ pve' = [pve EXCEPT ![r.v].cfg.disk = @ + r.by]
    <2>1. GrowDisk(p) => pve' = pve \/ pve' = [pve EXCEPT ![r.v].cfg.disk = @ + r.by]
        BY DEF GrowDisk
    <2>2. GrowFails(p) => pve' = pve \/ pve' = [pve EXCEPT ![r.v].cfg.disk = @ + r.by]
        BY DEF GrowFails
    <2> QED
        BY <2>1, <2>2
<1>4. pve' \in [Targets -> [cfg : Config, on : BOOLEAN]]
    <2>1. [pve EXCEPT ![r.v].cfg.disk = @ + r.by] \in [Targets -> [cfg : Config, on : BOOLEAN]]
        BY <1>2, PveDiskTyped
    <2> QED
        BY <1>3, <2>1 DEF TypeOK
<1>5. late' \in [Targets -> Disk]
    <2>1. late \in [Targets -> Disk]
        BY DEF TypeOK
    <2>2. [late EXCEPT ![r.v] = @ + r.by] \in [Targets -> Disk]
        BY <1>2, <2>1, GrowthTyped
    <2>3. late' = late \/ late' = [late EXCEPT ![r.v] = @ + r.by]
        BY DEF GrowDisk, GrowFails
    <2> QED
        BY <2>1, <2>2, <2>3
<1>6. marks' \in [Targets -> SUBSET Marks]
    <2>1. {"late"} \in SUBSET Marks /\ {"cut"} \in SUBSET Marks
        BY DEF Marks
    <2>2. marks' = marks \/ Marked(r.v, {"late"}) \/ Marked(r.v, {"cut"})
        BY DEF GrowDisk, GrowFails
    <2> QED
        BY <1>2, <2>1, <2>2, MarkTyped DEF TypeOK
<1>7. mishaps' \in 0..MaxMishaps
    BY AsksTyped DEF GrowDisk, GrowFails, TypeOK
<1>8. CASE GrowDisk(p)
    <2>1. req' \in [Threads -> {Idle} \cup DiskRequest \cup SizeRequest]
        BY <1>1, <1>8, GotoTyped DEF GrowDisk, DiskPc
    <2> QED
        BY <1>4, <1>5, <1>6, <1>7, <1>8, <2>1 DEF TypeOK, GrowDisk
<1>9. CASE GrowFails(p)
    <2>1. req' \in [Threads -> {Idle} \cup DiskRequest \cup SizeRequest]
        BY <1>9, BecomeTyped DEF GrowFails
    <2>2. open' \in [Targets -> Intent \cup {None}]
        BY <1>1, <1>9, IntentTyped DEF GrowFails
    <2> QED
        BY <1>4, <1>5, <1>6, <1>7, <1>9, <2>1, <2>2 DEF TypeOK, GrowFails
<1> QED
    BY <1>8, <1>9

LEMMA LandTyped == ASSUME TypeOK, NEW v \in Targets, Land(v) PROVE TypeOK'
<1>1. late[v] \in Nat
    BY DEF TypeOK, Disk
<1>2. pve' \in [Targets -> [cfg : Config, on : BOOLEAN]]
    BY <1>1, PveDiskTyped DEF Land
<1>3. late' \in [Targets -> Disk]
    BY DEF Land, TypeOK, Disk
<1> QED
    BY <1>2, <1>3 DEF TypeOK, Land

LEMMA ReadTyped == ASSUME TypeOK, NEW p \in Threads, ReadDisk(p) PROVE TypeOK'
<1> DEFINE r == req[p]
<1>1. r \in DiskRequest /\ r.pc \in DiskPc
    BY Shapes DEF ReadDisk, At, DiskPc
<1>2. r.v \in Targets /\ r.by \in Nat /\ r.prev \in Nat /\ DiskOf(r.v) \in Nat
    BY <1>1, Amounts DEF DiskRequest, Disk, DiskOf, TypeOK, Config
<1>3. PICK d \in Nat : req' = [req EXCEPT ![p].pc = "save", ![p].new = d]
    BY <1>2 DEF ReadDisk
<1>4. [r EXCEPT !.pc = "save", !.new = d] \in DiskRequest
    BY <1>1, <1>3 DEF DiskRequest, DiskPc, Disk
<1>5. req' = [req EXCEPT ![p] = [r EXCEPT !.pc = "save", !.new = d]]
    BY <1>3 DEF TypeOK
<1>6. req' \in [Threads -> {Idle} \cup DiskRequest \cup SizeRequest]
    BY <1>4, <1>5 DEF TypeOK
<1>7. marks' \in [Targets -> SUBSET Marks]
    <2>1. {"guessed"} \in SUBSET Marks
        BY DEF Marks
    <2> QED
        BY <1>2, <2>1, MarkTyped DEF TypeOK, ReadDisk
<1>8. mishaps' \in 0..MaxMishaps
    BY AsksTyped DEF ReadDisk, TypeOK
<1> QED
    BY <1>6, <1>7, <1>8 DEF TypeOK, ReadDisk

LEMMA WriteTyped ==
    ASSUME TypeOK, NEW v \in Targets, NEW r, r.new \in Disk, WriteDisk(v, r)
    PROVE  rows' \in [Targets -> Row]
<1>1. rows[v] \in Row
    BY DEF TypeOK
<1>2. PICK d \in Disk \cup {None} : rows' = [rows EXCEPT ![v].disk = d]
    <2>1. rows[v].disk \in Disk \cup {None}
        BY <1>1 DEF Row
    <2>2. CASE r.seen = r.new
        BY <2>1, <2>2 DEF WriteDisk, TypeOK
    <2>3. CASE r.seen # r.new
        BY <2>3 DEF WriteDisk, TypeOK
    <2> QED
        BY <2>2, <2>3
<1>3. [rows[v] EXCEPT !.disk = d] \in Row
    BY <1>1, <1>2 DEF Row
<1> QED
    BY <1>2, <1>3 DEF TypeOK

LEMMA RecordTyped ==
    ASSUME TypeOK, NEW v \in Rows, NEW prev \in Disk, NEW new \in Disk,
           NEW by \in Steps \cup {0}, AddRecord(v, prev, new, by)
    PROVE  last' \in [Rows -> Record \cup {None}]
BY DEF TypeOK, AddRecord, Record

LEMMA SaveTyped ==
    ASSUME TypeOK, NEW p \in Threads, SaveDisk(p) \/ SaveBuildDisk(p)
    PROVE  TypeOK'
<1> DEFINE r == req[p]
<1>0. Save(p)
    BY DEF SaveDisk, SaveBuildDisk
<1>1. r \in DiskRequest /\ r.pc \in DiskPc
    BY <1>0, Shapes DEF Save, At, DiskPc
<1>2. r.v \in Targets /\ r.by \in Steps \cup {0} /\ r.prev \in Disk /\ r.new \in Disk
    BY <1>1 DEF DiskRequest
<1>3. rows' \in [Targets -> Row]
    BY <1>0, <1>2, WriteTyped DEF Save
<1>4. last' \in [Rows -> Record \cup {None}]
    BY <1>2, RecordTyped DEF SaveDisk, SaveBuildDisk, TypeOK
<1>5. PICK pc \in DiskPc : req' = [req EXCEPT ![p].pc = pc, ![p].seen = r.new]
    BY <1>0 DEF Save, DiskPc
<1>6. [r EXCEPT !.pc = pc, !.seen = r.new] \in DiskRequest
    BY <1>1, <1>2, <1>5 DEF DiskRequest
<1>7. req' = [req EXCEPT ![p] = [r EXCEPT !.pc = pc, !.seen = r.new]]
    BY <1>5 DEF TypeOK
<1>8. req' \in [Threads -> {Idle} \cup DiskRequest \cup SizeRequest]
    BY <1>6, <1>7 DEF TypeOK
<1> QED
    BY <1>0, <1>3, <1>4, <1>8 DEF TypeOK, Save

LEMMA PowerTyped ==
    ASSUME TypeOK, NEW v \in Targets,
           \/ RestartVm(v) \/ PowerCycle(v)
           \/ pve' = [pve EXCEPT ![v].on = TRUE] /\ UNCHANGED mishaps
           \/ pve' = [pve EXCEPT ![v].on = FALSE] /\ UNCHANGED mishaps
    PROVE  pve' \in [Targets -> [cfg : Config, on : BOOLEAN]] /\ mishaps' \in 0..MaxMishaps
<1>1. /\ pve' = pve \/ \E on \in BOOLEAN : pve' = [pve EXCEPT ![v].on = on]
      /\ mishaps' = mishaps \/ Mishap
    BY DEF RestartVm, PowerCycle
<1>2. \A on \in BOOLEAN : [pve EXCEPT ![v].on = on] \in [Targets -> [cfg : Config, on : BOOLEAN]]
    BY DEF TypeOK
<1> QED
    BY <1>1, <1>2, AsksTyped DEF TypeOK

LEMMA RestartTyped ==
    ASSUME TypeOK, NEW p \in Threads,
           RestartAfterDisk(p) \/ RestartBuild(p) \/ RestartAfterSize(p) \/ CycleAfterSize(p)
    PROVE  TypeOK'
<1> DEFINE v == req[p].v
<1>0. req[p].pc \in {"restart", "boot", "cycle"}
    BY DEF RestartAfterDisk, RestartBuild, RestartAfterSize, CycleAfterSize, At
<1>1. v \in Targets
    BY <1>0, Shapes DEF DiskPc, SizePc
<1>2. \/ RestartVm(v) \/ PowerCycle(v)
      \/ pve' = [pve EXCEPT ![v].on = TRUE] /\ UNCHANGED mishaps
    BY DEF RestartAfterDisk, RestartBuild, RestartAfterSize, CycleAfterSize
<1>3. pve' \in [Targets -> [cfg : Config, on : BOOLEAN]] /\ mishaps' \in 0..MaxMishaps
  <2> HIDE DEF v
  <2> QED
    BY <1>1, <1>2, PowerTyped
<1>4. \/ Become(p, Idle)
      \/ req[p].pc \in DiskPc /\ (Goto(p, "reread") \/ Goto(p, "answer"))
      \/ req[p].pc \in SizePc /\ Goto(p, "keep")
    BY DEF RestartAfterDisk, RestartBuild, RestartAfterSize, CycleAfterSize, At, DiskPc, SizePc
<1>5. req' \in [Threads -> {Idle} \cup DiskRequest \cup SizeRequest]
    BY <1>4, BecomeTyped, GotoTyped DEF DiskPc, SizePc
<1>6. UNCHANGED <<rows, late, last, open, asked, owed, asks, marks>>
    BY DEF RestartAfterDisk, RestartBuild, RestartAfterSize, CycleAfterSize
<1> QED
    BY <1>3, <1>5, <1>6 DEF TypeOK

LEMMA RereadTyped ==
    ASSUME TypeOK, NEW p \in Threads, RereadDisk(p) \/ RereadFails(p)
    PROVE  TypeOK'
<1> DEFINE r == [req[p] EXCEPT !.new = DiskOf(req[p].v)]
<1>1. req[p] \in DiskRequest /\ req[p].pc \in DiskPc /\ Goto(p, "answer")
    BY Shapes DEF RereadDisk, RereadFails, At, DiskPc
<1>2. req[p].v \in Targets /\ DiskOf(req[p].v) \in Disk /\ req[p].new \in Disk
    BY <1>1 DEF DiskRequest, DiskOf, TypeOK, Config
<1>3. req' \in [Threads -> {Idle} \cup DiskRequest \cup SizeRequest]
    BY <1>1, GotoTyped DEF DiskPc
<1>4. CASE RereadDisk(p)
    <2>1. r \in DiskRequest /\ r.v = req[p].v /\ r.new \in Disk
        BY <1>1, <1>2 DEF DiskRequest
    <2>2. WriteDisk(r.v, r) /\ AddRecord(r.v, req[p].new, r.new, 0) /\ Marked(r.v, {"hidden"})
        BY <1>4 DEF RereadDisk
    <2>3. rows' \in [Targets -> Row]
      <3> HIDE DEF r
      <3> QED
        BY <1>2, <2>1, <2>2, WriteTyped
    <2>4. last' \in [Rows -> Record \cup {None}]
      <3> HIDE DEF r
      <3>1. CASE r.v \in Rows
        BY <1>2, <2>1, <2>2, <3>1, RecordTyped
      <3>2. CASE r.v \notin Rows
        BY <2>2, <3>2 DEF TypeOK, AddRecord
      <3> QED
        BY <3>1, <3>2
    <2>5. marks' \in [Targets -> SUBSET Marks]
      <3> HIDE DEF r
      <3>1. {"hidden"} \in SUBSET Marks
        BY DEF Marks
      <3> QED
        BY <1>2, <2>1, <2>2, <3>1, MarkTyped
    <2> QED
        BY <1>3, <1>4, <2>3, <2>4, <2>5 DEF TypeOK, RereadDisk
<1>5. CASE RereadFails(p)
    BY <1>3, <1>5, AsksTyped DEF TypeOK, RereadFails
<1> QED
    BY <1>4, <1>5

LEMMA AnswerTyped == ASSUME TypeOK, NEW p \in Threads, AnswerDisk(p) PROVE TypeOK'
<1> DEFINE r == req[p]
<1>1. r \in DiskRequest /\ r.pc \in DiskPc
    BY Shapes DEF AnswerDisk, At, DiskPc
<1>2. r.v \in Targets /\ r.by \in Steps
    BY <1>1 DEF DiskRequest
<1>3. req' \in [Threads -> {Idle} \cup DiskRequest \cup SizeRequest]
    BY BecomeTyped DEF AnswerDisk
<1>4. open' \in [Targets -> Intent \cup {None}]
    BY <1>1, IntentTyped DEF AnswerDisk, TypeOK
<1>5. owed' \in [Targets -> Disk]
    <2>1. owed \in [Targets -> Disk]
        BY DEF TypeOK
    <2>2. [owed EXCEPT ![r.v] = @ + r.by] \in [Targets -> Disk]
        BY <1>2, <2>1, GrowthTyped
    <2> QED
        BY <2>1, <2>2 DEF AnswerDisk
<1>6. mishaps' \in 0..MaxMishaps
    BY AsksTyped DEF AnswerDisk, TypeOK
<1> QED
    BY <1>3, <1>4, <1>5, <1>6 DEF TypeOK, AnswerDisk

LEMMA TwoMinutesTyped == ASSUME TypeOK, NEW v \in Rows, TwoMinutes(v) PROVE TypeOK'
<1>1. (IF open[v] # None \/ Busy(v) THEN {"aged"} ELSE {}) \in SUBSET Marks
    BY DEF Marks
<1>2. marks' \in [Targets -> SUBSET Marks]
    BY <1>1, MarkTyped DEF TwoMinutes, Targets
<1> QED
    BY <1>2 DEF TypeOK, TwoMinutes

LEMMA AskForTyped ==
    ASSUME TypeOK, NEW p \in Threads, NEW v \in Targets, NEW size \in Sizes,
           NEW restart \in BOOLEAN, AskFor(p, v, size, restart)
    PROVE  TypeOK'
<1> DEFINE r == [pc |-> "digest", v |-> v, size |-> size, restart |-> restart,
                 seen |-> rows[v].size, digest |-> None]
<1>1. rows[v].size \in Sizes \cup {None}
    BY DEF TypeOK, Row
<1>2. r \in SizeRequest
    BY <1>1 DEF SizeRequest
<1>3. req' \in [Threads -> {Idle} \cup DiskRequest \cup SizeRequest]
    BY <1>2, BecomeTyped DEF AskFor
<1>4. marks' \in [Targets -> SUBSET Marks]
    BY OverlapTyped, MarkTyped DEF AskFor
<1>5. asks' \in 0..MaxAsks
    BY AsksTyped DEF AskFor, TypeOK
<1> QED
    BY <1>3, <1>4, <1>5 DEF TypeOK, AskFor

LEMMA DigestTyped == ASSUME TypeOK, NEW p \in Threads, ReadDigest(p) PROVE TypeOK'
<1> DEFINE r == req[p]
           d == pve[r.v].cfg
<1>1. r \in SizeRequest
    BY Shapes DEF ReadDigest, At, SizePc
<1>2. d \in Config
    BY <1>1 DEF SizeRequest, TypeOK
<1>3. [r EXCEPT !.pc = "put", !.digest = d] \in SizeRequest
  <2> HIDE DEF d
  <2> QED
    BY <1>1, <1>2 DEF SizeRequest
<1>4. req' = [req EXCEPT ![p] = [r EXCEPT !.pc = "put", !.digest = d]]
    BY DEF TypeOK, ReadDigest
<1>5. req' \in [Threads -> {Idle} \cup DiskRequest \cup SizeRequest]
    BY <1>3, <1>4 DEF TypeOK
<1> QED
    BY <1>5 DEF TypeOK, ReadDigest

LEMMA PutTyped == ASSUME TypeOK, NEW p \in Threads, PutSize(p) PROVE TypeOK'
<1> DEFINE r == req[p]
<1>1. r \in SizeRequest /\ r.pc \in SizePc
    BY Shapes DEF PutSize, At, SizePc
<1>2. r.v \in Targets /\ r.size \in Sizes
    BY <1>1 DEF SizeRequest
<1>3. [pve EXCEPT ![r.v].cfg.size = r.size] \in [Targets -> [cfg : Config, on : BOOLEAN]]
    <2>1. pve[r.v] \in [cfg : Config, on : BOOLEAN] /\ pve[r.v].cfg \in Config
        BY <1>2 DEF TypeOK
    <2>2. [pve[r.v].cfg EXCEPT !.size = r.size] \in Config
        BY <1>2, <2>1 DEF Config
    <2> QED
        BY <1>2, <2>1, <2>2 DEF TypeOK
<1>4. pve' \in [Targets -> [cfg : Config, on : BOOLEAN]]
    BY <1>3 DEF PutSize, TypeOK
<1>5. Become(p, Idle) \/ Goto(p, "cycle")
    BY DEF PutSize
<1>6. req' \in [Threads -> {Idle} \cup DiskRequest \cup SizeRequest]
    BY <1>1, <1>5, BecomeTyped, GotoTyped DEF SizePc
<1> QED
    BY <1>4, <1>6 DEF TypeOK, PutSize

LEMMA KeepTyped == ASSUME TypeOK, NEW p \in Threads, Keep(p) PROVE TypeOK'
<1> DEFINE r == req[p]
<1>1. r \in SizeRequest /\ r.pc \in SizePc
    BY Shapes DEF Keep, At, SizePc
<1>2. r.v \in Targets /\ r.size \in Sizes /\ rows[r.v] \in Row
    BY <1>1 DEF SizeRequest, TypeOK
<1>3. PICK s \in Sizes \cup {None} : rows' = [rows EXCEPT ![r.v].size = s]
    <2>1. rows[r.v].size \in Sizes \cup {None}
        BY <1>2 DEF Row
    <2>2. CASE r.seen = r.size
        BY <2>1, <2>2 DEF Keep, TypeOK
    <2>3. CASE r.seen # r.size
        BY <1>2, <2>3 DEF Keep, TypeOK
    <2> QED
        BY <2>2, <2>3
<1>4. [rows[r.v] EXCEPT !.size = s] \in Row
    BY <1>2, <1>3 DEF Row
<1>5. rows' \in [Targets -> Row]
    BY <1>2, <1>3, <1>4 DEF TypeOK
<1>6. Become(p, Idle) \/ Goto(p, "boot")
    BY DEF Keep
<1>7. req' \in [Threads -> {Idle} \cup DiskRequest \cup SizeRequest]
    BY <1>1, <1>6, BecomeTyped, GotoTyped DEF SizePc
<1> QED
    BY <1>5, <1>7 DEF TypeOK, Keep

LEMMA CrashTyped == ASSUME TypeOK, NEW p \in Threads, Crash(p) PROVE TypeOK'
<1> DEFINE r == req[p]
<1>1. r.v \in Targets
    BY Shapes DEF Crash
<1>2. req' \in [Threads -> {Idle} \cup DiskRequest \cup SizeRequest]
    BY BecomeTyped DEF Crash
<1>3. open' \in [Targets -> Intent \cup {None}]
    <2>1. CASE r.pc \in DiskPc
        BY <2>1, Shapes, IntentTyped DEF Crash
    <2>2. CASE r.pc \notin DiskPc
        BY <2>2 DEF Crash, TypeOK
    <2> QED
        BY <2>1, <2>2
<1>4. marks' \in [Targets -> SUBSET Marks]
    <2> DEFINE S == IF r.pc \in {"read", "save", "cycle", "keep"} THEN {"cut"} ELSE {}
    <2>1. S \in SUBSET Marks
        BY DEF Marks
    <2>2. Marked(r.v, S)
        BY DEF Crash
    <2> QED
      <3> HIDE DEF S
      <3> QED
        BY <1>1, <2>1, <2>2, MarkTyped
<1>5. mishaps' \in 0..MaxMishaps
    BY AsksTyped DEF Crash, TypeOK
<1> QED
    BY <1>2, <1>3, <1>4, <1>5 DEF TypeOK, Crash

LEMMA StatusTyped ==
    ASSUME TypeOK, NEW v \in Rows, StopVm(v) \/ StartVm(v)
    PROVE  TypeOK'
<1>1. v \in Targets /\ rows[v] \in Row
    BY DEF Targets, TypeOK
<1>2. \A st \in {"running", "stopped"} : [rows[v] EXCEPT !.status = st] \in Row
    BY <1>1 DEF Row
<1>3. PICK st \in {"running", "stopped"} : rows' = [rows EXCEPT ![v].status = st]
    BY DEF StopVm, StartVm
<1>4. rows' \in [Targets -> Row]
    BY <1>1, <1>2, <1>3 DEF TypeOK
<1>5. \/ pve' = [pve EXCEPT ![v].on = TRUE] /\ UNCHANGED mishaps
      \/ pve' = [pve EXCEPT ![v].on = FALSE] /\ UNCHANGED mishaps
    BY DEF StopVm, StartVm
<1>6. pve' \in [Targets -> [cfg : Config, on : BOOLEAN]]
    BY <1>1, <1>5, PowerTyped
<1> QED
    BY <1>4, <1>6 DEF TypeOK, StopVm, StartVm

LEMMA Threaded ==
    ASSUME Next
    PROVE  \/ \E p \in Threads :
                \/ \E v \in Targets, by \in Steps, restart \in BOOLEAN : Ask(p, v, by, restart)
                \/ \E v \in Targets, size \in Sizes, restart \in BOOLEAN :
                      AskFor(p, v, size, restart)
                \/ \E v \in Targets : RepeatDisk(p, v)
                \/ QuotaRefuses(p) \/ AlreadyResized(p) \/ CheckDisk(p)
                \/ GrowDisk(p) \/ GrowFails(p) \/ ReadDisk(p)
                \/ SaveDisk(p) \/ SaveBuildDisk(p)
                \/ RestartAfterDisk(p) \/ RestartBuild(p)
                \/ RereadDisk(p) \/ RereadFails(p) \/ AnswerDisk(p)
                \/ ReadDigest(p) \/ PutSize(p) \/ CycleAfterSize(p) \/ Keep(p)
                \/ RestartAfterSize(p) \/ Crash(p)
           \/ \E v \in Targets : Land(v)
           \/ \E v \in Rows : TwoMinutes(v) \/ StopVm(v) \/ StartVm(v)
BY DEF Next, AskDisk, AskBuildDisk, AskSize, AskBuildSize, SaveSize, SaveBuildSize

LEMMA TypeStep == TypeOK /\ AskedInv /\ [Next]_vars => TypeOK'
<1> SUFFICES ASSUME TypeOK, AskedInv, [Next]_vars PROVE TypeOK'
    OBVIOUS
<1>1. CASE UNCHANGED vars
    BY <1>1 DEF vars, TypeOK
<1>2. CASE Next
    BY <1>2, Threaded, AskTyped, AskForTyped, RepeatTyped, CheckTyped, GrowTyped, ReadTyped,
       SaveTyped, RestartTyped, RereadTyped, AnswerTyped, DigestTyped, PutTyped, KeepTyped,
       CrashTyped, LandTyped, TwoMinutesTyped, StatusTyped
<1> QED
    BY <1>1, <1>2

-----------------------------------------------------------------------------
(* What a step does.                                                       *)

\* Nothing changes but the threads in P and the VM v, and no mark is lost.
Frame(P, v) ==
    /\ \A w \in Targets \ {v} :
          /\ rows'[w] = rows[w] /\ pve'[w] = pve[w] /\ late'[w] = late[w]
          /\ open'[w] = open[w] /\ asked'[w] = asked[w] /\ owed'[w] = owed[w]
          /\ marks'[w] = marks[w]
    /\ \A w \in Rows \ {v} : last'[w] = last[w]
    /\ \A q \in Threads \ P : req'[q] = req[q]
    /\ v \in Targets /\ marks[v] \subseteq marks'[v]

\* A thread stays with its VM, and goes from one point to another.
With(p, v) ==
    /\ req[p] = Idle \/ req[p].v = v
    /\ req'[p] = Idle \/ req'[p].v = v
Goes(p, pcs) ==
    /\ req'[p] # Idle /\ req'[p].pc \in pcs /\ req'[p].v = req[p].v
    /\ req'[p].by = req[p].by /\ req'[p].again = req[p].again

SameSize(v) == rows'[v].size = rows[v].size /\ pve'[v].cfg.size = pve[v].cfg.size
SameDisk(v) == rows'[v].disk = rows[v].disk /\ pve'[v].cfg.disk = pve[v].cfg.disk /\ late' = late
SameBooks == UNCHANGED <<last, open, asked, owed>>
Began(p, v, by, again) ==
    LET r == req'[p] IN
    /\ r # Idle /\ r.v = v /\ r.by = by /\ r.again = again
    /\ r.pc = IF v \in Rows THEN "check" ELSE "grow"
    /\ r.seen = rows[v].disk /\ r.prev = DiskOf(v)

LEMMA AskFacts ==
    ASSUME TypeOK, NEW p \in Threads, NEW v \in Targets, NEW by \in Steps,
           NEW restart \in BOOLEAN, Ask(p, v, by, restart)
    PROVE  /\ Frame({p}, v) /\ With(p, v) /\ req[p] = Idle
           /\ Began(p, v, by, FALSE)
           /\ UNCHANGED <<rows, pve, late, last, open, owed>>
           /\ asked'[v] = asked[v] + by
           /\ Busy(v) => "overlap" \in marks'[v]
           /\ open[v] # None => "passed" \in marks'[v]
           /\ Again(v, by) => "twice" \in marks'[v]
<1>1. req'[p] = DiskAsk(v, [by |-> by, restart |-> restart], FALSE)
    BY DEF Ask, Become, TypeOK
<1>2. Began(p, v, by, FALSE) /\ req[p] = Idle
    BY <1>1 DEF Began, DiskAsk, Idle, Ask
<1>3. asked'[v] = asked[v] + by /\ \A w \in Targets \ {v} : asked'[w] = asked[w]
    BY DEF Ask, TypeOK
<1>4. /\ marks'[v] = marks[v] \cup (Overlap(v) \cup (IF open[v] # None THEN {"passed"} ELSE {})
                            \cup (IF Again(v, by) THEN {"twice"} ELSE {}))
      /\ \A w \in Targets \ {v} : marks'[w] = marks[w]
    BY DEF Ask, Marked, TypeOK
<1>5. UNCHANGED <<rows, pve, late, last, open, owed>>
    BY DEF Ask
<1>6. \A q \in Threads \ {p} : req'[q] = req[q]
    BY DEF Ask, Become, TypeOK
<1>7. Frame({p}, v) /\ With(p, v)
    BY <1>2, <1>3, <1>4, <1>5, <1>6 DEF Frame, With, Began
<1>8. /\ Busy(v) => "overlap" \in marks'[v]
      /\ open[v] # None => "passed" \in marks'[v]
      /\ Again(v, by) => "twice" \in marks'[v]
    BY <1>4 DEF Overlap
<1> QED
    BY <1>2, <1>3, <1>5, <1>7, <1>8

LEMMA RepeatFacts ==
    ASSUME TypeOK, NEW p \in Threads, NEW v \in Targets, RepeatDisk(p, v)
    PROVE  /\ Frame({p}, v) /\ With(p, v) /\ req[p] = Idle /\ open[v] # None
           /\ Began(p, v, open[v].by, TRUE)
           /\ UNCHANGED <<rows, pve, late, last, asked, owed>>
           /\ open'[v] = None
           /\ Busy(v) => "overlap" \in marks'[v]
<1>1. req'[p] = DiskAsk(v, open[v], TRUE)
    BY DEF RepeatDisk, Become, TypeOK
<1>2. Began(p, v, open[v].by, TRUE) /\ req[p] = Idle /\ open[v] # None
    BY <1>1 DEF Began, DiskAsk, Idle, RepeatDisk
<1>3. open'[v] = None /\ \A w \in Targets \ {v} : open'[w] = open[w]
    BY DEF RepeatDisk, TypeOK
<1>4. /\ marks'[v] = marks[v] \cup Overlap(v)
      /\ \A w \in Targets \ {v} : marks'[w] = marks[w]
    BY DEF RepeatDisk, Marked, TypeOK
<1>5. UNCHANGED <<rows, pve, late, last, asked, owed>>
    BY DEF RepeatDisk
<1>6. \A q \in Threads \ {p} : req'[q] = req[q]
    BY DEF RepeatDisk, Become, TypeOK
<1>7. Frame({p}, v) /\ With(p, v)
    BY <1>2, <1>3, <1>4, <1>5, <1>6 DEF Frame, With, Began
<1>8. Busy(v) => "overlap" \in marks'[v]
    BY <1>4 DEF Overlap
<1> QED
    BY <1>2, <1>3, <1>5, <1>7, <1>8

\* What the other facts have in common.
LEMMA MarkFrame ==
    ASSUME TypeOK, NEW v \in Targets, NEW S, Marked(v, S) \/ marks' = marks
    PROVE  /\ \A w \in Targets \ {v} : marks'[w] = marks[w]
           /\ marks[v] \subseteq marks'[v] /\ (Marked(v, S) => S \subseteq marks'[v])
BY DEF Marked, TypeOK

LEMMA BecomeFrame ==
    ASSUME TypeOK, NEW p \in Threads, NEW r, Become(p, r)
    PROVE  req'[p] = r /\ \A q \in Threads \ {p} : req'[q] = req[q]
BY DEF Become, TypeOK

LEMMA GotoFrame ==
    ASSUME TypeOK, NEW p \in Threads, NEW pc \in DiskPc, Goto(p, pc), req[p].pc \in DiskPc
    PROVE  /\ Goes(p, {pc}) /\ With(p, req[p].v)
           /\ req'[p].seen = req[p].seen /\ req'[p].prev = req[p].prev
           /\ req'[p].new = req[p].new
           /\ \A q \in Threads \ {p} : req'[q] = req[q]
<1>1. req'[p] = [req[p] EXCEPT !.pc = pc] /\ \A q \in Threads \ {p} : req'[q] = req[q]
    BY DEF Goto, TypeOK
<1>2. req[p] \in DiskRequest
    BY Shapes
<1>3. /\ req'[p].pc = pc /\ req'[p].v = req[p].v /\ req'[p].by = req[p].by
      /\ req'[p].again = req[p].again /\ req'[p].seen = req[p].seen
      /\ req'[p].prev = req[p].prev /\ req'[p].new = req[p].new
    BY <1>1, <1>2 DEF DiskRequest
<1>4. req'[p] # Idle
    BY <1>3 DEF Idle, DiskPc
<1> QED
    BY <1>1, <1>3, <1>4 DEF Goes, With

LEMMA RefuseFacts ==
    ASSUME TypeOK, NEW p \in Threads, QuotaRefuses(p)
    PROVE  LET r == req[p] IN
           /\ Frame({p}, r.v) /\ With(p, r.v) /\ r \in DiskRequest /\ r.pc = "check"
           /\ req'[p] = Idle
           /\ UNCHANGED <<rows, pve, late, last, open, owed>>
           /\ asked'[r.v] = asked[r.v] - r.by
           /\ r.again => "refused" \in marks'[r.v]
<1> DEFINE r == req[p]
<1>1. r \in DiskRequest /\ r.v \in Targets /\ r.pc = "check"
    BY Shapes DEF QuotaRefuses, At, DiskPc, DiskRequest
<1>2. req'[p] = Idle /\ \A q \in Threads \ {p} : req'[q] = req[q]
    BY BecomeFrame DEF QuotaRefuses
<1>3. asked'[r.v] = asked[r.v] - r.by /\ \A w \in Targets \ {r.v} : asked'[w] = asked[w]
    BY <1>1 DEF QuotaRefuses, TypeOK
<1>4. Marked(r.v, IF r.again THEN {"refused"} ELSE {})
    BY DEF QuotaRefuses
<1>5. /\ \A w \in Targets \ {r.v} : marks'[w] = marks[w]
      /\ marks[r.v] \subseteq marks'[r.v] /\ (r.again => "refused" \in marks'[r.v])
    BY <1>1, <1>4, MarkFrame
<1>6. UNCHANGED <<rows, pve, late, last, open, owed>>
    BY DEF QuotaRefuses
<1> QED
    BY <1>1, <1>2, <1>3, <1>5, <1>6 DEF Frame, With

LEMMA AlreadyFacts ==
    ASSUME TypeOK, NEW p \in Threads, AlreadyResized(p)
    PROVE  LET r == req[p] IN
           /\ Frame({p}, r.v) /\ With(p, r.v) /\ r \in DiskRequest /\ r.pc = "check"
           /\ Goes(p, {"answer"}) /\ DoneBefore(r.v, r.by)
           /\ UNCHANGED <<rows, pve, late, last, open, asked, owed>>
           /\ \/ "twice" \in marks'[r.v] \/ "mistaken" \in marks'[r.v]
              \/ r.again /\ last[r.v].by = r.by
<1> DEFINE r == req[p]
           S == IF ~r.again THEN {"twice"} ELSE IF last[r.v].by # r.by THEN {"mistaken"} ELSE {}
<1>1. r \in DiskRequest /\ r.v \in Targets /\ r.pc = "check" /\ r.pc \in DiskPc
    BY Shapes DEF AlreadyResized, At, DiskPc, DiskRequest
<1>2. /\ Goes(p, {"answer"}) /\ With(p, r.v)
      /\ \A q \in Threads \ {p} : req'[q] = req[q]
    BY <1>1, GotoFrame DEF AlreadyResized, DiskPc
<1>3. Marked(r.v, S)
    BY DEF AlreadyResized
<1>4. /\ \A w \in Targets \ {r.v} : marks'[w] = marks[w]
      /\ marks[r.v] \subseteq marks'[r.v] /\ S \subseteq marks'[r.v]
  <2> HIDE DEF S
  <2> QED
    BY <1>1, <1>3, MarkFrame
<1>5. \/ "twice" \in marks'[r.v] \/ "mistaken" \in marks'[r.v]
      \/ r.again /\ last[r.v].by = r.by
    BY <1>4
<1>6. UNCHANGED <<rows, pve, late, last, open, asked, owed>> /\ DoneBefore(r.v, r.by)
    BY DEF AlreadyResized
<1> QED
    BY <1>1, <1>2, <1>4, <1>5, <1>6 DEF Frame

LEMMA CheckFacts ==
    ASSUME TypeOK, NEW p \in Threads, CheckDisk(p)
    PROVE  LET r == req[p] IN
           /\ Frame({p}, r.v) /\ With(p, r.v) /\ r \in DiskRequest /\ r.pc = "check"
           /\ Goes(p, {"grow"}) /\ ~DoneBefore(r.v, r.by) /\ WithinQuota(r.by)
           /\ req'[p].seen = r.seen /\ req'[p].prev = r.prev
           /\ UNCHANGED <<rows, pve, late, last, open, asked, owed>>
           /\ (\E q \in Threads : Growing(q)) => "rush" \in marks'[r.v]
<1> DEFINE r == req[p]
           S == IF \E q \in Threads : Growing(q) THEN {"rush"} ELSE {}
<1>1. r \in DiskRequest /\ r.v \in Targets /\ r.pc = "check" /\ r.pc \in DiskPc
    BY Shapes DEF CheckDisk, At, DiskPc, DiskRequest
<1>2. /\ Goes(p, {"grow"}) /\ With(p, r.v)
      /\ req'[p].seen = r.seen /\ req'[p].prev = r.prev
      /\ \A q \in Threads \ {p} : req'[q] = req[q]
    BY <1>1, GotoFrame DEF CheckDisk, DiskPc
<1>3. Marked(r.v, S)
    BY DEF CheckDisk
<1>4. /\ \A w \in Targets \ {r.v} : marks'[w] = marks[w]
      /\ marks[r.v] \subseteq marks'[r.v] /\ S \subseteq marks'[r.v]
  <2> HIDE DEF S
  <2> QED
    BY <1>1, <1>3, MarkFrame
<1>5. (\E q \in Threads : Growing(q)) => "rush" \in marks'[r.v]
    BY <1>4
<1>6. /\ UNCHANGED <<rows, pve, late, last, open, asked, owed>>
      /\ ~DoneBefore(r.v, r.by) /\ WithinQuota(r.by)
    BY DEF CheckDisk
<1> QED
    BY <1>1, <1>2, <1>4, <1>5, <1>6 DEF Frame

LEMMA PveGrows ==
    ASSUME TypeOK, NEW v \in Targets, NEW d \in Nat,
           pve' = [pve EXCEPT ![v].cfg.disk = @ + d]
    PROVE  /\ pve'[v].cfg.disk = DiskOf(v) + d /\ pve'[v].cfg.size = pve[v].cfg.size
           /\ \A w \in Targets \ {v} : pve'[w] = pve[w]
<1>1. pve[v] \in [cfg : Config, on : BOOLEAN] /\ pve[v].cfg \in Config
    BY DEF TypeOK
<1>2. pve'[v] = [pve[v] EXCEPT !.cfg.disk = @ + d] /\ \A w \in Targets \ {v} : pve'[w] = pve[w]
    BY DEF TypeOK
<1>3. pve'[v].cfg = [pve[v].cfg EXCEPT !.disk = @ + d]
    BY <1>1, <1>2
<1> QED
    BY <1>1, <1>2, <1>3 DEF Config, DiskOf

LEMMA GrowFacts ==
    ASSUME TypeOK, NEW p \in Threads, GrowDisk(p)
    PROVE  LET r == req[p] IN
           /\ Frame({p}, r.v) /\ With(p, r.v) /\ r \in DiskRequest /\ r.pc = "grow"
           /\ Goes(p, {"read"}) /\ req'[p].seen = r.seen /\ req'[p].prev = r.prev
           /\ UNCHANGED <<rows, last, open, asked, owed>>
           /\ pve'[r.v].cfg.size = pve[r.v].cfg.size
           /\ \/ pve'[r.v].cfg.disk = DiskOf(r.v) + r.by /\ late' = late
              \/ /\ pve' = pve /\ late'[r.v] = late[r.v] + r.by
                 /\ "late" \in marks'[r.v]
<1> DEFINE r == req[p]
<1>1. r \in DiskRequest /\ r.v \in Targets /\ r.pc = "grow" /\ r.pc \in DiskPc
    BY Shapes DEF GrowDisk, At, DiskPc, DiskRequest
<1>2. /\ Goes(p, {"read"}) /\ With(p, r.v)
      /\ req'[p].seen = r.seen /\ req'[p].prev = r.prev
      /\ \A q \in Threads \ {p} : req'[q] = req[q]
    BY <1>1, GotoFrame DEF GrowDisk, DiskPc
<1>3. r.by \in Nat
    BY <1>1, Amounts DEF DiskRequest
<1>4. UNCHANGED <<rows, last, open, asked, owed>>
    BY DEF GrowDisk
<1>5. CASE pve' = [pve EXCEPT ![r.v].cfg.disk = @ + r.by] /\ late' = late /\ marks' = marks
    <2>1. /\ pve'[r.v].cfg.disk = DiskOf(r.v) + r.by
          /\ pve'[r.v].cfg.size = pve[r.v].cfg.size
          /\ \A w \in Targets \ {r.v} : pve'[w] = pve[w]
      <3> DEFINE v == r.v
                 d == r.by
      <3>1. v \in Targets /\ d \in Nat /\ pve' = [pve EXCEPT ![v].cfg.disk = @ + d]
        BY <1>1, <1>3, <1>5
      <3> HIDE DEF v, d
      <3>2. /\ pve'[v].cfg.disk = DiskOf(v) + d /\ pve'[v].cfg.size = pve[v].cfg.size
            /\ \A w \in Targets \ {v} : pve'[w] = pve[w]
        BY <3>1, PveGrows
      <3> QED
        BY <3>2 DEF v, d
    <2> QED
        BY <1>1, <1>2, <1>4, <1>5, <2>1 DEF Frame
<1>6. CASE pve' = pve /\ late' = [late EXCEPT ![r.v] = @ + r.by] /\ Marked(r.v, {"late"})
    <2>1. late'[r.v] = late[r.v] + r.by /\ \A w \in Targets \ {r.v} : late'[w] = late[w]
        BY <1>1, <1>6 DEF TypeOK
    <2>2. /\ \A w \in Targets \ {r.v} : marks'[w] = marks[w]
          /\ marks[r.v] \subseteq marks'[r.v] /\ "late" \in marks'[r.v]
        BY <1>1, <1>6, MarkFrame
    <2> QED
        BY <1>1, <1>2, <1>4, <1>6, <2>1, <2>2 DEF Frame
<1>7. \/ pve' = [pve EXCEPT ![r.v].cfg.disk = @ + r.by] /\ late' = late /\ marks' = marks
      \/ pve' = pve /\ late' = [late EXCEPT ![r.v] = @ + r.by] /\ Marked(r.v, {"late"})
    BY DEF GrowDisk
<1> QED
    BY <1>5, <1>6, <1>7

LEMMA NoneApart == None \notin Intent /\ None \notin Record /\ None \notin Disk
<1>1. Intent \subseteq [by : Nat, restart : BOOLEAN]
    BY Amounts DEF Intent
<1>2. Record \subseteq [prev : Nat, new : Nat, by : Nat]
    <2>1. Steps \cup {0} \subseteq Nat
        BY Amounts
    <2> QED
        BY <2>1 DEF Record, Disk
<1> QED
    BY <1>1, <1>2, SizesAssumption DEF Disk

LEMMA OpenFrame ==
    ASSUME TypeOK, NEW r \in DiskRequest,
           open' = [open EXCEPT ![r.v] = [by |-> r.by, restart |-> r.restart]]
    PROVE  /\ open'[r.v] # None /\ open'[r.v].by = r.by
           /\ \A w \in Targets \ {r.v} : open'[w] = open[w]
<1>1. r.v \in Targets /\ open'[r.v] = [by |-> r.by, restart |-> r.restart]
    BY DEF TypeOK, DiskRequest
<1>2. ASSUME open'[r.v] = None PROVE FALSE
    <2>1. None \in Intent
        BY <1>1, <1>2, IntentTyped
    <2> QED
        BY <2>1, NoneApart
<1> QED
    BY <1>1, <1>2 DEF TypeOK

LEMMA FailFacts ==
    ASSUME TypeOK, NEW p \in Threads, GrowFails(p)
    PROVE  LET r == req[p] IN
           /\ Frame({p}, r.v) /\ With(p, r.v) /\ r \in DiskRequest /\ r.pc = "grow"
           /\ req'[p] = Idle
           /\ open'[r.v] # None /\ open'[r.v].by = r.by
           /\ UNCHANGED <<rows, late, last, asked, owed>>
           /\ pve'[r.v].cfg.size = pve[r.v].cfg.size
           /\ \/ pve' = pve
              \/ pve'[r.v].cfg.disk = DiskOf(r.v) + r.by /\ "cut" \in marks'[r.v]
<1> DEFINE r == req[p]
<1>1. r \in DiskRequest /\ r.v \in Targets /\ r.pc = "grow"
    BY Shapes DEF GrowFails, At, DiskPc, DiskRequest
<1>2. req'[p] = Idle /\ \A q \in Threads \ {p} : req'[q] = req[q]
    BY BecomeFrame DEF GrowFails
<1>3. /\ open'[r.v] # None /\ open'[r.v].by = r.by
      /\ \A w \in Targets \ {r.v} : open'[w] = open[w]
    BY <1>1, OpenFrame DEF GrowFails
<1>4. UNCHANGED <<rows, late, last, asked, owed>>
    BY DEF GrowFails
<1>5. CASE pve' = pve /\ marks' = marks
    BY <1>1, <1>2, <1>3, <1>4, <1>5 DEF Frame, With
<1>6. CASE pve' = [pve EXCEPT ![r.v].cfg.disk = @ + r.by] /\ Marked(r.v, {"cut"})
    <2> DEFINE v == r.v
               d == r.by
    <2>1. v \in Targets /\ d \in Nat /\ pve' = [pve EXCEPT ![v].cfg.disk = @ + d]
        BY <1>1, <1>6, Amounts DEF DiskRequest
    <2>2. Marked(v, {"cut"})
        BY <1>6
    <2> HIDE DEF v, d
    <2>3. /\ pve'[v].cfg.disk = DiskOf(v) + d /\ pve'[v].cfg.size = pve[v].cfg.size
          /\ \A w \in Targets \ {v} : pve'[w] = pve[w]
        BY <2>1, PveGrows
    <2>4. /\ \A w \in Targets \ {v} : marks'[w] = marks[w]
          /\ marks[v] \subseteq marks'[v] /\ "cut" \in marks'[v]
        BY <2>1, <2>2, MarkFrame
    <2> USE DEF v, d
    <2> QED
        BY <1>1, <1>2, <1>3, <1>4, <2>3, <2>4 DEF Frame, With
<1>7. \/ pve' = pve /\ marks' = marks
      \/ pve' = [pve EXCEPT ![r.v].cfg.disk = @ + r.by] /\ Marked(r.v, {"cut"})
    BY DEF GrowFails
<1> QED
    BY <1>5, <1>6, <1>7

LEMMA LandFacts ==
    ASSUME TypeOK, NEW v \in Targets, Land(v)
    PROVE  /\ Frame({}, v) /\ req' = req
           /\ UNCHANGED <<rows, last, open, asked, owed>>
           /\ pve'[v].cfg.size = pve[v].cfg.size
           /\ late[v] > 0 /\ late'[v] = 0
           /\ pve'[v].cfg.disk = DiskOf(v) + late[v]
<1>1. late[v] \in Nat
    BY DEF TypeOK, Disk
<1>2. /\ pve'[v].cfg.disk = DiskOf(v) + late[v] /\ pve'[v].cfg.size = pve[v].cfg.size
      /\ \A w \in Targets \ {v} : pve'[w] = pve[w]
    BY <1>1, PveGrows DEF Land
<1>3. late'[v] = 0 /\ \A w \in Targets \ {v} : late'[w] = late[w]
    BY DEF Land, TypeOK
<1>4. UNCHANGED <<rows, last, req, open, asked, owed, marks>> /\ late[v] > 0
    BY DEF Land
<1> QED
    BY <1>2, <1>3, <1>4 DEF Frame

LEMMA ReadFacts ==
    ASSUME TypeOK, NEW p \in Threads, ReadDisk(p)
    PROVE  LET r == req[p] IN
           /\ Frame({p}, r.v) /\ With(p, r.v) /\ r \in DiskRequest /\ r.pc = "read"
           /\ Goes(p, {"save"}) /\ req'[p].seen = r.seen /\ req'[p].prev = r.prev
           /\ \/ req'[p].new = DiskOf(r.v)
              \/ req'[p].new = r.prev + r.by /\ "guessed" \in marks'[r.v]
           /\ UNCHANGED <<rows, pve, late, last, open, asked, owed>>
<1> DEFINE r == req[p]
<1>1. r \in DiskRequest /\ r.v \in Targets /\ r.pc = "read"
    BY Shapes DEF ReadDisk, At, DiskPc, DiskRequest
<1>2. PICK d : /\ req' = [req EXCEPT ![p].pc = "save", ![p].new = d]
               /\ \/ d = DiskOf(r.v) /\ marks' = marks
                  \/ d = r.prev + r.by /\ Marked(r.v, {"guessed"})
    BY DEF ReadDisk
<1>3. /\ req'[p] = [r EXCEPT !.pc = "save", !.new = d]
      /\ \A q \in Threads \ {p} : req'[q] = req[q]
    BY <1>2 DEF TypeOK
<1>4. /\ req'[p].pc = "save" /\ req'[p].v = r.v /\ req'[p].by = r.by
      /\ req'[p].again = r.again /\ req'[p].seen = r.seen
      /\ req'[p].prev = r.prev /\ req'[p].new = d
    BY <1>1, <1>3 DEF DiskRequest
<1>5. req'[p] # Idle
    BY <1>4 DEF Idle
<1>6. /\ \A w \in Targets \ {r.v} : marks'[w] = marks[w]
      /\ marks[r.v] \subseteq marks'[r.v]
      /\ d = DiskOf(r.v) \/ (d = r.prev + r.by /\ "guessed" \in marks'[r.v])
    BY <1>1, <1>2, MarkFrame
<1>7. UNCHANGED <<rows, pve, late, last, open, asked, owed>>
    BY DEF ReadDisk
<1> QED
    BY <1>1, <1>3, <1>4, <1>5, <1>6, <1>7 DEF Frame, With, Goes

\* The newest record is the request's own, or requests have overlapped.
Recorded(v, prev, new, by) ==
    \/ /\ last'[v] # None /\ last'[v].prev = prev /\ last'[v].new = new
       /\ last'[v].by = by
    \/ last'[v] = last[v] /\ "overlap" \in marks[v]

LEMMA WriteFacts ==
    ASSUME TypeOK, NEW v \in Targets, NEW r, WriteDisk(v, r)
    PROVE  /\ rows'[v].disk = IF r.seen = r.new THEN rows[v].disk ELSE r.new
           /\ rows'[v].size = rows[v].size
           /\ \A w \in Targets \ {v} : rows'[w] = rows[w]
<1>1. rows[v] \in Row
    BY DEF TypeOK
<1>2. /\ rows'[v] = [rows[v] EXCEPT !.disk = IF r.seen = r.new THEN @ ELSE r.new]
      /\ \A w \in Targets \ {v} : rows'[w] = rows[w]
    BY DEF WriteDisk, TypeOK
<1> QED
    BY <1>1, <1>2 DEF Row

LEMMA RecordFacts ==
    ASSUME TypeOK, NEW v \in Rows, NEW prev \in Disk, NEW new \in Disk,
           NEW by \in Steps \cup {0}, AddRecord(v, prev, new, by)
    PROVE  /\ Recorded(v, prev, new, by)
           /\ \A w \in Rows \ {v} : last'[w] = last[w]
<1>1. CASE last' = [last EXCEPT ![v] = [prev |-> prev, new |-> new, by |-> by]]
    <2>1. last'[v] = [prev |-> prev, new |-> new, by |-> by]
        BY <1>1 DEF TypeOK
    <2>2. last'[v] \in Record
        BY <2>1 DEF Record
    <2> QED
        BY <1>1, <2>1, <2>2, NoneApart DEF Recorded, TypeOK
<1>2. CASE "overlap" \in marks[v] /\ last' = last
    BY <1>2 DEF Recorded
<1> QED
    BY <1>1, <1>2 DEF AddRecord

LEMMA SaveFacts ==
    ASSUME TypeOK, NEW p \in Threads, SaveDisk(p) \/ SaveBuildDisk(p)
    PROVE  LET r == req[p] IN
           /\ Frame({p}, r.v) /\ With(p, r.v) /\ r \in DiskRequest /\ r.pc = "save"
           /\ Goes(p, {"restart", "answer"}) /\ req'[p].seen = r.new
           /\ rows'[r.v].disk = IF r.seen = r.new THEN rows[r.v].disk ELSE r.new
           /\ rows'[r.v].size = rows[r.v].size
           /\ r.v \in Rows => Recorded(r.v, r.prev, r.new, r.by)
           /\ r.v \notin Rows => last' = last
           /\ UNCHANGED <<pve, late, open, asked, owed, marks>>
<1> DEFINE r == req[p]
<1>0. Save(p) /\ (SaveDisk(p) \/ (r.v \in Builds /\ last' = last))
    BY DEF SaveDisk, SaveBuildDisk
<1>1. r \in DiskRequest /\ r.v \in Targets /\ r.pc = "save"
    BY <1>0, Shapes DEF Save, At, DiskPc, DiskRequest
<1>2. PICK pc \in {"restart", "answer"} : req' = [req EXCEPT ![p].pc = pc, ![p].seen = r.new]
    BY <1>0 DEF Save
<1>3. /\ req'[p] = [r EXCEPT !.pc = pc, !.seen = r.new]
      /\ \A q \in Threads \ {p} : req'[q] = req[q]
    BY <1>2 DEF TypeOK
<1>4. /\ req'[p].pc = pc /\ req'[p].v = r.v /\ req'[p].by = r.by
      /\ req'[p].again = r.again /\ req'[p].seen = r.new
    BY <1>1, <1>3 DEF DiskRequest
<1>5. req'[p] # Idle
    <2>1. pc # "idle"
        BY <1>2
    <2> QED
        BY <1>4, <2>1 DEF Idle
<1>6. WriteDisk(r.v, r) /\ UNCHANGED <<pve, late, open, asked, owed, marks>>
    BY <1>0 DEF Save
<1>7. /\ rows'[r.v].disk = IF r.seen = r.new THEN rows[r.v].disk ELSE r.new
      /\ rows'[r.v].size = rows[r.v].size
      /\ \A w \in Targets \ {r.v} : rows'[w] = rows[w]
    BY <1>1, <1>6, WriteFacts
<1>8. /\ r.v \in Rows => Recorded(r.v, r.prev, r.new, r.by)
      /\ r.v \notin Rows => last' = last
      /\ \A w \in Rows \ {r.v} : last'[w] = last[w]
    <2>1. CASE SaveDisk(p)
        <3>1. r.v \in Rows /\ AddRecord(r.v, r.prev, r.new, r.by)
            BY <2>1 DEF SaveDisk
        <3>2. r.prev \in Disk /\ r.new \in Disk /\ r.by \in Steps \cup {0}
            BY <1>1 DEF DiskRequest
        <3> QED
            BY <3>1, <3>2, RecordFacts
    <2>2. CASE r.v \in Builds /\ last' = last
        BY <2>2, SizesAssumption
    <2> QED
        BY <1>0, <2>1, <2>2
<1> QED
    BY <1>1, <1>3, <1>4, <1>5, <1>2, <1>6, <1>7, <1>8 DEF Frame, With, Goes

LEMMA PowerFrame ==
    ASSUME TypeOK, NEW v \in Targets,
           \/ RestartVm(v) \/ PowerCycle(v)
           \/ pve' = [pve EXCEPT ![v].on = TRUE]
           \/ pve' = [pve EXCEPT ![v].on = FALSE]
    PROVE  /\ pve'[v].cfg = pve[v].cfg
           /\ \A w \in Targets \ {v} : pve'[w] = pve[w]
<1>1. pve' = pve \/ \E on \in BOOLEAN : pve' = [pve EXCEPT ![v].on = on]
    BY DEF RestartVm, PowerCycle
<1>2. pve[v] \in [cfg : Config, on : BOOLEAN]
    BY DEF TypeOK
<1> QED
    BY <1>1, <1>2 DEF TypeOK

LEMMA RestartFacts ==
    ASSUME TypeOK, NEW p \in Threads,
           RestartAfterDisk(p) \/ (RestartBuild(p) /\ req[p].pc = "restart")
    PROVE  LET r == req[p] IN
           /\ Frame({p}, r.v) /\ With(p, r.v) /\ r \in DiskRequest /\ r.pc = "restart"
           /\ Goes(p, IF r.v \in Rows THEN {"reread", "answer"} ELSE {"answer"})
           /\ req'[p].seen = r.seen
           /\ pve'[r.v].cfg = pve[r.v].cfg
           /\ UNCHANGED <<rows, late, last, open, asked, owed, marks>>
<1> DEFINE r == req[p]
<1>1. r.pc = "restart" /\ r.pc \in DiskPc
    BY DEF RestartAfterDisk, At, DiskPc
<1>2. r \in DiskRequest /\ r.v \in Targets
    BY <1>1, Shapes DEF DiskRequest
<1>3. /\ RestartVm(r.v) \/ PowerCycle(r.v)
      /\ UNCHANGED <<rows, late, last, open, asked, owed, marks>>
    BY DEF RestartAfterDisk, RestartBuild
<1>4. /\ pve'[r.v].cfg = pve[r.v].cfg
      /\ \A w \in Targets \ {r.v} : pve'[w] = pve[w]
    BY <1>2, <1>3, PowerFrame
<1>5. \/ r.v \in Rows /\ \E pc \in {"reread", "answer"} : Goto(p, pc)
      \/ r.v \notin Rows /\ Goto(p, "answer")
    BY <1>1, SizesAssumption DEF RestartAfterDisk, RestartBuild, At
<1>6. /\ Goes(p, IF r.v \in Rows THEN {"reread", "answer"} ELSE {"answer"})
      /\ With(p, r.v) /\ req'[p].seen = r.seen
      /\ \A q \in Threads \ {p} : req'[q] = req[q]
    <2>1. PICK pc \in {"reread", "answer"} : Goto(p, pc) /\ (r.v \notin Rows => pc = "answer")
        BY <1>5
    <2>2. pc \in DiskPc
        BY <2>1 DEF DiskPc
    <2>3. /\ Goes(p, {pc}) /\ With(p, r.v) /\ req'[p].seen = r.seen
          /\ \A q \in Threads \ {p} : req'[q] = req[q]
        BY <1>1, <2>1, <2>2, GotoFrame
    <2> QED
        BY <2>1, <2>3 DEF Goes
<1> QED
    BY <1>1, <1>2, <1>3, <1>4, <1>6 DEF Frame

LEMMA RereadFacts ==
    ASSUME TypeOK, NEW p \in Threads, RereadDisk(p), req[p].v \in Rows
    PROVE  LET r == req[p] IN
           /\ Frame({p}, r.v) /\ With(p, r.v) /\ r \in DiskRequest /\ r.pc = "reread"
           /\ Goes(p, {"answer"})
           /\ rows'[r.v].disk = IF r.seen = DiskOf(r.v) THEN rows[r.v].disk ELSE DiskOf(r.v)
           /\ rows'[r.v].size = rows[r.v].size
           /\ Recorded(r.v, r.new, DiskOf(r.v), 0)
           /\ "hidden" \in marks'[r.v]
           /\ UNCHANGED <<pve, late, open, asked, owed>>
<1> DEFINE r == req[p]
           v == r.v
           u == [r EXCEPT !.new = DiskOf(v)]
<1>1. r \in DiskRequest /\ v \in Targets /\ r.pc = "reread" /\ r.pc \in DiskPc
    BY Shapes DEF RereadDisk, At, DiskPc, DiskRequest
<1>2. u.v = v /\ u.new = DiskOf(v) /\ u.seen = r.seen /\ DiskOf(v) \in Disk /\ r.new \in Disk
    BY <1>1 DEF DiskRequest, DiskOf, TypeOK, Config
<1>3. WriteDisk(v, u) /\ AddRecord(v, r.new, DiskOf(v), 0) /\ Marked(v, {"hidden"})
    BY <1>2 DEF RereadDisk
<1>4. /\ rows'[v].disk = IF u.seen = u.new THEN rows[v].disk ELSE u.new
      /\ rows'[v].size = rows[v].size
      /\ \A w \in Targets \ {v} : rows'[w] = rows[w]
  <2> HIDE DEF u
  <2> QED
    BY <1>1, <1>3, WriteFacts
<1>5. Recorded(v, r.new, DiskOf(v), 0) /\ \A w \in Rows \ {v} : last'[w] = last[w]
    BY <1>2, <1>3, RecordFacts
<1>6. /\ \A w \in Targets \ {v} : marks'[w] = marks[w]
      /\ marks[v] \subseteq marks'[v] /\ "hidden" \in marks'[v]
    BY <1>1, <1>3, MarkFrame
<1>7. Goes(p, {"answer"}) /\ With(p, v) /\ \A q \in Threads \ {p} : req'[q] = req[q]
    BY <1>1, GotoFrame DEF RereadDisk, DiskPc
<1>8. UNCHANGED <<pve, late, open, asked, owed>>
    BY DEF RereadDisk
<1> QED
    BY <1>1, <1>2, <1>4, <1>5, <1>6, <1>7, <1>8 DEF Frame

LEMMA RereadFailsFacts ==
    ASSUME TypeOK, NEW p \in Threads, RereadFails(p)
    PROVE  LET r == req[p] IN
           /\ Frame({p}, r.v) /\ With(p, r.v) /\ r \in DiskRequest /\ r.pc = "reread"
           /\ Goes(p, {"answer"})
           /\ UNCHANGED <<rows, pve, late, last, open, asked, owed, marks>>
<1> DEFINE r == req[p]
<1>1. r \in DiskRequest /\ r.v \in Targets /\ r.pc = "reread" /\ r.pc \in DiskPc
    BY Shapes DEF RereadFails, At, DiskPc, DiskRequest
<1>2. Goes(p, {"answer"}) /\ With(p, r.v) /\ \A q \in Threads \ {p} : req'[q] = req[q]
    BY <1>1, GotoFrame DEF RereadFails, DiskPc
<1>3. UNCHANGED <<rows, pve, late, last, open, asked, owed, marks>>
    BY DEF RereadFails
<1> QED
    BY <1>1, <1>2, <1>3 DEF Frame

LEMMA AnswerFacts ==
    ASSUME TypeOK, NEW p \in Threads, AnswerDisk(p)
    PROVE  LET r == req[p] IN
           /\ Frame({p}, r.v) /\ With(p, r.v) /\ r \in DiskRequest /\ r.pc = "answer"
           /\ req'[p] = Idle
           /\ UNCHANGED <<rows, pve, late, last, asked, marks>>
           /\ \/ owed'[r.v] = owed[r.v] + r.by /\ open' = open
              \/ owed' = owed /\ open'[r.v] # None /\ open'[r.v].by = r.by
<1> DEFINE r == req[p]
<1>1. r \in DiskRequest /\ r.v \in Targets /\ r.pc = "answer"
    BY Shapes DEF AnswerDisk, At, DiskPc, DiskRequest
<1>2. req'[p] = Idle /\ \A q \in Threads \ {p} : req'[q] = req[q]
    BY BecomeFrame DEF AnswerDisk
<1>3. UNCHANGED <<rows, pve, late, last, asked, marks>>
    BY DEF AnswerDisk
<1>4. CASE owed' = [owed EXCEPT ![r.v] = @ + r.by] /\ open' = open
    <2>1. owed'[r.v] = owed[r.v] + r.by /\ \A w \in Targets \ {r.v} : owed'[w] = owed[w]
        BY <1>1, <1>4 DEF TypeOK
    <2> QED
        BY <1>1, <1>2, <1>3, <1>4, <2>1 DEF Frame, With
<1>5. CASE owed' = owed /\ open' = [open EXCEPT ![r.v] = [by |-> r.by, restart |-> r.restart]]
    <2>1. /\ open'[r.v] # None /\ open'[r.v].by = r.by
          /\ \A w \in Targets \ {r.v} : open'[w] = open[w]
        BY <1>1, <1>5, OpenFrame
    <2> QED
        BY <1>1, <1>2, <1>3, <1>5, <2>1 DEF Frame, With
<1>6. \/ owed' = [owed EXCEPT ![r.v] = @ + r.by] /\ open' = open
      \/ owed' = owed /\ open' = [open EXCEPT ![r.v] = [by |-> r.by, restart |-> r.restart]]
    BY DEF AnswerDisk
<1> QED
    BY <1>4, <1>5, <1>6

LEMMA AgeFacts ==
    ASSUME TypeOK, NEW v \in Rows, TwoMinutes(v)
    PROVE  /\ Frame({}, v) /\ req' = req
           /\ UNCHANGED <<rows, pve, late, open, asked, owed>>
           /\ last'[v] = None
           /\ open[v] # None \/ Busy(v) => "aged" \in marks'[v]
<1>1. v \in Targets /\ UNCHANGED <<rows, pve, late, req, open, asked, owed>>
    BY DEF Targets, TwoMinutes
<1>2. last'[v] = None /\ \A w \in Rows \ {v} : last'[w] = last[w]
    BY DEF TwoMinutes, TypeOK
<1>3. Marked(v, IF open[v] # None \/ Busy(v) THEN {"aged"} ELSE {})
    BY DEF TwoMinutes
<1>4. /\ \A w \in Targets \ {v} : marks'[w] = marks[w]
      /\ marks[v] \subseteq marks'[v] /\ (open[v] # None \/ Busy(v) => "aged" \in marks'[v])
    BY <1>1, <1>3, MarkFrame
<1> QED
    BY <1>1, <1>2, <1>4 DEF Frame

LEMMA CrashFacts ==
    ASSUME TypeOK, NEW p \in Threads, Crash(p)
    PROVE  LET r == req[p] IN
           /\ Frame({p}, r.v) /\ With(p, r.v) /\ r # Idle /\ req'[p] = Idle
           /\ UNCHANGED <<rows, pve, late, last, asked, owed>>
           /\ r.pc \in DiskPc =>
                 r \in DiskRequest /\ open'[r.v] # None /\ open'[r.v].by = r.by
           /\ r.pc \notin DiskPc => open' = open
           /\ r.pc \in {"read", "save", "cycle", "keep"} => "cut" \in marks'[r.v]
<1> DEFINE r == req[p]
           S == IF r.pc \in {"read", "save", "cycle", "keep"} THEN {"cut"} ELSE {}
<1>1. r # Idle /\ r.v \in Targets
    BY Shapes DEF Crash
<1>2. req'[p] = Idle /\ \A q \in Threads \ {p} : req'[q] = req[q]
    BY BecomeFrame DEF Crash
<1>3. UNCHANGED <<rows, pve, late, last, asked, owed>>
    BY DEF Crash
<1>4. /\ r.pc \in DiskPc =>
            r \in DiskRequest /\ open'[r.v] # None /\ open'[r.v].by = r.by
      /\ r.pc \notin DiskPc => open' = open
      /\ \A w \in Targets \ {r.v} : open'[w] = open[w]
    <2>1. CASE r.pc \in DiskPc
        <3>1. r \in DiskRequest
            BY <2>1, Shapes
        <3>2. open' = [open EXCEPT ![r.v] = [by |-> r.by, restart |-> r.restart]]
            BY <2>1 DEF Crash
        <3> QED
            BY <2>1, <3>1, <3>2, OpenFrame
    <2>2. CASE r.pc \notin DiskPc
        BY <2>2 DEF Crash
    <2> QED
        BY <2>1, <2>2
<1>5. Marked(r.v, S)
    BY DEF Crash
<1>6. /\ \A w \in Targets \ {r.v} : marks'[w] = marks[w]
      /\ marks[r.v] \subseteq marks'[r.v] /\ S \subseteq marks'[r.v]
  <2> HIDE DEF S
  <2> QED
    BY <1>1, <1>5, MarkFrame
<1>7. r.pc \in {"read", "save", "cycle", "keep"} => "cut" \in marks'[r.v]
    BY <1>6
<1> QED
    BY <1>1, <1>2, <1>3, <1>4, <1>6, <1>7 DEF Frame, With

-----------------------------------------------------------------------------
(* What the requests for CPU and RAM do.                                   *)

SizeMoves(p, pcs) ==
    /\ req'[p] # Idle /\ req'[p].pc \in pcs /\ req'[p].v = req[p].v
    /\ req'[p].size = req[p].size /\ req'[p].seen = req[p].seen

\* Nothing that a disk's request looks at or writes.
DiskStill ==
    /\ \A v \in Targets : rows'[v].disk = rows[v].disk /\ pve'[v].cfg.disk = pve[v].cfg.disk
    /\ UNCHANGED <<late, last, open, asked, owed>>
    /\ \A v \in Targets : marks[v] \subseteq marks'[v]
    /\ \A p \in Threads : /\ req'[p].pc \in DiskPc <=> req[p].pc \in DiskPc
                          /\ req[p].pc \in DiskPc => req'[p] = req[p]

LEMMA AskForFacts ==
    ASSUME TypeOK, NEW p \in Threads, NEW v \in Targets, NEW size \in Sizes,
           NEW restart \in BOOLEAN, AskFor(p, v, size, restart)
    PROVE  /\ Frame({p}, v) /\ With(p, v) /\ req[p] = Idle
           /\ req'[p] # Idle /\ req'[p].pc = "digest" /\ req'[p].v = v
           /\ req'[p].seen = rows[v].size
           /\ UNCHANGED <<rows, pve, late, last, open, asked, owed>>
           /\ Busy(v) => "overlap" \in marks'[v]
<1>1. /\ req'[p] = [pc |-> "digest", v |-> v, size |-> size, restart |-> restart,
                    seen |-> rows[v].size, digest |-> None]
      /\ \A q \in Threads \ {p} : req'[q] = req[q]
    BY BecomeFrame DEF AskFor
<1>2. req'[p] # Idle /\ req'[p].pc = "digest" /\ req'[p].v = v /\ req'[p].seen = rows[v].size
    BY <1>1 DEF Idle
<1>3. /\ \A w \in Targets \ {v} : marks'[w] = marks[w]
      /\ marks[v] \subseteq marks'[v] /\ Overlap(v) \subseteq marks'[v]
    BY MarkFrame DEF AskFor
<1>4. req[p] = Idle /\ UNCHANGED <<rows, pve, late, last, open, asked, owed>>
    BY DEF AskFor
<1> QED
    BY <1>1, <1>2, <1>3, <1>4 DEF Frame, With, Overlap

LEMMA SizeGoto ==
    ASSUME TypeOK, NEW p \in Threads, NEW pc \in SizePc, Goto(p, pc), req[p].pc \in SizePc
    PROVE  /\ SizeMoves(p, {pc}) /\ With(p, req[p].v)
           /\ \A q \in Threads \ {p} : req'[q] = req[q]
<1>1. req'[p] = [req[p] EXCEPT !.pc = pc] /\ \A q \in Threads \ {p} : req'[q] = req[q]
    BY DEF Goto, TypeOK
<1>2. req[p] \in SizeRequest
    BY Shapes
<1>3. /\ req'[p].pc = pc /\ req'[p].v = req[p].v /\ req'[p].size = req[p].size
      /\ req'[p].seen = req[p].seen
    BY <1>1, <1>2 DEF SizeRequest
<1>4. req'[p] # Idle
    BY <1>3 DEF Idle, SizePc
<1> QED
    BY <1>1, <1>3, <1>4 DEF SizeMoves, With

LEMMA DigestFacts ==
    ASSUME TypeOK, NEW p \in Threads, ReadDigest(p)
    PROVE  LET r == req[p] IN
           /\ Frame({p}, r.v) /\ With(p, r.v) /\ r \in SizeRequest /\ r.pc = "digest"
           /\ SizeMoves(p, {"put"})
           /\ UNCHANGED <<rows, pve, late, last, open, asked, owed, marks>>
<1> DEFINE r == req[p]
           d == pve[r.v].cfg
<1>1. r \in SizeRequest /\ r.v \in Targets /\ r.pc = "digest"
    BY Shapes DEF ReadDigest, At, SizePc, SizeRequest
<1>2. req'[p] = [r EXCEPT !.pc = "put", !.digest = d] /\ \A q \in Threads \ {p} : req'[q] = req[q]
    BY DEF ReadDigest, TypeOK
<1>3. /\ req'[p].pc = "put" /\ req'[p].v = r.v /\ req'[p].size = r.size
      /\ req'[p].seen = r.seen
  <2> HIDE DEF d
  <2> QED
    BY <1>1, <1>2 DEF SizeRequest
<1>4. req'[p] # Idle
    BY <1>3 DEF Idle
<1>5. UNCHANGED <<rows, pve, late, last, open, asked, owed, marks>>
    BY DEF ReadDigest
<1> QED
    BY <1>1, <1>2, <1>3, <1>4, <1>5 DEF Frame, With, SizeMoves

LEMMA PutFacts ==
    ASSUME TypeOK, NEW p \in Threads, PutSize(p)
    PROVE  LET r == req[p] IN
           /\ Frame({p}, r.v) /\ With(p, r.v) /\ r \in SizeRequest /\ r.pc = "put"
           /\ \/ SizeMoves(p, {"cycle"}) /\ pve'[r.v].cfg.size = r.size
              \/ req'[p] = Idle /\ pve'[r.v].cfg.size = pve[r.v].cfg.size
           /\ pve'[r.v].cfg.disk = pve[r.v].cfg.disk
           /\ UNCHANGED <<rows, late, last, open, asked, owed, marks>>
<1> DEFINE r == req[p]
           v == r.v
<1>1. r \in SizeRequest /\ v \in Targets /\ r.pc = "put" /\ r.pc \in SizePc
    BY Shapes DEF PutSize, At, SizePc, SizeRequest
<1>2. UNCHANGED <<rows, late, last, open, asked, owed, marks>>
    BY DEF PutSize
<1>3. CASE pve' = [pve EXCEPT ![v].cfg.size = r.size] /\ Goto(p, "cycle")
    <2>1. pve[v] \in [cfg : Config, on : BOOLEAN] /\ pve[v].cfg \in Config
        BY <1>1 DEF TypeOK
    <2>2. /\ pve'[v] = [pve[v] EXCEPT !.cfg.size = r.size]
          /\ \A w \in Targets \ {v} : pve'[w] = pve[w]
        BY <1>1, <1>3 DEF TypeOK
    <2>3. pve'[v].cfg = [pve[v].cfg EXCEPT !.size = r.size]
        BY <2>1, <2>2
    <2>4. pve'[v].cfg.size = r.size /\ pve'[v].cfg.disk = pve[v].cfg.disk
        BY <2>1, <2>3 DEF Config
    <2>5. SizeMoves(p, {"cycle"}) /\ With(p, v) /\ \A q \in Threads \ {p} : req'[q] = req[q]
        BY <1>1, <1>3, SizeGoto DEF SizePc
    <2> QED
        BY <1>1, <1>2, <2>2, <2>4, <2>5 DEF Frame
<1>4. CASE pve' = pve /\ Become(p, Idle)
    <2>1. req'[p] = Idle /\ \A q \in Threads \ {p} : req'[q] = req[q]
        BY <1>4, BecomeFrame
    <2> QED
        BY <1>1, <1>2, <1>4, <2>1 DEF Frame, With
<1>5. \/ pve' = [pve EXCEPT ![v].cfg.size = r.size] /\ Goto(p, "cycle")
      \/ pve' = pve /\ Become(p, Idle)
    BY DEF PutSize
<1> QED
    BY <1>3, <1>4, <1>5

LEMMA CycleFacts ==
    ASSUME TypeOK, NEW p \in Threads, CycleAfterSize(p)
    PROVE  LET r == req[p] IN
           /\ Frame({p}, r.v) /\ With(p, r.v) /\ r \in SizeRequest /\ r.pc = "cycle"
           /\ SizeMoves(p, {"keep"})
           /\ pve'[r.v].cfg = pve[r.v].cfg
           /\ UNCHANGED <<rows, late, last, open, asked, owed, marks>>
<1> DEFINE r == req[p]
<1>1. r \in SizeRequest /\ r.v \in Targets /\ r.pc = "cycle" /\ r.pc \in SizePc
    BY Shapes DEF CycleAfterSize, At, SizePc, SizeRequest
<1>2. /\ PowerCycle(r.v) \/ pve' = [pve EXCEPT ![r.v].on = TRUE]
      /\ UNCHANGED <<rows, late, last, open, asked, owed, marks>>
    BY DEF CycleAfterSize
<1>3. pve'[r.v].cfg = pve[r.v].cfg /\ \A w \in Targets \ {r.v} : pve'[w] = pve[w]
    BY <1>1, <1>2, PowerFrame
<1>4. SizeMoves(p, {"keep"}) /\ With(p, r.v) /\ \A q \in Threads \ {p} : req'[q] = req[q]
    BY <1>1, SizeGoto DEF SizePc, CycleAfterSize
<1> QED
    BY <1>1, <1>2, <1>3, <1>4 DEF Frame

LEMMA KeepFacts ==
    ASSUME TypeOK, NEW p \in Threads, Keep(p)
    PROVE  LET r == req[p] IN
           /\ Frame({p}, r.v) /\ With(p, r.v) /\ r \in SizeRequest /\ r.pc = "keep"
           /\ SizeMoves(p, {"boot"}) \/ req'[p] = Idle
           /\ rows'[r.v].size = IF r.seen = r.size THEN rows[r.v].size ELSE r.size
           /\ rows'[r.v].disk = rows[r.v].disk
           /\ UNCHANGED <<pve, late, last, open, asked, owed, marks>>
<1> DEFINE r == req[p]
<1>1. r \in SizeRequest /\ r.v \in Targets /\ r.pc = "keep" /\ r.pc \in SizePc
    BY Shapes DEF Keep, At, SizePc, SizeRequest
<1>2. rows[r.v] \in Row
    BY <1>1 DEF TypeOK
<1>3. /\ rows'[r.v] = [rows[r.v] EXCEPT !.size = IF r.seen = r.size THEN @ ELSE r.size]
      /\ \A w \in Targets \ {r.v} : rows'[w] = rows[w]
    BY <1>1 DEF Keep, TypeOK
<1>4. /\ rows'[r.v].size = IF r.seen = r.size THEN rows[r.v].size ELSE r.size
      /\ rows'[r.v].disk = rows[r.v].disk
    BY <1>2, <1>3 DEF Row
<1>5. /\ SizeMoves(p, {"boot"}) \/ req'[p] = Idle
      /\ With(p, r.v) /\ \A q \in Threads \ {p} : req'[q] = req[q]
    <2>1. Goto(p, "boot") \/ Become(p, Idle)
        BY DEF Keep
    <2> QED
        BY <1>1, <2>1, SizeGoto, BecomeFrame DEF SizePc, With
<1>6. UNCHANGED <<pve, late, last, open, asked, owed, marks>>
    BY DEF Keep
<1> QED
    BY <1>1, <1>3, <1>4, <1>5, <1>6 DEF Frame

LEMMA BootFacts ==
    ASSUME TypeOK, NEW p \in Threads,
           RestartAfterSize(p) \/ (RestartBuild(p) /\ req[p].pc = "boot")
    PROVE  LET r == req[p] IN
           /\ Frame({p}, r.v) /\ With(p, r.v) /\ r \in SizeRequest /\ r.pc = "boot"
           /\ req'[p] = Idle
           /\ pve'[r.v].cfg = pve[r.v].cfg
           /\ UNCHANGED <<rows, late, last, open, asked, owed, marks>>
<1> DEFINE r == req[p]
<1>1. r \in SizeRequest /\ r.v \in Targets /\ r.pc = "boot"
    BY Shapes DEF RestartAfterSize, RestartBuild, At, SizePc, SizeRequest
<1>2. /\ RestartVm(r.v) \/ PowerCycle(r.v)
      /\ UNCHANGED <<rows, late, last, open, asked, owed, marks>>
    BY DEF RestartAfterSize, RestartBuild
<1>3. pve'[r.v].cfg = pve[r.v].cfg /\ \A w \in Targets \ {r.v} : pve'[w] = pve[w]
    BY <1>1, <1>2, PowerFrame
<1>4. req'[p] = Idle /\ \A q \in Threads \ {p} : req'[q] = req[q]
    BY <1>1, BecomeFrame DEF RestartAfterSize, RestartBuild, At
<1> QED
    BY <1>1, <1>2, <1>3, <1>4 DEF Frame, With

LEMMA StatusFacts ==
    ASSUME TypeOK, NEW v \in Rows, StopVm(v) \/ StartVm(v)
    PROVE  /\ UNCHANGED <<late, last, req, open, asked, owed, marks>>
           /\ \A w \in Targets : /\ pve'[w].cfg = pve[w].cfg
                                 /\ rows'[w].disk = rows[w].disk /\ rows'[w].size = rows[w].size
<1>1. v \in Targets /\ rows[v] \in Row /\ UNCHANGED <<late, last, req, open, asked, owed, marks>>
    BY DEF Targets, TypeOK, StopVm, StartVm
<1>2. PICK st \in {"running", "stopped"} : rows' = [rows EXCEPT ![v].status = st]
    BY DEF StopVm, StartVm
<1>3. pve' = [pve EXCEPT ![v].on = TRUE] \/ pve' = [pve EXCEPT ![v].on = FALSE]
    BY DEF StopVm, StartVm
<1>4. pve'[v].cfg = pve[v].cfg /\ \A w \in Targets \ {v} : pve'[w] = pve[w]
    BY <1>1, <1>3, PowerFrame
<1>5. rows'[v] = [rows[v] EXCEPT !.status = st] /\ \A w \in Targets \ {v} : rows'[w] = rows[w]
    BY <1>1, <1>2 DEF TypeOK
<1>6. rows'[v].disk = rows[v].disk /\ rows'[v].size = rows[v].size
    BY <1>1, <1>5 DEF Row
<1> QED
    BY <1>1, <1>4, <1>5, <1>6

LEMMA Stills ==
    ASSUME TypeOK,
           \/ UNCHANGED vars
           \/ \E p \in Threads :
                \/ \E v \in Targets, size \in Sizes, restart \in BOOLEAN :
                      AskFor(p, v, size, restart)
                \/ ReadDigest(p) \/ PutSize(p) \/ CycleAfterSize(p) \/ Keep(p)
                \/ RestartAfterSize(p) \/ (RestartBuild(p) /\ req[p].pc = "boot")
                \/ Crash(p) /\ req[p].pc \notin DiskPc
           \/ \E v \in Rows : StopVm(v) \/ StartVm(v)
    PROVE  DiskStill
<1>1. CASE UNCHANGED vars
    BY <1>1 DEF vars, DiskStill
<1>2. ASSUME NEW p \in Threads, NEW v \in Targets, Frame({p}, v),
             UNCHANGED <<late, last, open, asked, owed>>,
             rows'[v].disk = rows[v].disk, pve'[v].cfg.disk = pve[v].cfg.disk,
             req[p].pc \notin DiskPc, req'[p].pc \notin DiskPc
      PROVE  DiskStill
    BY <1>2 DEF DiskStill, Frame
<1>3. Idle.pc \notin DiskPc /\ \A p \in Threads : \A pcs \in SUBSET SizePc :
         SizeMoves(p, pcs) => req'[p].pc \notin DiskPc
    BY DEF SizeMoves, SizePc, DiskPc, Idle
<1>4. \A p \in Threads : req[p] \in SizeRequest => req[p].pc \notin DiskPc
    BY DEF SizeRequest, DiskPc
<1>5. /\ {"put"} \in SUBSET SizePc /\ {"cycle"} \in SUBSET SizePc
      /\ {"keep"} \in SUBSET SizePc /\ {"boot"} \in SUBSET SizePc
    BY DEF SizePc
<1>6. ASSUME NEW p \in Threads, NEW v \in Targets, NEW size \in Sizes,
             NEW restart \in BOOLEAN, AskFor(p, v, size, restart)
      PROVE  DiskStill
    <2>1. "digest" \notin DiskPc
        BY DEF DiskPc
    <2>2. /\ Frame({p}, v) /\ req[p] = Idle /\ req'[p].pc = "digest"
          /\ UNCHANGED <<rows, pve, late, last, open, asked, owed>>
        BY <1>6, AskForFacts
    <2> QED
        BY <1>2, <1>3, <2>1, <2>2
<1>7. ASSUME NEW p \in Threads, ReadDigest(p) PROVE DiskStill
    BY <1>2, <1>3, <1>4, <1>5, <1>7, DigestFacts DEF Frame
<1>8. ASSUME NEW p \in Threads, PutSize(p) PROVE DiskStill
    BY <1>2, <1>3, <1>4, <1>5, <1>8, PutFacts DEF Frame
<1>9. ASSUME NEW p \in Threads, CycleAfterSize(p) PROVE DiskStill
    BY <1>2, <1>3, <1>4, <1>5, <1>9, CycleFacts DEF Frame
<1>10. ASSUME NEW p \in Threads, Keep(p) PROVE DiskStill
    BY <1>2, <1>3, <1>4, <1>5, <1>10, KeepFacts DEF Frame
<1>11. ASSUME NEW p \in Threads,
              RestartAfterSize(p) \/ (RestartBuild(p) /\ req[p].pc = "boot")
       PROVE  DiskStill
    BY <1>2, <1>3, <1>4, <1>5, <1>11, BootFacts DEF Frame
<1>12. ASSUME NEW p \in Threads, Crash(p), req[p].pc \notin DiskPc PROVE DiskStill
    BY <1>2, <1>3, <1>12, CrashFacts DEF Frame
<1>13. ASSUME NEW v \in Rows, StopVm(v) \/ StartVm(v) PROVE DiskStill
    BY <1>13, StatusFacts DEF DiskStill
<1> QED
    BY <1>1, <1>6, <1>7, <1>8, <1>9, <1>10, <1>11, <1>12, <1>13

\* Every step is still for the disks or a step of a disk's request.
LEMMA DiskSteps ==
    ASSUME TypeOK, [Next]_vars
    PROVE  \/ DiskStill
           \/ \E p \in Threads :
                \/ \E v \in Targets, by \in Steps, restart \in BOOLEAN : Ask(p, v, by, restart)
                \/ \E v \in Targets : RepeatDisk(p, v)
                \/ QuotaRefuses(p) \/ AlreadyResized(p) \/ CheckDisk(p)
                \/ GrowDisk(p) \/ GrowFails(p) \/ ReadDisk(p)
                \/ SaveDisk(p) \/ SaveBuildDisk(p)
                \/ RestartAfterDisk(p) \/ (RestartBuild(p) /\ req[p].pc = "restart")
                \/ RereadDisk(p) \/ RereadFails(p) \/ AnswerDisk(p)
                \/ Crash(p) /\ req[p].pc \in DiskPc
           \/ \E v \in Targets : Land(v)
           \/ \E v \in Rows : TwoMinutes(v)
<1>1. \A p \in Threads : RestartBuild(p) => req[p].pc \in {"restart", "boot"}
    BY DEF RestartBuild
<1>2. CASE UNCHANGED vars
    BY <1>2, Stills
<1>3. CASE Next
    BY <1>1, <1>3, Threaded, Stills
<1> QED
    BY <1>2, <1>3

\* What the threads that serve a VM other than v see.
Stays(v) ==
    \A q \in Threads :
        \/ req'[q] = req[q]
        \/ (req[q] = Idle \/ req[q].v = v) /\ (req'[q] = Idle \/ req'[q].v = v)

LEMMA Staying ==
    ASSUME NEW v,
           (\E p \in Threads : Frame({p}, v) /\ With(p, v)) \/ req' = req
    PROVE  Stays(v)
BY DEF Stays, Frame, With

LEMMA Elsewhere ==
    ASSUME NEW v, Stays(v), NEW w \in Targets \ {v}, NEW q \in Threads
    PROVE  /\ On(q, w)' <=> On(q, w)
           /\ On(q, w) => req'[q] = req[q]
           /\ DiskOn(q, w)' <=> DiskOn(q, w)
           /\ DiskOn(q, w) => req'[q] = req[q]
<1>1. Idle.pc \notin DiskPc
    BY DEF Idle, DiskPc
<1> QED
    BY <1>1 DEF Stays, On, DiskOn

LEMMA FinallyStill ==
    ASSUME DiskStill, NEW v \in Targets, NEW p \in Threads
    PROVE  /\ DiskOn(p, v)' <=> DiskOn(p, v)
           /\ DiskOn(p, v) => req'[p] = req[p]
           /\ Grown(p, v)' <=> Grown(p, v)
           /\ DiskOf(v)' = DiskOf(v)
<1>1. {"read", "save"} \subseteq DiskPc /\ Idle.pc \notin DiskPc
    BY DEF DiskPc, Idle
<1> QED
    BY <1>1 DEF DiskStill, DiskOn, Grown, On, DiskOf

-----------------------------------------------------------------------------
(* What was asked for (AskedInv).                                          *)

HeldNext(v) == [q \in Threads |-> IF DiskOn(q, v)' THEN req'[q].by ELSE 0]

LEMMA ShapesNext ==
    ASSUME TypeOK', NEW p \in Threads
    PROVE  req'[p].pc \in DiskPc => req'[p] \in DiskRequest
<1>1. req'[p] \in {Idle} \cup DiskRequest \cup SizeRequest
    BY DEF TypeOK
<1>2. Idle.pc \notin DiskPc /\ \A r \in SizeRequest : r.pc \notin DiskPc
    BY DEF Idle, SizeRequest, DiskPc
<1> QED
    BY <1>1, <1>2

LEMMA HeldMoves ==
    ASSUME TypeOK, TypeOK', NEW p \in Threads, NEW v \in Targets, Frame({p}, v)
    PROVE  /\ Total(Held(v)') + Held(v)[p] <= Total(Held(v)) + HeldNext(v)[p]
           /\ Total(Held(v)') \in Nat
           /\ Held(v)[p] \in Nat /\ HeldNext(v)[p] \in Nat
<1>1. Held(v) \in [Threads -> Nat]
    BY HeldTyped
<1>2. Held(v)' = HeldNext(v)
    BY DEF Held, HeldNext
<1>3. \A q \in Threads : DiskOn(q, v)' => req'[q].by \in Nat
    BY ShapesNext, Amounts DEF DiskOn, DiskRequest
<1>4. HeldNext(v) \in [Threads -> Nat]
    BY <1>3 DEF HeldNext
<1>5. \A q \in Threads \ {p} : HeldNext(v)[q] = Held(v)[q]
    BY DEF Held, HeldNext, Frame, DiskOn
<1> QED
  <2> DEFINE f == Held(v)
             g == HeldNext(v)
  <2>1. f \in [Threads -> Nat] /\ g \in [Threads -> Nat] /\ \A q \in Threads \ {p} : g[q] <= f[q]
    BY <1>1, <1>4, <1>5
  <2>2. IsFiniteSet(Threads)
    BY SizesAssumption
  <2> HIDE DEF f, g
  <2>3. Total(g) + f[p] <= Total(f) + g[p] /\ Total(g) \in Nat
    BY <2>1, <2>2, TotalMove, TotalTyped
  <2> QED
    BY <1>2, <2>1, <2>3 DEF f, g

LEMMA AskedInit == TypeOK /\ Init => AskedInv
<1> SUFFICES ASSUME TypeOK, Init, NEW v \in Targets PROVE AskedAt(v)
    BY DEF AskedInv
<1>1. Held(v) = [p \in Threads |-> 0]
    BY DEF Init, Held, DiskOn, Idle, DiskPc
<1>2. Total(Held(v)) = 0
    BY <1>1, TotalZero
<1>3. HeldOpen(v) = 0 /\ asked[v] = Start
    BY DEF Init, HeldOpen
<1> QED
    BY <1>2, <1>3 DEF AskedAt, Start

LEMMA AskedStill ==
    ASSUME TypeOK, AskedInv, DiskStill
    PROVE  AskedInv'
<1> SUFFICES ASSUME NEW v \in Targets PROVE AskedAt(v)'
    BY DEF AskedInv
<1>1. Held(v)' = Held(v)
    BY FinallyStill DEF Held
<1>2. HeldOpen(v)' = HeldOpen(v) /\ asked' = asked
    BY DEF DiskStill, HeldOpen
<1>3. AskedAt(v)
    BY DEF AskedInv
<1> QED
    BY <1>1, <1>2, <1>3 DEF AskedAt

\* Only the VM that a step is about is left to show.
LEMMA AskedElsewhere ==
    ASSUME AskedInv, NEW v \in Targets, NEW P, Frame(P, v), Stays(v), AskedAt(v)'
    PROVE  AskedInv'
<1> SUFFICES ASSUME NEW w \in Targets \ {v} PROVE AskedAt(w)'
    BY DEF AskedInv
<1>1. Held(w)' = Held(w)
    BY Elsewhere DEF Held
<1>2. HeldOpen(w)' = HeldOpen(w) /\ asked'[w] = asked[w]
    BY DEF Frame, HeldOpen
<1>3. AskedAt(w)
    BY DEF AskedInv
<1> QED
    BY <1>1, <1>2, <1>3 DEF AskedAt

LEMMA AskedThread ==
    ASSUME TypeOK, TypeOK', AskedInv, NEW p \in Threads, NEW v \in Targets,
           Frame({p}, v), With(p, v),
           asked'[v] - HeldNext(v)[p] - HeldOpen(v)'
              >= asked[v] - Held(v)[p] - HeldOpen(v)
    PROVE  AskedInv'
<1>1. AskedAt(v)
    BY DEF AskedInv
<1>2. /\ Total(Held(v)') + Held(v)[p] <= Total(Held(v)) + HeldNext(v)[p]
      /\ Total(Held(v)') \in Nat /\ Held(v)[p] \in Nat /\ HeldNext(v)[p] \in Nat
    BY HeldMoves
<1>3. Total(Held(v)) \in Nat /\ HeldOpen(v) \in Nat /\ asked[v] \in Nat
    BY HeldTyped DEF TypeOK, Disk
<1>4. HeldOpen(v)' \in Nat /\ asked'[v] \in Nat
    BY Amounts DEF TypeOK, HeldOpen, Intent, Disk
<1>5. AskedAt(v)'
    BY <1>1, <1>2, <1>3, <1>4 DEF AskedAt, Start
<1> QED
    BY <1>5, Staying, AskedElsewhere

LEMMA AskedStep ==
    ASSUME TypeOK, TypeOK', RowsKnown, AskedInv, [Next]_vars
    PROVE  AskedInv'
<1>1. Idle.pc \notin DiskPc
    BY DEF Idle, DiskPc
<1>2. \A p \in Threads : \A pcs \in SUBSET DiskPc : Goes(p, pcs) =>
         req'[p].pc \in DiskPc /\ req'[p].v = req[p].v /\ req'[p].by = req[p].by
    BY DEF Goes
<1>3. \A p \in Threads : req[p] \in DiskRequest =>
         req[p].pc \in DiskPc /\ req[p].by \in Nat /\ req[p].v \in Targets
    BY Amounts DEF DiskRequest
<1>4. ASSUME NEW p \in Threads, req[p] \in DiskRequest, Frame({p}, req[p].v),
             With(p, req[p].v), \E pcs \in SUBSET DiskPc : Goes(p, pcs),
             asked' = asked, open' = open
      PROVE  AskedInv'
    <2> SUFFICES ASSUME NEW v \in Targets, v = req[p].v PROVE AskedInv'
        BY <1>3, <1>4
    <2>1. HeldNext(v)[p] = Held(v)[p] /\ HeldOpen(v)' = HeldOpen(v)
        BY <1>2, <1>3, <1>4 DEF HeldNext, Held, HeldOpen, DiskOn
    <2>2. asked[v] \in Nat /\ Held(v)[p] \in Nat /\ HeldOpen(v) \in Nat
        BY <1>3, <1>4, HeldTyped DEF TypeOK, Disk
    <2> QED
        BY <1>3, <1>4, <2>1, <2>2, AskedThread
<1>5. ASSUME NEW p \in Threads, req[p] \in DiskRequest, Frame({p}, req[p].v),
             With(p, req[p].v), req'[p] = Idle, asked' = asked,
             open' = open \/ (open'[req[p].v] # None /\ open'[req[p].v].by = req[p].by)
      PROVE  AskedInv'
    <2> SUFFICES ASSUME NEW v \in Targets, v = req[p].v PROVE AskedInv'
        BY <1>3, <1>5
    <2>1. HeldNext(v)[p] = 0 /\ Held(v)[p] = req[p].by
        BY <1>1, <1>3, <1>5 DEF HeldNext, Held, DiskOn
    <2>2. HeldOpen(v)' = HeldOpen(v) \/ HeldOpen(v)' = req[p].by
        BY <1>5 DEF HeldOpen
    <2>3. asked[v] \in Nat /\ Held(v)[p] \in Nat /\ HeldOpen(v) \in Nat
        BY <1>3, <1>5, HeldTyped DEF TypeOK, Disk
    <2> QED
        BY <1>3, <1>5, <2>1, <2>2, <2>3, AskedThread
<1>6. ASSUME NEW p \in Threads, NEW v \in Targets, NEW by \in Steps,
             NEW restart \in BOOLEAN, Ask(p, v, by, restart)
      PROVE  AskedInv'
    <2>1. /\ Frame({p}, v) /\ With(p, v) /\ req[p] = Idle /\ Began(p, v, by, FALSE)
          /\ open' = open /\ asked'[v] = asked[v] + by
        BY <1>6, AskFacts
    <2>2. Held(v)[p] = 0 /\ HeldNext(v)[p] = by /\ HeldOpen(v)' = HeldOpen(v)
        BY <1>1, <2>1 DEF Held, HeldNext, HeldOpen, DiskOn, Began, DiskPc
    <2>3. asked[v] \in Nat /\ by \in Nat /\ HeldOpen(v) \in Nat
        BY HeldTyped, Amounts DEF TypeOK, Disk
    <2> QED
        BY <2>1, <2>2, <2>3, AskedThread
<1>7. ASSUME NEW p \in Threads, NEW v \in Targets, RepeatDisk(p, v)
      PROVE  AskedInv'
    <2>1. /\ Frame({p}, v) /\ With(p, v) /\ req[p] = Idle /\ open[v] # None
          /\ Began(p, v, open[v].by, TRUE) /\ open'[v] = None /\ asked' = asked
        BY <1>7, RepeatFacts
    <2>2. Held(v)[p] = 0 /\ HeldNext(v)[p] = open[v].by /\ HeldOpen(v) = open[v].by
          /\ HeldOpen(v)' = 0
        BY <1>1, <2>1 DEF Held, HeldNext, HeldOpen, DiskOn, Began, DiskPc
    <2>3. asked[v] \in Nat /\ open[v].by \in Nat
        BY <2>1, HeldTyped DEF TypeOK, Disk
    <2> QED
        BY <2>1, <2>2, <2>3, AskedThread
<1>8. ASSUME NEW p \in Threads, QuotaRefuses(p) PROVE AskedInv'
    <2> SUFFICES ASSUME NEW v \in Targets, v = req[p].v PROVE AskedInv'
        BY <1>3, <1>8, RefuseFacts
    <2>1. /\ Frame({p}, v) /\ With(p, v) /\ req[p] \in DiskRequest /\ req'[p] = Idle
          /\ open' = open /\ asked'[v] = asked[v] - req[p].by
        BY <1>8, RefuseFacts
    <2>2. HeldNext(v)[p] = 0 /\ Held(v)[p] = req[p].by /\ HeldOpen(v)' = HeldOpen(v)
        BY <1>1, <1>3, <2>1 DEF HeldNext, Held, HeldOpen, DiskOn
    <2>3. asked[v] \in Nat /\ req[p].by \in Nat /\ HeldOpen(v) \in Nat
        BY <1>3, <2>1, HeldTyped DEF TypeOK, Disk
    <2> QED
        BY <1>3, <2>1, <2>2, <2>3, AskedThread
<1>9. /\ {"answer"} \in SUBSET DiskPc /\ {"grow"} \in SUBSET DiskPc /\ {"read"} \in SUBSET DiskPc
      /\ {"save"} \in SUBSET DiskPc /\ {"restart", "answer"} \in SUBSET DiskPc
      /\ {"reread", "answer"} \in SUBSET DiskPc
    BY DEF DiskPc
<1>10. ASSUME NEW p \in Threads, AlreadyResized(p) PROVE AskedInv'
    BY <1>4, <1>9, <1>10, AlreadyFacts
<1>11. ASSUME NEW p \in Threads, CheckDisk(p) PROVE AskedInv'
    BY <1>4, <1>9, <1>11, CheckFacts
<1>12. ASSUME NEW p \in Threads, GrowDisk(p) PROVE AskedInv'
    BY <1>4, <1>9, <1>12, GrowFacts
<1>13. ASSUME NEW p \in Threads, GrowFails(p) PROVE AskedInv'
    BY <1>5, <1>13, FailFacts
<1>14. ASSUME NEW p \in Threads, ReadDisk(p) PROVE AskedInv'
    BY <1>4, <1>9, <1>14, ReadFacts
<1>15. ASSUME NEW p \in Threads, SaveDisk(p) \/ SaveBuildDisk(p) PROVE AskedInv'
    BY <1>4, <1>9, <1>15, SaveFacts
<1>16. ASSUME NEW p \in Threads,
              RestartAfterDisk(p) \/ (RestartBuild(p) /\ req[p].pc = "restart")
       PROVE  AskedInv'
    <2>1. \E pcs \in SUBSET DiskPc : Goes(p, pcs)
        BY <1>9, <1>16, RestartFacts
    <2> QED
        BY <1>4, <1>16, <2>1, RestartFacts
<1>17. ASSUME NEW p \in Threads, RereadDisk(p), req[p].v \in Rows PROVE AskedInv'
    BY <1>4, <1>9, <1>17, RereadFacts
<1>18. ASSUME NEW p \in Threads, RereadFails(p) PROVE AskedInv'
    BY <1>4, <1>9, <1>18, RereadFailsFacts
<1>19. ASSUME NEW p \in Threads, AnswerDisk(p) PROVE AskedInv'
    BY <1>5, <1>19, AnswerFacts
<1>20. ASSUME NEW p \in Threads, Crash(p), req[p].pc \in DiskPc PROVE AskedInv'
    BY <1>5, <1>20, CrashFacts
<1>21. ASSUME NEW v \in Targets, Frame({}, v), req' = req, open' = open, asked' = asked
       PROVE  AskedInv'
    <2>1. AskedAt(v)'
        BY <1>21 DEF AskedInv, AskedAt, Held, HeldOpen, DiskOn
    <2> QED
        BY <1>21, <2>1, Staying, AskedElsewhere
<1>22. ASSUME NEW v \in Targets, Land(v) PROVE AskedInv'
    BY <1>21, <1>22, LandFacts
<1>23. ASSUME NEW v \in Rows, TwoMinutes(v) PROVE AskedInv'
    BY <1>21, <1>23, AgeFacts DEF Targets
<1>24. \A p \in Threads : RereadDisk(p) => req[p].v \in Rows
    BY DEF RowsKnown, RereadDisk, At
<1> QED
    BY <1>24, <1>6, <1>7, <1>8, <1>10, <1>11, <1>12, <1>13, <1>14, <1>15, <1>16, <1>17, <1>18, <1>19,
       <1>20, <1>22, <1>23, DiskSteps, AskedStill

LEMMA KnownThread ==
    ASSUME RowsKnown, NEW P \in SUBSET Threads, NEW v \in Targets, Frame(P, v),
           v \in Rows => rows'[v].disk # None,
           \A p \in P : req'[p].pc \in {"check", "reread"} => req'[p].v \in Rows
    PROVE  RowsKnown'
BY DEF RowsKnown, Frame, Targets

LEMMA KnownStep ==
    ASSUME TypeOK, RowsKnown, [Next]_vars
    PROVE  RowsKnown'
<1>1. \A p \in Threads : req[p] \in DiskRequest => req[p].new \in Disk /\ DiskOf(req[p].v) \in Disk
    BY DEF DiskRequest, DiskOf, TypeOK, Config
<1>2. ASSUME NEW p \in Threads, NEW v \in Targets, Frame({p}, v), rows' = rows,
             req'[p] = Idle \/ (Goes(p, {"answer", "grow", "read", "save"}))
      PROVE  RowsKnown'
    BY <1>2, KnownThread DEF Goes, Idle, RowsKnown
<1>3. ASSUME NEW p \in Threads, NEW v \in Targets, NEW by, NEW again,
             Frame({p}, v), rows' = rows, Began(p, v, by, again)
      PROVE  RowsKnown'
    <2>1. req'[p].pc \in {"check", "reread"} => req'[p].v \in Rows
        BY <1>3 DEF Began
    <2>2. (v \in Rows => rows'[v].disk # None) /\ {p} \in SUBSET Threads
        BY <1>3 DEF RowsKnown
    <2>3. Frame({p}, v)
        BY <1>3
    <2> QED
        BY <2>1, <2>2, <2>3, KnownThread
<1>4. ASSUME NEW p \in Threads, SaveDisk(p) \/ SaveBuildDisk(p) PROVE RowsKnown'
    <2>1. /\ Frame({p}, req[p].v) /\ req[p] \in DiskRequest /\ req[p].v \in Targets
          /\ Goes(p, {"restart", "answer"})
          /\ rows'[req[p].v].disk \in {rows[req[p].v].disk, req[p].new}
        BY <1>4, SaveFacts DEF Frame
    <2>2. req'[p].pc \notin {"check", "reread"}
        BY <2>1 DEF Goes
    <2>3. req[p].v \in Rows => rows'[req[p].v].disk # None
        BY <1>1, <2>1, NoneApart DEF RowsKnown
    <2> QED
        BY <2>1, <2>2, <2>3, KnownThread
<1>5. ASSUME NEW p \in Threads,
             RestartAfterDisk(p) \/ (RestartBuild(p) /\ req[p].pc = "restart")
      PROVE  RowsKnown'
    <2>1. /\ Frame({p}, req[p].v) /\ req[p].v \in Targets /\ rows' = rows
          /\ Goes(p, IF req[p].v \in Rows THEN {"reread", "answer"} ELSE {"answer"})
        BY <1>5, RestartFacts DEF Frame
    <2>2. req'[p].pc \in {"check", "reread"} => req'[p].v \in Rows
        BY <2>1 DEF Goes
    <2> QED
        BY <2>1, <2>2, KnownThread DEF RowsKnown
<1>6. ASSUME NEW p \in Threads, RereadDisk(p) PROVE RowsKnown'
    <2>1. req[p].v \in Rows
        BY <1>6 DEF RowsKnown, RereadDisk, At
    <2>2. /\ Frame({p}, req[p].v) /\ req[p] \in DiskRequest /\ Goes(p, {"answer"})
          /\ rows'[req[p].v].disk \in {rows[req[p].v].disk, DiskOf(req[p].v)}
        BY <1>6, <2>1, RereadFacts
    <2>3. rows'[req[p].v].disk # None
        BY <1>1, <2>1, <2>2, NoneApart DEF RowsKnown
    <2> QED
        BY <2>1, <2>2, <2>3, KnownThread DEF Goes, Targets
<1>7. ASSUME NEW v \in Targets, Frame({}, v), rows' = rows PROVE RowsKnown'
    BY <1>7, KnownThread DEF RowsKnown
<1>8. CASE DiskStill
    BY <1>8 DEF DiskStill, RowsKnown, DiskPc, Targets
<1>9. ASSUME NEW p \in Threads, NEW v \in Targets, NEW by \in Steps,
             NEW restart \in BOOLEAN, Ask(p, v, by, restart)
      PROVE  RowsKnown'
    <2>1. Frame({p}, v) /\ Began(p, v, by, FALSE) /\ rows' = rows
        BY <1>9, AskFacts
    <2> QED
        BY <1>3, <2>1
<1>10. ASSUME NEW p \in Threads, NEW v \in Targets, RepeatDisk(p, v) PROVE RowsKnown'
    <2>1. Frame({p}, v) /\ Began(p, v, open[v].by, TRUE) /\ rows' = rows
        BY <1>10, RepeatFacts
    <2> QED
        BY <1>3, <2>1
<1>11. ASSUME NEW p \in Threads,
              \/ QuotaRefuses(p) \/ AlreadyResized(p) \/ CheckDisk(p) \/ GrowDisk(p)
              \/ GrowFails(p) \/ ReadDisk(p) \/ RereadFails(p) \/ AnswerDisk(p)
              \/ Crash(p) /\ req[p].pc \in DiskPc
       PROVE  RowsKnown'
    <2>1. /\ Frame({p}, req[p].v) /\ req[p].v \in Targets /\ rows' = rows
          /\ req'[p] = Idle \/ Goes(p, {"answer"}) \/ Goes(p, {"grow"})
             \/ Goes(p, {"read"}) \/ Goes(p, {"save"})
        <3>1. CASE QuotaRefuses(p)
            BY <3>1, RefuseFacts DEF Frame
        <3>2. CASE AlreadyResized(p)
            BY <3>2, AlreadyFacts DEF Frame
        <3>3. CASE CheckDisk(p)
            BY <3>3, CheckFacts DEF Frame
        <3>4. CASE GrowDisk(p)
            BY <3>4, GrowFacts DEF Frame
        <3>5. CASE GrowFails(p)
            BY <3>5, FailFacts DEF Frame
        <3>6. CASE ReadDisk(p)
            BY <3>6, ReadFacts DEF Frame
        <3>7. CASE RereadFails(p)
            BY <3>7, RereadFailsFacts DEF Frame
        <3>8. CASE AnswerDisk(p)
            BY <3>8, AnswerFacts DEF Frame
        <3>9. CASE Crash(p)
            BY <3>9, CrashFacts DEF Frame
        <3> QED
            BY <1>11, <3>1, <3>2, <3>3, <3>4, <3>5, <3>6, <3>7, <3>8, <3>9
    <2>2. req'[p] = Idle \/ Goes(p, {"answer", "grow", "read", "save"})
        BY <2>1 DEF Goes
    <2> QED
        BY <1>2, <2>1, <2>2
<1>12. ASSUME NEW v \in Targets, Land(v) PROVE RowsKnown'
    BY <1>7, <1>12, LandFacts
<1>13. ASSUME NEW v \in Rows, TwoMinutes(v) PROVE RowsKnown'
    BY <1>7, <1>13, AgeFacts DEF Targets
<1> QED
    BY <1>4, <1>5, <1>6, <1>8, <1>9, <1>10, <1>11, <1>12, <1>13, DiskSteps

-----------------------------------------------------------------------------
(* What the answers say (AnsweredInv).                                     *)

ShownNext(v, by) ==
    /\ v \in Rows
    /\ last'[v] # None /\ last'[v].new = last'[v].prev + by /\ last'[v].by = by
CreditNext(v) ==
    [q \in Threads |->
        IF DiskOn(q, v)' /\ (Past(q)' \/ (Retrying(q)' /\ ShownNext(v, req'[q].by)))
        THEN req'[q].by ELSE 0]
CreditOpenNext(v) ==
    IF open'[v] # None /\ ShownNext(v, open'[v].by) THEN open'[v].by ELSE 0

LEMMA CreditTyped ==
    ASSUME TypeOK, NEW v \in Targets
    PROVE  /\ Credit(v) \in [Threads -> Nat] /\ Total(Credit(v)) \in Nat
           /\ CreditOpen(v) \in Nat
           /\ open[v] # None => open[v].by \in Nat /\ open[v].by > 0
           /\ owed[v] \in Nat /\ DiskOf(v) \in Nat /\ late[v] \in Nat
           /\ \A p \in Threads : DiskOn(p, v) => req[p].by \in Nat /\ req[p].by > 0
<1>1. \A p \in Threads : DiskOn(p, v) => req[p].by \in Nat /\ req[p].by > 0
    BY HeldTyped
<1>2. Credit(v) \in [Threads -> Nat]
    BY <1>1 DEF Credit
<1>3. Total(Credit(v)) \in Nat
    <2> DEFINE f == Credit(v)
    <2>1. f \in [Threads -> Nat] /\ IsFiniteSet(Threads)
        BY <1>2, SizesAssumption
    <2> HIDE DEF f
    <2>2. Total(f) \in Nat
        BY <2>1, TotalTyped
    <2> QED
        BY <2>2 DEF f
<1>4. open[v] # None => open[v].by \in Nat /\ open[v].by > 0
    BY HeldTyped
<1> QED
    BY <1>1, <1>2, <1>3, <1>4 DEF CreditOpen, TypeOK, Disk, DiskOf, Config

LEMMA CreditPrimed ==
    ASSUME NEW v
    PROVE  /\ Credit(v)' = CreditNext(v) /\ CreditOpen(v)' = CreditOpenNext(v)
           /\ \A by : Shown(v, by)' <=> ShownNext(v, by)
BY DEF Credit, CreditNext, CreditOpen, CreditOpenNext, Shown, ShownNext, DoneBefore

LEMMA CreditNextTyped ==
    ASSUME TypeOK', NEW v \in Targets
    PROVE  /\ CreditNext(v) \in [Threads -> Nat]
           /\ CreditOpenNext(v) \in Nat
           /\ owed'[v] \in Nat /\ pve'[v].cfg.disk \in Nat /\ late'[v] \in Nat
<1>1. \A p \in Threads : DiskOn(p, v)' => req'[p].by \in Nat
    BY ShapesNext, Amounts DEF DiskOn, DiskRequest
<1>2. open'[v] # None => open'[v].by \in Nat
    BY Amounts DEF TypeOK, Intent
<1> QED
    BY <1>1, <1>2 DEF CreditNext, CreditOpenNext, TypeOK, Disk, Config

\* No record begins to show the growth of a request that P does not serve.
NoneShown(P, v) ==
    \A q \in Threads \ P : DiskOn(q, v) /\ ShownNext(v, req[q].by) => Shown(v, req[q].by)

LEMMA CreditMoves ==
    ASSUME TypeOK, TypeOK', NEW p \in Threads, NEW v \in Targets, Frame({p}, v),
           NoneShown({p}, v)
    PROVE  /\ Total(Credit(v)') + Credit(v)[p] <= Total(Credit(v)) + CreditNext(v)[p]
           /\ Total(Credit(v)') \in Nat
           /\ Credit(v)[p] \in Nat /\ CreditNext(v)[p] \in Nat
<1>1. Credit(v) \in [Threads -> Nat] /\ CreditNext(v) \in [Threads -> Nat]
    BY CreditTyped, CreditNextTyped
<1>2. \A q \in Threads \ {p} : CreditNext(v)[q] <= Credit(v)[q]
    <2> TAKE q \in Threads \ {p}
    <2>1. req'[q] = req[q]
        BY DEF Frame
    <2>2. DiskOn(q, v) => req[q].by \in Nat /\ req[q].by > 0
        BY CreditTyped
    <2>3. DiskOn(q, v) /\ ShownNext(v, req[q].by) => Shown(v, req[q].by)
        BY DEF NoneShown
    <2> QED
        BY <2>1, <2>2, <2>3 DEF Credit, CreditNext, DiskOn, Past, Retrying
<1> QED
  <2> DEFINE f == Credit(v)
             g == CreditNext(v)
  <2>1. f \in [Threads -> Nat] /\ g \in [Threads -> Nat] /\ \A q \in Threads \ {p} : g[q] <= f[q]
    BY <1>1, <1>2
  <2>2. IsFiniteSet(Threads)
    BY SizesAssumption
  <2> HIDE DEF f, g
  <2>3. Total(g) + f[p] <= Total(f) + g[p] /\ Total(g) \in Nat
    BY <2>1, <2>2, TotalMove, TotalTyped
  <2> QED
    BY <2>1, <2>3, CreditPrimed DEF f, g

LEMMA CreditFewer ==
    ASSUME TypeOK, TypeOK', NEW v \in Targets, req' = req, NoneShown({}, v)
    PROVE  Total(Credit(v)') <= Total(Credit(v)) /\ Total(Credit(v)') \in Nat
<1>1. Credit(v) \in [Threads -> Nat] /\ CreditNext(v) \in [Threads -> Nat]
    BY CreditTyped, CreditNextTyped
<1>2. \A q \in Threads : CreditNext(v)[q] <= Credit(v)[q]
    <2> TAKE q \in Threads
    <2>1. DiskOn(q, v) => req[q].by \in Nat /\ req[q].by > 0
        BY CreditTyped
    <2>2. DiskOn(q, v) /\ ShownNext(v, req[q].by) => Shown(v, req[q].by)
        BY DEF NoneShown
    <2> QED
        BY <2>1, <2>2 DEF Credit, CreditNext, DiskOn, Past, Retrying
<1> QED
  <2> DEFINE f == Credit(v)
             g == CreditNext(v)
  <2>1. f \in [Threads -> Nat] /\ g \in [Threads -> Nat] /\ \A q \in Threads : g[q] <= f[q]
    BY <1>1, <1>2
  <2>2. IsFiniteSet(Threads)
    BY SizesAssumption
  <2> HIDE DEF f, g
  <2>3. Total(g) <= Total(f) /\ Total(g) \in Nat
    BY <2>1, <2>2, TotalFewer, TotalTyped
  <2> QED
    BY <2>3, CreditPrimed DEF f, g

LEMMA AnsweredInit == TypeOK /\ Init => AnsweredInv
<1> SUFFICES ASSUME TypeOK, Init, NEW v \in Targets PROVE Backed(v) /\ Apart(v) /\ Fresh(v)
    BY DEF AnsweredInv, AnsweredAt
<1>1. \A p \in Threads : ~DiskOn(p, v)
    BY DEF Init, DiskOn, Idle, DiskPc
<1>2. Credit(v) = [p \in Threads |-> 0]
    BY <1>1 DEF Credit
<1>3. Total(Credit(v)) = 0
    BY <1>2, TotalZero
<1>4. CreditOpen(v) = 0 /\ owed[v] = Start /\ late[v] = 0 /\ DiskOf(v) = Start
    BY DEF Init, CreditOpen, DiskOf
<1> QED
    BY <1>1, <1>3, <1>4 DEF Backed, Apart, Fresh, Start

LEMMA AnsweredStill ==
    ASSUME TypeOK, AnsweredInv, DiskStill
    PROVE  AnsweredInv'
<1> SUFFICES ASSUME NEW v \in Targets, Free(v, {"twice", "mistaken"})'
             PROVE  (Backed(v) /\ Apart(v) /\ Fresh(v))'
    BY DEF AnsweredInv, AnsweredAt
<1>1. Backed(v) /\ Apart(v) /\ Fresh(v)
    BY DEF AnsweredInv, AnsweredAt, Free, DiskStill
<1>2. \A by : Shown(v, by)' <=> Shown(v, by)
    BY DEF DiskStill, Shown, DoneBefore
<1>3. Credit(v)' = Credit(v)
    BY <1>2, FinallyStill DEF Credit, Past, Retrying
<1>4. CreditOpen(v)' = CreditOpen(v)
    BY <1>2 DEF CreditOpen, DiskStill
<1>5. Backed(v)'
    <2>1. Total(Credit(v))' = Total(Credit(v))
        BY <1>3
    <2>2. DiskOf(v)' = DiskOf(v) /\ late'[v] = late[v] /\ owed'[v] = owed[v]
        BY DEF DiskStill, DiskOf
    <2> QED
        BY <1>1, <1>4, <2>1, <2>2 DEF Backed
<1>6. Apart(v)'
    BY <1>1, FinallyStill DEF Apart, DiskStill
<1>7. Fresh(v)'
    BY <1>1, <1>2, FinallyStill DEF Fresh, Ahead
<1> QED
    BY <1>5, <1>6, <1>7

LEMMA AnsweredElsewhere ==
    ASSUME AnsweredInv, NEW v \in Targets, NEW P, Frame(P, v), Stays(v), AnsweredAt(v)'
    PROVE  AnsweredInv'
<1> SUFFICES ASSUME NEW w \in Targets \ {v}, Free(w, {"twice", "mistaken"})'
             PROVE  (Backed(w) /\ Apart(w) /\ Fresh(w))'
    BY DEF AnsweredInv, AnsweredAt
<1>1. Backed(w) /\ Apart(w) /\ Fresh(w)
    BY DEF AnsweredInv, AnsweredAt, Free, Frame
<1>2. \A by : Shown(w, by)' <=> Shown(w, by)
    BY DEF Frame, Shown, DoneBefore
<1>3. Credit(w)' = Credit(w)
    BY <1>2, Elsewhere DEF Credit, Past, Retrying
<1>4. CreditOpen(w)' = CreditOpen(w)
    BY <1>2 DEF CreditOpen, Frame
<1>5. Backed(w)'
    <2>1. Total(Credit(w))' = Total(Credit(w))
        BY <1>3
    <2>2. DiskOf(w)' = DiskOf(w) /\ late'[w] = late[w] /\ owed'[w] = owed[w]
        BY DEF Frame, DiskOf
    <2> QED
        BY <1>1, <1>4, <2>1, <2>2 DEF Backed
<1>6. Apart(w)'
    BY <1>1, Elsewhere DEF Apart, Frame
<1>7. Fresh(w)'
    BY <1>1, <1>2, Elsewhere DEF Fresh, Ahead
<1> QED
    BY <1>5, <1>6, <1>7

\* The thread p keeps what AnsweredAt says of v.
Continues(p, v) ==
    /\ NoneShown({p}, v)
    /\ owed'[v] + CreditNext(v)[p] + CreditOpenNext(v) + DiskOf(v) + late[v]
          <= owed[v] + Credit(v)[p] + CreditOpen(v) + pve'[v].cfg.disk + late'[v]
    /\ \A q \in Threads \ {p} : DiskOn(q, v) /\ DiskOn(p, v)' => req[q].by # req'[p].by
    /\ open'[v] # None => \A q \in Threads : DiskOn(q, v)' => req'[q].by # open'[v].by
    /\ DiskOn(p, v)' /\ Ahead(p)' => ~ShownNext(v, req'[p].by)

LEMMA AnsweredThread ==
    ASSUME TypeOK, TypeOK', AnsweredInv, NEW p \in Threads, NEW v \in Targets,
           Frame({p}, v), With(p, v),
           Free(v, {"twice", "mistaken"})' /\ Backed(v) /\ Apart(v) /\ Fresh(v)
              => Continues(p, v)
    PROVE  AnsweredInv'
<1>1. SUFFICES AnsweredAt(v)'
    BY <1>1, AnsweredElsewhere, Staying
<1> SUFFICES ASSUME Free(v, {"twice", "mistaken"})' PROVE (Backed(v) /\ Apart(v) /\ Fresh(v))'
    BY DEF AnsweredAt
<1>2. Backed(v) /\ Apart(v) /\ Fresh(v)
    BY DEF AnsweredInv, AnsweredAt, Free, Frame
<1>3. Continues(p, v)
    BY <1>2
<1>4. \A q \in Threads \ {p} : req'[q] = req[q] /\ (DiskOn(q, v)' <=> DiskOn(q, v))
    BY DEF Frame, DiskOn
<1>5. Backed(v)'
    <2>1. /\ Total(Credit(v)') + Credit(v)[p] <= Total(Credit(v)) + CreditNext(v)[p]
          /\ Total(Credit(v)') \in Nat
          /\ Credit(v)[p] \in Nat /\ CreditNext(v)[p] \in Nat
        BY <1>3, CreditMoves DEF Continues
    <2>2. /\ Total(Credit(v)) \in Nat /\ CreditOpen(v) \in Nat
          /\ owed[v] \in Nat /\ DiskOf(v) \in Nat /\ late[v] \in Nat
        BY CreditTyped
    <2>3. CreditOpenNext(v) \in Nat /\ owed'[v] \in Nat /\ pve'[v].cfg.disk \in Nat /\ late'[v] \in Nat
        BY CreditNextTyped
    <2>4. owed[v] + Total(Credit(v)) + CreditOpen(v) <= DiskOf(v) + late[v]
        BY <1>2 DEF Backed
    <2>5. owed'[v] + CreditNext(v)[p] + CreditOpenNext(v) + DiskOf(v) + late[v]
            <= owed[v] + Credit(v)[p] + CreditOpen(v) + pve'[v].cfg.disk + late'[v]
        BY <1>3 DEF Continues
    <2>6. owed'[v] + Total(Credit(v)') + CreditOpenNext(v) <= pve'[v].cfg.disk + late'[v]
        BY <2>1, <2>2, <2>3, <2>4, <2>5
    <2>7. CreditOpen(v)' = CreditOpenNext(v)
        BY CreditPrimed
    <2> QED
        BY <2>6, <2>7 DEF Backed, DiskOf
<1>6. Apart(v)'
    BY <1>2, <1>3, <1>4 DEF Apart, Continues
<1>7. Fresh(v)'
    <2> SUFFICES ASSUME NEW q \in Threads, DiskOn(q, v)', Ahead(q)' PROVE ~ShownNext(v, req'[q].by)
        BY CreditPrimed DEF Fresh
    <2>1. CASE q = p
        BY <1>3, <2>1 DEF Continues
    <2>2. CASE q # p
        <3>1. DiskOn(q, v) /\ Ahead(q) /\ req'[q] = req[q]
            BY <1>4, <2>2 DEF Ahead
        <3> QED
            BY <1>2, <1>3, <2>2, <3>1 DEF Fresh, Continues, NoneShown
    <2> QED
        BY <2>1, <2>2
<1> QED
    BY <1>5, <1>6, <1>7

\* A step that records and promises nothing.
LEMMA AnsweredPlain ==
    ASSUME TypeOK, TypeOK', AnsweredInv, NEW p \in Threads, NEW v \in Targets,
           Frame({p}, v), With(p, v), DiskOn(p, v),
           last' = last, open' = open, owed' = owed,
           req'[p] = Idle \/ Goes(p, DiskPc),
           Free(v, {"twice", "mistaken"})' /\ Fresh(v) =>
              /\ req'[p] # Idle /\ Ahead(p)' => ~Shown(v, req[p].by)
              /\ CreditNext(v)[p] + DiskOf(v) + late[v]
                    <= Credit(v)[p] + pve'[v].cfg.disk + late'[v]
    PROVE  AnsweredInv'
<1> SUFFICES ASSUME Free(v, {"twice", "mistaken"})', Backed(v), Apart(v), Fresh(v)
             PROVE  Continues(p, v)
    BY AnsweredThread
<1>1. \A by : ShownNext(v, by) <=> Shown(v, by)
    BY DEF ShownNext, Shown, DoneBefore
<1>2. CreditOpenNext(v) = CreditOpen(v)
    BY <1>1 DEF CreditOpenNext, CreditOpen
<1>3. Idle.pc \notin DiskPc
    BY DEF Idle, DiskPc
<1>4. DiskOn(p, v)' => req'[p] # Idle /\ req'[p].by = req[p].by
    BY <1>3 DEF DiskOn, Goes
<1>5. \A q \in Threads \ {p} : req'[q] = req[q]
    BY DEF Frame
<1>6. owed'[v] + CreditNext(v)[p] + CreditOpenNext(v) + DiskOf(v) + late[v]
        <= owed[v] + Credit(v)[p] + CreditOpen(v) + pve'[v].cfg.disk + late'[v]
    <2>1. Credit(v)[p] \in Nat /\ CreditNext(v)[p] \in Nat /\ CreditOpen(v) \in Nat
          /\ owed[v] \in Nat /\ DiskOf(v) \in Nat /\ late[v] \in Nat
          /\ pve'[v].cfg.disk \in Nat /\ late'[v] \in Nat
        BY CreditTyped, CreditNextTyped
    <2>2. CreditNext(v)[p] + DiskOf(v) + late[v] <= Credit(v)[p] + pve'[v].cfg.disk + late'[v]
        OBVIOUS
    <2> QED
        BY <1>2, <2>1, <2>2
<1>7. NoneShown({p}, v)
    BY <1>1 DEF NoneShown
<1>8. \A q \in Threads \ {p} : DiskOn(q, v) /\ DiskOn(p, v)' => req[q].by # req'[p].by
    BY <1>4 DEF Apart
<1>9. open'[v] # None => \A q \in Threads : DiskOn(q, v)' => req'[q].by # open'[v].by
    BY <1>4, <1>5 DEF Apart, DiskOn
<1>10. DiskOn(p, v)' /\ Ahead(p)' => ~ShownNext(v, req'[p].by)
    BY <1>1, <1>4
<1> QED
    BY <1>6, <1>7, <1>8, <1>9, <1>10 DEF Continues

\* What p counts for.
LEMMA Credited ==
    ASSUME NEW p \in Threads, NEW v
    PROVE  /\ Credit(v)[p] = IF DiskOn(p, v) /\ (Past(p) \/ (Retrying(p) /\ Shown(v, req[p].by)))
                             THEN req[p].by ELSE 0
           /\ CreditNext(v)[p] =
                IF DiskOn(p, v)' /\ (Past(p)' \/ (Retrying(p)' /\ ShownNext(v, req'[p].by)))
                THEN req'[p].by ELSE 0
           /\ req'[p] = Idle => CreditNext(v)[p] = 0 /\ ~DiskOn(p, v)'
           /\ req[p] = Idle => Credit(v)[p] = 0 /\ ~DiskOn(p, v)
<1>1. Idle.pc \notin DiskPc
    BY DEF Idle, DiskPc
<1> QED
    BY <1>1 DEF Credit, CreditNext, DiskOn

LEMMA AnsweredAsk ==
    ASSUME TypeOK, TypeOK', AnsweredInv, NEW p \in Threads, NEW v \in Targets,
           NEW by \in Steps, NEW restart \in BOOLEAN, Ask(p, v, by, restart)
    PROVE  AnsweredInv'
<1>1. /\ Frame({p}, v) /\ With(p, v) /\ req[p] = Idle /\ Began(p, v, by, FALSE)
      /\ UNCHANGED <<rows, pve, late, last, open, owed>>
      /\ Again(v, by) => "twice" \in marks'[v]
    BY AskFacts
<1> SUFFICES ASSUME Free(v, {"twice", "mistaken"})', Backed(v), Apart(v), Fresh(v)
             PROVE  Continues(p, v)
    BY <1>1, AnsweredThread
<1>2. ~Again(v, by)
    BY <1>1 DEF Free
<1>3. \A b : ShownNext(v, b) <=> Shown(v, b)
    BY <1>1 DEF ShownNext, Shown, DoneBefore
<1>4. CreditOpenNext(v) = CreditOpen(v)
    BY <1>1, <1>3 DEF CreditOpenNext, CreditOpen
<1>5. req'[p].by = by /\ ~Past(p)' /\ ~Retrying(p)'
    BY <1>1 DEF Began, Past, Retrying
<1>6. Credit(v)[p] = 0 /\ CreditNext(v)[p] = 0
    BY <1>1, <1>5, Credited
<1>7. \A q \in Threads : DiskOn(q, v) => req[q].by # by
    BY <1>2 DEF Again, DiskBy, DiskOn
<1>8. open[v] # None => open[v].by # by
    BY <1>2 DEF Again
<1>9. ~Shown(v, by)
    BY <1>2 DEF Again, Shown
<1>10. \A q \in Threads \ {p} : req'[q] = req[q]
    BY <1>1 DEF Frame
<1>11. owed'[v] + CreditNext(v)[p] + CreditOpenNext(v) + DiskOf(v) + late[v]
         <= owed[v] + Credit(v)[p] + CreditOpen(v) + pve'[v].cfg.disk + late'[v]
    <2>1. /\ CreditOpen(v) \in Nat /\ owed[v] \in Nat /\ DiskOf(v) \in Nat /\ late[v] \in Nat
          /\ owed'[v] = owed[v] /\ pve'[v].cfg.disk = DiskOf(v) /\ late'[v] = late[v]
        BY <1>1, CreditTyped DEF DiskOf
    <2> QED
        BY <1>4, <1>6, <2>1
<1>12. open'[v] # None => \A q \in Threads : DiskOn(q, v)' => req'[q].by # open'[v].by
    BY <1>1, <1>5, <1>8, <1>10 DEF Apart, DiskOn
<1> QED
    BY <1>3, <1>5, <1>7, <1>9, <1>11, <1>12 DEF Continues, NoneShown

LEMMA AnsweredRepeat ==
    ASSUME TypeOK, TypeOK', AnsweredInv, NEW p \in Threads, NEW v \in Targets, RepeatDisk(p, v)
    PROVE  AnsweredInv'
<1>1. /\ Frame({p}, v) /\ With(p, v) /\ req[p] = Idle /\ open[v] # None
      /\ Began(p, v, open[v].by, TRUE) /\ open'[v] = None
      /\ UNCHANGED <<rows, pve, late, last, asked, owed>>
    BY RepeatFacts
<1> SUFFICES ASSUME Free(v, {"twice", "mistaken"})', Backed(v), Apart(v), Fresh(v)
             PROVE  Continues(p, v)
    BY <1>1, AnsweredThread
<1>3. \A b : ShownNext(v, b) <=> Shown(v, b)
    BY <1>1 DEF ShownNext, Shown, DoneBefore
<1>4. CreditOpenNext(v) = 0
    BY <1>1 DEF CreditOpenNext
<1>5. /\ req'[p].by = open[v].by /\ ~Past(p)' /\ req'[p].again
      /\ Retrying(p)' <=> v \in Rows
    BY <1>1 DEF Began, Past, Retrying
<1>6. Credit(v)[p] = 0 /\ CreditNext(v)[p] <= CreditOpen(v)
    <2>1. open[v].by \in Nat
        BY <1>1, CreditTyped
    <2> QED
        BY <1>1, <1>3, <1>5, <2>1, Credited DEF CreditOpen
<1>11. owed'[v] + CreditNext(v)[p] + CreditOpenNext(v) + DiskOf(v) + late[v]
         <= owed[v] + Credit(v)[p] + CreditOpen(v) + pve'[v].cfg.disk + late'[v]
    <2>1. /\ CreditOpen(v) \in Nat /\ owed[v] \in Nat /\ DiskOf(v) \in Nat /\ late[v] \in Nat
          /\ CreditNext(v)[p] \in Nat
          /\ owed'[v] = owed[v] /\ pve'[v].cfg.disk = DiskOf(v) /\ late'[v] = late[v]
        BY <1>1, CreditTyped, CreditNextTyped DEF DiskOf
    <2> QED
        BY <1>4, <1>6, <2>1
<1>12. \A q \in Threads \ {p} : DiskOn(q, v) /\ DiskOn(p, v)' => req[q].by # req'[p].by
    BY <1>1, <1>5 DEF Apart
<1>13. Ahead(p)' => ~ShownNext(v, req'[p].by)
    BY <1>1, <1>5 DEF Ahead, Began, ShownNext
<1> QED
    BY <1>1, <1>3, <1>11, <1>12, <1>13 DEF Continues, NoneShown

\* The steps that AnsweredPlain covers.
LEMMA AnsweredCheck ==
    ASSUME TypeOK, TypeOK', RowsKnown, AnsweredInv, NEW p \in Threads,
           QuotaRefuses(p) \/ AlreadyResized(p) \/ CheckDisk(p)
    PROVE  AnsweredInv'
<1> SUFFICES ASSUME NEW v \in Targets, v = req[p].v PROVE AnsweredInv'
    BY RefuseFacts, AlreadyFacts, CheckFacts DEF Frame
<1>1. /\ Frame({p}, v) /\ With(p, v) /\ req[p].pc = "check"
      /\ UNCHANGED <<pve, late, last, open, owed>>
    BY RefuseFacts, AlreadyFacts, CheckFacts
<1>2. DiskOn(p, v) /\ v \in Rows
    BY <1>1 DEF DiskOn, DiskPc, RowsKnown
<1>3. DiskOf(v) \in Nat /\ late[v] \in Nat /\ pve'[v].cfg.disk = DiskOf(v) /\ late'[v] = late[v]
      /\ req[p].by \in Nat /\ Credit(v)[p] \in Nat
    BY <1>1, <1>2, CreditTyped DEF DiskOf
<1>4. CASE QuotaRefuses(p)
    <2>1. req'[p] = Idle
        BY <1>4, RefuseFacts
    <2>2. CreditNext(v)[p] + DiskOf(v) + late[v] <= Credit(v)[p] + pve'[v].cfg.disk + late'[v]
        BY <1>3, <2>1, Credited
    <2> QED
        BY <1>1, <1>2, <2>1, <2>2, AnsweredPlain
<1>5. CASE AlreadyResized(p)
    <2>1. /\ Goes(p, {"answer"}) /\ DoneBefore(v, req[p].by)
          /\ \/ "twice" \in marks'[v] \/ "mistaken" \in marks'[v]
             \/ req[p].again /\ last[v].by = req[p].by
        BY <1>5, AlreadyFacts
    <2>2. Goes(p, DiskPc) /\ req'[p].by = req[p].by /\ ~Ahead(p)'
        BY <2>1 DEF Goes, DiskPc, Ahead
    <2>3. ASSUME Free(v, {"twice", "mistaken"})'
          PROVE  CreditNext(v)[p] + DiskOf(v) + late[v] <= Credit(v)[p] + pve'[v].cfg.disk + late'[v]
        <3>1. req[p].again /\ last[v].by = req[p].by
            BY <2>1, <2>3 DEF Free
        <3>2. Retrying(p) /\ Shown(v, req[p].by)
            BY <1>1, <1>2, <2>1, <3>1 DEF Retrying, Shown
        <3>3. Credit(v)[p] = req[p].by /\ CreditNext(v)[p] \in {0, req[p].by}
            BY <1>2, <2>2, <3>2, Credited
        <3> QED
            BY <1>3, <3>3
    <2> QED
        BY <1>1, <1>2, <2>2, <2>3, AnsweredPlain
<1>6. CASE CheckDisk(p)
    <2>1. Goes(p, {"grow"}) /\ ~DoneBefore(v, req[p].by)
        BY <1>6, CheckFacts
    <2>2. Goes(p, DiskPc) /\ ~Past(p)' /\ ~Retrying(p)' /\ ~Shown(v, req[p].by)
        BY <2>1 DEF Goes, DiskPc, Past, Retrying, Shown
    <2>3. CreditNext(v)[p] + DiskOf(v) + late[v] <= Credit(v)[p] + pve'[v].cfg.disk + late'[v]
        BY <1>3, <2>2, Credited
    <2> QED
        BY <1>1, <1>2, <2>2, <2>3, AnsweredPlain
<1> QED
    BY <1>4, <1>5, <1>6

LEMMA AnsweredGrow ==
    ASSUME TypeOK, TypeOK', AnsweredInv, NEW p \in Threads, GrowDisk(p)
    PROVE  AnsweredInv'
<1> SUFFICES ASSUME NEW v \in Targets, v = req[p].v PROVE AnsweredInv'
    BY GrowFacts DEF Frame
<1>1. /\ Frame({p}, v) /\ With(p, v) /\ req[p].pc = "grow" /\ Goes(p, {"read"})
      /\ UNCHANGED <<last, open, owed>>
      /\ \/ pve'[v].cfg.disk = DiskOf(v) + req[p].by /\ late' = late
         \/ pve' = pve /\ late'[v] = late[v] + req[p].by
    BY GrowFacts
<1>2. DiskOn(p, v) /\ ~Past(p) /\ ~Retrying(p)
    BY <1>1 DEF DiskOn, DiskPc, Past, Retrying
<1>3. Goes(p, DiskPc) /\ ~Ahead(p)' /\ req'[p].by = req[p].by
    BY <1>1 DEF Goes, DiskPc, Ahead
<1>4. CreditNext(v)[p] + DiskOf(v) + late[v] <= Credit(v)[p] + pve'[v].cfg.disk + late'[v]
    <2>1. Credit(v)[p] = 0 /\ CreditNext(v)[p] \in {0, req[p].by}
        BY <1>2, <1>3, Credited
    <2>2. DiskOf(v) \in Nat /\ late[v] \in Nat /\ req[p].by \in Nat
        BY <1>2, CreditTyped
    <2> QED
        BY <1>1, <2>1, <2>2 DEF DiskOf
<1> QED
    BY <1>1, <1>2, <1>3, <1>4, AnsweredPlain

LEMMA AnsweredPast ==
    ASSUME TypeOK, TypeOK', AnsweredInv, NEW p \in Threads,
           \/ ReadDisk(p) \/ RereadFails(p) \/ RestartAfterDisk(p)
           \/ RestartBuild(p) /\ req[p].pc = "restart"
    PROVE  AnsweredInv'
<1> SUFFICES ASSUME NEW v \in Targets, v = req[p].v PROVE AnsweredInv'
    BY ReadFacts, RereadFailsFacts, RestartFacts DEF Frame
<1>1. /\ Frame({p}, v) /\ With(p, v) /\ req[p].pc \in {"read", "reread", "restart"}
      /\ Goes(p, {"save"}) \/ Goes(p, {"answer"}) \/ Goes(p, {"reread", "answer"})
      /\ UNCHANGED <<late, last, open, owed>> /\ pve'[v].cfg = pve[v].cfg
    BY ReadFacts, RereadFailsFacts, RestartFacts
<1>2. DiskOn(p, v) /\ Past(p)
    BY <1>1 DEF DiskOn, DiskPc, Past
<1>3. Goes(p, DiskPc) /\ ~Ahead(p)' /\ req'[p].by = req[p].by
    BY <1>1 DEF Goes, DiskPc, Ahead
<1>4. CreditNext(v)[p] + DiskOf(v) + late[v] <= Credit(v)[p] + pve'[v].cfg.disk + late'[v]
    <2>1. Credit(v)[p] = req[p].by /\ CreditNext(v)[p] \in {0, req[p].by}
        BY <1>2, <1>3, Credited
    <2>2. DiskOf(v) \in Nat /\ late[v] \in Nat /\ req[p].by \in Nat
        BY <1>2, CreditTyped
    <2> QED
        BY <1>1, <2>1, <2>2 DEF DiskOf
<1> QED
    BY <1>1, <1>2, <1>3, <1>4, AnsweredPlain

LEMMA AnsweredFail ==
    ASSUME TypeOK, TypeOK', AnsweredInv, NEW p \in Threads,
           \/ GrowFails(p) \/ AnswerDisk(p) \/ (Crash(p) /\ req[p].pc \in DiskPc)
    PROVE  AnsweredInv'
<1> SUFFICES ASSUME NEW v \in Targets, v = req[p].v PROVE AnsweredInv'
    BY FailFacts, AnswerFacts, CrashFacts DEF Frame
<1> DEFINE by == req[p].by
<1>1. /\ Frame({p}, v) /\ With(p, v) /\ req'[p] = Idle /\ req[p].pc \in DiskPc
      /\ UNCHANGED <<last, late>>
    BY FailFacts, AnswerFacts, CrashFacts DEF DiskPc
<1>2. DiskOn(p, v)
    BY <1>1 DEF DiskOn
<1>3. \/ /\ req[p].pc = "answer" /\ pve' = pve
         /\ owed'[v] = owed[v] + by /\ open' = open
      \/ /\ owed'[v] = owed[v] /\ open'[v] # None /\ open'[v].by = by
         /\ pve'[v].cfg.disk \in {DiskOf(v), DiskOf(v) + by}
    <2>1. CASE GrowFails(p)
        BY <2>1, FailFacts DEF DiskOf
    <2>2. CASE AnswerDisk(p)
        BY <2>2, AnswerFacts DEF DiskOf
    <2>3. CASE Crash(p)
        BY <1>1, <2>3, CrashFacts DEF DiskOf
    <2> QED
        BY <2>1, <2>2, <2>3
<1> SUFFICES ASSUME Free(v, {"twice", "mistaken"})', Backed(v), Apart(v), Fresh(v)
             PROVE  Continues(p, v)
    BY <1>1, AnsweredThread
<1>4. \A b : ShownNext(v, b) <=> Shown(v, b)
    BY <1>1 DEF ShownNext, Shown, DoneBefore
<1>5. CreditNext(v)[p] = 0 /\ ~DiskOn(p, v)'
    BY <1>1, Credited
<1>6. /\ CreditOpen(v) \in Nat /\ owed[v] \in Nat /\ DiskOf(v) \in Nat /\ late[v] \in Nat
      /\ by \in Nat /\ Credit(v)[p] \in {0, by} /\ late'[v] = late[v]
    BY <1>1, <1>2, CreditTyped, Credited
<1>7. Shown(v, by) => Credit(v)[p] = by
    <2> SUFFICES ASSUME Shown(v, by) PROVE Credit(v)[p] = by
        OBVIOUS
    <2>1. ~Ahead(p)
        BY <1>2 DEF Fresh
    <2>2. Past(p) \/ Retrying(p)
        BY <1>1, <2>1 DEF Ahead, Past, Retrying, DiskPc
    <2> QED
        BY <1>2, <2>2, Credited
<1>8. owed'[v] + CreditNext(v)[p] + CreditOpenNext(v) + DiskOf(v) + late[v]
        <= owed[v] + Credit(v)[p] + CreditOpen(v) + pve'[v].cfg.disk + late'[v]
    <2>1. CASE req[p].pc = "answer" /\ pve' = pve /\ owed'[v] = owed[v] + by /\ open' = open
        <3>1. CreditOpenNext(v) = CreditOpen(v)
            BY <1>4, <2>1 DEF CreditOpenNext, CreditOpen
        <3>2. Credit(v)[p] = by
            BY <1>2, <2>1, Credited DEF Past
        <3> QED
            BY <1>5, <1>6, <2>1, <3>1, <3>2 DEF DiskOf
    <2>2. CASE /\ owed'[v] = owed[v] /\ open'[v] # None /\ open'[v].by = by
               /\ pve'[v].cfg.disk \in {DiskOf(v), DiskOf(v) + by}
        <3>1. CreditOpenNext(v) = IF Shown(v, by) THEN by ELSE 0
            BY <1>4, <2>2 DEF CreditOpenNext
        <3>2. CreditOpenNext(v) <= Credit(v)[p] /\ CreditOpenNext(v) \in Nat
            BY <1>6, <1>7, <3>1
        <3>3. DiskOf(v) <= pve'[v].cfg.disk /\ pve'[v].cfg.disk \in Nat
            BY <1>6, <2>2
        <3> HIDE DEF by
        <3> QED
            BY <1>5, <1>6, <2>2, <3>2, <3>3
    <2> QED
        BY <1>3, <2>1, <2>2
<1>9. open'[v] # None => \A q \in Threads : DiskOn(q, v)' => req'[q].by # open'[v].by
    <2> SUFFICES ASSUME open'[v] # None, NEW q \in Threads, DiskOn(q, v)'
                 PROVE  req'[q].by # open'[v].by
        OBVIOUS
    <2>1. q # p
        BY <1>5
    <2>2. req'[q] = req[q] /\ DiskOn(q, v)
        BY <1>1, <2>1 DEF Frame, DiskOn
    <2>3. req[q].by # by /\ (open[v] # None => req[q].by # open[v].by)
        BY <1>2, <2>1, <2>2 DEF Apart
    <2> QED
        BY <1>3, <2>2, <2>3
<1> QED
    BY <1>4, <1>5, <1>8, <1>9 DEF Continues, NoneShown

\* A record of p's own growth shows nobody else's.
LEMMA AnsweredSave ==
    ASSUME TypeOK, TypeOK', RowsKnown, AnsweredInv, NEW p \in Threads,
           SaveDisk(p) \/ SaveBuildDisk(p) \/ RereadDisk(p)
    PROVE  AnsweredInv'
<1>0. RereadDisk(p) => req[p].v \in Rows
    BY DEF RowsKnown, RereadDisk, At
<1> SUFFICES ASSUME NEW v \in Targets, v = req[p].v PROVE AnsweredInv'
    BY <1>0, SaveFacts, RereadFacts DEF Frame
<1>1. /\ Frame({p}, v) /\ With(p, v) /\ req[p].pc \in {"save", "reread"}
      /\ Goes(p, {"restart", "answer"}) \/ Goes(p, {"answer"})
      /\ UNCHANGED <<pve, late, open, owed>>
    BY <1>0, SaveFacts, RereadFacts
<1>2. v \in Rows =>
        \/ last'[v] = last[v]
        \/ /\ last'[v] # None
           /\ last'[v].by \in {0, req[p].by}
    BY <1>0, SaveFacts, RereadFacts DEF Recorded
<1>3. DiskOn(p, v) /\ Past(p) /\ req'[p] # Idle /\ req'[p].by = req[p].by /\ ~Ahead(p)'
    BY <1>1 DEF DiskOn, DiskPc, Past, Ahead, Goes
<1> SUFFICES ASSUME Free(v, {"twice", "mistaken"})', Backed(v), Apart(v), Fresh(v)
             PROVE  Continues(p, v)
    BY <1>1, AnsweredThread
<1>4. \A b : ShownNext(v, b) /\ b # 0 /\ b # req[p].by => Shown(v, b)
    BY <1>2 DEF ShownNext, Shown, DoneBefore
<1>5. \A q \in Threads \ {p} : DiskOn(q, v) => req[q].by # req[p].by /\ req[q].by # 0
    BY <1>3, CreditTyped DEF Apart
<1>6. open[v] # None => open[v].by # req[p].by /\ open[v].by # 0
    BY <1>3, CreditTyped DEF Apart
<1>7. owed'[v] + CreditNext(v)[p] + CreditOpenNext(v) + DiskOf(v) + late[v]
        <= owed[v] + Credit(v)[p] + CreditOpen(v) + pve'[v].cfg.disk + late'[v]
    <2>1. /\ CreditOpen(v) \in Nat /\ owed[v] \in Nat /\ DiskOf(v) \in Nat /\ late[v] \in Nat
          /\ req[p].by \in Nat /\ (open[v] # None => open[v].by \in Nat)
          /\ late'[v] = late[v] /\ owed'[v] = owed[v] /\ pve'[v].cfg.disk = DiskOf(v)
        BY <1>1, <1>3, CreditTyped DEF DiskOf
    <2>2. Credit(v)[p] = req[p].by /\ CreditNext(v)[p] \in {0, req[p].by}
        BY <1>3, Credited
    <2>3. CreditOpenNext(v) <= CreditOpen(v) /\ CreditOpenNext(v) \in Nat
        <3>1. open'[v] = open[v]
            BY <1>1
        <3>2. open[v] # None /\ ShownNext(v, open[v].by) => Shown(v, open[v].by)
            BY <1>4, <1>6
        <3> QED
            BY <2>1, <3>1, <3>2 DEF CreditOpenNext, CreditOpen
    <2> QED
        BY <2>1, <2>2, <2>3
<1>8. NoneShown({p}, v)
    BY <1>4, <1>5 DEF NoneShown
<1>9. \A q \in Threads \ {p} : DiskOn(q, v) /\ DiskOn(p, v)' => req[q].by # req'[p].by
    BY <1>3, <1>5
<1>10. open'[v] # None => \A q \in Threads : DiskOn(q, v)' => req'[q].by # open'[v].by
    <2>1. \A q \in Threads \ {p} : req'[q] = req[q]
        BY <1>1 DEF Frame
    <2> QED
        BY <1>1, <1>3, <2>1 DEF Apart, DiskOn
<1> QED
    BY <1>3, <1>7, <1>8, <1>9, <1>10 DEF Continues

\* Growth is shown, or a record grows old.
LEMMA AnsweredTime ==
    ASSUME TypeOK, TypeOK', AnsweredInv, NEW v \in Targets, Land(v) \/ (v \in Rows /\ TwoMinutes(v))
    PROVE  AnsweredInv'
<1>1. /\ Frame({}, v) /\ req' = req /\ UNCHANGED <<open, owed>>
      /\ DiskOf(v) + late[v] = pve'[v].cfg.disk + late'[v]
      /\ v \in Rows => last'[v] \in {last[v], None}
    <2>1. DiskOf(v) \in Nat /\ late[v] \in Nat
        BY CreditTyped
    <2>2. CASE Land(v)
        BY <2>1, <2>2, LandFacts DEF DiskOf
    <2>3. CASE v \in Rows /\ TwoMinutes(v)
        BY <2>1, <2>3, AgeFacts DEF DiskOf
    <2> QED
        BY <2>2, <2>3
<1>2. SUFFICES AnsweredAt(v)'
    BY <1>1, <1>2, AnsweredElsewhere, Staying
<1> SUFFICES ASSUME Free(v, {"twice", "mistaken"})' PROVE (Backed(v) /\ Apart(v) /\ Fresh(v))'
    BY DEF AnsweredAt
<1>3. Backed(v) /\ Apart(v) /\ Fresh(v)
    BY <1>1 DEF AnsweredInv, AnsweredAt, Free, Frame
<1>4. \A b : ShownNext(v, b) => Shown(v, b)
    BY <1>1 DEF ShownNext, Shown, DoneBefore
<1>5. Total(Credit(v)') <= Total(Credit(v)) /\ Total(Credit(v)') \in Nat
    BY <1>1, <1>4, CreditFewer DEF NoneShown
<1>6. CreditOpenNext(v) <= CreditOpen(v)
    BY <1>1, <1>4, CreditTyped DEF CreditOpenNext, CreditOpen
<1>7. Backed(v)'
    <2>1. /\ Total(Credit(v)) \in Nat /\ CreditOpen(v) \in Nat
          /\ owed[v] \in Nat /\ DiskOf(v) \in Nat /\ late[v] \in Nat
        BY CreditTyped
    <2>2. CreditOpenNext(v) \in Nat /\ pve'[v].cfg.disk \in Nat /\ late'[v] \in Nat
        BY CreditNextTyped
    <2>3. owed[v] + Total(Credit(v)) + CreditOpen(v) <= DiskOf(v) + late[v]
        BY <1>3 DEF Backed
    <2>4. owed'[v] + Total(Credit(v)') + CreditOpenNext(v) <= pve'[v].cfg.disk + late'[v]
        BY <1>1, <1>5, <1>6, <2>1, <2>2, <2>3
    <2>5. CreditOpen(v)' = CreditOpenNext(v)
        BY CreditPrimed
    <2> QED
        BY <2>4, <2>5 DEF Backed, DiskOf
<1>8. Apart(v)'
    BY <1>1, <1>3 DEF Apart, DiskOn
<1>9. Fresh(v)'
    BY <1>1, <1>3, <1>4, CreditPrimed DEF Fresh, Ahead, DiskOn
<1> QED
    BY <1>7, <1>8, <1>9

LEMMA AnsweredStep ==
    TypeOK /\ TypeOK' /\ RowsKnown /\ AnsweredInv /\ [Next]_vars => AnsweredInv'
<1> SUFFICES ASSUME TypeOK, TypeOK', RowsKnown, AnsweredInv, [Next]_vars PROVE AnsweredInv'
    OBVIOUS
<1>1. CASE DiskStill
    BY <1>1, AnsweredStill
<1>2. CASE \E v \in Rows : TwoMinutes(v)
    BY <1>2, AnsweredTime DEF Targets
<1> QED
    BY <1>1, <1>2, AnsweredAsk, AnsweredRepeat, AnsweredCheck, AnsweredGrow, AnsweredPast,
       AnsweredFail, AnsweredSave, AnsweredTime, DiskSteps

-----------------------------------------------------------------------------
(* What a row knows (SizesInv).                                            *)

\* SizeKnown and DiskKnown of a VM that p alone may be working on.
SizeIs(p, v) ==
    /\ ~Changing(p, v) => Knows(v, rows[v].size, pve[v].cfg.size)
    /\ On(p, v) =>
        /\ req[p].pc \in {"digest", "put", "cycle", "keep"} => req[p].seen = rows[v].size
        /\ req[p].pc \in {"cycle", "keep"} => pve[v].cfg.size = req[p].size
DiskIs(p, v) ==
    /\ late[v] = 0
    /\ ~Grown(p, v) => Knows(v, rows[v].disk, DiskOf(v))
    /\ On(p, v) =>
        /\ req[p].pc \in {"check", "grow", "read", "save", "restart", "reread"} =>
              req[p].seen = rows[v].disk
        /\ req[p].pc \in {"check", "grow"} => req[p].prev = DiskOf(v)
        /\ req[p].pc \in {"read", "save"} => DiskOf(v) = req[p].prev + req[p].by
        /\ req[p].pc = "save" => req[p].new = DiskOf(v)
Kept(p, v) ==
    Free(v, {"overlap", "cut"})' /\ SizeIs(p, v) /\ (Free(v, {"late"}) => DiskIs(p, v)) =>
        SizeIs(p, v)' /\ (Free(v, {"late"})' => DiskIs(p, v)')

LEMMA SizesElsewhere ==
    ASSUME SizesInv, NEW v \in Targets, NEW P, Frame(P, v), Stays(v), SizesAt(v)'
    PROVE  SizesInv'
<1> SUFFICES ASSUME NEW w \in Targets \ {v} PROVE SizesAt(w)'
    BY DEF SizesInv
<1>1. SizesAt(w) /\ \A S : Free(w, S)' <=> Free(w, S)
    BY DEF SizesInv, Free, Frame
<1>2. \A q \in Threads :
        /\ On(q, w)' <=> On(q, w)
        /\ On(q, w) => req'[q] = req[q]
    BY Elsewhere
<1>3. \A q \in Threads : (Changing(q, w)' <=> Changing(q, w)) /\ (Grown(q, w)' <=> Grown(q, w))
    BY <1>2 DEF Changing, Grown
<1>4. /\ rows'[w] = rows[w] /\ pve'[w] = pve[w] /\ late'[w] = late[w]
      /\ DiskOf(w)' = DiskOf(w)
    BY DEF Frame, DiskOf
<1>5. SizeKnown(w) => SizeKnown(w)'
    BY <1>2, <1>3, <1>4 DEF SizeKnown, Knows
<1>6. DiskKnown(w) => DiskKnown(w)'
    BY <1>2, <1>3, <1>4 DEF DiskKnown, Knows
<1> QED
    BY <1>1, <1>2, <1>5, <1>6 DEF SizesAt

LEMMA SizesThread ==
    ASSUME SizesInv, NEW p \in Threads, NEW v \in Targets, Frame({p}, v), With(p, v),
           On(p, v) \/ (Busy(v) => "overlap" \in marks'[v]), Kept(p, v)
    PROVE  SizesInv'
<1>1. SUFFICES SizesAt(v)'
    BY <1>1, SizesElsewhere, Staying
<1> SUFFICES ASSUME Free(v, {"overlap", "cut"})'
             PROVE  /\ (\A q, o \in Threads : On(q, v) /\ On(o, v) => q = o)'
                    /\ SizeKnown(v)'
                    /\ (Free(v, {"late"}) => DiskKnown(v))'
    BY DEF SizesAt
<1>2. /\ \A q, o \in Threads : On(q, v) /\ On(o, v) => q = o
      /\ SizeKnown(v) /\ (Free(v, {"late"}) => DiskKnown(v))
    BY DEF SizesInv, SizesAt, Free, Frame
<1>3. \A q \in Threads \ {p} : ~On(q, v) /\ ~On(q, v)'
    <2> TAKE q \in Threads \ {p}
    <2>1. On(q, v)' <=> On(q, v)
        BY DEF Frame, On
    <2>2. CASE On(p, v)
        BY <1>2, <2>1, <2>2
    <2>3. CASE Busy(v) => "overlap" \in marks'[v]
        BY <2>1, <2>3 DEF Busy, On, Free
    <2> QED
        BY <2>2, <2>3
<1>4. SizeIs(p, v) /\ (Free(v, {"late"}) => DiskIs(p, v))
    BY <1>2, <1>3 DEF SizeKnown, SizeIs, DiskKnown, DiskIs, Changing, Grown
<1>5. SizeIs(p, v)' /\ (Free(v, {"late"})' => DiskIs(p, v)')
    BY <1>4 DEF Kept
<1>6. SizeKnown(v)'
    BY <1>3, <1>5 DEF SizeKnown, SizeIs, Changing
<1>7. (Free(v, {"late"}) => DiskKnown(v))'
    BY <1>3, <1>5 DEF DiskKnown, DiskIs, Grown
<1> QED
    BY <1>3, <1>6, <1>7

\* A disk's request leaves the other sizes alone, and the other way round.
LEMMA SizeKept ==
    ASSUME NEW p \in Threads, NEW v \in Targets, SameSize(v),
           req[p] = Idle \/ req[p].pc \notin {"cycle", "keep"},
           req'[p] = Idle \/ req'[p].pc \in DiskPc, SizeIs(p, v)
    PROVE  SizeIs(p, v)'
BY DEF SizeIs, SameSize, Changing, On, Idle, DiskPc

LEMMA DiskKept ==
    ASSUME NEW p \in Threads, NEW v \in Targets, SameDisk(v),
           req[p].pc \notin DiskPc, req'[p].pc \notin DiskPc, DiskIs(p, v)
    PROVE  DiskIs(p, v)'
BY DEF DiskIs, SameDisk, Grown, On, DiskPc, DiskOf

LEMMA SizesInit == TypeOK /\ Init => SizesInv
<1> SUFFICES ASSUME TypeOK, Init, NEW v \in Targets PROVE SizesAt(v)
    BY DEF SizesInv
<1>1. \A p \in Threads : ~On(p, v)
    BY DEF Init, On
<1>2. Knows(v, rows[v].size, pve[v].cfg.size) /\ Knows(v, rows[v].disk, DiskOf(v)) /\ late[v] = 0
    <2>1. PICK s : /\ rows = [w \in Targets |->
                                 [disk |-> IF w \in Rows THEN Start ELSE None,
                                  size |-> IF w \in Rows THEN s ELSE None, status |-> "running"]]
                   /\ pve = [w \in Targets |->
                                 [cfg |-> [disk |-> Start, size |-> s], on |-> TRUE]]
                   /\ late = [w \in Targets |-> 0]
        BY DEF Init
    <2>2. /\ rows[v].disk = IF v \in Rows THEN Start ELSE None
          /\ rows[v].size = IF v \in Rows THEN s ELSE None
          /\ DiskOf(v) = Start /\ pve[v].cfg.size = s /\ late[v] = 0
        BY <2>1 DEF DiskOf
    <2> QED
        BY <2>2 DEF Knows, Targets
<1> QED
    BY <1>1, <1>2 DEF SizesAt, SizeKnown, DiskKnown

\* Requests that begin.
LEMMA SizesBegin ==
    ASSUME TypeOK, SizesInv, NEW p \in Threads, NEW v \in Targets,
           \/ \E by \in Steps, restart \in BOOLEAN : Ask(p, v, by, restart)
           \/ RepeatDisk(p, v)
           \/ \E size \in Sizes, restart \in BOOLEAN : AskFor(p, v, size, restart)
    PROVE  SizesInv'
<1>1. /\ Frame({p}, v) /\ With(p, v) /\ req[p] = Idle
      /\ Busy(v) => "overlap" \in marks'[v]
      /\ UNCHANGED <<rows, pve, late>>
      /\ \/ \E by, again : Began(p, v, by, again)
         \/ req'[p] # Idle /\ req'[p].pc = "digest" /\ req'[p].v = v /\ req'[p].seen = rows[v].size
    <2>1. CASE \E by \in Steps, restart \in BOOLEAN : Ask(p, v, by, restart)
        <3>1. PICK by \in Steps, restart \in BOOLEAN : Ask(p, v, by, restart)
            BY <2>1
        <3> QED
            BY <3>1, AskFacts
    <2>2. CASE RepeatDisk(p, v)
        BY <2>2, RepeatFacts
    <2>3. CASE \E size \in Sizes, restart \in BOOLEAN : AskFor(p, v, size, restart)
        <3>1. PICK size \in Sizes, restart \in BOOLEAN : AskFor(p, v, size, restart)
            BY <2>3
        <3> QED
            BY <3>1, AskForFacts
    <2> QED
        BY <2>1, <2>2, <2>3
<1>2. SameSize(v) /\ SameDisk(v) /\ DiskOf(v)' = DiskOf(v)
    BY <1>1 DEF SameSize, SameDisk, DiskOf
<1>3. Free(v, {"late"})' => Free(v, {"late"})
    BY <1>1 DEF Free, Frame
<1>4. CASE \E by, again : Began(p, v, by, again)
    <2>1. /\ req'[p] # Idle /\ req'[p].v = v /\ req'[p].pc \in {"check", "grow"}
          /\ req'[p].seen = rows[v].disk /\ req'[p].prev = DiskOf(v)
        BY <1>4 DEF Began
    <2>2. SizeIs(p, v) => SizeIs(p, v)'
        BY <1>1, <1>2, <2>1, SizeKept DEF DiskPc
    <2>3. DiskIs(p, v) => DiskIs(p, v)'
        BY <1>1, <1>2, <2>1 DEF DiskIs, Grown, On, SameDisk
    <2> QED
        BY <1>1, <1>3, <2>2, <2>3, SizesThread DEF Kept
<1>5. CASE req'[p] # Idle /\ req'[p].pc = "digest" /\ req'[p].v = v /\ req'[p].seen = rows[v].size
    <2>1. SizeIs(p, v) => SizeIs(p, v)'
        BY <1>1, <1>2, <1>5 DEF SizeIs, SameSize, Changing, On
    <2>2. DiskIs(p, v) => DiskIs(p, v)'
        BY <1>1, <1>2, <1>5, DiskKept DEF Idle, DiskPc
    <2> QED
        BY <1>1, <1>3, <2>1, <2>2, SizesThread DEF Kept
<1> QED
    BY <1>1, <1>4, <1>5

\* A disk's request goes on: what is left to show is what it knows then.
LEMMA SizesDisk ==
    ASSUME TypeOK, SizesInv, NEW p \in Threads, NEW v \in Targets, Frame({p}, v), With(p, v),
           DiskOn(p, v), SameSize(v), req'[p] = Idle \/ req'[p].pc \in DiskPc,
           Free(v, {"overlap", "cut"})' /\ Free(v, {"late"})' /\ DiskIs(p, v) => DiskIs(p, v)'
    PROVE  SizesInv'
<1>1. On(p, v) /\ req[p].pc \notin {"cycle", "keep"}
    BY DEF DiskOn, DiskPc, On, Idle
<1>2. SizeIs(p, v) => SizeIs(p, v)'
    BY <1>1, SizeKept
<1>3. Free(v, {"late"})' => Free(v, {"late"})
    BY DEF Free, Frame
<1> QED
    BY <1>1, <1>2, <1>3, SizesThread DEF Kept

LEMMA SizesCheck ==
    ASSUME TypeOK, SizesInv, NEW p \in Threads,
           QuotaRefuses(p) \/ AlreadyResized(p) \/ CheckDisk(p)
    PROVE  SizesInv'
<1> SUFFICES ASSUME NEW v \in Targets, v = req[p].v PROVE SizesInv'
    BY RefuseFacts, AlreadyFacts, CheckFacts DEF Frame
<1>1. /\ Frame({p}, v) /\ With(p, v) /\ req[p].pc = "check"
      /\ UNCHANGED <<rows, pve, late>>
      /\ \/ req'[p] = Idle
         \/ Goes(p, {"answer"})
         \/ Goes(p, {"grow"}) /\ req'[p].seen = req[p].seen /\ req'[p].prev = req[p].prev
    BY RefuseFacts, AlreadyFacts, CheckFacts
<1>2. DiskOn(p, v) /\ SameSize(v)
    BY <1>1 DEF DiskOn, DiskPc, SameSize
<1>3. req'[p] = Idle \/ req'[p].pc \in DiskPc
    BY <1>1 DEF Goes, DiskPc
<1>4. DiskIs(p, v) => DiskIs(p, v)'
    BY <1>1 DEF DiskIs, Grown, On, Goes, DiskOf, Idle
<1> QED
    BY <1>1, <1>2, <1>3, <1>4, SizesDisk

LEMMA SizesGrow ==
    ASSUME TypeOK, SizesInv, NEW p \in Threads, GrowDisk(p) \/ GrowFails(p)
    PROVE  SizesInv'
<1> SUFFICES ASSUME NEW v \in Targets, v = req[p].v PROVE SizesInv'
    BY GrowFacts, FailFacts DEF Frame
<1>1. /\ Frame({p}, v) /\ With(p, v) /\ req[p].pc = "grow" /\ rows' = rows
      /\ pve'[v].cfg.size = pve[v].cfg.size
    BY GrowFacts, FailFacts
<1>2. DiskOn(p, v) /\ SameSize(v) /\ req[p] # Idle
    BY <1>1 DEF DiskOn, DiskPc, SameSize, Idle
<1>3. CASE GrowDisk(p)
    <2>1. /\ Goes(p, {"read"}) /\ req'[p].seen = req[p].seen /\ req'[p].prev = req[p].prev
          /\ \/ pve'[v].cfg.disk = DiskOf(v) + req[p].by /\ late' = late
             \/ "late" \in marks'[v]
        BY <1>3, GrowFacts
    <2>2. Free(v, {"late"})' /\ DiskIs(p, v) => DiskIs(p, v)'
        BY <1>1, <1>2, <2>1 DEF DiskIs, Grown, On, Goes, DiskOf, Free
    <2> QED
        BY <1>1, <1>2, <2>1, <2>2, SizesDisk DEF Goes, DiskPc
<1>4. CASE GrowFails(p)
    <2>1. /\ req'[p] = Idle /\ late' = late
          /\ pve' = pve \/ "cut" \in marks'[v]
        BY <1>4, FailFacts
    <2>2. Free(v, {"overlap", "cut"})' /\ DiskIs(p, v) => DiskIs(p, v)'
        BY <1>1, <1>2, <2>1 DEF DiskIs, Grown, On, DiskOf, Free
    <2> QED
        BY <1>1, <1>2, <2>1, <2>2, SizesDisk
<1> QED
    BY <1>3, <1>4

LEMMA SizesRead ==
    ASSUME TypeOK, SizesInv, NEW p \in Threads, ReadDisk(p)
    PROVE  SizesInv'
<1> SUFFICES ASSUME NEW v \in Targets, v = req[p].v PROVE SizesInv'
    BY ReadFacts DEF Frame
<1>1. /\ Frame({p}, v) /\ With(p, v) /\ req[p].pc = "read" /\ UNCHANGED <<rows, pve, late>>
      /\ Goes(p, {"save"}) /\ req'[p].seen = req[p].seen /\ req'[p].prev = req[p].prev
      /\ req'[p].new \in {DiskOf(v), req[p].prev + req[p].by}
    BY ReadFacts
<1>2. DiskOn(p, v) /\ SameSize(v) /\ req[p] # Idle
    BY <1>1 DEF DiskOn, DiskPc, SameSize, Idle
<1>3. DiskIs(p, v) => DiskIs(p, v)'
    BY <1>1, <1>2 DEF DiskIs, Grown, On, Goes, DiskOf
<1> QED
    BY <1>1, <1>2, <1>3, SizesDisk DEF Goes, DiskPc

LEMMA SizesSave ==
    ASSUME TypeOK, RowsKnown, SizesInv, NEW p \in Threads,
           SaveDisk(p) \/ SaveBuildDisk(p) \/ RereadDisk(p)
    PROVE  SizesInv'
<1>0. RereadDisk(p) => req[p].v \in Rows
    BY DEF RowsKnown, RereadDisk, At
<1> SUFFICES ASSUME NEW v \in Targets, v = req[p].v PROVE SizesInv'
    BY <1>0, SaveFacts, RereadFacts DEF Frame
<1>1. /\ Frame({p}, v) /\ With(p, v) /\ UNCHANGED <<pve, late>>
      /\ rows'[v].size = rows[v].size
      /\ \/ /\ req[p].pc = "save" /\ Goes(p, {"restart", "answer"}) /\ req'[p].seen = req[p].new
            /\ rows'[v].disk = IF req[p].seen = req[p].new THEN rows[v].disk ELSE req[p].new
         \/ /\ req[p].pc = "reread" /\ Goes(p, {"answer"})
            /\ rows'[v].disk = IF req[p].seen = DiskOf(v) THEN rows[v].disk ELSE DiskOf(v)
    BY <1>0, SaveFacts, RereadFacts
<1>2. DiskOn(p, v) /\ SameSize(v) /\ req[p] # Idle
    BY <1>1 DEF DiskOn, DiskPc, SameSize, Idle
<1>3. DiskIs(p, v) => DiskIs(p, v)'
    BY <1>1, <1>2 DEF DiskIs, Grown, On, Goes, DiskOf, Knows
<1> QED
    BY <1>1, <1>2, <1>3, SizesDisk DEF Goes, DiskPc

LEMMA SizesEnd ==
    ASSUME TypeOK, SizesInv, NEW p \in Threads,
           \/ RereadFails(p) \/ AnswerDisk(p) \/ RestartAfterDisk(p)
           \/ RestartBuild(p) /\ req[p].pc = "restart"
           \/ Crash(p) /\ req[p].pc \in DiskPc
    PROVE  SizesInv'
<1> SUFFICES ASSUME NEW v \in Targets, v = req[p].v PROVE SizesInv'
    BY RereadFailsFacts, AnswerFacts, RestartFacts, CrashFacts DEF Frame
<1>1. /\ Frame({p}, v) /\ With(p, v) /\ UNCHANGED <<rows, late>> /\ pve'[v].cfg = pve[v].cfg
      /\ req[p].pc \in DiskPc
      /\ \/ req'[p] = Idle /\ (req[p].pc \in {"read", "save"} => "cut" \in marks'[v])
         \/ /\ req[p].pc \in {"restart", "reread"} /\ Goes(p, {"reread", "answer"})
            /\ req'[p].pc = "reread" => req'[p].seen = req[p].seen
    <2>1. CASE RereadFails(p)
        BY <2>1, RereadFailsFacts DEF Goes, DiskPc
    <2>2. CASE AnswerDisk(p)
        BY <2>2, AnswerFacts DEF DiskPc
    <2>3. CASE RestartAfterDisk(p) \/ (RestartBuild(p) /\ req[p].pc = "restart")
        BY <2>3, RestartFacts DEF Goes, DiskPc
    <2>4. CASE Crash(p) /\ req[p].pc \in DiskPc
        BY <2>4, CrashFacts
    <2> QED
        BY <2>1, <2>2, <2>3, <2>4
<1>2. DiskOn(p, v) /\ SameSize(v) /\ req[p] # Idle
    BY <1>1 DEF DiskOn, DiskPc, SameSize, Idle
<1>3. DiskOf(v)' = DiskOf(v) /\ rows'[v] = rows[v] /\ late'[v] = late[v]
    BY <1>1 DEF DiskOf
<1>4. Free(v, {"overlap", "cut"})' /\ DiskIs(p, v) => DiskIs(p, v)'
    <2> SUFFICES ASSUME Free(v, {"overlap", "cut"})', DiskIs(p, v) PROVE DiskIs(p, v)'
        OBVIOUS
    <2>1. CASE req'[p] = Idle /\ (req[p].pc \in {"read", "save"} => "cut" \in marks'[v])
        BY <1>3, <2>1 DEF DiskIs, Grown, On, Free
    <2>2. CASE /\ req[p].pc \in {"restart", "reread"} /\ Goes(p, {"reread", "answer"})
               /\ req'[p].pc = "reread" => req'[p].seen = req[p].seen
        BY <1>2, <1>3, <2>2 DEF DiskIs, Grown, On, Goes, DiskOn
    <2> QED
        BY <1>1, <2>1, <2>2
<1> QED
    BY <1>1, <1>2, <1>4, SizesDisk DEF Goes, DiskPc

LEMMA SizesSize ==
    ASSUME TypeOK, SizesInv, NEW p \in Threads,
           \/ ReadDigest(p) \/ PutSize(p) \/ CycleAfterSize(p) \/ Keep(p) \/ RestartAfterSize(p)
           \/ RestartBuild(p) /\ req[p].pc = "boot"
           \/ Crash(p) /\ req[p].pc \notin DiskPc
    PROVE  SizesInv'
<1> SUFFICES ASSUME NEW v \in Targets, v = req[p].v PROVE SizesInv'
    BY DigestFacts, PutFacts, CycleFacts, KeepFacts, BootFacts, CrashFacts DEF Frame
<1> DEFINE r == req[p]
           Same == rows'[v].size = rows[v].size /\ pve'[v].cfg.size = pve[v].cfg.size
<1>1. /\ Frame({p}, v) /\ With(p, v) /\ req[p].pc \notin DiskPc /\ late' = late
      /\ rows'[v].disk = rows[v].disk /\ pve'[v].cfg.disk = pve[v].cfg.disk
      /\ \/ r.pc = "digest" /\ SizeMoves(p, {"put"}) /\ Same
         \/ r.pc = "put" /\ req'[p] = Idle /\ Same
         \/ r.pc = "put" /\ SizeMoves(p, {"cycle"}) /\ pve'[v].cfg.size = r.size /\ rows' = rows
         \/ r.pc = "cycle" /\ SizeMoves(p, {"keep"}) /\ Same
         \/ /\ r.pc = "keep" /\ (SizeMoves(p, {"boot"}) \/ req'[p] = Idle)
            /\ pve' = pve /\ rows'[v].size = IF r.seen = r.size THEN rows[v].size ELSE r.size
         \/ r.pc = "boot" /\ req'[p] = Idle /\ Same
         \/ req'[p] = Idle /\ Same /\ (r.pc \in {"cycle", "keep"} => "cut" \in marks'[v])
    <2>1. CASE ReadDigest(p)
        BY <2>1, DigestFacts DEF DiskPc
    <2>2. CASE PutSize(p)
        BY <2>2, PutFacts DEF DiskPc
    <2>3. CASE CycleAfterSize(p)
        BY <2>3, CycleFacts DEF DiskPc
    <2>4. CASE Keep(p)
        BY <2>4, KeepFacts DEF DiskPc
    <2>5. CASE RestartAfterSize(p) \/ (RestartBuild(p) /\ req[p].pc = "boot")
        BY <2>5, BootFacts DEF DiskPc
    <2>6. CASE Crash(p) /\ req[p].pc \notin DiskPc
        BY <2>6, CrashFacts
    <2> QED
        BY <2>1, <2>2, <2>3, <2>4, <2>5, <2>6
<1>2. req[p] # Idle
    <2>1. req[p] \in SizeRequest \/ Crash(p)
        BY DigestFacts, PutFacts, CycleFacts, KeepFacts, BootFacts
    <2> QED
        BY <2>1, CrashFacts DEF SizeRequest, Idle
<1>3. On(p, v)
    BY <1>2 DEF On
<1>4. req'[p] = Idle \/ (SizeMoves(p, SizePc) /\ req'[p].v = v)
    BY <1>1 DEF SizeMoves, SizePc
<1>5. req'[p].pc \notin DiskPc
    BY <1>4 DEF SizeMoves, SizePc, DiskPc, Idle
<1>6. DiskIs(p, v) => DiskIs(p, v)'
    BY <1>1, <1>5, DiskKept DEF SameDisk
<1>7. Free(v, {"overlap", "cut"})' /\ SizeIs(p, v) => SizeIs(p, v)'
    <2> SUFFICES ASSUME Free(v, {"overlap", "cut"})', SizeIs(p, v) PROVE SizeIs(p, v)'
        OBVIOUS
    <2>1. CASE r.pc = "digest" /\ SizeMoves(p, {"put"}) /\ Same
        BY <1>3, <2>1 DEF SizeIs, Changing, On, SizeMoves
    <2>2. CASE r.pc = "put" /\ SizeMoves(p, {"cycle"}) /\ pve'[v].cfg.size = r.size /\ rows' = rows
        BY <1>3, <2>2 DEF SizeIs, Changing, On, SizeMoves
    <2>3. CASE r.pc = "cycle" /\ SizeMoves(p, {"keep"}) /\ Same
        BY <1>3, <2>3 DEF SizeIs, Changing, On, SizeMoves
    <2>4. CASE /\ r.pc = "keep" /\ (SizeMoves(p, {"boot"}) \/ req'[p] = Idle)
               /\ pve' = pve /\ rows'[v].size = IF r.seen = r.size THEN rows[v].size ELSE r.size
        <3>1. rows'[v].size = pve'[v].cfg.size
            BY <1>3, <2>4 DEF SizeIs
        <3> QED
            BY <1>3, <2>4, <3>1 DEF SizeIs, Knows, On, SizeMoves
    <2>5. CASE req'[p] = Idle /\ Same /\ (r.pc \in {"cycle", "keep"} => "cut" \in marks'[v])
        <3>1. ~Changing(p, v)
            BY <2>5 DEF Changing, Free
        <3> QED
            BY <2>5, <3>1 DEF SizeIs, On
    <2> QED
        BY <1>1, <2>1, <2>2, <2>3, <2>4, <2>5
<1>8. Free(v, {"late"})' => Free(v, {"late"})
    BY <1>1 DEF Free, Frame
<1> QED
    BY <1>1, <1>3, <1>6, <1>7, <1>8, SizesThread DEF Kept

LEMMA SizesTime ==
    ASSUME TypeOK, SizesInv,
           \/ UNCHANGED vars
           \/ \E v \in Targets : Land(v)
           \/ \E v \in Rows : TwoMinutes(v) \/ StopVm(v) \/ StartVm(v)
    PROVE  SizesInv'
<1>1. /\ req' = req
      /\ \A w \in Targets :
            /\ marks[w] \subseteq marks'[w]
            /\ rows'[w].size = rows[w].size /\ pve'[w].cfg.size = pve[w].cfg.size
            /\ late[w] = 0 => /\ late'[w] = 0
                              /\ rows'[w].disk = rows[w].disk /\ DiskOf(w)' = DiskOf(w)
    <2>1. CASE UNCHANGED vars
        BY <2>1 DEF vars, DiskOf
    <2>2. CASE \E v \in Targets : Land(v)
        <3>1. PICK v \in Targets : Land(v)
            BY <2>2
        <3>2. /\ Frame({}, v) /\ req' = req /\ rows' = rows /\ late[v] # 0
              /\ pve'[v].cfg.size = pve[v].cfg.size
            BY <3>1, LandFacts
        <3> QED
            BY <3>2 DEF Frame, DiskOf
    <2>3. CASE \E v \in Rows : TwoMinutes(v)
        <3>1. PICK v \in Rows : TwoMinutes(v)
            BY <2>3
        <3>2. Frame({}, v) /\ req' = req /\ rows' = rows /\ pve' = pve /\ late' = late
            BY <3>1, AgeFacts
        <3> QED
            BY <3>2 DEF Frame, DiskOf
    <2>4. CASE \E v \in Rows : StopVm(v) \/ StartVm(v)
        BY <2>4, StatusFacts DEF DiskOf
    <2> QED
        BY <2>1, <2>2, <2>3, <2>4
<1> SUFFICES ASSUME NEW w \in Targets PROVE SizesAt(w)'
    BY DEF SizesInv
<1>2. SizesAt(w) /\ \A S : Free(w, S)' => Free(w, S)
    BY <1>1 DEF SizesInv, Free
<1>3. SizeKnown(w) => SizeKnown(w)'
    BY <1>1 DEF SizeKnown, Changing, On
<1>4. DiskKnown(w) => DiskKnown(w)'
    BY <1>1 DEF DiskKnown, Grown, On
<1> QED
    BY <1>1, <1>2, <1>3, <1>4 DEF SizesAt, On

LEMMA SizesStep == TypeOK /\ RowsKnown /\ SizesInv /\ [Next]_vars => SizesInv'
<1> SUFFICES ASSUME TypeOK, RowsKnown, SizesInv, [Next]_vars PROVE SizesInv'
    OBVIOUS
<1>1. \A p \in Threads : RestartBuild(p) => req[p].pc \in {"restart", "boot"}
    BY DEF RestartBuild
<1>2. CASE UNCHANGED vars
    BY <1>2, SizesTime
<1>3. CASE Next
    BY <1>1, <1>3, Threaded, SizesBegin, SizesCheck, SizesGrow, SizesRead, SizesSave, SizesEnd,
       SizesSize, SizesTime
<1> QED
    BY <1>2, <1>3

-----------------------------------------------------------------------------
(* What a repetition does (GrownInv).                                      *)

\* GrownAt of a VM that p alone may be working on.
GrownIs(p, v) ==
    /\ DiskOf(v) <= asked[v]
    /\ open[v] # None => Served(v, open[v].by) /\ ~DiskOn(p, v)
    /\ DiskOn(p, v) =>
        /\ req[p].pc = "check" /\ req[p].again => Served(v, req[p].by)
        /\ req[p].pc = "grow" \/ (req[p].pc = "check" /\ ~req[p].again) =>
              DiskOf(v) + req[p].by <= asked[v]
        /\ req[p].pc \in {"restart", "reread", "answer"} => DoneBefore(v, req[p].by)

LEMMA GrownElsewhere ==
    ASSUME GrownInv, NEW v \in Targets, NEW P, Frame(P, v), Stays(v),
           v \in Rows => GrownAt(v)'
    PROVE  GrownInv'
<1> SUFFICES ASSUME NEW w \in Rows \ {v} PROVE GrownAt(w)'
    BY DEF GrownInv
<1>0. w \in Targets \ {v}
    BY DEF Targets
<1>1. GrownAt(w) /\ (Free(w, Disturbing)' <=> Free(w, Disturbing))
    BY <1>0 DEF GrownInv, Free, Frame
<1>2. \A q \in Threads : (DiskOn(q, w)' <=> DiskOn(q, w)) /\ (DiskOn(q, w) => req'[q] = req[q])
    BY <1>0, Elsewhere
<1>3. /\ DiskOf(w)' = DiskOf(w) /\ asked'[w] = asked[w] /\ open'[w] = open[w]
      /\ last'[w] = last[w]
    BY <1>0 DEF Frame, DiskOf
<1>4. \A by : (DoneBefore(w, by)' <=> DoneBefore(w, by)) /\ (Served(w, by)' <=> Served(w, by))
    BY <1>3 DEF DoneBefore, Served
<1> QED
    BY <1>1, <1>2, <1>3, <1>4 DEF GrownAt

LEMMA GrownThread ==
    ASSUME SizesInv, GrownInv, NEW p \in Threads, NEW v \in Targets, Frame({p}, v), With(p, v),
           On(p, v) \/ (Busy(v) => "overlap" \in marks'[v]),
           v \in Rows /\ Free(v, Disturbing)' /\ GrownIs(p, v) /\ DiskIs(p, v) => GrownIs(p, v)'
    PROVE  GrownInv'
<1>1. SUFFICES v \in Rows => GrownAt(v)'
    BY <1>1, GrownElsewhere, Staying
<1> SUFFICES ASSUME v \in Rows, Free(v, Disturbing)'
             PROVE  /\ (DiskOf(v) <= asked[v])'
                    /\ (open[v] # None => Served(v, open[v].by) /\ \A q \in Threads : ~DiskOn(q, v))'
                    /\ \A q \in Threads : DiskOn(q, v)' => q = p /\ GrownIs(p, v)'
    <2>1. GrownIs(p, v)' /\ DiskOn(p, v)' =>
            /\ (req[p].pc = "check" /\ req[p].again => Served(v, req[p].by))'
            /\ (req[p].pc = "grow" \/ (req[p].pc = "check" /\ ~req[p].again) =>
                  DiskOf(v) + req[p].by <= asked[v])'
            /\ (req[p].pc \in {"restart", "reread", "answer"} => DoneBefore(v, req[p].by))'
        BY DEF GrownIs
    <2> QED
        BY <2>1 DEF GrownAt
<1>2. Free(v, Disturbing) /\ Free(v, {"overlap", "cut"}) /\ Free(v, {"late"})
      /\ "overlap" \notin marks'[v]
    BY DEF Free, Frame, Disturbing
<1>3. /\ \A q, o \in Threads : On(q, v) /\ On(o, v) => q = o
      /\ DiskKnown(v) /\ GrownAt(v)
    BY <1>2 DEF SizesInv, SizesAt, GrownInv
<1>4. \A q \in Threads \ {p} : ~On(q, v) /\ ~On(q, v)'
    <2> TAKE q \in Threads \ {p}
    <2>1. On(q, v)' <=> On(q, v)
        BY DEF Frame, On
    <2>2. CASE On(p, v)
        BY <1>3, <2>1, <2>2
    <2>3. CASE Busy(v) => "overlap" \in marks'[v]
        BY <1>2, <2>1, <2>3 DEF Busy, On
    <2> QED
        BY <2>2, <2>3
<1>5. \A q \in Threads : DiskOn(q, v) => On(q, v)
    BY DEF DiskOn, On, DiskPc, Idle
<1>6. \A q \in Threads \ {p} : ~DiskOn(q, v) /\ ~DiskOn(q, v)'
    <2>1. \A q \in Threads \ {p} : ~DiskOn(q, v)
        BY <1>4, <1>5
    <2> QED
        BY <2>1 DEF Frame, DiskOn
<1>7. DiskIs(p, v)
    BY <1>3, <1>4 DEF DiskKnown, DiskIs, Grown
<1>8. GrownIs(p, v)
    BY <1>2, <1>3 DEF GrownAt, GrownIs
<1>9. GrownIs(p, v)'
    BY <1>7, <1>8
<1>10. (DiskOf(v) <= asked[v])' /\ (open[v] # None => Served(v, open[v].by) /\ ~DiskOn(p, v))'
    BY <1>9 DEF GrownIs
<1> QED
    BY <1>6, <1>9, <1>10

LEMMA GrownInit == TypeOK /\ Init => GrownInv
<1> SUFFICES ASSUME TypeOK, Init, NEW v \in Rows PROVE GrownAt(v)
    BY DEF GrownInv
<1>1. \A p \in Threads : ~DiskOn(p, v)
    BY DEF Init, DiskOn, Idle, DiskPc
<1>2. v \in Targets
    BY DEF Targets
<1>3. DiskOf(v) = Start /\ asked[v] = Start /\ open[v] = None
    BY <1>2 DEF Init, DiskOf
<1> QED
    BY <1>1, <1>3 DEF GrownAt, Start

LEMMA GrownStill ==
    ASSUME TypeOK, GrownInv, DiskStill
    PROVE  GrownInv'
<1> SUFFICES ASSUME NEW v \in Rows PROVE GrownAt(v)'
    BY DEF GrownInv
<1>0. v \in Targets
    BY DEF Targets
<1>1. GrownAt(v) /\ (Free(v, Disturbing)' => Free(v, Disturbing))
    BY <1>0 DEF GrownInv, Free, DiskStill
<1>2. \A q \in Threads : (DiskOn(q, v)' <=> DiskOn(q, v)) /\ (DiskOn(q, v) => req'[q] = req[q])
    BY <1>0, FinallyStill
<1>3. /\ DiskOf(v)' = DiskOf(v) /\ asked'[v] = asked[v] /\ open'[v] = open[v]
      /\ last'[v] = last[v]
    BY <1>0 DEF DiskStill, DiskOf
<1>4. \A by : (DoneBefore(v, by)' <=> DoneBefore(v, by)) /\ (Served(v, by)' <=> Served(v, by))
    BY <1>3 DEF DoneBefore, Served
<1> QED
    BY <1>1, <1>2, <1>3, <1>4 DEF GrownAt

\* The sizes and amounts that are compared are numbers.
LEMMA GrownTyped ==
    ASSUME TypeOK, NEW v \in Rows
    PROVE  /\ v \in Targets /\ DiskOf(v) \in Nat /\ asked[v] \in Nat
           /\ \A p \in Threads : DiskOn(p, v) => req[p].by \in Nat /\ req[p].by > 0 /\ On(p, v)
           /\ open[v] # None => open[v].by \in Nat
<1>1. v \in Targets
    BY DEF Targets
<1>2. DiskOf(v) \in Nat /\ asked[v] \in Nat
    BY <1>1 DEF TypeOK, Disk, DiskOf, Config
<1> QED
    BY <1>1, <1>2, HeldTyped, CreditTyped DEF DiskOn, On, DiskPc, Idle

LEMMA GrownAsk ==
    ASSUME TypeOK, SizesInv, GrownInv, NEW p \in Threads, NEW v \in Targets,
           NEW by \in Steps, NEW restart \in BOOLEAN, Ask(p, v, by, restart)
    PROVE  GrownInv'
<1>1. /\ Frame({p}, v) /\ With(p, v) /\ req[p] = Idle /\ Began(p, v, by, FALSE)
      /\ UNCHANGED <<pve, last, open>> /\ asked'[v] = asked[v] + by
      /\ Busy(v) => "overlap" \in marks'[v]
      /\ open[v] # None => "passed" \in marks'[v]
    BY AskFacts
<1>2. ASSUME v \in Rows, Free(v, Disturbing)', GrownIs(p, v) PROVE GrownIs(p, v)'
    <2>1. open'[v] = None
        BY <1>1, <1>2 DEF Free, Disturbing
    <2>2. DiskOf(v) \in Nat /\ asked[v] \in Nat /\ by \in Nat /\ DiskOf(v)' = DiskOf(v)
        BY <1>1, <1>2, GrownTyped, Amounts DEF DiskOf
    <2>3. DiskOf(v) <= asked[v]
        BY <1>2 DEF GrownIs
    <2>4. req'[p].pc = "check" /\ ~req'[p].again /\ req'[p].by = by
        BY <1>1, <1>2 DEF Began
    <2> QED
        BY <1>1, <2>1, <2>2, <2>3, <2>4 DEF GrownIs
<1> QED
    BY <1>1, <1>2, GrownThread

LEMMA GrownRepeat ==
    ASSUME TypeOK, SizesInv, GrownInv, NEW p \in Threads, NEW v \in Targets, RepeatDisk(p, v)
    PROVE  GrownInv'
<1>1. /\ Frame({p}, v) /\ With(p, v) /\ req[p] = Idle /\ open[v] # None
      /\ Began(p, v, open[v].by, TRUE) /\ open'[v] = None
      /\ UNCHANGED <<pve, last, asked>>
      /\ Busy(v) => "overlap" \in marks'[v]
    BY RepeatFacts
<1>2. ASSUME v \in Rows, GrownIs(p, v) PROVE GrownIs(p, v)'
    <2>1. \A b : Served(v, b)' <=> Served(v, b)
        BY <1>1 DEF Served, DoneBefore, DiskOf
    <2>2. DiskOf(v) <= asked[v] /\ Served(v, open[v].by) /\ DiskOf(v)' = DiskOf(v)
        BY <1>1, <1>2 DEF GrownIs, DiskOf
    <2>3. req'[p].pc = "check" /\ req'[p].again /\ req'[p].by = open[v].by
        BY <1>1, <1>2 DEF Began
    <2> QED
        BY <1>1, <2>1, <2>2, <2>3 DEF GrownIs
<1> QED
    BY <1>1, <1>2, GrownThread

LEMMA GrownCheck ==
    ASSUME TypeOK, SizesInv, GrownInv, NEW p \in Threads,
           QuotaRefuses(p) \/ AlreadyResized(p) \/ CheckDisk(p)
    PROVE  GrownInv'
<1> SUFFICES ASSUME NEW v \in Targets, v = req[p].v PROVE GrownInv'
    BY RefuseFacts, AlreadyFacts, CheckFacts DEF Frame
<1>1. /\ Frame({p}, v) /\ With(p, v) /\ req[p].pc = "check" /\ UNCHANGED <<pve, last, open>>
      /\ \/ req'[p] = Idle /\ asked'[v] = asked[v] - req[p].by
            /\ (req[p].again => "refused" \in marks'[v])
         \/ Goes(p, {"answer"}) /\ DoneBefore(v, req[p].by) /\ asked' = asked
         \/ Goes(p, {"grow"}) /\ ~DoneBefore(v, req[p].by) /\ asked' = asked
    BY RefuseFacts, AlreadyFacts, CheckFacts
<1>2. DiskOn(p, v) /\ On(p, v)
    BY <1>1 DEF DiskOn, On, DiskPc, Idle
<1>3. ASSUME v \in Rows, Free(v, Disturbing)', GrownIs(p, v) PROVE GrownIs(p, v)'
    <2>1. open[v] = None /\ DiskOf(v) <= asked[v] /\ DiskOf(v)' = DiskOf(v)
          /\ (req[p].again => Served(v, req[p].by))
          /\ (~req[p].again => DiskOf(v) + req[p].by <= asked[v])
        BY <1>1, <1>2, <1>3 DEF GrownIs, DiskOf
    <2>2. DiskOf(v) \in Nat /\ asked[v] \in Nat /\ req[p].by \in Nat
        BY <1>2, <1>3, GrownTyped
    <2>3. \A b : DoneBefore(v, b)' <=> DoneBefore(v, b)
        BY <1>1 DEF DoneBefore
    <2>4. CASE /\ req'[p] = Idle /\ asked'[v] = asked[v] - req[p].by
               /\ req[p].again => "refused" \in marks'[v]
        <3>1. DiskOf(v) + req[p].by <= asked[v]
            BY <1>3, <2>1, <2>4 DEF Free, Disturbing
        <3>2. ~DiskOn(p, v)'
            BY <2>4 DEF DiskOn, Idle, DiskPc
        <3> QED
            BY <1>1, <2>1, <2>2, <2>4, <3>1, <3>2 DEF GrownIs
    <2>5. CASE Goes(p, {"answer"}) /\ DoneBefore(v, req[p].by) /\ asked' = asked
        BY <1>1, <2>1, <2>3, <2>5 DEF GrownIs, Goes
    <2>6. CASE Goes(p, {"grow"}) /\ ~DoneBefore(v, req[p].by) /\ asked' = asked
        <3>1. DiskOf(v) + req[p].by <= asked[v]
            BY <2>1, <2>6 DEF Served
        <3> QED
            BY <1>1, <2>1, <2>6, <3>1 DEF GrownIs, Goes
    <2> QED
        BY <1>1, <2>4, <2>5, <2>6
<1> QED
    BY <1>1, <1>2, <1>3, GrownThread

\* What a client has no good answer to is served when repeated.
LEMMA GrownFail ==
    ASSUME TypeOK, SizesInv, GrownInv, NEW p \in Threads,
           \/ GrowFails(p) \/ AnswerDisk(p) \/ (Crash(p) /\ req[p].pc \in DiskPc)
    PROVE  GrownInv'
<1> SUFFICES ASSUME NEW v \in Targets, v = req[p].v PROVE GrownInv'
    BY FailFacts, AnswerFacts, CrashFacts DEF Frame
<1>1. /\ Frame({p}, v) /\ With(p, v) /\ req'[p] = Idle /\ req[p].pc \in DiskPc
      /\ UNCHANGED <<last, asked>>
    BY FailFacts, AnswerFacts, CrashFacts DEF DiskPc
<1>2. DiskOn(p, v) /\ On(p, v)
    BY <1>1 DEF DiskOn, On, DiskPc, Idle
<1>3. /\ pve' = pve \/ "cut" \in marks'[v]
      /\ open'[v] = open[v] \/ (open'[v] # None /\ open'[v].by = req[p].by)
      /\ req[p].pc \in {"read", "save"} => "cut" \in marks'[v]
    <2>1. CASE GrowFails(p)
        BY <2>1, FailFacts
    <2>2. CASE AnswerDisk(p)
        BY <2>2, AnswerFacts
    <2>3. CASE Crash(p) /\ req[p].pc \in DiskPc
        BY <2>3, CrashFacts
    <2> QED
        BY <2>1, <2>2, <2>3
<1>4. ASSUME v \in Rows, Free(v, Disturbing)', GrownIs(p, v) PROVE GrownIs(p, v)'
    <2>1. pve' = pve /\ req[p].pc \notin {"read", "save"}
        BY <1>3, <1>4 DEF Free, Disturbing
    <2>2. DiskOf(v) <= asked[v] /\ DiskOf(v)' = DiskOf(v) /\ open[v] = None
        BY <1>2, <1>4, <2>1 DEF GrownIs, DiskOf
    <2>3. Served(v, req[p].by)
        BY <1>1, <1>2, <1>4, <2>1, <2>2 DEF GrownIs, Served, DiskPc
    <2>5. ~DiskOn(p, v)'
        BY <1>1 DEF DiskOn, Idle, DiskPc
    <2>6. \A b : Served(v, b)' <=> Served(v, b)
        BY <1>1, <2>1 DEF Served, DoneBefore, DiskOf
    <2>7. open'[v] # None => Served(v, open'[v].by)
        BY <1>3, <2>2, <2>3
    <2> QED
        BY <1>1, <2>2, <2>5, <2>6, <2>7 DEF GrownIs
<1> QED
    BY <1>1, <1>2, <1>4, GrownThread

LEMMA GrownGoes ==
    ASSUME TypeOK, RowsKnown, SizesInv, GrownInv, NEW p \in Threads,
           \/ GrowDisk(p) \/ ReadDisk(p) \/ SaveDisk(p) \/ SaveBuildDisk(p)
           \/ RestartAfterDisk(p) \/ (RestartBuild(p) /\ req[p].pc = "restart")
           \/ RereadDisk(p) \/ RereadFails(p)
    PROVE  GrownInv'
<1>0. RereadDisk(p) => req[p].v \in Rows
    BY DEF RowsKnown, RereadDisk, At
<1> SUFFICES ASSUME NEW v \in Targets, v = req[p].v PROVE GrownInv'
    BY <1>0, GrowFacts, ReadFacts, SaveFacts, RestartFacts, RereadFacts, RereadFailsFacts DEF Frame
<1> DEFINE r == req[p]
           by == req[p].by
           Same == pve'[v].cfg = pve[v].cfg /\ last' = last
<1>1. /\ Frame({p}, v) /\ With(p, v) /\ r.pc \in DiskPc
      /\ UNCHANGED <<open, asked>>
      /\ \/ "hidden" \in marks'[v]
         \/ /\ r.pc = "grow" /\ Goes(p, {"read"}) /\ last' = last
            /\ pve'[v].cfg.disk = DiskOf(v) + by \/ "late" \in marks'[v]
         \/ r.pc = "read" /\ Goes(p, {"save"}) /\ Same
         \/ /\ r.pc = "save" /\ Goes(p, {"restart", "answer"}) /\ pve' = pve
            /\ v \in Rows => Recorded(v, r.prev, r.new, by)
         \/ r.pc \in {"restart", "reread"} /\ Goes(p, {"reread", "answer"}) /\ Same
    <2>1. CASE GrowDisk(p)
        BY <2>1, GrowFacts DEF DiskPc
    <2>2. CASE ReadDisk(p)
        BY <2>2, ReadFacts DEF DiskPc
    <2>3. CASE SaveDisk(p) \/ SaveBuildDisk(p)
        BY <2>3, SaveFacts DEF DiskPc
    <2>4. CASE RestartAfterDisk(p) \/ (RestartBuild(p) /\ req[p].pc = "restart")
        BY <2>4, RestartFacts DEF DiskPc, Goes
    <2>5. CASE RereadDisk(p)
        BY <1>0, <2>5, RereadFacts DEF DiskPc
    <2>6. CASE RereadFails(p)
        BY <2>6, RereadFailsFacts DEF DiskPc, Goes
    <2> QED
        BY <2>1, <2>2, <2>3, <2>4, <2>5, <2>6
<1>2. DiskOn(p, v) /\ On(p, v)
    BY <1>1 DEF DiskOn, On, DiskPc, Idle
<1>3. ASSUME v \in Rows, Free(v, Disturbing)', GrownIs(p, v), DiskIs(p, v) PROVE GrownIs(p, v)'
    <2>1. open'[v] = None /\ DiskOf(v) <= asked[v] /\ asked'[v] = asked[v]
        BY <1>1, <1>2, <1>3 DEF GrownIs
    <2>2. CASE /\ r.pc = "grow" /\ Goes(p, {"read"}) /\ last' = last
               /\ pve'[v].cfg.disk = DiskOf(v) + by \/ "late" \in marks'[v]
        <3>1. DiskOf(v)' = DiskOf(v) + by /\ DiskOf(v) + by <= asked[v]
            BY <1>2, <1>3, <2>2 DEF GrownIs, Free, Disturbing, DiskOf
        <3> QED
            BY <2>1, <2>2, <3>1 DEF GrownIs, Goes
    <2>3. CASE r.pc = "read" /\ Goes(p, {"save"}) /\ Same
        BY <2>1, <2>3 DEF GrownIs, Goes, DiskOf
    <2>4. CASE /\ r.pc = "save" /\ Goes(p, {"restart", "answer"}) /\ pve' = pve
               /\ v \in Rows => Recorded(v, r.prev, r.new, by)
        <3>1. r.new = DiskOf(v) /\ DiskOf(v) = r.prev + by
            BY <1>2, <1>3, <2>4 DEF DiskIs
        <3>2. "overlap" \notin marks[v]
            BY <1>1, <1>3 DEF Free, Disturbing, Frame
        <3>3. DoneBefore(v, by)'
            <4>1. last'[v] # None /\ last'[v].prev = r.prev /\ last'[v].new = r.new
                BY <1>3, <2>4, <3>2 DEF Recorded
            <4>2. req'[p].by = by
                BY <2>4 DEF Goes
            <4> QED
                BY <3>1, <4>1, <4>2 DEF DoneBefore
        <3> QED
            BY <2>1, <2>4, <3>3 DEF GrownIs, Goes, DiskOf
    <2>5. CASE r.pc \in {"restart", "reread"} /\ Goes(p, {"reread", "answer"}) /\ Same
        <3>1. DoneBefore(v, by)
            BY <1>2, <1>3, <2>5 DEF GrownIs
        <3>2. last'[v].new = last'[v].prev + req'[p].by /\ last'[v] # None
            BY <2>5, <3>1 DEF DoneBefore, Goes
        <3> QED
            BY <2>1, <2>5, <3>2 DEF GrownIs, Goes, DiskOf, DoneBefore
    <2> QED
        BY <1>1, <1>3, <2>2, <2>3, <2>4, <2>5 DEF Free, Disturbing
<1> QED
    BY <1>1, <1>2, <1>3, GrownThread

LEMMA GrownTime ==
    ASSUME TypeOK, SizesInv, GrownInv, NEW v \in Targets, Land(v) \/ (v \in Rows /\ TwoMinutes(v))
    PROVE  GrownInv'
<1>1. Frame({}, v) /\ req' = req
    BY LandFacts, AgeFacts
<1>2. SUFFICES v \in Rows => GrownAt(v)'
    BY <1>1, <1>2, GrownElsewhere, Staying
<1> SUFFICES ASSUME v \in Rows, Free(v, Disturbing)'
             PROVE  /\ (DiskOf(v) <= asked[v])' /\ open'[v] = None
                    /\ \A p \in Threads : ~DiskOn(p, v)'
    BY DEF GrownAt
<1>3. Free(v, {"overlap", "cut"}) /\ Free(v, {"late"}) /\ Free(v, Disturbing)
    BY <1>1 DEF Free, Frame, Disturbing
<1>4. late[v] = 0 /\ GrownAt(v)
    BY <1>3 DEF SizesInv, SizesAt, DiskKnown, GrownInv
<1>5. v \in Rows /\ TwoMinutes(v)
    BY <1>4, LandFacts
<1>6. UNCHANGED <<pve, open, asked>> /\ open[v] = None /\ ~Busy(v)
    BY <1>5, AgeFacts DEF Free, Disturbing
<1>7. \A p \in Threads : ~DiskOn(p, v)'
    BY <1>1, <1>6 DEF Busy, DiskOn, Idle, DiskPc
<1> QED
    BY <1>3, <1>4, <1>6, <1>7 DEF GrownAt, DiskOf

LEMMA GrownStep == TypeOK /\ RowsKnown /\ SizesInv /\ GrownInv /\ [Next]_vars => GrownInv'
<1> SUFFICES ASSUME TypeOK, RowsKnown, SizesInv, GrownInv, [Next]_vars PROVE GrownInv'
    OBVIOUS
<1>1. CASE DiskStill
    BY <1>1, GrownStill
<1>2. CASE \E v \in Rows : TwoMinutes(v)
    BY <1>2, GrownTime DEF Targets
<1> QED
    BY <1>1, <1>2, GrownAsk, GrownRepeat, GrownCheck, GrownFail, GrownGoes, GrownTime, DiskSteps

-----------------------------------------------------------------------------
(* What the quota counts (QuotaInv).                                       *)

LEMMA UsageTyped ==
    ASSUME TypeOK, RowsKnown
    PROVE  /\ [v \in Rows |-> rows[v].disk] \in [Rows -> Nat]
           /\ Usage \in Nat /\ Quota + Slack \in Nat
           /\ \A v \in Rows : rows[v].disk \in Nat
<1>1. \A v \in Rows : rows[v].disk \in Nat
    BY DEF TypeOK, Row, Targets, RowsKnown, Disk
<1> DEFINE f == [v \in Rows |-> rows[v].disk]
<1>2. f \in [Rows -> Nat] /\ IsFiniteSet(Rows)
    BY <1>1, SizesAssumption
<1>3. Total(f) \in Nat
  <2> HIDE DEF f
  <2> QED
    BY <1>2, TotalTyped
<1> QED
    BY <1>1, <1>2, <1>3, SizesAssumption DEF Usage

LEMMA UsageSame ==
    ASSUME \A v \in Rows : rows'[v].disk = rows[v].disk
    PROVE  Usage' = Usage
<1>1. [v \in Rows |-> rows'[v].disk] = [v \in Rows |-> rows[v].disk]
    OBVIOUS
<1> QED
    BY <1>1 DEF Usage

LEMMA UsageMoves ==
    ASSUME TypeOK, RowsKnown, TypeOK', RowsKnown', NEW v \in Rows,
           \A w \in Rows \ {v} : rows'[w].disk = rows[w].disk
    PROVE  /\ Usage' + rows[v].disk <= Usage + rows'[v].disk
           /\ Usage' \in Nat /\ rows'[v].disk \in Nat
<1> DEFINE f == [w \in Rows |-> rows[w].disk]
           g == [w \in Rows |-> rows'[w].disk]
<1>1. \A w \in Rows : rows'[w].disk \in Nat
    BY DEF TypeOK, Row, Targets, RowsKnown, Disk
<1>2. f \in [Rows -> Nat] /\ g \in [Rows -> Nat] /\ IsFiniteSet(Rows)
    BY <1>1, UsageTyped, SizesAssumption
<1>3. \A w \in Rows \ {v} : g[w] <= f[w]
    BY <1>1
<1>4. Total(g) + f[v] <= Total(f) + g[v] /\ Total(g) \in Nat
  <2> HIDE DEF f, g
  <2> QED
    BY <1>2, <1>3, TotalMove, TotalTyped
<1> QED
    BY <1>1, <1>4 DEF Usage

LEMMA QuietBefore ==
    ASSUME \/ \E v \in Targets : \E P : Frame(P, v)
           \/ DiskStill
    PROVE  Quiet' => Quiet
BY DEF Quiet, Free, Frame, DiskStill, Targets

\* A thread is growing a row's disk, or is not on a row.
LEMMA GrowingOn ==
    ASSUME NEW q \in Threads, Growing(q)
    PROVE  req[q].v \in Rows /\ DiskOn(q, req[q].v) /\ req[q] # Idle
BY DEF Growing, DiskOn, DiskPc, Idle

LEMMA QuotaThread ==
    ASSUME TypeOK, RowsKnown, QuotaInv, NEW p \in Threads, NEW v \in Targets,
           Frame({p}, v), With(p, v),
           v \in Rows /\ Quiet' /\ Within =>
              /\ rows'[v].disk = rows[v].disk /\ DiskOf(v)' = DiskOf(v) /\ late'[v] = late[v]
              /\ Growing(p)' => Growing(p) \/ \A q \in Threads : ~Growing(q)
              /\ Grown(p, v) => Grown(p, v)'
              /\ DiskOn(p, v)' => Room(p, v)'
    PROVE  QuotaInv'
<1> SUFFICES ASSUME Quiet' PROVE Within'
    BY DEF QuotaInv
<1>1. Within
    BY QuietBefore DEF QuotaInv
<1>2. \A w \in Rows :
        rows'[w].disk = rows[w].disk /\ DiskOf(w)' = DiskOf(w) /\ late'[w] = late[w]
    <2> TAKE w \in Rows
    <2>1. CASE w = v
        BY <1>1, <2>1
    <2>2. CASE w # v
        BY <2>2 DEF Frame, DiskOf, Targets
    <2> QED
        BY <2>1, <2>2
<1>3. Usage' = Usage
    BY <1>2, UsageSame
<1>4. \A q \in Threads \ {p} : req'[q] = req[q]
    BY DEF Frame
<1>5. Growing(p)' => Growing(p) \/ \A q \in Threads : ~Growing(q)
    <2>1. CASE v \in Rows
        BY <1>1, <2>1
    <2>2. CASE v \notin Rows
        BY <2>2 DEF With, Growing, Idle
    <2> QED
        BY <2>1, <2>2
<1>6. (\A q, o \in Threads : Growing(q) /\ Growing(o) => q = o)'
    <2>1. \A q \in Threads \ {p} : Growing(q)' <=> Growing(q)
        BY <1>4 DEF Growing
    <2> QED
        BY <1>1, <1>5, <2>1 DEF Within
<1>7. ASSUME NEW w \in Rows PROVE RowKept(w)'
    <2>1. (\A q \in Threads : ~Grown(q, w))' => \A q \in Threads : ~Grown(q, w)
        <3>1. \A q \in Threads \ {p} : Grown(q, w)' <=> Grown(q, w)
            BY <1>4 DEF Grown, On
        <3>2. Grown(p, w) => Grown(p, w)'
            <4>1. CASE w = v
                BY <1>1, <4>1
            <4>2. CASE w # v
                BY <4>2 DEF With, Grown, On
            <4> QED
                BY <4>1, <4>2
        <3> QED
            BY <3>1, <3>2
    <2> QED
        BY <1>1, <1>2, <1>7, <2>1 DEF Within, RowKept
<1>8. ASSUME NEW w \in Rows, NEW q \in Threads, DiskOn(q, w)' PROVE Room(q, w)'
    <2>1. CASE q = p
        <3>1. w = v
            BY <1>8, <2>1 DEF With, DiskOn, Idle, DiskPc
        <3> QED
            BY <1>1, <1>8, <2>1, <3>1
    <2>2. CASE q # p
        <3>1. req'[q] = req[q] /\ DiskOn(q, w)
            BY <1>4, <1>8, <2>2 DEF DiskOn
        <3>2. Room(q, w)
            BY <1>1, <1>8, <3>1 DEF Within
        <3>3. rows'[w].disk = rows[w].disk /\ DiskOf(w)' = DiskOf(w)
            BY <1>2, <1>8
        <3> QED
            BY <1>3, <3>1, <3>2, <3>3 DEF Room
    <2> QED
        BY <2>1, <2>2
<1> QED
    BY <1>1, <1>3, <1>6, <1>7, <1>8 DEF Within

LEMMA QuotaInit == TypeOK /\ RowsKnown /\ Init => QuotaInv
<1> SUFFICES ASSUME TypeOK, RowsKnown, Init PROVE Within
    BY DEF QuotaInv
<1>1. \A v \in Rows : v \in Targets /\ rows[v].disk = 1 /\ DiskOf(v) = 1 /\ late[v] = 0
    BY DEF Init, Targets, DiskOf, Start
<1>2. \A p \in Threads : ~Growing(p) /\ \A v : ~DiskOn(p, v)
    BY DEF Init, Growing, DiskOn, Idle, DiskPc
<1>3. Usage <= Quota + Slack
    <2>1. [v \in Rows |-> rows[v].disk] = [v \in Rows |-> 1]
        BY <1>1
    <2>2. Usage = Cardinality(Rows)
        BY <2>1, TotalOnes, SizesAssumption DEF Usage
    <2> QED
        BY <2>2, UsageTyped, SizesAssumption
<1> QED
    BY <1>1, <1>2, <1>3 DEF Within, RowKept

LEMMA QuotaStill ==
    ASSUME TypeOK, RowsKnown, QuotaInv, DiskStill
    PROVE  QuotaInv'
<1> SUFFICES ASSUME Quiet' PROVE Within'
    BY DEF QuotaInv
<1>1. Within
    BY QuietBefore DEF QuotaInv
<1>2. \A w \in Rows :
        /\ w \in Targets /\ rows'[w].disk = rows[w].disk /\ DiskOf(w)' = DiskOf(w)
        /\ late'[w] = late[w]
    BY DEF DiskStill, DiskOf, Targets
<1>3. Usage' = Usage
    BY <1>2, UsageSame
<1>4. \A q \in Threads : Growing(q)' <=> Growing(q)
    BY DEF DiskStill, Growing, DiskPc
<1>5. \A w \in Rows : \A q \in Threads :
        /\ (DiskOn(q, w)' <=> DiskOn(q, w)) /\ (DiskOn(q, w) => req'[q] = req[q])
        /\ Grown(q, w)' <=> Grown(q, w)
    BY <1>2, FinallyStill
<1>6. ASSUME NEW w \in Rows PROVE RowKept(w)'
    BY <1>1, <1>2, <1>5, <1>6 DEF Within, RowKept
<1>7. ASSUME NEW w \in Rows, NEW q \in Threads, DiskOn(q, w)' PROVE Room(q, w)'
    <2>1. req'[q] = req[q] /\ DiskOn(q, w)
        BY <1>5, <1>7
    <2>2. Room(q, w)
        BY <1>1, <2>1 DEF Within
    <2> QED
        BY <1>2, <1>3, <2>1, <2>2 DEF Room
<1> QED
    BY <1>1, <1>3, <1>4, <1>6, <1>7 DEF Within

\* A step that leaves the sizes alone, and does not leave growth behind.
LEMMA QuotaPlain ==
    ASSUME TypeOK, RowsKnown, QuotaInv, NEW p \in Threads, NEW v \in Targets,
           Frame({p}, v), With(p, v), rows' = rows, late' = late, pve'[v].cfg = pve[v].cfg,
           Quiet' => ~Grown(p, v),
           \/ req'[p] = Idle
           \/ req'[p] # Idle /\ req'[p].pc \in {"answer"}
           \/ /\ req'[p] # Idle /\ req'[p].pc \in {"check", "restart", "reread"}
              /\ req'[p].seen = rows[v].disk \/ (DiskOn(p, v) /\ req[p].pc # "answer" /\ req'[p].seen = req[p].seen)
    PROVE  QuotaInv'
<1>1. req'[p].pc \notin {"grow", "read", "save"}
    BY DEF Idle
<1>2. ASSUME v \in Rows, Within, DiskOn(p, v)' PROVE Room(p, v)'
    <2>1. DiskOn(p, v) => Room(p, v)
        BY <1>2 DEF Within
    <2>2. req'[p].pc # "answer" /\ req'[p].seen # None => req'[p].seen <= rows[v].disk
        <3>1. rows[v].disk \in Nat
            BY <1>2, UsageTyped
        <3>2. req'[p] # Idle
            BY <1>2 DEF DiskOn, Idle, DiskPc
        <3> QED
            BY <2>1, <3>1, <3>2 DEF Room
    <2> QED
        BY <1>1, <2>2 DEF Room
<1>3. ~Growing(p)'
    BY <1>1 DEF Growing
<1>4. DiskOf(v)' = DiskOf(v)
    BY DEF DiskOf
<1> QED
    BY <1>2, <1>3, <1>4, QuotaThread

LEMMA QuotaSteps ==
    ASSUME TypeOK, RowsKnown, QuotaInv, NEW p \in Threads,
           \/ \E v \in Targets, by \in Steps, restart \in BOOLEAN :
                 v \in Rows /\ Ask(p, v, by, restart)
           \/ \E v \in Rows : RepeatDisk(p, v)
           \/ QuotaRefuses(p) \/ AlreadyResized(p)
           \/ RestartAfterDisk(p) \/ (RestartBuild(p) /\ req[p].pc = "restart")
           \/ RereadFails(p) \/ AnswerDisk(p)
    PROVE  QuotaInv'
<1>1. ASSUME NEW v \in Rows,
             \/ \E by \in Steps, restart \in BOOLEAN : Ask(p, v, by, restart)
             \/ RepeatDisk(p, v)
      PROVE  QuotaInv'
    <2>1. v \in Targets
        BY DEF Targets
    <2>2. /\ Frame({p}, v) /\ With(p, v) /\ UNCHANGED <<rows, pve, late>> /\ req[p] = Idle
          /\ \E by, again : Began(p, v, by, again)
        <3>1. CASE RepeatDisk(p, v)
            BY <2>1, <3>1, RepeatFacts
        <3>2. CASE \E by \in Steps, restart \in BOOLEAN : Ask(p, v, by, restart)
            <4>1. PICK by \in Steps, restart \in BOOLEAN : Ask(p, v, by, restart)
                BY <3>2
            <4> QED
                BY <2>1, <4>1, AskFacts
        <3> QED
            BY <1>1, <3>1, <3>2
    <2>3. req'[p] # Idle /\ req'[p].pc = "check" /\ req'[p].seen = rows[v].disk /\ ~Grown(p, v)
        BY <2>2 DEF Began, Grown, On
    <2> QED
        BY <2>1, <2>2, <2>3, QuotaPlain
<1>2. ASSUME \/ QuotaRefuses(p) \/ AlreadyResized(p)
             \/ RestartAfterDisk(p) \/ (RestartBuild(p) /\ req[p].pc = "restart")
             \/ RereadFails(p) \/ AnswerDisk(p)
      PROVE  QuotaInv'
    <2> SUFFICES ASSUME NEW v \in Targets, v = req[p].v PROVE QuotaInv'
        BY <1>2, RefuseFacts, AlreadyFacts, RestartFacts, RereadFailsFacts, AnswerFacts DEF Frame
    <2>1. /\ Frame({p}, v) /\ With(p, v) /\ UNCHANGED <<rows, late>> /\ pve'[v].cfg = pve[v].cfg
          /\ req[p].pc \in {"check", "restart", "reread", "answer"}
          /\ \/ req'[p] = Idle
             \/ Goes(p, {"answer"})
             \/ /\ req[p].pc = "restart" /\ Goes(p, {"reread", "answer"})
                /\ req'[p].seen = req[p].seen
        <3>1. CASE QuotaRefuses(p)
            BY <3>1, RefuseFacts
        <3>2. CASE AlreadyResized(p)
            BY <3>2, AlreadyFacts
        <3>3. CASE RestartAfterDisk(p) \/ (RestartBuild(p) /\ req[p].pc = "restart")
            BY <3>3, RestartFacts DEF Goes
        <3>4. CASE RereadFails(p)
            BY <3>4, RereadFailsFacts
        <3>5. CASE AnswerDisk(p)
            BY <3>5, AnswerFacts
        <3> QED
            BY <1>2, <3>1, <3>2, <3>3, <3>4, <3>5
    <2>2. ~Grown(p, v) /\ DiskOn(p, v)
        BY <2>1 DEF Grown, DiskOn, DiskPc
    <2> QED
        BY <2>1, <2>2, QuotaPlain DEF Goes
<1> QED
    BY <1>1, <1>2

\* The quota knows nothing of builds.
LEMMA QuotaBuild ==
    ASSUME TypeOK, RowsKnown, QuotaInv, NEW p \in Threads, NEW v \in Targets \ Rows,
           Frame({p}, v), With(p, v)
    PROVE  QuotaInv'
BY QuotaThread

LEMMA QuotaCheck ==
    ASSUME TypeOK, RowsKnown, QuotaInv, NEW p \in Threads, CheckDisk(p)
    PROVE  QuotaInv'
<1> SUFFICES ASSUME NEW v \in Rows, v = req[p].v PROVE QuotaInv'
    BY DEF RowsKnown, CheckDisk, At
<1>1. /\ Frame({p}, v) /\ With(p, v) /\ v \in Targets /\ req[p].pc = "check"
      /\ Goes(p, {"grow"}) /\ WithinQuota(req[p].by) /\ req'[p].seen = req[p].seen
      /\ UNCHANGED <<rows, pve, late>>
      /\ (\E q \in Threads : Growing(q)) => "rush" \in marks'[v]
    BY CheckFacts DEF Targets
<1>2. DiskOn(p, v) /\ ~Grown(p, v)
    BY <1>1 DEF DiskOn, DiskPc, Grown
<1>3. ASSUME Quiet', Within
      PROVE  (\A q \in Threads : ~Growing(q)) /\ Room(p, v)'
    <2>1. \A q \in Threads : ~Growing(q)
        BY <1>1, <1>3 DEF Quiet, Free
    <2>2. Room(p, v) /\ Usage + req[p].by <= Quota + Slack
        BY <1>1, <1>2, <1>3 DEF Within, WithinQuota
    <2>3. Usage' = Usage
        BY <1>1, UsageSame
    <2> QED
        BY <1>1, <2>1, <2>2, <2>3 DEF Room, Goes
<1> QED
    BY <1>1, <1>2, <1>3, QuotaThread DEF DiskOf

LEMMA QuotaFail ==
    ASSUME TypeOK, RowsKnown, QuotaInv, NEW p \in Threads,
           GrowFails(p) \/ (Crash(p) /\ req[p].pc \in DiskPc)
    PROVE  QuotaInv'
<1> SUFFICES ASSUME NEW v \in Targets, v = req[p].v PROVE QuotaInv'
    BY FailFacts, CrashFacts DEF Frame
<1>1. /\ Frame({p}, v) /\ With(p, v) /\ req'[p] = Idle /\ UNCHANGED <<rows, late>>
      /\ pve' = pve \/ "cut" \in marks'[v]
      /\ req[p].pc \in {"read", "save"} => "cut" \in marks'[v]
    <2>1. CASE GrowFails(p)
        BY <2>1, FailFacts
    <2>2. CASE Crash(p) /\ req[p].pc \in DiskPc
        BY <2>2, CrashFacts
    <2> QED
        BY <2>1, <2>2
<1>2. ASSUME v \in Rows, Quiet' PROVE pve' = pve /\ ~Grown(p, v)
    BY <1>1, <1>2 DEF Quiet, Free, Grown
<1>3. ~Growing(p)' /\ ~DiskOn(p, v)'
    BY <1>1 DEF Growing, DiskOn, DiskPc, Idle
<1> QED
    BY <1>1, <1>2, <1>3, QuotaThread DEF DiskOf

LEMMA QuotaRead ==
    ASSUME TypeOK, RowsKnown, QuotaInv, NEW p \in Threads, ReadDisk(p)
    PROVE  QuotaInv'
<1> SUFFICES ASSUME NEW v \in Targets, v = req[p].v PROVE QuotaInv'
    BY ReadFacts DEF Frame
<1>1. /\ Frame({p}, v) /\ With(p, v) /\ req[p].pc = "read" /\ UNCHANGED <<rows, pve, late>>
      /\ Goes(p, {"save"}) /\ req'[p].seen = req[p].seen
      /\ req'[p].new = DiskOf(v) \/ "guessed" \in marks'[v]
    BY ReadFacts
<1>2. DiskOn(p, v) /\ Grown(p, v)' /\ (v \in Rows => Growing(p))
    BY <1>1 DEF DiskOn, DiskPc, Grown, On, Goes, Growing
<1>3. ASSUME v \in Rows, Quiet', Within PROVE Room(p, v)'
    <2>1. req'[p].new = DiskOf(v) /\ Room(p, v)
        BY <1>1, <1>2, <1>3 DEF Quiet, Free, Within
    <2>2. Usage' = Usage /\ DiskOf(v)' = DiskOf(v)
        BY <1>1, UsageSame DEF DiskOf
    <2> QED
        BY <1>1, <2>1, <2>2 DEF Room, Goes
<1> QED
    BY <1>1, <1>2, <1>3, QuotaThread DEF DiskOf

\* Growth takes what the check left.
LEMMA QuotaGrow ==
    ASSUME TypeOK, RowsKnown, QuotaInv, NEW p \in Threads, GrowDisk(p)
    PROVE  QuotaInv'
<1> SUFFICES ASSUME NEW v \in Targets, v = req[p].v PROVE QuotaInv'
    BY GrowFacts DEF Frame
<1> DEFINE by == req[p].by
<1>1. /\ Frame({p}, v) /\ With(p, v) /\ req[p].pc = "grow" /\ rows' = rows
      /\ Goes(p, {"read"}) /\ req'[p].seen = req[p].seen
      /\ (pve'[v].cfg.disk = DiskOf(v) + by /\ late' = late) \/ "late" \in marks'[v]
    BY GrowFacts
<1>2. CASE v \notin Rows
    BY <1>1, <1>2, QuotaBuild
<1>3. CASE v \in Rows
    <2> SUFFICES ASSUME Quiet' PROVE Within'
        BY DEF QuotaInv
    <2>1. Within
        BY <1>1, QuietBefore DEF QuotaInv
    <2>2. pve'[v].cfg.disk = DiskOf(v) + by /\ late' = late
        BY <1>1, <1>3 DEF Quiet, Free
    <2>3. Growing(p) /\ DiskOn(p, v) /\ Grown(p, v)' /\ Growing(p)'
        BY <1>1, <1>3 DEF Growing, DiskOn, DiskPc, Grown, On, Goes
    <2>4. \A q \in Threads \ {p} : ~Growing(q) /\ req'[q] = req[q]
        BY <1>1, <2>1, <2>3 DEF Within, Frame
    <2>5. \A w \in Rows : \A q \in Threads : ~Grown(q, w)
        BY <1>1, <2>4 DEF Grown, On, Growing
    <2>6. Usage' = Usage /\ Usage + by <= Quota + Slack
        BY <1>1, <1>3, <2>1, <2>3, UsageSame DEF Within, Room
    <2>7. /\ by \in Nat /\ DiskOf(v) \in Nat /\ rows[v].disk \in Nat
          /\ Usage \in Nat /\ Quota + Slack \in Nat
        BY <1>3, <2>3, CreditTyped, UsageTyped
    <2>8. rows[v].disk = DiskOf(v) /\ late[v] = 0
        BY <1>3, <2>1, <2>5 DEF Within, RowKept
    <2>9. ASSUME NEW w \in Rows PROVE RowKept(w)'
        <3>1. CASE w = v
            <4>1. rows'[w].disk <= DiskOf(w)' /\ late'[w] = 0
                BY <1>1, <2>2, <2>7, <2>8, <3>1 DEF DiskOf
            <4> QED
                BY <2>3, <3>1, <4>1 DEF RowKept
        <3>2. CASE w # v
            <4>1. rows'[w] = rows[w] /\ DiskOf(w)' = DiskOf(w) /\ late'[w] = late[w]
                BY <1>1, <3>2 DEF Frame, DiskOf, Targets
            <4> QED
                BY <2>1, <2>5, <4>1 DEF Within, RowKept
        <3> QED
            BY <3>1, <3>2
    <2>10. ASSUME NEW w \in Rows, NEW q \in Threads, DiskOn(q, w)' PROVE Room(q, w)'
        <3>1. CASE q = p
            <4>1. w = v /\ Room(p, v)
                BY <1>1, <1>3, <2>1, <2>3, <2>10, <3>1 DEF DiskOn, Goes, Within
            <4>2. Usage' + (DiskOf(w)' - rows'[w].disk) <= Quota + Slack
                BY <1>1, <2>2, <2>6, <2>7, <2>8, <4>1 DEF DiskOf
            <4> QED
                BY <1>1, <3>1, <4>1, <4>2 DEF Room, Goes
        <3>2. CASE q # p
            <4>1. req'[q] = req[q] /\ DiskOn(q, w) /\ ~Growing(q)
                BY <2>4, <2>10, <3>2 DEF DiskOn
            <4>2. Room(q, w) /\ req[q].pc \notin {"grow", "read", "save"}
                BY <2>1, <2>10, <4>1 DEF Within, Growing, DiskOn
            <4> QED
                BY <1>1, <4>1, <4>2 DEF Room
        <3> QED
            BY <3>1, <3>2
    <2>11. (\A q, o \in Threads : Growing(q) /\ Growing(o) => q = o)'
        BY <2>4 DEF Growing
    <2>12. (Usage <= Quota + Slack)'
        BY <2>1, <2>6 DEF Within
    <2> QED
        BY <2>9, <2>10, <2>11, <2>12 DEF Within
<1> QED
    BY <1>2, <1>3

\* The row's size becomes the hypervisor's: the usage grows by what the request
\* that grew the disk, this one or another, has kept free.
LEMMA QuotaWrite ==
    ASSUME TypeOK, RowsKnown, TypeOK', RowsKnown', Within, NEW p \in Threads, NEW v \in Rows,
           Frame({p}, v), With(p, v), pve' = pve, late' = late,
           rows'[v].disk = DiskOf(v), NEW q \in Threads, Grown(q, v), DiskOn(p, v),
           req'[p].pc = "answer" \/ (req'[p].pc \in {"restart", "reread"} /\ req'[p].seen = DiskOf(v))
    PROVE  Within'
<1>0. v \in Targets
    BY DEF Targets
<1>1. /\ Growing(q) /\ req[q].v = v
      /\ \A o \in Threads : Growing(o) => o = q
    BY DEF Within, Growing, Grown, On
<1>2. \A w \in Rows \ {v} : rows'[w] = rows[w]
    BY DEF Frame, Targets
<1>3. DiskOf(v) \in Nat /\ rows[v].disk \in Nat /\ Usage \in Nat /\ Quota + Slack \in Nat
    BY <1>0, CreditTyped, UsageTyped
<1>4. Usage + (DiskOf(v) - rows[v].disk) <= Quota + Slack /\ rows[v].disk <= DiskOf(v)
    <2>1. DiskOn(q, v) /\ req[q].pc \in {"read", "save"}
        BY DEF Grown, On, DiskOn, DiskPc
    <2>2. Room(q, v) /\ RowKept(v)
        BY <2>1 DEF Within
    <2> QED
        BY <2>1, <2>2 DEF Room, RowKept
<1>5. Usage' <= Quota + Slack /\ Usage' \in Nat
    <2>1. Usage' + rows[v].disk <= Usage + DiskOf(v) /\ Usage' \in Nat
        BY <1>2, UsageMoves
    <2> QED
        BY <1>3, <1>4, <2>1
<1>6. \A o \in Threads \ {p} : req'[o] = req[o]
    BY DEF Frame
<1>7. ~Growing(p)'
    BY DEF Growing
<1>8. (\A o, r \in Threads : Growing(o) /\ Growing(r) => o = r)'
    <2>1. \A o \in Threads : Growing(o)' => Growing(o)
        BY <1>6, <1>7 DEF Growing
    <2> QED
        BY <1>1, <2>1
<1>9. DiskOf(v)' = DiskOf(v) /\ \A w \in Rows : DiskOf(w)' = DiskOf(w) /\ late'[w] = late[w]
    BY DEF DiskOf
<1>10. ASSUME NEW w \in Rows PROVE RowKept(w)'
    <2>1. CASE w = v
        BY <1>3, <1>9, <2>1 DEF RowKept, Within
    <2>2. CASE w # v
        <3>1. \A o \in Threads : ~Grown(o, w)
            BY <1>1, <1>10, <2>2 DEF Grown, On, Growing
        <3> QED
            BY <1>2, <1>9, <1>10, <2>2, <3>1 DEF RowKept, Within
    <2> QED
        BY <2>1, <2>2
<1>11. ASSUME NEW w \in Rows, NEW o \in Threads, DiskOn(o, w)' PROVE Room(o, w)'
    <2>1. CASE o = p
        <3>1. w = v
            BY <1>11, <2>1 DEF With, DiskOn, Idle, DiskPc
        <3> QED
            BY <1>3, <2>1, <3>1 DEF Room
    <2>2. CASE o # p
        <3>1. req'[o] = req[o] /\ DiskOn(o, w) /\ Room(o, w)
            BY <1>6, <1>11, <2>2 DEF DiskOn, Within
        <3>2. req[o].pc # "grow"
            BY <1>1, <1>11, <3>1 DEF DiskOn, Growing, Grown
        <3>3. req[o].pc \in {"read", "save"} => w = v
            BY <1>1, <1>11, <3>1 DEF DiskOn, Growing
        <3>4. req'[o].pc # "answer" /\ req'[o].seen # None => req'[o].seen <= rows'[w].disk
            <4>1. CASE w = v
                <5>1. req[o].seen \in Nat \cup {None}
                    BY <3>1, Shapes DEF DiskOn, DiskRequest, Disk
                <5> QED
                    BY <1>3, <1>4, <3>1, <4>1, <5>1 DEF Room
            <4>2. CASE w # v
                BY <1>2, <1>11, <3>1, <4>2 DEF Room
            <4> QED
                BY <4>1, <4>2
        <3>5. req'[o].pc \in {"read", "save"} =>
                 Usage' + (DiskOf(w)' - rows'[w].disk) <= Quota + Slack
            BY <1>3, <1>5, <1>9, <3>1, <3>3
        <3> QED
            BY <1>9, <1>11, <3>1, <3>2, <3>4, <3>5 DEF Room
    <2> QED
        BY <2>1, <2>2
<1> QED
    BY <1>5, <1>8, <1>10, <1>11 DEF Within

LEMMA QuotaSave ==
    ASSUME TypeOK, RowsKnown, TypeOK', RowsKnown', QuotaInv, NEW p \in Threads,
           SaveDisk(p) \/ SaveBuildDisk(p) \/ RereadDisk(p)
    PROVE  QuotaInv'
<1>0. RereadDisk(p) => req[p].v \in Rows
    BY DEF RowsKnown, RereadDisk, At
<1> SUFFICES ASSUME NEW v \in Targets, v = req[p].v PROVE QuotaInv'
    BY <1>0, SaveFacts, RereadFacts DEF Frame
<1>1. /\ Frame({p}, v) /\ With(p, v) /\ UNCHANGED <<pve, late>>
      /\ \/ /\ req[p].pc = "save" /\ Goes(p, {"restart", "answer"}) /\ req'[p].seen = req[p].new
            /\ rows'[v].disk = IF req[p].seen = req[p].new THEN rows[v].disk ELSE req[p].new
         \/ /\ req[p].pc = "reread" /\ Goes(p, {"answer"})
            /\ rows'[v].disk = IF req[p].seen = DiskOf(v) THEN rows[v].disk ELSE DiskOf(v)
    BY <1>0, SaveFacts, RereadFacts
<1>2. DiskOn(p, v)
    BY <1>1 DEF DiskOn, DiskPc
<1>3. CASE v \notin Rows
    BY <1>1, <1>3, QuotaBuild
<1>4. CASE v \in Rows
    <2> SUFFICES ASSUME Quiet' PROVE QuotaInv'
        BY DEF QuotaInv
    <2>1. Within
        BY <1>1, QuietBefore DEF QuotaInv
    <2>2. /\ DiskOf(v) \in Nat /\ rows[v].disk \in Nat
          /\ rows[v].disk <= DiskOf(v) /\ Room(p, v)
        BY <1>2, <1>4, <2>1, CreditTyped, UsageTyped DEF Within, RowKept
    <2>3. req[p].seen = DiskOf(v) => rows[v].disk = DiskOf(v)
        <3>1. None \notin Nat
            BY NoneApart DEF Disk
        <3> QED
            BY <1>1, <2>2, <3>1 DEF Room
    <2>4. /\ rows'[v].disk = DiskOf(v)
          /\ req'[p].pc = "answer" \/ (req'[p].pc \in {"restart", "reread"} /\ req'[p].seen = DiskOf(v))
        BY <1>1, <2>2, <2>3 DEF Room, Goes
    <2>5. CASE \E q \in Threads : Grown(q, v)
        BY <1>1, <1>2, <1>4, <2>1, <2>4, <2>5, QuotaWrite DEF QuotaInv
    <2>6. CASE \A q \in Threads : ~Grown(q, v)
        <3>1. rows'[v].disk = rows[v].disk
            BY <1>4, <2>1, <2>4, <2>6 DEF Within, RowKept
        <3>2. ~Growing(p)'
            BY <2>4 DEF Growing
        <3>3. Room(p, v)'
            BY <2>2, <2>4, <3>1 DEF Room
        <3> QED
            BY <1>1, <2>6, <3>1, <3>2, <3>3, QuotaThread DEF DiskOf
    <2> QED
        BY <2>5, <2>6
<1> QED
    BY <1>3, <1>4

LEMMA QuotaTime ==
    ASSUME TypeOK, RowsKnown, QuotaInv, NEW v \in Targets, Land(v) \/ (v \in Rows /\ TwoMinutes(v))
    PROVE  QuotaInv'
<1> SUFFICES ASSUME Quiet' PROVE Within'
    BY DEF QuotaInv
<1>1. Frame({}, v) /\ req' = req /\ rows' = rows
    BY LandFacts, AgeFacts
<1>2. Within
    BY <1>1, QuietBefore DEF QuotaInv
<1>3. \A w \in Rows : DiskOf(w)' = DiskOf(w) /\ late'[w] = late[w]
    <2>1. CASE Land(v)
        <3>1. v \notin Rows
            BY <1>2, <2>1, LandFacts DEF Within, RowKept
        <3> QED
            BY <1>1, <3>1 DEF Frame, DiskOf, Targets
    <2>2. CASE v \in Rows /\ TwoMinutes(v)
        BY <2>2, AgeFacts DEF DiskOf
    <2> QED
        BY <2>1, <2>2
<1>4. Usage' = Usage
    BY <1>1, UsageSame
<1>5. \A w \in Rows : RowKept(w)'
    BY <1>1, <1>2, <1>3 DEF Within, RowKept, Grown, On
<1>6. \A w \in Rows : \A q \in Threads : DiskOn(q, w)' => Room(q, w)'
    BY <1>1, <1>2, <1>3, <1>4 DEF Within, Room, DiskOn
<1> QED
    BY <1>1, <1>2, <1>4, <1>5, <1>6 DEF Within, Growing

LEMMA QuotaStep ==
    TypeOK /\ TypeOK' /\ RowsKnown /\ RowsKnown' /\ QuotaInv /\ [Next]_vars => QuotaInv'
<1> SUFFICES ASSUME TypeOK, TypeOK', RowsKnown, RowsKnown', QuotaInv, [Next]_vars PROVE QuotaInv'
    OBVIOUS
<1>1. CASE DiskStill
    BY <1>1, QuotaStill
<1>2. CASE \E v \in Rows : TwoMinutes(v)
    BY <1>2, QuotaTime DEF Targets
<1>3. ASSUME NEW p \in Threads, NEW v \in Targets, NEW by \in Steps,
             NEW restart \in BOOLEAN, Ask(p, v, by, restart)
      PROVE  QuotaInv'
    <2>1. CASE v \in Rows
        BY <1>3, <2>1, QuotaSteps
    <2>2. CASE v \notin Rows
        <3>1. Frame({p}, v) /\ With(p, v)
            BY <1>3, AskFacts
        <3> QED
            BY <2>2, <3>1, QuotaBuild
    <2> QED
        BY <2>1, <2>2
<1>4. ASSUME NEW p \in Threads, NEW v \in Targets, RepeatDisk(p, v) PROVE QuotaInv'
    BY <1>4, RepeatFacts, QuotaBuild, QuotaSteps
<1> QED
    BY <1>1, <1>2, <1>3, <1>4, QuotaSteps, QuotaCheck, QuotaFail, QuotaRead, QuotaGrow, QuotaSave,
       QuotaTime, DiskSteps

-----------------------------------------------------------------------------
(* The theorems.                                                           *)

LEMMA Initial == Init => IInv
<1> SUFFICES ASSUME Init PROVE IInv
    OBVIOUS
<1>1. TypeOK /\ RowsKnown
    BY InitTyped
<1> QED
    BY <1>1, AskedInit, SizesInit, GrownInit, AnsweredInit, QuotaInit DEF IInv

LEMMA Inductive == IInv /\ [Next]_vars => IInv'
<1> SUFFICES ASSUME IInv, [Next]_vars PROVE IInv'
    OBVIOUS
<1>1. TypeOK /\ RowsKnown /\ AskedInv /\ SizesInv /\ GrownInv /\ AnsweredInv /\ QuotaInv
    BY DEF IInv
<1>2. TypeOK'
    BY <1>1, TypeStep
<1>3. RowsKnown' /\ AskedInv'
    BY <1>1, <1>2, KnownStep, AskedStep
<1>4. SizesInv' /\ GrownInv'
    BY <1>1, SizesStep, GrownStep
<1>5. AnsweredInv' /\ QuotaInv'
    BY <1>1, <1>2, <1>3, AnsweredStep, QuotaStep
<1> QED
    BY <1>2, <1>3, <1>4, <1>5 DEF IInv

LEMMA Invariance == Spec => []IInv
BY Initial, Inductive, PTL DEF Spec

\* Every variable keeps its type: what clients asked for never falls below
\* zero when a request that the quota refuses is taken back, and every request
\* that is repeated after a failure has the fields of the one that failed.
THEOREM TypeCorrect == Spec => []TypeOK
<1>1. IInv => TypeOK
    BY DEF IInv
<1> QED
    BY <1>1, Invariance, PTL

\* A row and the hypervisor agree on the size of a VM that no request works on:
\* the commit of resize-cpu, resize-ram and resize-disk writes what the call to
\* the hypervisor left there, if no other request overlapped, none was cut
\* between the two, and the growth was not shown late.
THEOREM SizesAgreeCorrect == Spec => []SizesAgree
<1>1. IInv => SizesAgree
    <2> SUFFICES ASSUME IInv, NEW v \in Targets, Undisturbed(v, {"overlap", "cut"})
                 PROVE  /\ Knows(v, rows[v].size, pve[v].cfg.size)
                        /\ "late" \notin marks[v] => Knows(v, rows[v].disk, DiskOf(v))
        BY DEF SizesAgree
    <2>1. \A p \in Threads : ~On(p, v)
        BY DEF Undisturbed, Busy, On
    <2>2. SizeKnown(v) /\ (Free(v, {"late"}) => DiskKnown(v))
        BY DEF IInv, SizesInv, SizesAt, Undisturbed, Free
    <2>3. "late" \notin marks[v] => Free(v, {"late"})
        BY DEF Free
    <2> QED
        BY <2>1, <2>2, <2>3 DEF SizeKnown, DiskKnown, Changing, Grown
<1> QED
    BY <1>1, Invariance, PTL

\* A disk never grows more than its clients asked for: however often a request
\* fails and is repeated, the newest vm_disk_resizes record tells resize_disk
\* that it was done, unless one of the named mishaps hides the record.
THEOREM GrownOnceCorrect == Spec => []GrownOnce
<1>1. IInv => GrownOnce
    BY DEF IInv, GrownInv, GrownAt, GrownOnce, Free, Disturbing
<1> QED
    BY <1>1, Invariance, PTL

\* An answer of success stands for growth of its own, however many requests
\* overlap, fail and are repeated: the check of the newest record answers for
\* growth that happened and that nobody else was answered for, unless an amount
\* was asked for twice in two minutes or a record taken for another's.
THEOREM AnsweredIsGrownCorrect == Spec => []AnsweredIsGrown
<1>1. IInv => AnsweredIsGrown
    <2> SUFFICES ASSUME IInv, NEW v \in Targets, marks[v] \cap {"twice", "mistaken"} = {}
                 PROVE  owed[v] <= DiskOf(v) + late[v]
        BY DEF AnsweredIsGrown
    <2>1. TypeOK /\ Backed(v)
        BY DEF IInv, AnsweredInv, AnsweredAt, Free
    <2>2. /\ Total(Credit(v)) \in Nat /\ CreditOpen(v) \in Nat
          /\ owed[v] \in Nat /\ DiskOf(v) \in Nat /\ late[v] \in Nat
        BY <2>1, CreditTyped
    <2> QED
        BY <2>1, <2>2 DEF Backed
<1> QED
    BY <1>1, Invariance, PTL

\* The disks of a tenant's rows keep to quota.max_disk_gb, but for what
\* check_disk_resize_quota rounds off, if no request is checked between the
\* check and the commit of another and rows know their disks' growth.
THEOREM QuotaKeptCorrect == Spec => []QuotaKept
<1>1. IInv => QuotaKept
    BY DEF IInv, QuotaInv, Quiet, Within, QuotaKept, Free
<1> QED
    BY <1>1, Invariance, PTL
=============================================================================
