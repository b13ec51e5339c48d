---------------------------- MODULE BudgetLedgerProofs ----------------------------
(***************************************************************************)
(* Proofs about BudgetLedger for every number of rows, every set of        *)
(* threads, every amount and every deployment.                             *)
(***************************************************************************)
EXTENDS BudgetLedger, RowSumsProofs

-----------------------------------------------------------------------------
(* The invariant: types, what the calls hold, and rows left for what they make *)

StoredSource(r) == r \in SourceRows /\ r.status # "absent"
StoredAllocation(r) == r \in AllocationRows /\ r.status # "absent" /\ r.source # None
StoredBorrow(r) ==
    r \in BorrowRows /\ r.status # "absent" /\ r.from # None /\ (r.to = None => r.scope # "none")

SaveOK(c) ==
    /\ c.table \in {"source", "allocation", "borrow", "forecast"}
    /\ c.table = "source" => c.id \in Sources /\ StoredSource(c.copy)
    /\ c.table = "allocation" => c.id \in Allocations \cup {None} /\ StoredAllocation(c.copy)
    /\ c.table = "borrow" => c.id \in Borrows /\ StoredBorrow(c.copy)
    /\ c.table = "forecast" => c.id \in Forecasts /\ c.copy \in ForecastRows

\* Only a borrow is settled, and a borrow is approved in a step of its own.
StatusOK(c) ==
    /\ c.table \in {"source", "allocation", "borrow"}
    /\ c.table = "source" => c.id \in Sources /\ c.copy.status \in {"submitted", "approved", "rejected"}
    /\ c.table = "allocation" => /\ c.id \in Allocations /\ StoredAllocation(c.copy)
                                 /\ c.copy.status \in {"submitted", "approved", "rejected"}
    /\ c.table = "borrow" => /\ c.id \in Borrows /\ StoredBorrow(c.copy)
                             /\ c.copy.status \in {"submitted", "rejected", "settled"}

ApproveOK(c) ==
    /\ c.table = "borrow" /\ c.id \in Borrows /\ StoredBorrow(c.copy)
    /\ c.lender \in AllocationRows /\ c.lender.source # None

DrawOK(c) ==
    /\ c.table = "spending" /\ c.id \in Spendings
    /\ c.copy \in SpendingRows /\ c.copy.exists /\ c.copy.direct = None

CallOK(c) ==
    /\ c.step \in {"idle", "save", "status", "approve", "draw"}
    /\ c.step = "idle" => c = IdleCall
    /\ c.step = "save" => SaveOK(c)
    /\ c.step = "status" => StatusOK(c)
    /\ c.step = "approve" => ApproveOK(c)
    /\ c.step = "draw" => DrawOK(c)

CallsOK ==
    /\ budgetCall = [w \in AnyWorker |-> budgetCall[w]]
    /\ \A w \in AnyWorker : CallOK(budgetCall[w]) /\ (w \notin deployment.workers => budgetCall[w].step = "idle")

RoomLeft == Cardinality(Known) + Cardinality(Creators) <= Cardinality(Allocations)

TypeInv == deployment \in Deployments /\ TypeOK /\ CallsOK /\ RoomLeft

LEMMA Tables ==
    /\ IsFiniteSet(Sources) /\ IsFiniteSet(Allocations) /\ IsFiniteSet(Borrows)
    /\ IsFiniteSet(Spendings) /\ IsFiniteSet(Forecasts) /\ IsFiniteSet(AnyWorker)
    /\ Sources \subseteq Nat \ {None} /\ Allocations \subseteq Nat \ {None} /\ Borrows \subseteq Nat \ {None}
    /\ Spendings \subseteq Nat \ {None} /\ Forecasts \subseteq Nat \ {None}
    /\ MaxAmount \in Nat
<1>1. ASSUME NEW T \in {Sources, Allocations, Borrows, Spendings, Forecasts}
      PROVE  IsFiniteSet(T) /\ T \subseteq Nat \ {None}
  <2>1. IsFiniteSet(T) /\ T = 1..Cardinality(T)
    BY BudgetBoundsAssumption
  <2>2. Cardinality(T) \in Nat
    BY <2>1, FS_CardinalityType
  <2>3. 1..Cardinality(T) \subseteq Nat \ {None}
    BY <2>2 DEF None
  <2> QED
    BY <2>1, <2>3
<1>2. IsFiniteSet(AnyWorker) /\ MaxAmount \in Nat
  BY BudgetBoundsAssumption, DeploymentsAssumption DEF AnyWorker
<1> QED
  BY <1>1, <1>2

LEMMA NoRows ==
    /\ NoSource \in SourceRows /\ NoAllocation \in AllocationRows /\ NoBorrow \in BorrowRows
    /\ NoSpending \in SpendingRows /\ NoForecast \in ForecastRows
    /\ CallOK(IdleCall) /\ NamedBy(IdleCall) = {} /\ ~Creates(IdleCall)
<1>1. NoSource \in SourceRows /\ NoAllocation \in AllocationRows /\ NoBorrow \in BorrowRows
  BY Tables DEF NoSource, SourceRows, NoAllocation, AllocationRows, NoBorrow, BorrowRows, Statuses, Scopes
<1>2. NoSpending \in SpendingRows /\ NoForecast \in ForecastRows
  BY Tables DEF NoSpending, SpendingRows, NoForecast, ForecastRows
<1>3. CallOK(IdleCall) /\ NamedBy(IdleCall) = {} /\ ~Creates(IdleCall)
  BY DEF CallOK, IdleCall, NamedBy, Creates
<1> QED
  BY <1>1, <1>2, <1>3

LEMMA SaveIs ==
    ASSUME NEW table, NEW id, NEW copy
    PROVE  /\ Save(table, id, copy).step = "save" /\ Save(table, id, copy).table = table
           /\ Save(table, id, copy).id = id /\ Save(table, id, copy).copy = copy
           /\ Save(table, id, copy).lender = NoAllocation
BY DEF Save, IdleCall

LEMMA NamedByIs ==
    ASSUME NEW c
    PROVE  /\ c.table = "allocation" => NamedBy(c) = {c.id, c.copy.parent}
           /\ c.table = "borrow" => NamedBy(c) = {c.copy.from, c.copy.to}
           /\ c.table = "forecast" => NamedBy(c) = {c.copy.linked}
           /\ c.table \notin {"allocation", "borrow", "forecast"} => NamedBy(c) = {}
BY DEF NamedBy

LEMMA CallTakes ==
    ASSUME CallsOK, NEW w \in AnyWorker, NEW c, Call(w, c)
    PROVE  budgetCall' = [v \in AnyWorker |-> IF v = w THEN c ELSE budgetCall[v]]
BY DEF CallsOK, Call

\* What a row of each table is like while it exists.
LEMMA RowTypes ==
    ASSUME TypeOK
    PROVE  /\ \A s \in Sources : source[s] \in SourceRows
           /\ \A a \in Allocations : alloc[a] \in AllocationRows
           /\ \A a \in Allocated : StoredAllocation(alloc[a]) /\ a \in Allocations
           /\ \A a \in Allocations : alloc[a].parent \in Allocated \cup {None}
           /\ \A b \in Borrows : borrow[b] \in BorrowRows
           /\ \A b \in Borrows : borrow[b].from \in Allocated \cup {None} /\ borrow[b].to \in Allocated \cup {None}
           /\ \A b \in Borrows : borrow[b].status # "absent" => StoredBorrow(borrow[b])
           /\ \A t \in Spendings : spending[t] \in SpendingRows
           /\ \A f \in Forecasts : forecast[f] \in ForecastRows
BY DEF TypeOK, Allocated, StoredAllocation, StoredBorrow

-----------------------------------------------------------------------------
(* A request that is read *)

\* A read leaves the rows alone, and what it will write names rows that exist.
IsRead(w, c) ==
    /\ w \in deployment.workers /\ budgetCall[w].step = "idle"
    /\ Call(w, c) /\ CallOK(c)
    /\ NamedBy(c) \subseteq Allocated \cup {None}
    /\ Creates(c) => Room
    /\ UNCHANGED <<deployment, source, alloc, borrow, spending, forecast>>

LEMMA FiniteKnown ==
    ASSUME TypeOK, CallsOK
    PROVE  /\ Known \subseteq Allocations /\ Creators \subseteq AnyWorker
           /\ IsFiniteSet(Known) /\ IsFiniteSet(Creators)
           /\ Cardinality(Known) \in Nat /\ Cardinality(Creators) \in Nat /\ Cardinality(Allocations) \in Nat
<1>1. ASSUME NEW w \in AnyWorker PROVE NamedBy(budgetCall[w]) \subseteq Allocations \cup {None}
  <2>1. CallOK(budgetCall[w])
    BY DEF CallsOK
  <2> DEFINE c == budgetCall[w]
  <2>2. c.table = "allocation" => c.id \in Allocations \cup {None} /\ c.copy.parent \in Allocations \cup {None}
    BY <2>1 DEF CallOK, SaveOK, StatusOK, ApproveOK, DrawOK, IdleCall, StoredAllocation, AllocationRows
  <2>3. c.table = "borrow" => c.copy.from \in Allocations \cup {None} /\ c.copy.to \in Allocations \cup {None}
    BY <2>1 DEF CallOK, SaveOK, StatusOK, ApproveOK, DrawOK, IdleCall, StoredBorrow, BorrowRows
  <2>4. c.table = "forecast" => c.copy.linked \in Allocations \cup {None}
    BY <2>1 DEF CallOK, SaveOK, StatusOK, ApproveOK, DrawOK, IdleCall, ForecastRows
  <2> QED
    BY <2>2, <2>3, <2>4, NamedByIs
<1>2. Known \subseteq Allocations /\ Creators \subseteq AnyWorker
  BY <1>1 DEF Known, Held, Allocated, Creators
<1> QED
  BY <1>2, Tables, FS_Subset, FS_CardinalityType

\* Fewer rows known, and fewer calls that make one: the room that was left is left.
LEMMA RoomStays ==
    ASSUME TypeInv, TypeOK', CallsOK', Known' \subseteq Known, Creators' \subseteq Creators
    PROVE  RoomLeft'
<1>1. /\ IsFiniteSet(Known) /\ IsFiniteSet(Creators)
      /\ Cardinality(Known) \in Nat /\ Cardinality(Creators) \in Nat /\ Cardinality(Allocations) \in Nat
  BY FiniteKnown DEF TypeInv
<1>2. Cardinality(Known') <= Cardinality(Known) /\ Cardinality(Creators') <= Cardinality(Creators)
  BY <1>1, FS_Subset
<1>3. Cardinality(Known') \in Nat /\ Cardinality(Creators') \in Nat
  BY <1>1, FS_Subset, FS_CardinalityType
<1> QED
  BY <1>1, <1>2, <1>3 DEF TypeInv, RoomLeft

\* The calls of one thread change: what is known to the others stays known.
LEMMA KnownByCalls ==
    ASSUME TypeInv, NEW w \in AnyWorker, NEW c, Call(w, c), NEW K, Allocated' \subseteq K,
           NamedBy(c) \subseteq K \cup {None}, Known \subseteq K
    PROVE  Known' \subseteq K
<1>1. budgetCall' = [v \in AnyWorker |-> IF v = w THEN c ELSE budgetCall[v]]
  BY CallTakes DEF TypeInv
<1>2. \A v \in AnyWorker : NamedBy(budgetCall'[v]) \subseteq K \cup {None}
  BY <1>1 DEF Known, Held
<1> QED
  BY <1>2 DEF Known, Held

LEMMA CreatorsByCalls ==
    ASSUME TypeInv, NEW w \in AnyWorker, NEW c, Call(w, c)
    PROVE  Creators' \subseteq Creators \cup (IF Creates(c) THEN {w} ELSE {}) /\ (~Creates(c) => w \notin Creators')
<1>1. budgetCall' = [v \in AnyWorker |-> IF v = w THEN c ELSE budgetCall[v]]
  BY CallTakes DEF TypeInv
<1> QED
  BY <1>1 DEF Creators

LEMMA CallsAfter ==
    ASSUME TypeInv, NEW w \in AnyWorker, NEW c, Call(w, c), CallOK(c), UNCHANGED deployment,
           c.step = "idle" \/ w \in deployment.workers
    PROVE  CallsOK'
<1>1. budgetCall' = [v \in AnyWorker |-> IF v = w THEN c ELSE budgetCall[v]]
  BY CallTakes DEF TypeInv
<1>2. \A v \in AnyWorker : /\ CallOK(budgetCall'[v])
                           /\ v \notin deployment.workers => budgetCall'[v].step = "idle"
  BY <1>1 DEF TypeInv, CallsOK
<1> QED
  BY <1>1, <1>2 DEF CallsOK, CallOK

LEMMA SameTypes ==
    ASSUME TypeOK, UNCHANGED <<source, alloc, borrow, spending, forecast>>
    PROVE  TypeOK' /\ Allocated' = Allocated
BY DEF TypeOK, Allocated, Share

LEMMA ReadKeepsTypes ==
    ASSUME TypeInv, NEW w \in AnyWorker, NEW c, IsRead(w, c) PROVE TypeInv'
<1>1. TypeOK' /\ Allocated' = Allocated
  BY SameTypes DEF TypeInv, IsRead
<1>2. CallsOK'
  BY CallsAfter DEF IsRead
<1>3. Known' \subseteq Known
  BY <1>1, KnownByCalls, ZenonT(40) DEF IsRead, Known
<1>4. CASE ~Creates(c)
  BY <1>1, <1>2, <1>3, <1>4, CreatorsByCalls, RoomStays DEF IsRead, TypeInv
<1>5. CASE Creates(c)
  <2>1. /\ IsFiniteSet(Known) /\ IsFiniteSet(Creators)
        /\ Cardinality(Known) \in Nat /\ Cardinality(Creators) \in Nat /\ Cardinality(Allocations) \in Nat
    BY FiniteKnown DEF TypeInv
  <2>2. Creators' \subseteq Creators \cup {w}
    BY <1>5, CreatorsByCalls DEF IsRead
  <2>3. IsFiniteSet(Creators \cup {w}) /\ Cardinality(Creators \cup {w}) <= Cardinality(Creators) + 1
    <3> DEFINE S == Creators
    <3>1. IsFiniteSet(S) /\ Cardinality(S) \in Nat
      BY <2>1
    <3> HIDE DEF S
    <3>2. /\ IsFiniteSet(S \cup {w})
          /\ Cardinality(S \cup {w}) = IF w \in S THEN Cardinality(S) ELSE Cardinality(S) + 1
      BY <3>1, FS_AddElement
    <3>3. IsFiniteSet(S \cup {w}) /\ Cardinality(S \cup {w}) <= Cardinality(S) + 1
      BY <3>1, <3>2
    <3> QED
      BY <3>3 DEF S
  <2>4. /\ Cardinality(Known') <= Cardinality(Known) /\ Cardinality(Creators') <= Cardinality(Creators \cup {w})
        /\ Cardinality(Known') \in Nat /\ Cardinality(Creators') \in Nat /\ Cardinality(Creators \cup {w}) \in Nat
    BY <1>3, <2>1, <2>2, <2>3, FS_Subset, FS_CardinalityType
  <2>5. Cardinality(Known) + Cardinality(Creators) < Cardinality(Allocations)
    BY <1>5 DEF IsRead, Room
  <2>6. RoomLeft'
    BY <2>1, <2>3, <2>4, <2>5 DEF RoomLeft
  <2> QED
    BY <1>1, <1>2, <2>6 DEF TypeInv, IsRead
<1> QED
  BY <1>4, <1>5

-----------------------------------------------------------------------------
(* What a request found when it was read *)

SourceJudged(c) ==
    /\ c.copy.status = source[c.id].status \/ (source[c.id].status = "absent" /\ c.copy.status = "draft")
    /\ SourceAllocated(c.id) <= c.copy.total

AllocationJudged(c) ==
    LET row == c.copy IN
    /\ Edited
    /\ c.id = None => row.status = "draft" /\ ~row.sink
    /\ c.id # None => /\ c.id \in Allocated
                      /\ row.status = alloc[c.id].status /\ row.sink = alloc[c.id].sink
                      /\ row.parent # c.id /\ Required(c.id) <= row.amount
    /\ row.status = "approved" => /\ source[row.source].status = "approved"
                                  /\ row.parent # None => alloc[row.parent].status = "approved"
    /\ row.parent = None => AmountOf(ModelRoots(row.source) \ {c.id}) + row.amount <= source[row.source].total
    /\ row.parent # None => AmountOf(Children(row.parent) \ {c.id}) + row.amount <= alloc[row.parent].amount

BorrowJudged(c) ==
    \/ borrow[c.id].status = "absent" /\ c.copy.status = "draft"
    \/ Asked("patch borrow") /\ c.copy.status = borrow[c.id].status

StatusJudged(c) ==
    /\ c.table = "source" => source[c.id].status \in StatusBefore[c.copy.status]
    /\ c.table = "allocation" => /\ alloc[c.id].status \in StatusBefore[c.copy.status]
                                 /\ c.copy.status = "approved" => ApprovedAbove(c.id)
    /\ c.table = "borrow" => /\ borrow[c.id].status \in StatusBefore[c.copy.status]
                             /\ Asked("review borrow") \/ Asked("settle")

ApproveJudged(c) ==
    /\ borrow[c.id].status = "submitted"
    /\ c.copy = [borrow[c.id] EXCEPT !.status = "approved"]
    /\ c.lender = alloc[c.copy.from] /\ c.copy.from # c.copy.to
    /\ ~OnSQLite => Affordable(c.id, c.copy, c.lender)

Judged(c) ==
    /\ c.step = "save" /\ c.table = "source" => SourceJudged(c)
    /\ c.step = "save" /\ c.table = "allocation" => AllocationJudged(c)
    /\ c.step = "save" /\ c.table = "borrow" => BorrowJudged(c)
    /\ c.step = "status" => StatusJudged(c)
    /\ c.step = "approve" => ApproveJudged(c)

\* The number of a new borrow is nobody else's.
Fresh(c) == c.table = "borrow" /\ borrow[c.id].status = "absent" => c.id \notin Taken("borrow")

Reads(w) == \E c : IsRead(w, c) /\ Judged(c) /\ Fresh(c)

LEMMA SumsOfRows ==
    ASSUME TypeOK
    PROVE  /\ \A S \in SUBSET Allocations : AmountOf(S) \in Nat
           /\ \A S \in SUBSET Borrows : Lent(S) \in Nat
           /\ \A a \in Allocations : /\ Actual(a) \in Nat
                                     /\ \A t \in Spendings : Share(spending[t], a) \in Nat
           /\ \A a, st : BorrowedIn(a, st) \in Nat /\ BorrowedOut(a, st) \in Nat
           /\ \A a \in Allocations : Required(a) \in Int
<1>1. ASSUME NEW S \in SUBSET Allocations PROVE AmountOf(S) \in Nat
  <2>1. \A a \in Allocations : alloc[a].amount \in Nat
    BY RowTypes, Tables DEF AllocationRows
  <2>2. IsFiniteSet(S)
    BY Tables, FS_Subset
  <2>3. Natural([a \in Allocations |-> alloc[a].amount], S)
    BY <2>1 DEF Natural
  <2> QED
    BY <2>2, <2>3, SumNat DEF AmountOf
<1>2. ASSUME NEW S \in SUBSET Borrows PROVE Lent(S) \in Nat
  <2>1. \A b \in Borrows : borrow[b].amount \in Nat
    BY RowTypes, Tables DEF BorrowRows
  <2>2. IsFiniteSet(S)
    BY Tables, FS_Subset
  <2>3. Natural([b \in Borrows |-> borrow[b].amount], S)
    BY <2>1 DEF Natural
  <2> QED
    BY <2>2, <2>3, SumNat DEF Lent
<1>3. ASSUME NEW a \in Allocations
      PROVE  Actual(a) \in Nat /\ \A t \in Spendings : Share(spending[t], a) \in Nat
  <2>1. \A t \in Spendings : Share(spending[t], a) \in Nat
    BY RowTypes, Tables DEF Share, SpendingRows
  <2>2. IsFiniteSet(Spendings) /\ Natural([t \in Spendings |-> Share(spending[t], a)], Spendings)
    BY <2>1, Tables DEF Natural
  <2> QED
    BY <2>1, <2>2, SumNat DEF Actual
<1>4. \A a, st : BorrowedIn(a, st) \in Nat /\ BorrowedOut(a, st) \in Nat
  BY <1>2 DEF BorrowedIn, BorrowedOut
<1>5. \A a \in Allocations : Required(a) \in Int
  BY <1>1, <1>3, <1>4 DEF Required, Children, Allocated
<1> QED
  BY <1>1, <1>2, <1>3, <1>4, <1>5

LEMMA AmountFewer ==
    ASSUME TypeOK, NEW T \in SUBSET Allocations, NEW S \in SUBSET T
    PROVE  AmountOf(S) <= AmountOf(T)
<1>1. \A a \in Allocations : alloc[a].amount \in Nat
  BY RowTypes, Tables DEF AllocationRows
<1>2. IsFiniteSet(T)
  BY Tables, FS_Subset
<1>3. Natural([a \in Allocations |-> alloc[a].amount], T)
  BY <1>1 DEF Natural
<1> QED
  BY <1>2, <1>3, SumFewer DEF AmountOf

LEMMA NoAmounts == AmountOf({}) = 0
BY SumEmpty DEF AmountOf

LEMMA Requests ==
    ASSUME deployment \in Deployments
    PROVE  deployment.amounts \subseteq 0..MaxAmount /\ deployment.scopes \subseteq Scopes
BY DeploymentsAssumption DEF Scopes

LEMMA CreateSourceReads ==
    ASSUME TypeInv, NEW w \in AnyWorker, NEW s \in Sources, NEW total \in deployment.amounts,
           CreateSource(w, s, total), UNCHANGED <<deployment, borrow, spending>>
    PROVE  Reads(w)
<1> DEFINE c == Save("source", s, [status |-> "draft", total |-> total])
<1>1. /\ c.step = "save" /\ c.table = "source" /\ c.id = s
      /\ c.copy.status = "draft" /\ c.copy.total = total /\ StoredSource(c.copy)
  BY SaveIs, Requests DEF TypeInv, StoredSource, SourceRows, Statuses
<1>2. /\ Call(w, c) /\ Serves(w, "create source") /\ source[s].status = "absent"
      /\ UNCHANGED <<source, alloc, forecast>>
  <2>1. Call(w, c) /\ Serves(w, "create source")
    BY DEF CreateSource
  <2>4. source[s] = NoSource
    BY DEF CreateSource
  <2>2. UNCHANGED <<source, alloc, forecast>>
    BY DEF CreateSource
  <2> HIDE DEF c
  <2>3. source[s].status = "absent"
    BY <2>4 DEF NoSource
  <2> QED
    BY <2>1, <2>2, <2>3
<1> HIDE DEF c
<1>3. CallOK(c) /\ NamedBy(c) = {} /\ ~Creates(c)
  BY <1>1, NamedByIs DEF CallOK, SaveOK, Creates
<1>4. SourceAllocated(s) <= total
  <2>1. {a \in Roots(s) : ~alloc[a].sink} = {}
    BY <1>2 DEF TypeInv, TypeOK, Roots
  <2>2. SourceAllocated(s) = 0
    BY <2>1, NoAmounts DEF SourceAllocated
  <2> QED
    BY <2>2, Requests DEF TypeInv
<1>5. Judged(c) /\ Fresh(c)
  BY <1>1, <1>2, <1>4 DEF Judged, SourceJudged, Fresh
<1>6. IsRead(w, c)
  BY <1>2, <1>3 DEF IsRead, Serves
<1> QED
  BY <1>5, <1>6 DEF Reads

LEMMA PatchSourceReads ==
    ASSUME TypeInv, NEW w \in AnyWorker, NEW s \in Sources, NEW total \in deployment.amounts,
           PatchSource(w, s, total), UNCHANGED <<deployment, borrow, spending>>
    PROVE  Reads(w)
<1> DEFINE c == Save("source", s, [source[s] EXCEPT !.total = total])
<1>1. source[s] \in SourceRows /\ source[s].status # "absent"
  BY RowTypes DEF TypeInv, PatchSource
<1>2. /\ c.step = "save" /\ c.table = "source" /\ c.id = s
      /\ c.copy.status = source[s].status /\ c.copy.total = total /\ StoredSource(c.copy)
  BY <1>1, SaveIs, Requests DEF TypeInv, StoredSource, SourceRows
<1>3. Call(w, c) /\ Serves(w, "patch source") /\ SourceClean(s, [source[s] EXCEPT !.total = total])
  BY DEF PatchSource
<1>8. UNCHANGED <<source, alloc, forecast>>
  BY DEF PatchSource
<1> HIDE DEF c
<1>4. CallOK(c) /\ NamedBy(c) = {} /\ ~Creates(c)
  BY <1>2, NamedByIs DEF CallOK, SaveOK, Creates
<1>5. SourceAllocated(s) <= total
  <2>1. {a \in Roots(s) : ~alloc[a].sink} \in SUBSET Allocations
    BY DEF Roots, Allocated
  <2>2. SourceAllocated(s) \in Nat /\ total \in Nat
    BY <2>1, SumsOfRows, Requests, Tables DEF TypeInv, SourceAllocated
  <2>3. total >= SourceAllocated(s)
    BY <1>1, <1>3 DEF SourceClean, SourceRows
  <2> QED
    BY <2>2, <2>3
<1>6. Judged(c) /\ Fresh(c)
  BY <1>2, <1>5 DEF Judged, SourceJudged, Fresh
<1>7. IsRead(w, c)
  BY <1>3, <1>4, <1>8 DEF IsRead, Serves
<1> QED
  BY <1>6, <1>7 DEF Reads

LEMMA ForecastReads ==
    ASSUME TypeInv, NEW w \in AnyWorker, NEW f \in Forecasts, NEW a \in Allocated \cup {None},
           ReadForecast(w, f, a), UNCHANGED <<deployment, borrow, spending>>
    PROVE  Reads(w)
<1> DEFINE c == Save("forecast", f, [exists |-> TRUE, linked |-> a])
<1>1. c.step = "save" /\ c.table = "forecast" /\ c.id = f /\ c.copy = [exists |-> TRUE, linked |-> a]
  BY SaveIs
<1>6. c.copy \in ForecastRows /\ c.copy.linked = a
  <2>1. a \in Allocations \cup {None}
    BY DEF Allocated
  <2>2. [exists |-> TRUE, linked |-> a] \in ForecastRows
    BY <2>1 DEF ForecastRows
  <2> HIDE DEF c
  <2> QED
    BY <1>1, <2>2
<1>2. Call(w, c) /\ Serves(w, "forecast") /\ UNCHANGED <<source, alloc, forecast>>
  BY DEF ReadForecast
<1> HIDE DEF c
<1>3. CallOK(c) /\ NamedBy(c) \subseteq Allocated \cup {None} /\ ~Creates(c)
  BY <1>1, <1>6, NamedByIs DEF CallOK, SaveOK, Creates
<1>4. Judged(c) /\ Fresh(c)
  BY <1>1 DEF Judged, Fresh
<1>5. IsRead(w, c)
  BY <1>2, <1>3 DEF IsRead, Serves
<1> QED
  BY <1>4, <1>5 DEF Reads

LEMMA SpendingReads ==
    ASSUME TypeInv, NEW w \in AnyWorker, NEW t \in Spendings, NEW amount \in deployment.amounts, NEW task \in BOOLEAN,
           RequestSpending(w, t, amount, task), UNCHANGED <<deployment, source, alloc, borrow, forecast>>
    PROVE  Reads(w)
<1> DEFINE row == [NoSpending EXCEPT !.exists = TRUE, !.amount = amount, !.task = task]
           c == [Save("spending", t, row) EXCEPT !.step = "draw"]
<1>1. row \in SpendingRows /\ row.exists /\ row.direct = None
  <2>1. amount \in 0..MaxAmount
    BY Requests DEF TypeInv
  <2>2. row \in SpendingRows
    BY <2>1, NoRows DEF SpendingRows
  <2>3. row.exists
    BY NoRows DEF SpendingRows
  <2>4. row.direct = None
    BY NoRows DEF SpendingRows, NoSpending
  <2> QED
    BY <2>2, <2>3, <2>4
<1>2. c.step = "draw" /\ c.table = "spending" /\ c.id = t /\ c.copy = row
  BY DEF Save, IdleCall
<1>3. /\ Call(w, c) /\ w \in deployment.workers /\ budgetCall[w].step = "idle" /\ UNCHANGED spending
  BY DEF RequestSpending, Serves
<1> HIDE DEF c, row
<1>4. CallOK(c) /\ NamedBy(c) = {} /\ ~Creates(c)
  BY <1>1, <1>2, NamedByIs DEF CallOK, DrawOK, Creates
<1>5. Judged(c) /\ Fresh(c)
  BY <1>2 DEF Judged, Fresh
<1>6. IsRead(w, c)
  BY <1>3, <1>4 DEF IsRead
<1> QED
  BY <1>5, <1>6 DEF Reads

LEMMA NewIs ==
    ASSUME TypeOK, CallsOK, Cardinality(Known) < Cardinality(Allocations)
    PROVE  NewAllocation \in Allocations /\ NewAllocation \notin Known
<1> DEFINE free == Allocations \ Known
<1>1. free # {}
  <2> SUFFICES ASSUME free = {} PROVE FALSE
    OBVIOUS
  <2>1. Known = Allocations
    BY FiniteKnown
  <2> QED
    BY <2>1, FiniteKnown
<1>2. free \in SUBSET Nat
  BY Tables
<1> HIDE DEF free
<1>3. \E n \in free : \A m \in free : n <= m
  BY <1>1, <1>2, LeastOf
<1>4. Min(free) \in free
  BY <1>3 DEF Min
<1> QED
  BY <1>4 DEF free, NewAllocation

\* A row that passed the serializer has what it needs.
LEMMA CleanMeans ==
    ASSUME TypeOK, NEW a \in Allocations, NEW row, StoredAllocation(row), row.parent \in Allocated \cup {None},
           NEW roots \in SUBSET Allocations, ModelRoots(row.source) \subseteq roots, AllocationClean(a, row, roots)
    PROVE  /\ source[row.source].status # "absent"
           /\ row.status = "approved" => /\ source[row.source].status = "approved"
                                         /\ row.parent # None => alloc[row.parent].status = "approved"
           /\ row.parent = None => AmountOf(ModelRoots(row.source) \ {a}) + row.amount <= source[row.source].total
           /\ row.parent # None => /\ row.parent # a
                                   /\ AmountOf(Children(row.parent) \ {a}) + row.amount <= alloc[row.parent].amount
           /\ a \in Allocated => Required(a) <= row.amount
<1>1. /\ source[row.source].status # "absent"
      /\ row.status = "approved" => source[row.source].status = "approved"
      /\ row.parent = None => AmountOf(roots \ {a}) + row.amount <= source[row.source].total
      /\ row.parent # None => ParentClean(a, row)
      /\ alloc[a].status # "absent" => row.amount >= Required(a)
  BY DEF AllocationClean
<1>2. ASSUME row.parent = None PROVE AmountOf(ModelRoots(row.source) \ {a}) + row.amount <= source[row.source].total
  <2>1. ModelRoots(row.source) \ {a} \in SUBSET (roots \ {a}) /\ roots \ {a} \in SUBSET Allocations
    OBVIOUS
  <2>2. /\ AmountOf(ModelRoots(row.source) \ {a}) <= AmountOf(roots \ {a})
        /\ AmountOf(ModelRoots(row.source) \ {a}) \in Nat /\ AmountOf(roots \ {a}) \in Nat
    BY <2>1, AmountFewer, SumsOfRows
  <2>3. row.amount \in Nat /\ row.source \in Sources
    BY Tables DEF StoredAllocation, AllocationRows
  <2>4. source[row.source].total \in Nat
    <3>1. source[row.source] \in SourceRows
      BY <2>3, RowTypes
    <3> QED
      BY <3>1, Tables DEF SourceRows
  <2> QED
    BY <1>1, <1>2, <2>2, <2>3, <2>4
<1>3. row.parent # None => /\ row.parent # a
                           /\ row.status = "approved" => alloc[row.parent].status = "approved"
                           /\ AmountOf(Children(row.parent) \ {a}) + row.amount <= alloc[row.parent].amount
  BY <1>1 DEF ParentClean
<1>4. a \in Allocated => Required(a) <= row.amount
  <2>1. Required(a) \in Int /\ row.amount \in Nat
    BY SumsOfRows, Tables DEF StoredAllocation, AllocationRows
  <2> QED
    BY <1>1, <2>1 DEF Allocated
<1> QED
  BY <1>1, <1>2, <1>3, <1>4

LEMMA AllocationReads ==
    ASSUME TypeInv, NEW w \in AnyWorker, NEW a \in Allocated \cup (IF Room THEN {NewAllocation} ELSE {}),
           NEW s \in Sources, NEW p \in Allocated \cup {None}, NEW amount \in deployment.amounts,
           NEW scope \in deployment.scopes \cup (IF a \in Allocated THEN {alloc[a].scope} ELSE {}),
           ReadAllocation(w, a, [status |-> IF a \in Allocated THEN alloc[a].status ELSE "draft", source |-> s,
                                 parent |-> p, scope |-> scope, amount |-> amount, sink |-> alloc[a].sink]),
           UNCHANGED <<deployment, borrow, spending>>
    PROVE  Reads(w)
<1> DEFINE row == [status |-> IF a \in Allocated THEN alloc[a].status ELSE "draft", source |-> s,
                   parent |-> p, scope |-> scope, amount |-> amount, sink |-> alloc[a].sink]
           c == Save("allocation", IF alloc[a].status = "absent" THEN None ELSE a, row)
<1>1. a \in Allocations /\ (a \in Allocated <=> alloc[a].status # "absent") /\ a # None
  <2>1. a \in Allocations
    <3>1. Room => NewAllocation \in Allocations
      BY NewIs, FiniteKnown DEF TypeInv, Room
    <3> QED
      BY <3>1 DEF Allocated
  <2> QED
    BY <2>1, Tables DEF Allocated
<1>2. /\ row.status = (IF a \in Allocated THEN alloc[a].status ELSE "draft") /\ row.source = s /\ row.parent = p
      /\ row.amount = amount /\ row.sink = alloc[a].sink
  OBVIOUS
<1>3. StoredAllocation(row)
  <2>1. alloc[a] \in AllocationRows
    BY <1>1, RowTypes DEF TypeInv
  <2>2. amount \in 0..MaxAmount /\ scope \in Scopes /\ s # None /\ p \in Allocations \cup {None}
    BY <2>1, Requests, Tables DEF TypeInv, Allocated, AllocationRows
  <2>3. row \in AllocationRows
    BY <2>1, <2>2 DEF AllocationRows, Statuses
  <2> QED
    BY <1>1, <2>2, <2>3 DEF StoredAllocation
<1>4. /\ c.step = "save" /\ c.table = "allocation" /\ c.copy = row
      /\ c.id = IF a \in Allocated THEN a ELSE None
  BY <1>1, SaveIs
<1>5. /\ Call(w, c) /\ AllocationClean(a, row, Roots(row.source))
      /\ a \notin Allocated => Room /\ ~row.sink
  BY <1>1 DEF ReadAllocation
<1>6. w \in deployment.workers /\ budgetCall[w].step = "idle" /\ Edited
  <2>1. \E kind \in Edits : Serves(w, kind)
    BY DEF ReadAllocation, Edits
  <2> QED
    BY <2>1 DEF Serves, Asked, Edited
<1>7. UNCHANGED <<source, alloc, forecast>>
  BY DEF ReadAllocation
<1> HIDE DEF c, row
<1>8. CallOK(c) /\ NamedBy(c) \subseteq Allocated \cup {None} /\ (Creates(c) => Room)
  <2>1. CallOK(c)
    BY <1>1, <1>3, <1>4 DEF CallOK, SaveOK
  <2>2. NamedBy(c) = {c.id, p}
    BY <1>2, <1>4, NamedByIs
  <2>3. Creates(c) => c.id = None
    BY <1>4 DEF Creates
  <2> QED
    BY <1>1, <1>4, <1>5, <2>1, <2>2, <2>3
<1>9. AllocationJudged(c)
  <2>1. Roots(row.source) \in SUBSET Allocations /\ ModelRoots(row.source) \subseteq Roots(row.source)
    BY DEF Roots, ModelRoots, Allocated
  <2>2. /\ row.status = "approved" => /\ source[row.source].status = "approved"
                                      /\ row.parent # None => alloc[row.parent].status = "approved"
        /\ row.parent = None => AmountOf(ModelRoots(row.source) \ {a}) + row.amount <= source[row.source].total
        /\ row.parent # None => /\ row.parent # a
                                /\ AmountOf(Children(row.parent) \ {a}) + row.amount <= alloc[row.parent].amount
        /\ a \in Allocated => Required(a) <= row.amount
    BY <1>1, <1>2, <1>3, <1>5, <2>1, CleanMeans DEF TypeInv
  <2>3. ModelRoots(row.source) \ {c.id} = ModelRoots(row.source) \ {a}
    BY <1>1, <1>4, Tables DEF ModelRoots, Roots, Allocated
  <2>4. Children(row.parent) \ {c.id} = Children(row.parent) \ {a}
    BY <1>1, <1>4, Tables DEF Children, Allocated
  <2>5. c.id = None => row.status = "draft" /\ ~row.sink
    BY <1>1, <1>2, <1>4, <1>5
  <2>6. c.id # None => /\ c.id = a /\ a \in Allocated /\ row.status = alloc[a].status /\ row.sink = alloc[a].sink
                       /\ row.parent # a /\ Required(a) <= row.amount
    BY <1>1, <1>2, <1>4, <2>2
  <2> QED
    BY <1>4, <1>6, <2>2, <2>3, <2>4, <2>5, <2>6 DEF AllocationJudged
<1>10. Judged(c) /\ Fresh(c)
  BY <1>4, <1>9 DEF Judged, Fresh
<1>11. IsRead(w, c)
  BY <1>5, <1>6, <1>7, <1>8 DEF IsRead
<1> QED
  BY <1>10, <1>11 DEF Reads

LEMMA StatusBeforeIs ==
    /\ StatusBefore["submitted"] = {"draft", "rejected"} /\ StatusBefore["approved"] = {"submitted"}
    /\ StatusBefore["rejected"] = {"submitted"} /\ StatusBefore["settled"] = {"approved"}
BY DEF StatusBefore

LEMMA ReviewSourceReads ==
    ASSUME TypeInv, NEW w \in AnyWorker, NEW s \in Sources, NEW status \in {"submitted", "approved", "rejected"},
           Review(w, "source", s, status), UNCHANGED <<deployment, spending, forecast>>
    PROVE  Reads(w)
<1> DEFINE row == [source[s] EXCEPT !.status = status]
           c == [Save("source", s, row) EXCEPT !.step = "status"]
<1>0. RowOf("source", s) = source[s]
  BY DEF RowOf
<1>1. /\ source[s].status \in StatusBefore[status] /\ Call(w, c)
      /\ w \in deployment.workers /\ budgetCall[w].step = "idle"
  BY <1>0 DEF Review, Serves
<1>2. UNCHANGED <<source, alloc, borrow>>
  BY DEF Review
<1>3. row.status = status
  <2>1. source[s] \in SourceRows
    BY RowTypes DEF TypeInv
  <2> QED
    BY <2>1 DEF SourceRows
<1>4. c.step = "status" /\ c.table = "source" /\ c.id = s /\ c.copy = row
  BY DEF Save, IdleCall
<1> HIDE DEF c, row
<1>5. CallOK(c) /\ NamedBy(c) = {} /\ ~Creates(c)
  BY <1>3, <1>4, NamedByIs DEF CallOK, StatusOK, Creates
<1>6. Judged(c) /\ Fresh(c)
  BY <1>1, <1>3, <1>4 DEF Judged, StatusJudged, Fresh
<1>7. IsRead(w, c)
  BY <1>1, <1>2, <1>5 DEF IsRead
<1> QED
  BY <1>6, <1>7 DEF Reads

LEMMA ReviewAllocationReads ==
    ASSUME TypeInv, NEW w \in AnyWorker, NEW a \in Allocated, NEW status \in {"submitted", "approved", "rejected"},
           Review(w, "allocation", a, status), UNCHANGED <<deployment, spending, forecast>>
    PROVE  Reads(w)
<1> DEFINE row == [alloc[a] EXCEPT !.status = status]
           c == [Save("allocation", a, row) EXCEPT !.step = "status"]
<1>0. RowOf("allocation", a) = alloc[a]
  BY DEF RowOf
<1>1. /\ alloc[a].status \in StatusBefore[status] /\ Call(w, c)
      /\ w \in deployment.workers /\ budgetCall[w].step = "idle"
  BY <1>0 DEF Review, Serves
<1>2. UNCHANGED <<source, alloc, borrow>>
  BY DEF Review
<1>8. CleanOf("allocation", a, row)
  BY <1>0 DEF Review
<1>3. /\ StoredAllocation(row) /\ row.status = status /\ row.parent = alloc[a].parent /\ row.source = alloc[a].source
      /\ a \in Allocations /\ alloc[a].parent \in Allocated \cup {None}
  <2>1. StoredAllocation(alloc[a]) /\ a \in Allocations /\ alloc[a].parent \in Allocated \cup {None}
    BY RowTypes DEF TypeInv
  <2> QED
    BY <2>1 DEF StoredAllocation, AllocationRows, Statuses
<1>4. c.step = "status" /\ c.table = "allocation" /\ c.id = a /\ c.copy = row
  BY DEF Save, IdleCall
<1>5. AllocationClean(a, row, ModelRoots(row.source))
  BY <1>8 DEF CleanOf
<1> HIDE DEF c, row
<1>6. CallOK(c) /\ NamedBy(c) \subseteq Allocated \cup {None} /\ ~Creates(c)
  BY <1>3, <1>4, NamedByIs DEF CallOK, StatusOK, Creates
<1>7. status = "approved" => ApprovedAbove(a)
  <2>1. ModelRoots(row.source) \in SUBSET Allocations
    BY DEF ModelRoots, Roots, Allocated
  <2> QED
    BY <1>3, <1>5, <2>1, CleanMeans, ZenonT(40) DEF TypeInv, ApprovedAbove
<1>9. Judged(c) /\ Fresh(c)
  BY <1>1, <1>3, <1>4, <1>7 DEF Judged, StatusJudged, Fresh
<1>10. IsRead(w, c)
  BY <1>1, <1>2, <1>6 DEF IsRead
<1> QED
  BY <1>9, <1>10 DEF Reads

LEMMA ReviewBorrowReads ==
    ASSUME TypeInv, NEW w \in AnyWorker, NEW b \in Borrows, NEW status \in {"submitted", "rejected", "settled"},
           Review(w, "borrow", b, status), UNCHANGED <<deployment, spending, forecast>>
    PROVE  Reads(w)
<1> DEFINE row == [borrow[b] EXCEPT !.status = status]
           c == [Save("borrow", b, row) EXCEPT !.step = "status"]
<1>0. RowOf("borrow", b) = borrow[b]
  BY DEF RowOf
<1>1. /\ borrow[b].status \in StatusBefore[status] /\ Call(w, c)
      /\ w \in deployment.workers /\ budgetCall[w].step = "idle"
  BY <1>0 DEF Review, Serves
<1>2. UNCHANGED <<source, alloc, borrow>>
  BY DEF Review
<1>8. Asked("review borrow") \/ Asked("settle")
  BY DEF Review, Serves, ReviewKinds
<1>9. borrow[b].status # "absent"
  BY <1>1, StatusBeforeIs
<1>3. /\ StoredBorrow(row) /\ row.status = status /\ row.from = borrow[b].from /\ row.to = borrow[b].to
      /\ borrow[b].from \in Allocated \cup {None} /\ borrow[b].to \in Allocated \cup {None}
  <2>1. StoredBorrow(borrow[b]) /\ borrow[b].from \in Allocated \cup {None} /\ borrow[b].to \in Allocated \cup {None}
    BY <1>9, RowTypes DEF TypeInv
  <2> QED
    BY <2>1 DEF StoredBorrow, BorrowRows, Statuses
<1>4. c.step = "status" /\ c.table = "borrow" /\ c.id = b /\ c.copy = row
  BY DEF Save, IdleCall
<1> HIDE DEF c, row
<1>5. CallOK(c) /\ NamedBy(c) \subseteq Allocated \cup {None} /\ ~Creates(c)
  BY <1>3, <1>4, NamedByIs DEF CallOK, StatusOK, Creates
<1>6. Judged(c) /\ Fresh(c)
  BY <1>1, <1>3, <1>4, <1>8, <1>9 DEF Judged, StatusJudged, Fresh
<1>7. IsRead(w, c)
  BY <1>1, <1>2, <1>5 DEF IsRead
<1> QED
  BY <1>6, <1>7 DEF Reads

LEMMA WithinIs ==
    ASSUME NEW table, NEW rows \in SUBSET Nat, NEW existing, NEW r \in Within(table, rows, existing)
    PROVE  r \in existing \/ (r \in rows /\ r \notin Taken(table))
<1> DEFINE new == {i \in rows \ (existing \cup Taken(table)) : i <= deployment.rows}
<1>1. r \in existing \cup (IF new = {} THEN {} ELSE {Min(new)})
  BY DEF Within
<1>2. new \in SUBSET Nat /\ new \subseteq rows \ Taken(table)
  OBVIOUS
<1> HIDE DEF new
<1>3. new # {} => Min(new) \in new
  BY <1>2, LeastOf DEF Min
<1> QED
  BY <1>1, <1>2, <1>3

LEMMA BorrowReads ==
    ASSUME TypeInv, NEW w \in AnyWorker, NEW b \in Borrows,
           b \in Within("borrow", Borrows, {d \in Borrows : borrow[d].status # "absent"}),
           NEW from \in Allocated, NEW to \in Allocated \cup {None}, NEW scope \in deployment.scopes \cup {"none"},
           NEW amount \in deployment.amounts,
           ReadBorrow(w, b, [status |-> IF borrow[b].status = "absent" THEN "draft" ELSE borrow[b].status,
                             from |-> from, to |-> to, scope |-> scope, amount |-> amount]),
           UNCHANGED <<deployment, spending, forecast>>
    PROVE  Reads(w)
<1> DEFINE row == [status |-> IF borrow[b].status = "absent" THEN "draft" ELSE borrow[b].status,
                   from |-> from, to |-> to, scope |-> scope, amount |-> amount]
           c == Save("borrow", b, row)
<1>1. /\ row.status = (IF borrow[b].status = "absent" THEN "draft" ELSE borrow[b].status)
      /\ row.from = from /\ row.to = to
  OBVIOUS
<1>11. row.to = None => row.scope # "none"
  <2>1. BorrowClean(row)
    BY DEF ReadBorrow
  <2> QED
    BY <2>1 DEF BorrowClean
<1>2. StoredBorrow(row)
  <2>1. amount \in 0..MaxAmount /\ scope \in Scopes \cup {"none"}
    BY Requests DEF TypeInv
  <2>2. from \in Allocations /\ to \in Allocations \cup {None} /\ from # None /\ borrow[b] \in BorrowRows
    BY RowTypes, Tables DEF TypeInv, Allocated
  <2>3. row.status \in Statuses /\ row.status # "absent"
    BY <2>2 DEF BorrowRows, Statuses
  <2>4. row \in BorrowRows
    BY <2>1, <2>2, <2>3 DEF BorrowRows
  <2> QED
    BY <1>11, <2>2, <2>3, <2>4 DEF StoredBorrow
<1>3. c.step = "save" /\ c.table = "borrow" /\ c.id = b /\ c.copy = row
  BY SaveIs
<1>4. Call(w, c) /\ w \in deployment.workers /\ budgetCall[w].step = "idle"
  BY DEF ReadBorrow, Serves
<1>5. UNCHANGED <<source, alloc, borrow>>
  BY DEF ReadBorrow
<1>6. borrow[b].status # "absent" => Asked("patch borrow")
  BY DEF ReadBorrow, Serves
<1> HIDE DEF c, row
<1>7. CallOK(c) /\ NamedBy(c) \subseteq Allocated \cup {None} /\ ~Creates(c)
  BY <1>1, <1>2, <1>3, NamedByIs DEF CallOK, SaveOK, Creates
<1>8. Fresh(c)
  <2>1. borrow[b].status = "absent" => b \notin Taken("borrow")
    BY WithinIs, Tables
  <2> QED
    BY <1>3, <2>1 DEF Fresh
<1>9. Judged(c)
  BY <1>1, <1>3, <1>6 DEF Judged, BorrowJudged
<1>10. IsRead(w, c)
  BY <1>4, <1>5, <1>7 DEF IsRead
<1> QED
  BY <1>8, <1>9, <1>10 DEF Reads

LEMMA ApprovalReads ==
    ASSUME TypeInv, NEW w \in AnyWorker, NEW b \in Borrows, ReadApproval(w, b),
           UNCHANGED <<deployment, spending, forecast>>
    PROVE  Reads(w)
<1> DEFINE row == [borrow[b] EXCEPT !.status = "approved"]
           c == [Save("borrow", b, row) EXCEPT !.step = "approve", !.lender = alloc[row.from]]
<1>1. /\ borrow[b].status \in StatusBefore["approved"] /\ Call(w, c) /\ (row.to = None => Room)
      /\ w \in deployment.workers /\ budgetCall[w].step = "idle"
  BY DEF ReadApproval, Serves
<1>2. UNCHANGED <<source, alloc, borrow>>
  BY DEF ReadApproval
<1>3. BorrowClean(row) /\ (~OnSQLite => Affordable(b, row, alloc[row.from]))
  BY DEF ReadApproval
<1>4. borrow[b].status = "submitted"
  BY <1>1, StatusBeforeIs
<1>5. /\ StoredBorrow(row) /\ row.from = borrow[b].from /\ row.to = borrow[b].to
      /\ row.from \in Allocated /\ row.to \in Allocated \cup {None}
  <2>1. StoredBorrow(borrow[b]) /\ borrow[b].from \in Allocated \cup {None} /\ borrow[b].to \in Allocated \cup {None}
    BY <1>4, RowTypes DEF TypeInv
  <2> QED
    BY <2>1 DEF StoredBorrow, BorrowRows, Statuses
<1>6. c.step = "approve" /\ c.table = "borrow" /\ c.id = b /\ c.copy = row /\ c.lender = alloc[row.from]
  BY DEF Save, IdleCall
<1>7. row.from # row.to
  <2>1. row.from # None
    BY <1>5, Tables DEF Allocated
  <2> QED
    BY <1>3, <2>1 DEF BorrowClean
<1>8. StoredAllocation(alloc[row.from])
  BY <1>5, RowTypes DEF TypeInv
<1>12. c.copy = [borrow[c.id] EXCEPT !.status = "approved"]
  BY <1>6
<1> HIDE DEF c, row
<1>9. CallOK(c) /\ NamedBy(c) \subseteq Allocated \cup {None} /\ (Creates(c) => Room)
  <2>1. CallOK(c)
    BY <1>5, <1>6, <1>8 DEF CallOK, ApproveOK, StoredAllocation
  <2>2. NamedBy(c) = {row.from, row.to}
    BY <1>6, NamedByIs
  <2>3. Creates(c) => Room
    BY <1>1, <1>6 DEF Creates
  <2> QED
    BY <1>5, <2>1, <2>2, <2>3
<1>10. Judged(c) /\ Fresh(c)
  BY <1>3, <1>4, <1>6, <1>7, <1>12 DEF Judged, ApproveJudged, Fresh
<1>11. IsRead(w, c)
  BY <1>1, <1>2, <1>9 DEF IsRead
<1> QED
  BY <1>10, <1>11 DEF Reads

-----------------------------------------------------------------------------
(* What a thread does: it reads a request, deletes a row or finishes a request *)

Deletes(w) ==
    \/ \E s \in Sources : DeleteSource(w, s) /\ UNCHANGED <<deployment, borrow, spending>>
    \/ \E a \in Allocated : DeleteAllocation(w, a) /\ UNCHANGED <<deployment, borrow, spending>>
    \/ \E f \in Forecasts : DeleteForecast(w, f) /\ UNCHANGED <<deployment, borrow, spending>>
    \/ \E b \in Borrows : DeleteBorrow(w, b) /\ UNCHANGED <<deployment, spending, forecast>>
    \/ \E t \in Spendings : DeleteSpending(w, t) /\ UNCHANGED <<deployment, source, alloc, borrow, forecast>>

LEMMA TreeStartIs ==
    ASSUME TypeInv, NEW w \in AnyWorker, TreeStarts(w), UNCHANGED <<deployment, borrow, spending>>
    PROVE  Reads(w) \/ Deletes(w)
<1>1. ASSUME NEW f \in Forecasts, DeleteForecast(w, f) \/ \E a \in Allocated \cup {None} : ReadForecast(w, f, a)
      PROVE  Reads(w) \/ Deletes(w)
  BY <1>1, ForecastReads DEF Deletes
<1>2. ASSUME NEW s \in Sources, DeleteSource(w, s) \/ \E total \in deployment.amounts :
                                  CreateSource(w, s, total) \/ PatchSource(w, s, total)
      PROVE  Reads(w) \/ Deletes(w)
  BY <1>2, CreateSourceReads, PatchSourceReads DEF Deletes
<1>3. ASSUME NEW a, DeleteAllocation(w, a) PROVE Deletes(w)
  BY <1>3 DEF Deletes, DeleteAllocation
<1> QED
  BY <1>1, <1>2, <1>3, AllocationReads DEF TreeStarts

LEMMA BorrowStartIs ==
    ASSUME TypeInv, NEW w \in AnyWorker, BorrowStarts(w) \/ ReviewStarts(w), UNCHANGED <<deployment, spending, forecast>>
    PROVE  Reads(w) \/ Deletes(w)
<1>1. ASSUME BorrowStarts(w) PROVE Reads(w) \/ Deletes(w)
  <2>1. PICK b \in Within("borrow", Borrows, {d \in Borrows : borrow[d].status # "absent"}) :
          \/ DeleteBorrow(w, b) \/ ReadApproval(w, b)
          \/ \E from \in Allocated, to \in Allocated \cup {None},
                scope \in deployment.scopes \cup {"none"}, amount \in deployment.amounts :
               ReadBorrow(w, b, [status |-> IF borrow[b].status = "absent" THEN "draft" ELSE borrow[b].status,
                                 from |-> from, to |-> to, scope |-> scope, amount |-> amount])
    BY <1>1 DEF BorrowStarts
  <2>2. b \in Borrows
    BY WithinIs, Tables
  <2> QED
    BY <2>1, <2>2, ApprovalReads, BorrowReads DEF Deletes
<1>2. ASSUME ReviewStarts(w) PROVE Reads(w)
  BY <1>2, ReviewSourceReads, ReviewAllocationReads, ReviewBorrowReads DEF ReviewStarts
<1> QED
  BY <1>1, <1>2

LEMMA SpendingStartIs ==
    ASSUME TypeInv, NEW w \in AnyWorker, SpendingStarts(w), UNCHANGED <<deployment, source, alloc, borrow, forecast>>
    PROVE  Reads(w) \/ Deletes(w)
<1>1. PICK t \in Within("spending", Spendings, {u \in Spendings : spending[u].exists}) :
        \/ DeleteSpending(w, t)
        \/ \E amount \in deployment.amounts, task \in BOOLEAN : RequestSpending(w, t, amount, task)
  BY DEF SpendingStarts
<1>2. t \in Spendings
  BY WithinIs, Tables
<1> QED
  BY <1>1, <1>2, SpendingReads DEF Deletes

\* What a thread finishes.
Finishes(w) ==
    \/ (SaveSource(w) \/ SaveAllocation(w) \/ SaveForecast(w)) /\ UNCHANGED <<deployment, borrow, spending>>
    \/ (SaveStatus(w) \/ SaveBorrow(w) \/ ApproveBorrow(w)) /\ UNCHANGED <<deployment, spending, forecast>>
    \/ Draw(w) /\ UNCHANGED <<deployment, source, alloc, borrow, forecast>>

LEMMA StepIs ==
    ASSUME TypeInv, Next
    PROVE  \E w \in AnyWorker : Reads(w) \/ Deletes(w) \/ Finishes(w)
<1>1. PICK w \in AnyWorker : Starts(w) \/ Continues(w)
  BY DEF Next
<1>2. Continues(w) => Finishes(w)
  BY DEF Continues, TreeContinues, Finishes
<1>3. Starts(w) => Reads(w) \/ Deletes(w)
  BY TreeStartIs, BorrowStartIs, SpendingStartIs DEF Starts
<1> QED
  BY <1>1, <1>2, <1>3

-----------------------------------------------------------------------------
(* The types *)

LEMMA DeletedKeeps ==
    ASSUME TypeInv, TypeOK', Allocated' \subseteq Allocated, UNCHANGED <<deployment, budgetCall>> PROVE TypeInv'
<1>1. CallsOK'
  BY DEF TypeInv, CallsOK
<1>2. Known' \subseteq Known /\ Creators' \subseteq Creators
  BY DEF Known, Held, Creators
<1> QED
  BY <1>1, <1>2, RoomStays DEF TypeInv

LEMMA FinishCalls ==
    ASSUME TypeInv, NEW w \in AnyWorker, Finish(w), UNCHANGED deployment
    PROVE  /\ CallsOK' /\ Creators' \subseteq Creators \ {w} /\ budgetCall'[w] = IdleCall
           /\ \A v \in AnyWorker \ {w} : budgetCall'[v] = budgetCall[v]
           /\ \A K : Allocated' \subseteq K /\ Known \subseteq K => Known' \subseteq K
<1>1. Call(w, IdleCall) /\ CallOK(IdleCall) /\ NamedBy(IdleCall) = {} /\ ~Creates(IdleCall) /\ IdleCall.step = "idle"
  BY NoRows DEF Finish, IdleCall
<1>2. CallsOK'
  BY <1>1, CallsAfter
<1>3. Creators' \subseteq Creators \ {w}
  BY <1>1, CreatorsByCalls
<1>4. budgetCall'[w] = IdleCall /\ \A v \in AnyWorker \ {w} : budgetCall'[v] = budgetCall[v]
  BY <1>1, CallTakes DEF TypeInv
<1>5. \A K : Allocated' \subseteq K /\ Known \subseteq K => Known' \subseteq K
  BY <1>1, KnownByCalls
<1> QED
  BY <1>2, <1>3, <1>4, <1>5

LEMMA FinishKeeps ==
    ASSUME TypeInv, NEW w \in AnyWorker, Finish(w), UNCHANGED deployment, TypeOK', Allocated' \subseteq Known
    PROVE  TypeInv'
<1>1. CallsOK' /\ Creators' \subseteq Creators /\ Known' \subseteq Known
  BY FinishCalls
<1> QED
  BY <1>1, RoomStays DEF TypeInv

LEMMA FinishCreates ==
    ASSUME TypeInv, NEW w \in AnyWorker, Finish(w), UNCHANGED deployment, TypeOK', w \in Creators,
           NEW n, Allocated' \subseteq Known \cup {n}
    PROVE  TypeInv'
<1>1. CallsOK' /\ Creators' \subseteq Creators \ {w} /\ Known' \subseteq Known \cup {n}
  BY FinishCalls
<1>2. /\ IsFiniteSet(Known) /\ IsFiniteSet(Creators)
      /\ Cardinality(Known) \in Nat /\ Cardinality(Creators) \in Nat /\ Cardinality(Allocations) \in Nat
  BY FiniteKnown DEF TypeInv
<1>3. IsFiniteSet(Creators \ {w}) /\ Cardinality(Creators \ {w}) = Cardinality(Creators) - 1
  BY <1>2, FS_RemoveElement
<1>4. IsFiniteSet(Known \cup {n}) /\ Cardinality(Known \cup {n}) <= Cardinality(Known) + 1
  <2> DEFINE K == Known
  <2>1. IsFiniteSet(K) /\ Cardinality(K) \in Nat
    BY <1>2
  <2> HIDE DEF K
  <2>2. IsFiniteSet(K \cup {n}) /\ Cardinality(K \cup {n}) = IF n \in K THEN Cardinality(K) ELSE Cardinality(K) + 1
    BY <2>1, FS_AddElement
  <2>3. IsFiniteSet(K \cup {n}) /\ Cardinality(K \cup {n}) <= Cardinality(K) + 1
    BY <2>1, <2>2
  <2> QED
    BY <2>3 DEF K
<1>5. /\ Cardinality(Known') <= Cardinality(Known \cup {n}) /\ Cardinality(Creators') <= Cardinality(Creators \ {w})
      /\ Cardinality(Known') \in Nat /\ Cardinality(Creators') \in Nat /\ Cardinality(Known \cup {n}) \in Nat
  BY <1>1, <1>3, <1>4, FS_Subset, FS_CardinalityType
<1>6. Cardinality(Known) + Cardinality(Creators) <= Cardinality(Allocations)
  BY DEF TypeInv, RoomLeft
<1>7. RoomLeft'
  BY <1>2, <1>3, <1>4, <1>5, <1>6 DEF RoomLeft
<1> QED
  BY <1>1, <1>7 DEF TypeInv

LEMMA NothingTaken == \A a \in Allocations : Share(NoSpending, a) = 0
BY Tables DEF Share, NoSpending

\* An allocation that nothing was spent from has no part in any transaction.
LEMMA NothingSpent ==
    ASSUME TypeOK, NEW a \in Allocations, Actual(a) = 0 PROVE \A t \in Spendings : Share(spending[t], a) = 0
<1> DEFINE v == [t \in Spendings |-> Share(spending[t], a)]
<1>1. IsFiniteSet(Spendings) /\ Natural(v, Spendings) /\ Integral(v, Spendings)
  BY SumsOfRows, Tables DEF Natural, Integral
<1>2. SumFunctionOnSet(v, Spendings) = 0
  BY DEF Actual
<1>3. \A t \in Spendings : v[t] = Share(spending[t], a)
  OBVIOUS
<1> HIDE DEF v
<1>4. ASSUME NEW t \in Spendings PROVE v[t] = 0
  <2>1. SumFunctionOnSet(v, Spendings) = v[t] + SumFunctionOnSet(v, Spendings \ {t})
    BY <1>1, SumRemove
  <2>2. IsFiniteSet(Spendings \ {t}) /\ Natural(v, Spendings \ {t})
    BY <1>1, FS_Subset DEF Natural
  <2>3. SumFunctionOnSet(v, Spendings \ {t}) \in Nat
    BY <2>2, SumNat
  <2> QED
    BY <1>1, <1>2, <2>1, <2>3 DEF Natural
<1> QED
  BY <1>3, <1>4

LEMMA SaveSourceTypes ==
    ASSUME TypeInv, NEW w \in AnyWorker, SaveSource(w), UNCHANGED <<deployment, borrow, spending>>
    PROVE  TypeInv'
<1> DEFINE c == budgetCall[w]
<1>1. c.id \in Sources /\ StoredSource(c.copy)
  BY DEF TypeInv, CallsOK, CallOK, SaveOK, SaveSource
<1>2. source' = [source EXCEPT ![c.id] = c.copy] /\ Finish(w) /\ UNCHANGED <<alloc, forecast>>
  BY DEF SaveSource
<1> HIDE DEF c
<1>3. source' \in [Sources -> SourceRows]
  BY <1>1, <1>2 DEF TypeInv, TypeOK, StoredSource
<1>4. Allocated' = Allocated /\ \A a \in Allocated' : alloc'[a].source # None /\ source'[alloc'[a].source].status # "absent"
  BY <1>1, <1>2 DEF TypeInv, TypeOK, Allocated, StoredSource, AllocationRows
<1>5. TypeOK'
  BY <1>2, <1>3, <1>4 DEF TypeInv, TypeOK
<1> QED
  BY <1>2, <1>4, <1>5, FinishKeeps DEF Known

LEMMA SaveForecastTypes ==
    ASSUME TypeInv, NEW w \in AnyWorker, SaveForecast(w), UNCHANGED <<deployment, borrow, spending>>
    PROVE  TypeInv'
<1> DEFINE c == budgetCall[w]
<1>1. c.id \in Forecasts /\ c.copy \in ForecastRows
  BY DEF TypeInv, CallsOK, CallOK, SaveOK, SaveForecast
<1>2. /\ \/ forecast' = [forecast EXCEPT ![c.id] = c.copy] /\ c.copy.linked \in Allocated \cup {None}
         \/ forecast' = forecast
      /\ Finish(w) /\ UNCHANGED <<source, alloc>>
  BY DEF SaveForecast
<1> HIDE DEF c
<1>3. forecast' \in [Forecasts -> ForecastRows] /\ \A f \in Forecasts : forecast'[f].linked \in Allocated \cup {None}
  BY <1>1, <1>2 DEF TypeInv, TypeOK
<1>4. Allocated' = Allocated
  BY <1>2 DEF Allocated
<1>5. TypeOK'
  BY <1>2, <1>3, <1>4 DEF TypeInv, TypeOK, Share
<1> QED
  BY <1>2, <1>4, <1>5, FinishKeeps DEF Known

LEMMA DeleteTypes ==
    ASSUME TypeInv, NEW w \in AnyWorker, Deletes(w) PROVE TypeInv'
<1>1. ASSUME NEW s \in Sources, DeleteSource(w, s), UNCHANGED <<deployment, borrow, spending>> PROVE TypeInv'
  <2>1. source' = [source EXCEPT ![s] = NoSource] /\ UNCHANGED <<alloc, forecast, budgetCall>>
    BY <1>1 DEF DeleteSource
  <2>2. \A a \in Allocated : alloc[a].source # s
    BY <1>1 DEF DeleteSource
  <2>3. source' \in [Sources -> SourceRows]
    BY <2>1, NoRows DEF TypeInv, TypeOK
  <2>4. Allocated' = Allocated
    BY <2>1 DEF Allocated
  <2>5. \A a \in Allocated' : alloc'[a].source # None /\ source'[alloc'[a].source].status # "absent"
    BY <2>1, <2>2, <2>4 DEF TypeInv, TypeOK
  <2>6. TypeOK'
    BY <1>1, <2>1, <2>3, <2>4, <2>5 DEF TypeInv, TypeOK
  <2> QED
    BY <1>1, <2>1, <2>4, <2>6, DeletedKeeps
<1>2. ASSUME NEW a \in Allocated, DeleteAllocation(w, a), UNCHANGED <<deployment, borrow, spending>> PROVE TypeInv'
  <2>1. /\ alloc' = [alloc EXCEPT ![a] = NoAllocation] /\ forecast' = Unlinked(a) /\ UNCHANGED <<source, budgetCall>>
        /\ Children(a) = {} /\ Actual(a) = 0 /\ \A b \in Borrows : a \notin {borrow[b].from, borrow[b].to}
    BY <1>2 DEF DeleteAllocation
  <2>2. a \in Allocations /\ a # None
    BY Tables DEF Allocated
  <2>3. alloc' \in [Allocations -> AllocationRows]
    BY <2>1, NoRows DEF TypeInv, TypeOK
  <2>4. Allocated' = Allocated \ {a}
    BY <2>1, <2>2 DEF Allocated, TypeInv, TypeOK, NoAllocation
  <2>5. \A p \in Allocations : alloc'[p].parent \in Allocated' \cup {None}
    <3>1. \A p \in Allocations : alloc[p].parent # a
      <4> SUFFICES ASSUME NEW p \in Allocations, alloc[p].parent = a PROVE FALSE
        OBVIOUS
      <4>1. p \notin Allocated
        BY <2>1 DEF Children
      <4>2. alloc[p] = NoAllocation
        BY <4>1 DEF TypeInv, TypeOK
      <4> QED
        BY <2>2, <4>2 DEF NoAllocation
    <3>2. \A p \in Allocations : alloc[p].parent \in Allocated \cup {None}
      BY RowTypes DEF TypeInv
    <3> QED
      BY <2>1, <2>4, <3>1, <3>2 DEF NoAllocation, TypeInv, TypeOK
  <2>6. forecast' \in [Forecasts -> ForecastRows] /\ \A f \in Forecasts : forecast'[f].linked \in Allocated' \cup {None}
    BY <2>1, <2>4 DEF TypeInv, TypeOK, Unlinked, ForecastRows
  <2>7. \A b \in Borrows : borrow'[b].from \in Allocated' \cup {None} /\ borrow'[b].to \in Allocated' \cup {None}
    <3>1. \A b \in Borrows : borrow[b].from \in Allocated \cup {None} /\ borrow[b].to \in Allocated \cup {None}
      BY RowTypes DEF TypeInv
    <3> QED
      BY <1>2, <2>1, <2>4, <3>1
  <2>8. \A t \in Spendings : \A x \in Allocations : Share(spending[t], x) > 0 => x \in Allocated'
    <3>1. \A t \in Spendings : Share(spending[t], a) = 0
      BY <2>1, <2>2, NothingSpent DEF TypeInv
    <3> QED
      BY <2>4, <3>1 DEF TypeInv, TypeOK
  <2>9. \A x \in Allocated' : alloc'[x].source # None /\ source'[alloc'[x].source].status # "absent"
    BY <2>1, <2>4 DEF TypeInv, TypeOK
  <2>10. \A x \in Allocations \ Allocated' : alloc'[x] = NoAllocation
    BY <2>1, <2>2, <2>4 DEF TypeInv, TypeOK
  <2>11. TypeOK'
    BY <1>2, <2>1, <2>3, <2>5, <2>6, <2>7, <2>8, <2>9, <2>10 DEF TypeInv, TypeOK
  <2> QED
    BY <1>2, <2>1, <2>4, <2>11, DeletedKeeps
<1>3. ASSUME NEW f \in Forecasts, DeleteForecast(w, f), UNCHANGED <<deployment, borrow, spending>> PROVE TypeInv'
  <2>1. forecast' = [forecast EXCEPT ![f] = NoForecast] /\ UNCHANGED <<source, alloc, budgetCall>>
    BY <1>3 DEF DeleteForecast
  <2>2. forecast' \in [Forecasts -> ForecastRows] /\ \A g \in Forecasts : forecast'[g].linked \in Allocated \cup {None}
    BY <2>1, NoRows DEF TypeInv, TypeOK, NoForecast
  <2>3. Allocated' = Allocated
    BY <2>1 DEF Allocated
  <2>4. TypeOK'
    BY <1>3, <2>1, <2>2, <2>3 DEF TypeInv, TypeOK, Share
  <2> QED
    BY <1>3, <2>1, <2>3, <2>4, DeletedKeeps
<1>4. ASSUME NEW b \in Borrows, DeleteBorrow(w, b), UNCHANGED <<deployment, spending, forecast>> PROVE TypeInv'
  <2>1. borrow' = [borrow EXCEPT ![b] = NoBorrow] /\ UNCHANGED <<source, alloc, budgetCall>>
    BY <1>4 DEF DeleteBorrow
  <2>2. /\ borrow' \in [Borrows -> BorrowRows]
        /\ \A d \in Borrows : borrow'[d].from \in Allocated \cup {None} /\ borrow'[d].to \in Allocated \cup {None}
        /\ \A d \in Borrows : borrow'[d].status # "absent" =>
             borrow'[d].from # None /\ (borrow'[d].to = None => borrow'[d].scope # "none")
    BY <2>1, NoRows DEF TypeInv, TypeOK, NoBorrow
  <2>3. Allocated' = Allocated
    BY <2>1 DEF Allocated
  <2>4. TypeOK'
    BY <1>4, <2>1, <2>2, <2>3 DEF TypeInv, TypeOK, Share
  <2> QED
    BY <1>4, <2>1, <2>3, <2>4, DeletedKeeps
<1>5. ASSUME NEW t \in Spendings, DeleteSpending(w, t), UNCHANGED <<deployment, source, alloc, borrow, forecast>>
      PROVE  TypeInv'
  <2>1. spending' = [spending EXCEPT ![t] = NoSpending] /\ UNCHANGED budgetCall
    BY <1>5 DEF DeleteSpending
  <2>2. spending' \in [Spendings -> SpendingRows]
    BY <2>1, NoRows DEF TypeInv, TypeOK
  <2>3. Allocated' = Allocated
    BY <1>5 DEF Allocated
  <2>4. \A u \in Spendings : \A a \in Allocations : Share(spending'[u], a) > 0 => a \in Allocated
    BY <2>1, NothingTaken DEF TypeInv, TypeOK
  <2>5. TypeOK'
    BY <1>5, <2>1, <2>2, <2>3, <2>4 DEF TypeInv, TypeOK
  <2> QED
    BY <1>5, <2>1, <2>3, <2>5, DeletedKeeps
<1> QED
  BY <1>1, <1>2, <1>3, <1>4, <1>5 DEF Deletes

\* What a thread that makes an allocation finds free.
LEMMA FreeRow ==
    ASSUME TypeInv, NEW w \in Creators PROVE NewAllocation \in Allocations /\ NewAllocation \notin Known
<1>1. /\ IsFiniteSet(Creators) /\ Cardinality(Known) \in Nat /\ Cardinality(Creators) \in Nat
      /\ Cardinality(Allocations) \in Nat
  BY FiniteKnown DEF TypeInv
<1>2. Cardinality(Creators) # 0
  BY <1>1, FS_EmptySet
<1>3. Cardinality(Known) < Cardinality(Allocations)
  BY <1>1, <1>2 DEF TypeInv, RoomLeft
<1> QED
  BY <1>3, NewIs DEF TypeInv

Target(c) == IF c.id = None THEN NewAllocation ELSE c.id

LEMMA SaveAllocationIs ==
    ASSUME TypeInv, NEW w \in AnyWorker, SaveAllocation(w)
    PROVE  LET c == budgetCall[w] IN
           /\ c.step = "save" /\ c.table = "allocation" /\ StoredAllocation(c.copy)
           /\ Finish(w) /\ UNCHANGED <<source, forecast>>
           /\ Target(c) \in Allocations /\ Target(c) # None
           /\ c.id = None => w \in Creators /\ Target(c) \notin Known
           /\ c.id # None => Target(c) = c.id /\ c.id \in Known
           /\ \/ alloc' = alloc
              \/ /\ alloc' = [alloc EXCEPT ![Target(c)] = c.copy]
                 /\ source[c.copy.source].status # "absent" /\ c.copy.parent \in Allocated \cup {None}
<1> DEFINE c == budgetCall[w]
<1>1. c.step = "save" /\ c.table = "allocation" /\ Finish(w)
  BY DEF SaveAllocation
<1>2. UNCHANGED <<source, forecast>>
  BY DEF SaveAllocation
<1>3. \/ alloc' = alloc
      \/ /\ alloc' = [alloc EXCEPT ![Target(c)] = c.copy]
         /\ source[c.copy.source].status # "absent" /\ c.copy.parent \in Allocated \cup {None}
  BY DEF SaveAllocation, Target
<1>4. c.id \in Allocations \cup {None} /\ StoredAllocation(c.copy)
  BY <1>1 DEF TypeInv, CallsOK, CallOK, SaveOK
<1>5. ASSUME c.id = None PROVE w \in Creators /\ Target(c) \in Allocations /\ Target(c) \notin Known
  <2>1. w \in Creators
    BY <1>1, <1>5 DEF Creators, Creates
  <2> QED
    BY <1>5, <2>1, FreeRow DEF Target
<1>6. ASSUME c.id # None PROVE Target(c) = c.id /\ c.id \in Known
  <2>1. c.id \in NamedBy(c)
    BY <1>1, NamedByIs
  <2> QED
    BY <1>6, <2>1 DEF Target, Known, Held
<1>7. Target(c) \in Allocations /\ Target(c) # None
  BY <1>4, <1>5, <1>6, Tables
<1> QED
  BY <1>1, <1>2, <1>3, <1>4, <1>5, <1>6, <1>7

LEMMA PutAllocation ==
    ASSUME TypeOK, NEW a \in Allocations, NEW row, StoredAllocation(row), source[row.source].status # "absent",
           row.parent \in Allocated \cup {None}, alloc' = [alloc EXCEPT ![a] = row],
           UNCHANGED <<source, spending, forecast>>
    PROVE  /\ alloc' \in [Allocations -> AllocationRows] /\ Allocated' = Allocated \cup {a}
           /\ \A x \in Allocated' : alloc'[x].source # None /\ source'[alloc'[x].source].status # "absent"
           /\ \A x \in Allocations \ Allocated' : alloc'[x] = NoAllocation
           /\ \A x \in Allocations : alloc'[x].parent \in Allocated' \cup {None}
           /\ \A f \in Forecasts : forecast'[f].linked \in Allocated' \cup {None}
           /\ \A t \in Spendings : \A x \in Allocations : Share(spending'[t], x) > 0 => x \in Allocated'
<1>1. alloc' \in [Allocations -> AllocationRows]
  BY DEF TypeOK, StoredAllocation
<1>2. Allocated' = Allocated \cup {a}
  BY DEF TypeOK, StoredAllocation, Allocated
<1>3. \A x \in Allocations : x # a => alloc'[x] = alloc[x]
  BY DEF TypeOK
<1>4. alloc'[a] = row
  BY DEF TypeOK
<1>5. \A x \in Allocated' : alloc'[x].source # None /\ source'[alloc'[x].source].status # "absent"
  BY <1>2, <1>3, <1>4 DEF TypeOK, StoredAllocation, Allocated
<1>6. \A x \in Allocations \ Allocated' : alloc'[x] = NoAllocation
  BY <1>2, <1>3 DEF TypeOK
<1>7. \A x \in Allocations : alloc'[x].parent \in Allocated' \cup {None}
  BY <1>2, <1>3, <1>4, RowTypes
<1>8. \A f \in Forecasts : forecast'[f].linked \in Allocated' \cup {None}
  BY <1>2 DEF TypeOK
<1>9. \A t \in Spendings : \A x \in Allocations : Share(spending'[t], x) > 0 => x \in Allocated'
  BY <1>2 DEF TypeOK
<1> QED
  BY <1>1, <1>2, <1>5, <1>6, <1>7, <1>8, <1>9

\* What TypeOK says of the borrows.
BorrowTypes ==
    /\ borrow \in [Borrows -> BorrowRows]
    /\ \A b \in Borrows : borrow[b].status # "absent" =>
         borrow[b].from # None /\ (borrow[b].to = None => borrow[b].scope # "none")
    /\ \A b \in Borrows : borrow[b].from \in Allocated \cup {None} /\ borrow[b].to \in Allocated \cup {None}

LEMMA PutTypes ==
    ASSUME TypeOK, NEW a \in Allocations, NEW row, StoredAllocation(row), source[row.source].status # "absent",
           row.parent \in Allocated \cup {None}, alloc' = [alloc EXCEPT ![a] = row],
           UNCHANGED <<source, spending, forecast>>, BorrowTypes'
    PROVE  TypeOK' /\ Allocated' = Allocated \cup {a}
<1>1. /\ alloc' \in [Allocations -> AllocationRows] /\ Allocated' = Allocated \cup {a}
      /\ \A x \in Allocated' : alloc'[x].source # None /\ source'[alloc'[x].source].status # "absent"
      /\ \A x \in Allocations \ Allocated' : alloc'[x] = NoAllocation
      /\ \A x \in Allocations : alloc'[x].parent \in Allocated' \cup {None}
      /\ \A f \in Forecasts : forecast'[f].linked \in Allocated' \cup {None}
      /\ \A t \in Spendings : \A x \in Allocations : Share(spending'[t], x) > 0 => x \in Allocated'
  BY PutAllocation
<1> QED
  BY <1>1 DEF TypeOK, BorrowTypes

LEMMA SaveAllocationTypes ==
    ASSUME TypeInv, NEW w \in AnyWorker, SaveAllocation(w), UNCHANGED <<deployment, borrow, spending>>
    PROVE  TypeInv'
<1> DEFINE c == budgetCall[w]
           a == Target(c)
<1>1. /\ StoredAllocation(c.copy) /\ Finish(w) /\ UNCHANGED <<source, forecast>> /\ a \in Allocations
      /\ c.id = None => w \in Creators
      /\ c.id # None => a \in Known
      /\ \/ alloc' = alloc
         \/ /\ alloc' = [alloc EXCEPT ![a] = c.copy]
            /\ source[c.copy.source].status # "absent" /\ c.copy.parent \in Allocated \cup {None}
  BY SaveAllocationIs
<1> HIDE DEF c, a
<1>2. CASE alloc' = alloc
  <2>1. TypeOK' /\ Allocated' = Allocated
    BY <1>1, <1>2, SameTypes DEF TypeInv
  <2> QED
    BY <1>1, <2>1, FinishKeeps DEF Known
<1>3. CASE /\ alloc' = [alloc EXCEPT ![a] = c.copy]
           /\ source[c.copy.source].status # "absent" /\ c.copy.parent \in Allocated \cup {None}
  <2>1. BorrowTypes'
    <3>1. Allocated' = Allocated \cup {a}
      BY <1>1, <1>3, PutAllocation DEF TypeInv
    <3> QED
      BY <3>1 DEF BorrowTypes, TypeInv, TypeOK
  <2>2. TypeOK' /\ Allocated' = Allocated \cup {a}
    BY <1>1, <1>3, <2>1, PutTypes DEF TypeInv
  <2>3. CASE c.id = None
    BY <1>1, <2>2, <2>3, FinishCreates DEF Known
  <2>4. CASE c.id # None
    <3>1. Allocated' \subseteq Known
      BY <1>1, <2>2, <2>4 DEF Known
    <3> QED
      BY <1>1, <2>2, <3>1, FinishKeeps
  <2> QED
    BY <2>3, <2>4
<1> QED
  BY <1>1, <1>2, <1>3

\* A review changes one status, of a row that still exists.
StatusWritten(c) ==
    \/ UNCHANGED <<source, alloc, borrow>>
    \/ /\ c.table = "source" /\ c.id \in Sources /\ source[c.id].status # "absent" /\ UNCHANGED <<alloc, borrow>>
       /\ source' = [source EXCEPT ![c.id].status = c.copy.status]
    \/ /\ c.table = "allocation" /\ c.id \in Allocated /\ UNCHANGED <<source, borrow>>
       /\ alloc' = [alloc EXCEPT ![c.id].status = c.copy.status]
    \/ /\ c.table = "borrow" /\ c.id \in Borrows /\ borrow[c.id].status # "absent" /\ UNCHANGED <<source, alloc>>
       /\ borrow' = [borrow EXCEPT ![c.id].status = c.copy.status]

LEMMA SaveStatusIs ==
    ASSUME TypeInv, NEW w \in AnyWorker, SaveStatus(w)
    PROVE  LET c == budgetCall[w] IN
           c.step = "status" /\ StatusOK(c) /\ Finish(w) /\ StatusWritten(c)
<1> DEFINE c == budgetCall[w]
<1>1. c.step = "status" /\ Finish(w)
  BY DEF SaveStatus
<1>2. StatusOK(c)
  BY <1>1 DEF TypeInv, CallsOK, CallOK
<1>3. /\ source' = IF "source" = c.table /\ source[c.id].status # "absent"
                   THEN [source EXCEPT ![c.id].status = c.copy.status] ELSE source
      /\ alloc' = IF "allocation" = c.table /\ alloc[c.id].status # "absent"
                  THEN [alloc EXCEPT ![c.id].status = c.copy.status] ELSE alloc
      /\ borrow' = IF "borrow" = c.table /\ borrow[c.id].status # "absent"
                   THEN [borrow EXCEPT ![c.id].status = c.copy.status] ELSE borrow
  BY DEF SaveStatus
<1>4. /\ c.table \in {"source", "allocation", "borrow"}
      /\ c.table = "source" => c.id \in Sources
      /\ c.table = "allocation" => c.id \in Allocations
      /\ c.table = "borrow" => c.id \in Borrows
  BY <1>2 DEF StatusOK
<1> HIDE DEF c
<1>5. StatusWritten(c)
  <2>1. CASE c.table = "source"
    BY <1>3, <1>4, <2>1 DEF StatusWritten
  <2>2. CASE c.table = "allocation"
    BY <1>3, <1>4, <2>2 DEF StatusWritten, Allocated
  <2>3. CASE c.table = "borrow"
    BY <1>3, <1>4, <2>3 DEF StatusWritten
  <2> QED
    BY <1>4, <2>1, <2>2, <2>3
<1> QED
  BY <1>1, <1>2, <1>5 DEF c

LEMMA SaveStatusTypes ==
    ASSUME TypeInv, NEW w \in AnyWorker, SaveStatus(w), UNCHANGED <<deployment, spending, forecast>>
    PROVE  TypeInv' /\ Allocated' = Allocated
<1> DEFINE c == budgetCall[w]
<1>1. StatusOK(c) /\ Finish(w) /\ StatusWritten(c)
  BY SaveStatusIs
<1> HIDE DEF c
<1>3. ASSUME UNCHANGED <<source, alloc, borrow>> PROVE TypeOK' /\ Allocated' = Allocated
  BY <1>3, SameTypes DEF TypeInv
<1>4. ASSUME c.table = "source", c.id \in Sources, source[c.id].status # "absent", UNCHANGED <<alloc, borrow>>,
             source' = [source EXCEPT ![c.id].status = c.copy.status]
      PROVE  TypeOK' /\ Allocated' = Allocated
  <2>1. c.copy.status \in {"submitted", "approved", "rejected"}
    BY <1>1, <1>4 DEF StatusOK
  <2>2. source' \in [Sources -> SourceRows]
    BY <1>4, <2>1 DEF TypeInv, TypeOK, SourceRows, Statuses
  <2>3. \A s \in Sources : source[s].status # "absent" => source'[s].status # "absent"
    BY <1>4, <2>1 DEF TypeInv, TypeOK, SourceRows
  <2>4. Allocated' = Allocated
    BY <1>4 DEF Allocated
  <2>5. \A a \in Allocated : source'[alloc[a].source].status # "absent"
    BY <2>3 DEF TypeInv, TypeOK, Allocated, AllocationRows
  <2>6. TypeOK'
    BY <1>4, <2>2, <2>4, <2>5 DEF TypeInv, TypeOK
  <2> QED
    BY <2>4, <2>6
<1>5. ASSUME c.table = "allocation", c.id \in Allocated, UNCHANGED <<source, borrow>>,
             alloc' = [alloc EXCEPT ![c.id].status = c.copy.status]
      PROVE  TypeOK' /\ Allocated' = Allocated
  <2>1. c.copy.status \in {"submitted", "approved", "rejected"} /\ c.id \in Allocations
    BY <1>1, <1>5 DEF StatusOK
  <2>2. alloc' \in [Allocations -> AllocationRows]
    BY <1>5, <2>1 DEF TypeInv, TypeOK, AllocationRows, Statuses
  <2>3. \A a \in Allocations : a # c.id => alloc'[a] = alloc[a]
    BY <1>5 DEF TypeInv, TypeOK
  <2>4. /\ alloc'[c.id].status = c.copy.status /\ alloc'[c.id].source = alloc[c.id].source
        /\ alloc'[c.id].parent = alloc[c.id].parent
    BY <1>5, <2>1 DEF TypeInv, TypeOK, AllocationRows
  <2>5. Allocated' = Allocated
    BY <1>5, <2>1, <2>3, <2>4 DEF Allocated
  <2>6. /\ \A a \in Allocated' : alloc'[a].source # None /\ source'[alloc'[a].source].status # "absent"
        /\ \A a \in Allocations \ Allocated' : alloc'[a] = NoAllocation
    BY <1>5, <2>3, <2>4, <2>5 DEF TypeInv, TypeOK, Allocated
  <2>7. \A a \in Allocations : alloc'[a].parent \in Allocated \cup {None}
    BY <2>1, <2>3, <2>4, RowTypes DEF TypeInv
  <2>8. TypeOK'
    BY <1>5, <2>2, <2>5, <2>6, <2>7 DEF TypeInv, TypeOK
  <2> QED
    BY <2>5, <2>8
<1>6. ASSUME c.table = "borrow", c.id \in Borrows, borrow[c.id].status # "absent", UNCHANGED <<source, alloc>>,
             borrow' = [borrow EXCEPT ![c.id].status = c.copy.status]
      PROVE  TypeOK' /\ Allocated' = Allocated
  <2>1. c.copy.status \in {"submitted", "rejected", "settled"}
    BY <1>1, <1>6 DEF StatusOK
  <2>2. borrow' \in [Borrows -> BorrowRows]
    <3>1. borrow \in [Borrows -> BorrowRows]
      BY DEF TypeInv, TypeOK
    <3>2. borrow' = [borrow EXCEPT ![c.id] = [borrow[c.id] EXCEPT !.status = c.copy.status]]
      BY <1>6
    <3>3. borrow[c.id] \in BorrowRows /\ c.copy.status \in Statuses
      BY <1>6, <2>1, <3>1 DEF Statuses
    <3>4. [borrow[c.id] EXCEPT !.status = c.copy.status] \in BorrowRows
      BY <3>3 DEF BorrowRows
    <3> QED
      BY <1>6, <3>1, <3>2, <3>4
  <2>3. \A b \in Borrows : /\ borrow'[b].from = borrow[b].from /\ borrow'[b].to = borrow[b].to
                           /\ borrow'[b].scope = borrow[b].scope
    BY <1>6 DEF TypeInv, TypeOK, BorrowRows
  <2>4. \A b \in Borrows : borrow'[b].status # "absent" => borrow[b].status # "absent"
    BY <1>6 DEF TypeInv, TypeOK
  <2>5. Allocated' = Allocated
    BY <1>6 DEF Allocated
  <2>6. \A b \in Borrows : borrow'[b].from \in Allocated \cup {None} /\ borrow'[b].to \in Allocated \cup {None}
    BY <2>3, RowTypes DEF TypeInv
  <2>7. TypeOK'
    BY <1>6, <2>2, <2>3, <2>4, <2>5, <2>6 DEF TypeInv, TypeOK
  <2> QED
    BY <2>5, <2>7
<1>7. TypeOK' /\ Allocated' = Allocated
  BY <1>1, <1>3, <1>4, <1>5, <1>6 DEF StatusWritten
<1> QED
  BY <1>1, <1>7, FinishKeeps DEF Known

LEMMA SaveBorrowIs ==
    ASSUME TypeInv, NEW w \in AnyWorker, SaveBorrow(w)
    PROVE  LET c == budgetCall[w] IN
           /\ c.step = "save" /\ c.table = "borrow" /\ c.id \in Borrows /\ StoredBorrow(c.copy)
           /\ Finish(w) /\ UNCHANGED <<source, alloc>>
           /\ \/ borrow' = borrow
              \/ /\ borrow' = [borrow EXCEPT ![c.id] = c.copy]
                 /\ c.copy.from \in Allocated /\ c.copy.to \in Allocated \cup {None}
<1> DEFINE c == budgetCall[w]
<1>1. c.step = "save" /\ c.table = "borrow" /\ Finish(w)
  BY DEF SaveBorrow
<1>2. UNCHANGED <<source, alloc>>
  BY DEF SaveBorrow
<1>3. \/ borrow' = borrow
      \/ /\ borrow' = [borrow EXCEPT ![c.id] = c.copy]
         /\ c.copy.from \in Allocated /\ c.copy.to \in Allocated \cup {None}
  BY DEF SaveBorrow
<1>4. c.id \in Borrows /\ StoredBorrow(c.copy)
  BY <1>1 DEF TypeInv, CallsOK, CallOK, SaveOK
<1> QED
  BY <1>1, <1>2, <1>3, <1>4

LEMMA SaveBorrowTypes ==
    ASSUME TypeInv, NEW w \in AnyWorker, SaveBorrow(w), UNCHANGED <<deployment, spending, forecast>>
    PROVE  TypeInv' /\ Allocated' = Allocated
<1> DEFINE c == budgetCall[w]
<1>1. /\ c.id \in Borrows /\ StoredBorrow(c.copy) /\ Finish(w) /\ UNCHANGED <<source, alloc>>
      /\ \/ borrow' = borrow
         \/ /\ borrow' = [borrow EXCEPT ![c.id] = c.copy]
            /\ c.copy.from \in Allocated /\ c.copy.to \in Allocated \cup {None}
  BY SaveBorrowIs
<1> HIDE DEF c
<1>2. Allocated' = Allocated
  BY <1>1 DEF Allocated
<1>3. /\ borrow' \in [Borrows -> BorrowRows]
      /\ \A b \in Borrows : borrow'[b].status # "absent" =>
           borrow'[b].from # None /\ (borrow'[b].to = None => borrow'[b].scope # "none")
      /\ \A b \in Borrows : borrow'[b].from \in Allocated \cup {None} /\ borrow'[b].to \in Allocated \cup {None}
  BY <1>1 DEF TypeInv, TypeOK, StoredBorrow
<1>4. TypeOK'
  BY <1>1, <1>2, <1>3 DEF TypeInv, TypeOK, Share
<1> QED
  BY <1>1, <1>2, <1>4, FinishKeeps DEF Known

\* The destination that an approval makes.
SinkOf(c) == [status |-> "approved", source |-> c.lender.source, parent |-> None,
              scope |-> c.copy.scope, amount |-> 0, sink |-> TRUE]

\* An approval writes nothing, the status, or the status and a new destination.
ApprovalWritten(c) ==
    \/ UNCHANGED <<alloc, borrow>>
    \/ /\ borrow[c.id].status # "absent"
       /\ OnSQLite => Affordable(c.id, c.copy, c.lender)
       /\ \/ /\ c.copy.to # None /\ UNCHANGED alloc
             /\ borrow' = [borrow EXCEPT ![c.id].status = "approved"]
          \/ /\ c.copy.to = None /\ NewAllocation \in Allocations \ Known
             /\ AllocationClean(NewAllocation, SinkOf(c), ModelRoots(SinkOf(c).source))
             /\ borrow' = [borrow EXCEPT ![c.id].status = "approved", ![c.id].to = NewAllocation]
             /\ alloc' = [alloc EXCEPT ![NewAllocation] = SinkOf(c)]

LEMMA ApproveBorrowIs ==
    ASSUME TypeInv, NEW w \in AnyWorker, ApproveBorrow(w)
    PROVE  LET c == budgetCall[w] IN
           /\ c.step = "approve" /\ ApproveOK(c) /\ Finish(w) /\ UNCHANGED source
           /\ c.copy.to = None => w \in Creators /\ StoredAllocation(SinkOf(c))
           /\ ApprovalWritten(c)
<1> DEFINE c == budgetCall[w]
           sink == [status |-> "approved", source |-> c.lender.source, parent |-> None,
                    scope |-> c.copy.scope, amount |-> 0, sink |-> TRUE]
           refused == \/ borrow[c.id].status = "absent"
                      \/ OnSQLite /\ ~Affordable(c.id, c.copy, c.lender)
                      \/ c.copy.to = None /\ ~AllocationClean(NewAllocation, sink, ModelRoots(sink.source))
<1>1. c.step = "approve" /\ Finish(w) /\ UNCHANGED source
  BY DEF ApproveBorrow
<1>2. IF refused
      THEN UNCHANGED <<alloc, borrow>>
      ELSE IF c.copy.to # None
      THEN borrow' = [borrow EXCEPT ![c.id].status = "approved"] /\ UNCHANGED alloc
      ELSE borrow' = [borrow EXCEPT ![c.id].status = "approved", ![c.id].to = NewAllocation]
           /\ alloc' = [alloc EXCEPT ![NewAllocation] = sink]
  BY DEF ApproveBorrow
<1>3. ApproveOK(c)
  BY <1>1 DEF TypeInv, CallsOK, CallOK
<1>4. c.copy.to = None => w \in Creators
  BY <1>1 DEF Creators, Creates
<1>5. c.copy.to = None => NewAllocation \in Allocations \ Known
  BY <1>4, FreeRow
<1>6. sink = SinkOf(c)
  BY DEF SinkOf
<1>7. c.copy.to = None => StoredAllocation(SinkOf(c))
  <2>1. c.lender.source \in Sources \cup {None} /\ c.lender.source # None
    BY <1>3 DEF ApproveOK, AllocationRows
  <2>2. c.copy.to = None => c.copy.scope \in Scopes
    BY <1>3 DEF ApproveOK, StoredBorrow, BorrowRows
  <2> QED
    BY <2>1, <2>2, Tables DEF SinkOf, StoredAllocation, AllocationRows, Statuses
<1> HIDE DEF sink, c
<1>8. ApprovalWritten(c)
  BY <1>2, <1>5, <1>6 DEF ApprovalWritten
<1> QED
  BY <1>1, <1>3, <1>4, <1>7, <1>8 DEF c

LEMMA ApproveBorrowTypes ==
    ASSUME TypeInv, NEW w \in AnyWorker, ApproveBorrow(w), UNCHANGED <<deployment, spending, forecast>>
    PROVE  TypeInv'
<1> DEFINE c == budgetCall[w]
<1>1. /\ ApproveOK(c) /\ Finish(w) /\ UNCHANGED source
      /\ c.copy.to = None => w \in Creators /\ StoredAllocation(SinkOf(c))
      /\ ApprovalWritten(c)
  BY ApproveBorrowIs
<1> HIDE DEF c
<1>2. c.id \in Borrows /\ borrow \in [Borrows -> BorrowRows]
  BY <1>1 DEF ApproveOK, TypeInv, TypeOK
<1>3. ASSUME UNCHANGED <<alloc, borrow>> PROVE TypeInv'
  <2>1. TypeOK' /\ Allocated' = Allocated
    BY <1>1, <1>3, SameTypes DEF TypeInv
  <2> QED
    BY <1>1, <2>1, FinishKeeps DEF Known
<1>4. ASSUME borrow[c.id].status # "absent", UNCHANGED alloc,
             borrow' = [borrow EXCEPT ![c.id].status = "approved"]
      PROVE  TypeInv'
  <2>1. borrow' = [borrow EXCEPT ![c.id] = [borrow[c.id] EXCEPT !.status = "approved"]]
    BY <1>4
  <2>2. StoredBorrow(borrow[c.id]) /\ borrow[c.id].from \in Allocated \cup {None} /\ borrow[c.id].to \in Allocated \cup {None}
    BY <1>2, <1>4, RowTypes DEF TypeInv
  <2> DEFINE row == [borrow[c.id] EXCEPT !.status = "approved"]
  <2>3. StoredBorrow(row) /\ row.from = borrow[c.id].from /\ row.to = borrow[c.id].to
    BY <2>2 DEF StoredBorrow, BorrowRows, Statuses
  <2> HIDE DEF row
  <2>4. borrow' = [borrow EXCEPT ![c.id] = row]
    BY <2>1 DEF row
  <2>5. Allocated' = Allocated
    BY <1>4 DEF Allocated
  <2>6. /\ borrow' \in [Borrows -> BorrowRows]
        /\ \A b \in Borrows : borrow'[b].status # "absent" =>
             borrow'[b].from # None /\ (borrow'[b].to = None => borrow'[b].scope # "none")
        /\ \A b \in Borrows : borrow'[b].from \in Allocated \cup {None} /\ borrow'[b].to \in Allocated \cup {None}
    BY <1>2, <2>2, <2>3, <2>4 DEF TypeInv, TypeOK, StoredBorrow
  <2>7. TypeOK'
    BY <1>1, <1>4, <2>5, <2>6 DEF TypeInv, TypeOK, Share
  <2> QED
    BY <1>1, <2>5, <2>7, FinishKeeps DEF Known
<1>5. ASSUME borrow[c.id].status # "absent", c.copy.to = None, NewAllocation \in Allocations \ Known,
             AllocationClean(NewAllocation, SinkOf(c), ModelRoots(SinkOf(c).source)),
             borrow' = [borrow EXCEPT ![c.id].status = "approved", ![c.id].to = NewAllocation],
             alloc' = [alloc EXCEPT ![NewAllocation] = SinkOf(c)]
      PROVE  TypeInv'
  <2>1. PICK n : n = NewAllocation
    OBVIOUS
  <2>2. n \in Allocations \ Known /\ n # None /\ alloc' = [alloc EXCEPT ![n] = SinkOf(c)]
    BY <1>5, <2>1, Tables
  <2>3. PICK row : row = [borrow[c.id] EXCEPT !.status = "approved", !.to = n]
    OBVIOUS
  <2>4. borrow' = [borrow EXCEPT ![c.id] = row]
    BY <1>2, <1>5, <2>1, <2>3
  <2>5. StoredBorrow(borrow[c.id]) /\ borrow[c.id].from \in Allocated \cup {None}
    BY <1>2, <1>5, RowTypes DEF TypeInv
  <2>6. StoredBorrow(row) /\ row.from = borrow[c.id].from /\ row.to = n
    BY <2>2, <2>3, <2>5 DEF StoredBorrow, BorrowRows, Statuses
  <2>7. StoredAllocation(SinkOf(c)) /\ SinkOf(c).parent = None /\ source[SinkOf(c).source].status # "absent"
    BY <1>1, <1>5 DEF AllocationClean, SinkOf
  <2>8. Allocated' = Allocated \cup {n}
    BY <1>1, <2>2, <2>7, PutAllocation DEF TypeInv
  <2>9. BorrowTypes'
    <3>1. borrow' \in [Borrows -> BorrowRows]
      BY <1>2, <2>4, <2>6 DEF StoredBorrow
    <3>2. \A b \in Borrows : borrow'[b].status # "absent" =>
             borrow'[b].from # None /\ (borrow'[b].to = None => borrow'[b].scope # "none")
      BY <1>2, <2>4, <2>6 DEF TypeInv, TypeOK, StoredBorrow
    <3>3. \A b \in Borrows : borrow'[b].from \in Allocated' \cup {None} /\ borrow'[b].to \in Allocated' \cup {None}
      BY <1>2, <2>4, <2>5, <2>6, <2>8, RowTypes DEF TypeInv
    <3> QED
      BY <3>1, <3>2, <3>3 DEF BorrowTypes
  <2>10. TypeOK' /\ Allocated' = Allocated \cup {n}
    BY <1>1, <2>2, <2>7, <2>9, PutTypes DEF TypeInv
  <2> QED
    BY <1>1, <1>5, <2>10, FinishCreates DEF Known
<1> QED
  BY <1>1, <1>3, <1>4, <1>5 DEF ApprovalWritten

LEMMA FreeType ==
    ASSUME TypeOK, NEW own \in SpendingRows
    PROVE  /\ \A a \in Allocations : Remaining(a) \in Int /\ Share(own, a) \in Nat /\ Free(own, a) \in Nat
           /\ \A task, a : Given(task, own, a) \in Nat
<1>1. ASSUME NEW a \in Allocations PROVE Remaining(a) \in Int /\ Share(own, a) \in Nat
  <2>1. alloc[a].amount \in Nat
    BY RowTypes, Tables DEF AllocationRows
  <2>2. Actual(a) \in Nat /\ BorrowedIn(a, {"approved"}) \in Nat /\ BorrowedOut(a, {"approved"}) \in Nat
    BY SumsOfRows
  <2>3. AmountOf(Children(a)) \in Nat
    BY SumsOfRows DEF Children, Allocated
  <2>4. Share(own, a) \in Nat
    BY Tables DEF Share, SpendingRows
  <2> QED
    BY <2>1, <2>2, <2>3, <2>4 DEF Remaining
<1>2. \A a \in Allocations : Free(own, a) \in Nat
  BY <1>1 DEF Free, Positive
<1>3. ASSUME NEW task, NEW a PROVE Given(task, own, a) \in Nat
  <2> DEFINE v == [b \in Allocations |-> Free(own, b)]
             E == Earlier(task, a)
  <2>1. E \subseteq Allocations
    BY DEF Earlier, Eligible, Allocated
  <2>2. IsFiniteSet(E)
    BY <2>1, Tables, FS_Subset
  <2>3. Natural(v, E)
    BY <1>2, <2>1 DEF Natural
  <2> HIDE DEF v, E
  <2>4. SumFunctionOnSet(v, E) \in Nat
    BY <2>2, <2>3, SumNat
  <2> QED
    BY <2>4 DEF Given, v, E
<1> QED
  BY <1>1, <1>2, <1>3

LEMMA DrawsIs ==
    ASSUME TypeOK, NEW amount \in 0..MaxAmount, NEW task, NEW own \in SpendingRows
    PROVE  /\ Draws(amount, task, own) \in [Allocations -> 0..MaxAmount]
           /\ \A a \in Allocations :
                /\ Draws(amount, task, own)[a] <= Free(own, a)
                /\ Draws(amount, task, own)[a] > 0 =>
                     a \in Eligible(task) /\ a \in Allocated /\ Given(task, own, a) + Draws(amount, task, own)[a] <= amount
<1> DEFINE draws == Draws(amount, task, own)
<1>1. ASSUME NEW a \in Allocations
      PROVE  /\ draws[a] = IF a \in Eligible(task)
                           THEN Smaller(Free(own, a), Positive(amount - Given(task, own, a))) ELSE 0
             /\ Free(own, a) \in Nat /\ Given(task, own, a) \in Nat /\ amount \in Nat
  BY FreeType, Tables DEF Draws
<1>2. ASSUME NEW a \in Allocations
      PROVE  /\ draws[a] \in Nat /\ draws[a] <= amount /\ draws[a] <= Free(own, a)
             /\ draws[a] > 0 => a \in Eligible(task) /\ Given(task, own, a) + draws[a] <= amount
  BY <1>1 DEF Smaller, Positive
<1>3. draws = [a \in Allocations |-> draws[a]]
  BY DEF Draws
<1> HIDE DEF draws
<1>4. draws \in [Allocations -> 0..MaxAmount]
  <2>1. \A a \in Allocations : draws[a] \in 0..MaxAmount
    BY <1>2, Tables
  <2> QED
    BY <1>3, <2>1
<1>5. \A a : a \in Eligible(task) => a \in Allocated
  BY DEF Eligible
<1>6. /\ draws \in [Allocations -> 0..MaxAmount]
      /\ \A a \in Allocations :
           /\ draws[a] <= Free(own, a)
           /\ draws[a] > 0 => a \in Eligible(task) /\ a \in Allocated /\ Given(task, own, a) + draws[a] <= amount
  BY <1>2, <1>4, <1>5
<1> QED
  BY <1>6 DEF draws

LEMMA DrawIs ==
    ASSUME TypeInv, NEW w \in AnyWorker, Draw(w)
    PROVE  LET c == budgetCall[w]
               draws == Draws(c.copy.amount, c.copy.task, spending[c.id])
           IN
           /\ c.step = "draw" /\ DrawOK(c) /\ Finish(w)
           /\ \/ UNCHANGED spending
              \/ /\ OnSQLite /\ Paid(draws) = c.copy.amount
                 /\ spending' = [spending EXCEPT ![c.id] = [c.copy EXCEPT !.draws = draws]]
<1> DEFINE c == budgetCall[w]
<1>1. c.step = "draw" /\ Finish(w)
  BY DEF Draw
<1>2. DrawOK(c)
  BY <1>1 DEF TypeInv, CallsOK, CallOK
<1> QED
  BY <1>1, <1>2 DEF Draw

LEMMA DrawTypes ==
    ASSUME TypeInv, NEW w \in AnyWorker, Draw(w), UNCHANGED <<deployment, source, alloc, borrow, forecast>>
    PROVE  TypeInv'
<1> DEFINE c == budgetCall[w]
           draws == Draws(c.copy.amount, c.copy.task, spending[c.id])
           row == [c.copy EXCEPT !.draws = draws]
<1>1. /\ DrawOK(c) /\ Finish(w)
      /\ \/ UNCHANGED spending
         \/ spending' = [spending EXCEPT ![c.id] = row]
  BY DrawIs
<1>2. c.id \in Spendings /\ c.copy \in SpendingRows /\ c.copy.direct = None /\ c.copy.amount \in 0..MaxAmount
  BY <1>1 DEF DrawOK, SpendingRows
<1>3. spending[c.id] \in SpendingRows
  BY <1>2, RowTypes DEF TypeInv
<1>4. draws \in [Allocations -> 0..MaxAmount] /\ \A a \in Allocations : draws[a] > 0 => a \in Allocated
  BY <1>2, <1>3, DrawsIs DEF TypeInv
<1> HIDE DEF draws
<1>5. row \in SpendingRows /\ row.direct = None /\ row.draws = draws
  BY <1>2, <1>4 DEF SpendingRows
<1> HIDE DEF row, c
<1>6. \A a \in Allocations : Share(row, a) > 0 => a \in Allocated
  BY <1>4, <1>5, Tables DEF Share
<1>7. spending' \in [Spendings -> SpendingRows]
  BY <1>1, <1>2, <1>5 DEF TypeInv, TypeOK
<1>8. \A t \in Spendings : \A a \in Allocations : Share(spending'[t], a) > 0 => a \in Allocated
  BY <1>1, <1>2, <1>6 DEF TypeInv, TypeOK
<1>9. Allocated' = Allocated
  BY DEF Allocated
<1>10. TypeOK'
  BY <1>7, <1>8, <1>9 DEF TypeInv, TypeOK
<1> QED
  BY <1>1, <1>9, <1>10, FinishKeeps DEF Known

LEMMA FinishTypes ==
    ASSUME TypeInv, NEW w \in AnyWorker, Finishes(w) PROVE TypeInv'
BY SaveSourceTypes, SaveAllocationTypes, SaveForecastTypes, SaveStatusTypes, SaveBorrowTypes, ApproveBorrowTypes,
   DrawTypes DEF Finishes

LEMMA StutterTypes ==
    ASSUME TypeInv, UNCHANGED vars PROVE TypeInv'
<1>1. TypeOK' /\ Allocated' = Allocated /\ UNCHANGED <<deployment, budgetCall>>
  BY SameTypes DEF TypeInv, vars, budgetVars
<1> QED
  BY <1>1, DeletedKeeps

LEMMA TypesKeep == TypeInv /\ [Next]_vars => TypeInv'
<1> SUFFICES ASSUME TypeInv, [Next]_vars PROVE TypeInv'
  OBVIOUS
<1>1. ASSUME NEW w \in AnyWorker, Reads(w) PROVE TypeInv'
  BY <1>1, ReadKeepsTypes DEF Reads
<1> QED
  BY <1>1, StepIs, DeleteTypes, FinishTypes, StutterTypes

LEMMA TypesInit == Init => TypeInv
<1> SUFFICES ASSUME Init PROVE TypeInv
  OBVIOUS
<1>1. deployment \in Deployments /\ TypeOK /\ budgetCall = [w \in AnyWorker |-> IdleCall]
  BY DEF Init, BudgetInit, Consistent
<1>2. CallsOK
  BY <1>1, NoRows DEF CallsOK, IdleCall
<1>3. Creators = {} /\ Known = Allocated
  BY <1>1, NoRows DEF Creators, Known, Held
<1>4. Cardinality(Creators) = 0 /\ Cardinality(Known) <= Cardinality(Allocations)
  <2>1. Known \subseteq Allocations
    BY <1>1, <1>2, FiniteKnown
  <2> QED
    BY <1>3, <2>1, Tables, FS_Subset, FS_EmptySet
<1>5. Cardinality(Known) \in Nat /\ Cardinality(Allocations) \in Nat
  BY <1>1, <1>2, FiniteKnown
<1> QED
  BY <1>1, <1>2, <1>4, <1>5 DEF TypeInv, RoomLeft

\* Whatever the deployment and however many threads there are, rows have their
\* types and name rows that exist, and a request finds the row it was promised:
\* TypeOK holds in every state.
THEOREM TypeCorrect == Spec => []TypeOK
<1>1. TypeInv => TypeOK
  BY DEF TypeInv
<1> QED
  BY <1>1, TypesInit, TypesKeep, PTL DEF Spec

-----------------------------------------------------------------------------
(* Every transaction is paid in full *)

LEMMA PayingDrawn ==
    ASSUME TypeInv, SpentInFull, NEW w \in AnyWorker, Draw(w) PROVE SpentInFull'
<1> DEFINE c == budgetCall[w]
           draws == Draws(c.copy.amount, c.copy.task, spending[c.id])
           row == [c.copy EXCEPT !.draws = draws]
<1>1. /\ DrawOK(c)
      /\ \/ UNCHANGED spending
         \/ Paid(draws) = c.copy.amount /\ spending' = [spending EXCEPT ![c.id] = row]
  BY DrawIs
<1>2. c.id \in Spendings /\ c.copy \in SpendingRows /\ c.copy.direct = None
  BY <1>1 DEF DrawOK
<1> HIDE DEF draws
<1>3. row.direct = None /\ row.draws = draws /\ row.amount = c.copy.amount
  BY <1>2 DEF SpendingRows
<1> HIDE DEF row, c
<1>4. CASE UNCHANGED spending
  BY <1>4 DEF SpentInFull, Paying, Paid
<1>5. CASE Paid(draws) = c.copy.amount /\ spending' = [spending EXCEPT ![c.id] = row]
  <2>1. Paying(row)
    BY <1>3, <1>5 DEF Paying
  <2>2. \A t \in Spendings : spending'[t] = IF t = c.id THEN row ELSE spending[t]
    BY <1>5 DEF TypeInv, TypeOK
  <2> QED
    BY <2>1, <2>2 DEF SpentInFull, Paying, Paid
<1> QED
  BY <1>1, <1>4, <1>5

LEMMA PayingKeeps == TypeInv /\ SpentInFull /\ [Next]_vars => SpentInFull'
<1> SUFFICES ASSUME TypeInv, SpentInFull, [Next]_vars PROVE SpentInFull'
  OBVIOUS
<1>1. ASSUME UNCHANGED spending PROVE SpentInFull'
  BY <1>1 DEF SpentInFull, Paying, Paid
<1>2. ASSUME NEW w \in AnyWorker, NEW t \in Spendings, DeleteSpending(w, t) PROVE SpentInFull'
  <2>1. spending' = [spending EXCEPT ![t] = NoSpending]
    BY <1>2 DEF DeleteSpending
  <2>2. \A u \in Spendings : spending'[u] = IF u = t THEN NoSpending ELSE spending[u]
    BY <2>1 DEF TypeInv, TypeOK
  <2>3. ~NoSpending.exists
    BY DEF NoSpending
  <2> QED
    BY <2>2, <2>3 DEF SpentInFull, Paying, Paid
<1>3. ASSUME NEW w \in AnyWorker, Reads(w) PROVE UNCHANGED spending
  BY <1>3 DEF Reads, IsRead
<1>4. ASSUME NEW w \in AnyWorker, Deletes(w) PROVE SpentInFull'
  BY <1>1, <1>2, <1>4 DEF Deletes
<1>5. ASSUME NEW w \in AnyWorker, Finishes(w) PROVE SpentInFull'
  BY <1>1, <1>5, PayingDrawn DEF Finishes
<1>6. UNCHANGED vars => UNCHANGED spending
  BY DEF vars, budgetVars
<1> QED
  BY <1>1, <1>3, <1>4, <1>5, <1>6, StepIs

-----------------------------------------------------------------------------
(* One request at a time *)

\* What the only thread has read is still so.
StillJudged == Serial => \A w \in AnyWorker : Judged(budgetCall[w])

LEMMA SameSums ==
    ASSUME UNCHANGED <<alloc, borrow, spending>>
    PROVE  /\ Allocated' = Allocated
           /\ \A a : Children(a)' = Children(a) /\ Actual(a)' = Actual(a) /\ Required(a)' = Required(a)
           /\ \A s : ModelRoots(s)' = ModelRoots(s) /\ SourceAllocated(s)' = SourceAllocated(s)
           /\ \A S : AmountOf(S)' = AmountOf(S)
BY DEF Allocated, Children, Actual, Required, ModelRoots, Roots, SourceAllocated, AmountOf, BorrowedIn, BorrowedOut, Lent,
       Share

LEMMA SameJudgement ==
    ASSUME NEW c, Judged(c), UNCHANGED <<deployment, source, alloc, borrow, spending>> PROVE Judged(c)'
<1>1. /\ Allocated' = Allocated
      /\ \A a : Children(a)' = Children(a) /\ Required(a)' = Required(a)
      /\ \A s : ModelRoots(s)' = ModelRoots(s) /\ SourceAllocated(s)' = SourceAllocated(s)
      /\ \A S : AmountOf(S)' = AmountOf(S)
  BY SameSums
<1>2. SourceJudged(c) => SourceJudged(c)'
  BY <1>1 DEF SourceJudged
<1>3. AllocationJudged(c) => AllocationJudged(c)'
  BY <1>1 DEF AllocationJudged, Edited, AmountOf
<1>4. BorrowJudged(c) => BorrowJudged(c)'
  BY DEF BorrowJudged, Asked
<1>5. StatusJudged(c) => StatusJudged(c)'
  BY DEF StatusJudged, ApprovedAbove, Asked
<1>6. ApproveJudged(c) => ApproveJudged(c)'
  BY <1>1 DEF ApproveJudged, Affordable, OnSQLite
<1> QED
  BY <1>2, <1>3, <1>4, <1>5, <1>6 DEF Judged

LEMMA IdleJudged == Judged(IdleCall)
BY DEF Judged, IdleCall

\* A step is taken by the only thread there is.
LEMMA OneThread ==
    ASSUME TypeInv, Serial, NEW w \in AnyWorker, Reads(w) \/ Deletes(w) \/ Finishes(w)
    PROVE  /\ \A v \in AnyWorker \ {w} : budgetCall[v] = IdleCall
           /\ Deletes(w) => budgetCall[w] = IdleCall
<1>1. w \in deployment.workers
  <2>1. Reads(w) => w \in deployment.workers
    BY DEF Reads, IsRead
  <2>2. Deletes(w) => w \in deployment.workers
    BY DEF Deletes, DeleteSource, DeleteAllocation, DeleteForecast, DeleteBorrow, DeleteSpending, Serves
  <2>3. Finishes(w) => budgetCall[w].step # "idle"
    BY DEF Finishes, SaveSource, SaveAllocation, SaveForecast, SaveStatus, SaveBorrow, ApproveBorrow, Draw
  <2> QED
    BY <2>1, <2>2, <2>3 DEF TypeInv, CallsOK
<1>2. \A v \in AnyWorker \ {w} : budgetCall[v].step = "idle"
  BY <1>1 DEF Serial, TypeInv, CallsOK
<1>3. Deletes(w) => budgetCall[w].step = "idle"
  BY DEF Deletes, DeleteSource, DeleteAllocation, DeleteForecast, DeleteBorrow, DeleteSpending, Serves
<1> QED
  BY <1>2, <1>3 DEF TypeInv, CallsOK, CallOK

LEMMA CallsByStep ==
    ASSUME TypeInv, NEW w \in AnyWorker
    PROVE  /\ Deletes(w) => UNCHANGED <<deployment, budgetCall>>
           /\ Finishes(w) => /\ UNCHANGED deployment /\ budgetCall'[w] = IdleCall
                             /\ \A v \in AnyWorker \ {w} : budgetCall'[v] = budgetCall[v]
<1>1. Deletes(w) => UNCHANGED <<deployment, budgetCall>>
  BY DEF Deletes, DeleteSource, DeleteAllocation, DeleteForecast, DeleteBorrow, DeleteSpending
<1>2. Finishes(w) => Finish(w) /\ UNCHANGED deployment
  BY DEF Finishes, SaveSource, SaveAllocation, SaveForecast, SaveStatus, SaveBorrow, ApproveBorrow, Draw
<1> QED
  BY <1>1, <1>2, FinishCalls

LEMMA JudgementKeeps == TypeInv /\ StillJudged /\ [Next]_vars => StillJudged'
<1> SUFFICES ASSUME TypeInv, StillJudged, [Next]_vars, Serial' PROVE \A w \in AnyWorker : Judged(budgetCall[w])'
  BY DEF StillJudged
<1>1. ASSUME NEW w \in AnyWorker, Reads(w) PROVE \A v \in AnyWorker : Judged(budgetCall[v])'
  <2>1. PICK c : IsRead(w, c) /\ Judged(c)
    BY <1>1 DEF Reads
  <2>2. UNCHANGED <<deployment, source, alloc, borrow, spending>> /\ Call(w, c)
    BY <2>1 DEF IsRead
  <2>3. Serial
    BY <2>2 DEF Serial
  <2>4. budgetCall' = [v \in AnyWorker |-> IF v = w THEN c ELSE budgetCall[v]]
    BY <2>2, CallTakes DEF TypeInv
  <2>5. \A v \in AnyWorker : Judged(budgetCall[v])
    BY <2>3 DEF StillJudged
  <2> SUFFICES ASSUME NEW v \in AnyWorker PROVE Judged(budgetCall[v])'
    OBVIOUS
  <2>6. PICK d : d = budgetCall'[v]
    OBVIOUS
  <2>7. Judged(d)
    BY <2>1, <2>4, <2>5, <2>6
  <2>8. Judged(d)'
    BY <2>2, <2>7, SameJudgement
  <2> QED
    BY <2>6, <2>8, ZenonT(40) DEF Judged, SourceJudged, AllocationJudged, BorrowJudged, StatusJudged, ApproveJudged
<1>2. ASSUME NEW w \in AnyWorker, Deletes(w) \/ Finishes(w) PROVE \A v \in AnyWorker : Judged(budgetCall[v])'
  <2>1. Serial
    BY <1>2, CallsByStep DEF Serial
  <2>2. \A v \in AnyWorker : budgetCall'[v] = IdleCall
    BY <1>2, <2>1, OneThread, CallsByStep
  <2> QED
    BY <2>2 DEF Judged, IdleCall
<1>3. ASSUME UNCHANGED vars PROVE \A v \in AnyWorker : Judged(budgetCall[v])'
  <2>1. Serial
    BY <1>3 DEF Serial, vars, budgetVars
  <2> SUFFICES ASSUME NEW v \in AnyWorker PROVE Judged(budgetCall[v])'
    OBVIOUS
  <2>2. PICK d : d = budgetCall[v]
    OBVIOUS
  <2>3. Judged(d)
    BY <2>1, <2>2 DEF StillJudged
  <2>4. Judged(d)'
    BY <1>3, <2>3, SameJudgement DEF vars, budgetVars
  <2>5. d = budgetCall'[v]
    BY <1>3, <2>2 DEF vars, budgetVars
  <2> QED
    BY <2>4, <2>5, ZenonT(40) DEF Judged, SourceJudged, AllocationJudged, BorrowJudged, StatusJudged, ApproveJudged
<1> QED
  BY <1>1, <1>2, <1>3, StepIs

\* A row of the tree is written, made or deleted.
LEMMA PutSums ==
    ASSUME TypeOK, NEW k \in Allocations, NEW row \in AllocationRows, alloc' = [alloc EXCEPT ![k] = row]
    PROVE  /\ \A a : AmountOf(Children(a))' = AmountOf(Children(a) \ {k})
                                              + (IF row.status # "absent" /\ row.parent = a THEN row.amount ELSE 0)
           /\ \A s : SourceAllocated(s)' =
                       AmountOf(ModelRoots(s) \ {k})
                       + (IF /\ row.status # "absent" /\ row.source = s /\ row.parent = None /\ ~row.sink
                          THEN row.amount ELSE 0)
<1> DEFINE v == [a \in Allocations |-> alloc[a].amount]
           u == [a \in Allocations |-> alloc'[a].amount]
<1>1. alloc' \in [Allocations -> AllocationRows] /\ alloc'[k] = row /\ \A a \in Allocations \ {k} : alloc'[a] = alloc[a]
  BY DEF TypeOK
<1>2. \A a \in Allocations : u[a] \in Int /\ (a # k => u[a] = v[a])
  BY <1>1, Tables DEF AllocationRows
<1>3. u[k] = row.amount
  BY <1>1
<1>4. \A S : AmountOf(S) = SumFunctionOnSet(v, S)
  BY DEF AmountOf
<1>5. ASSUME NEW W, NEW U, W \subseteq Allocations, W \ {k} = U \ {k}
      PROVE  SumFunctionOnSet(u, W) = AmountOf(U \ {k}) + (IF k \in W THEN row.amount ELSE 0)
  <2>1. IsFiniteSet(W) /\ Integral(u, W) /\ \A r \in W \ {k} : u[r] = v[r]
    BY <1>2, <1>5, Tables, FS_Subset DEF Integral
  <2>3. PICK uu, vv : uu = u /\ vv = v
    OBVIOUS
  <2> HIDE DEF u, v
  <2>4. IsFiniteSet(W) /\ Integral(uu, W) /\ \A r \in W \ {k} : uu[r] = vv[r]
    BY <2>1, <2>3
  <2>5. SumFunctionOnSet(uu, W) = SumFunctionOnSet(vv, W \ {k}) + (IF k \in W THEN uu[k] ELSE 0)
    BY <2>4, SumPut
  <2>2. SumFunctionOnSet(u, W) = SumFunctionOnSet(v, U \ {k}) + (IF k \in W THEN u[k] ELSE 0)
    BY <1>5, <2>3, <2>5
  <2> QED
    BY <1>3, <1>4, <2>2
<1>6. ASSUME NEW a
      PROVE  AmountOf(Children(a))' = AmountOf(Children(a) \ {k})
                                      + (IF row.status # "absent" /\ row.parent = a THEN row.amount ELSE 0)
  <2>1. PICK W : W = Children(a)'
    OBVIOUS
  <2>2. W \subseteq Allocations /\ W \ {k} = Children(a) \ {k} /\ (k \in W <=> row.status # "absent" /\ row.parent = a)
    BY <1>1, <2>1 DEF Children, Allocated
  <2>3. AmountOf(Children(a))' = SumFunctionOnSet(u, W)
    BY <2>1 DEF AmountOf
  <2> HIDE DEF u
  <2> QED
    BY <1>5, <2>2, <2>3
<1>7. ASSUME NEW s
      PROVE  SourceAllocated(s)' = AmountOf(ModelRoots(s) \ {k})
                                   + (IF /\ row.status # "absent" /\ row.source = s /\ row.parent = None /\ ~row.sink
                                      THEN row.amount ELSE 0)
  <2>1. PICK W : W = {a \in Roots(s) : ~alloc[a].sink}'
    OBVIOUS
  <2>2. /\ W \subseteq Allocations /\ W \ {k} = ModelRoots(s) \ {k}
        /\ k \in W <=> row.status # "absent" /\ row.source = s /\ row.parent = None /\ ~row.sink
    BY <1>1, <2>1 DEF ModelRoots, Roots, Allocated
  <2>3. SourceAllocated(s)' = SumFunctionOnSet(u, W)
    BY <2>1 DEF SourceAllocated, AmountOf
  <2> HIDE DEF u
  <2> QED
    BY <1>5, <2>2, <2>3
<1> QED
  BY <1>6, <1>7

\* A row that is left out makes a sum smaller by its amount.
LEMMA AmountWithout ==
    ASSUME TypeOK, NEW S \in SUBSET Allocations, NEW k
    PROVE  /\ AmountOf(S) = AmountOf(S \ {k}) + (IF k \in S THEN alloc[k].amount ELSE 0)
           /\ AmountOf(S) \in Nat /\ AmountOf(S \ {k}) \in Nat
<1> DEFINE v == [a \in Allocations |-> alloc[a].amount]
<1>1. \A a \in Allocations : v[a] = alloc[a].amount /\ v[a] \in Int
  BY RowTypes, Tables DEF AllocationRows
<1>2. IsFiniteSet(S) /\ Integral(v, S)
  BY <1>1, Tables, FS_Subset DEF Integral
<1>3. \A T : AmountOf(T) = SumFunctionOnSet(v, T)
  BY DEF AmountOf
<1>4. AmountOf(S) \in Nat /\ AmountOf(S \ {k}) \in Nat
  BY SumsOfRows
<1> HIDE DEF v
<1>5. SumFunctionOnSet(v, S) = SumFunctionOnSet(v, S \ {k}) + (IF k \in S THEN v[k] ELSE 0)
  BY <1>2, SumWithout
<1> QED
  BY <1>1, <1>3, <1>4, <1>5

Covered == \A s \in Sources : Covers(s)

LEMMA PutCovered ==
    ASSUME TypeOK, TypeOK', Covered, NEW k \in Allocations, NEW row \in AllocationRows,
           alloc' = [alloc EXCEPT ![k] = row], UNCHANGED source,
           row.status # "absent" /\ row.parent = None /\ ~row.sink =>
             AmountOf(ModelRoots(row.source) \ {k}) + row.amount <= source[row.source].total
    PROVE  Covered'
<1> SUFFICES ASSUME NEW s \in Sources PROVE SourceAllocated(s)' <= source[s].total
  BY DEF Covered, Covers
<1>1. SourceAllocated(s)' = AmountOf(ModelRoots(s) \ {k})
                            + (IF /\ row.status # "absent" /\ row.source = s /\ row.parent = None /\ ~row.sink
                               THEN row.amount ELSE 0)
  BY PutSums
<1>2. ModelRoots(s) \in SUBSET Allocations
  BY DEF ModelRoots, Roots, Allocated
<1>3. SourceAllocated(s) = AmountOf(ModelRoots(s))
  BY DEF SourceAllocated, ModelRoots
<1>4. AmountOf(ModelRoots(s) \ {k}) <= SourceAllocated(s) /\ AmountOf(ModelRoots(s) \ {k}) \in Nat /\ SourceAllocated(s) \in Nat
  BY <1>2, <1>3, AmountFewer, SumsOfRows
<1>5. source[s].total \in Nat
  <2>1. source[s] \in SourceRows
    BY RowTypes
  <2> QED
    BY <2>1, Tables DEF SourceRows
<1>6. CASE row.status # "absent" /\ row.source = s /\ row.parent = None /\ ~row.sink
  BY <1>1, <1>6
<1>7. CASE ~(row.status # "absent" /\ row.source = s /\ row.parent = None /\ ~row.sink)
  <2>1. SourceAllocated(s)' = AmountOf(ModelRoots(s) \ {k}) + 0
    BY <1>1, <1>7
  <2>2. SourceAllocated(s) <= source[s].total
    BY DEF Covered, Covers
  <2> QED
    BY <1>4, <1>5, <2>1, <2>2
<1> QED
  BY <1>6, <1>7

ApprovedDown == \A a \in Allocated : alloc[a].status = "approved" => ApprovedAbove(a)

LEMMA PutApproved ==
    ASSUME TypeOK, ApprovedDown, NEW k \in Allocations, NEW row \in AllocationRows,
           alloc' = [alloc EXCEPT ![k] = row], UNCHANGED source,
           row.status = "approved" =>
             /\ source[row.source].status = "approved"
             /\ row.parent # None => row.parent \in Allocations \ {k} /\ alloc[row.parent].status = "approved",
           alloc[k].status = "approved" => row.status = "approved" \/ Children(k) = {}
    PROVE  ApprovedDown'
<1>1. alloc'[k] = row /\ \A a \in Allocations \ {k} : alloc'[a] = alloc[a]
  BY DEF TypeOK
<1> SUFFICES ASSUME NEW a \in Allocations, alloc'[a].status = "approved" PROVE ApprovedAbove(a)'
  BY DEF ApprovedDown, Allocated
<1>2. CASE a = k
  BY <1>1, <1>2 DEF ApprovedAbove
<1>3. CASE a # k
  <2>1. a \in Allocated /\ ApprovedAbove(a) /\ alloc'[a] = alloc[a]
    BY <1>1, <1>3 DEF ApprovedDown, Allocated
  <2>2. alloc[a].parent \in Allocations \cup {None}
    BY RowTypes DEF Allocated
  <2>3. alloc[a].parent = k => alloc'[k].status = "approved"
    BY <1>1, <2>1, Tables DEF ApprovedAbove, Children
  <2> QED
    BY <1>1, <2>1, <2>2, <2>3 DEF ApprovedAbove
<1> QED
  BY <1>2, <1>3

\* A source is written, made or deleted.
LEMMA PutSource ==
    ASSUME TypeOK, Covered, ApprovedDown, NEW k \in Sources, NEW row \in SourceRows,
           source' = [source EXCEPT ![k] = row], UNCHANGED <<alloc, borrow, spending>>,
           SourceAllocated(k) <= row.total,
           source[k].status = "approved" => row.status = "approved" \/ \A a \in Allocated : alloc[a].source # k
    PROVE  Covered' /\ ApprovedDown'
<1>1. source'[k] = row /\ \A s \in Sources \ {k} : source'[s] = source[s]
  BY DEF TypeOK
<1>2. Allocated' = Allocated /\ \A s : SourceAllocated(s)' = SourceAllocated(s)
  BY SameSums
<1>3. ASSUME NEW s \in Sources PROVE SourceAllocated(s) <= source'[s].total
  BY <1>1 DEF Covered, Covers
<1>4. ASSUME NEW a \in Allocated, alloc[a].status = "approved" PROVE ApprovedAbove(a)'
  <2>1. alloc[a].source \in Sources /\ source[alloc[a].source].status = "approved"
    BY <1>4, RowTypes DEF ApprovedDown, ApprovedAbove, StoredAllocation, AllocationRows
  <2>2. source'[alloc[a].source].status = "approved"
    BY <1>1, <1>4, <2>1
  <2> QED
    BY <1>4, <2>2 DEF ApprovedDown, ApprovedAbove
<1> QED
  BY <1>2, <1>3, <1>4 DEF Covered, Covers, ApprovedDown

\* What is promised of one request at a time.
TreeSound == Covered /\ ApprovedDown

LEMMA SameTree ==
    ASSUME TreeSound, UNCHANGED <<source, alloc, borrow, spending>> PROVE TreeSound' /\ KeepsDecisions
<1>1. Allocated' = Allocated /\ \A s : SourceAllocated(s)' = SourceAllocated(s)
  BY SameSums
<1> QED
  BY <1>1 DEF TreeSound, Covered, Covers, ApprovedDown, ApprovedAbove, KeepsDecisions

\* Borrows and costs are no matter of the tree.
LEMMA SameTreeRows ==
    ASSUME TreeSound, UNCHANGED <<source, alloc>> PROVE TreeSound'
BY DEF TreeSound, Covered, Covers, SourceAllocated, AmountOf, Roots, Allocated, ApprovedDown, ApprovedAbove

LEMMA SourceSaved ==
    ASSUME TypeInv, TreeSound, NEW w \in AnyWorker, Judged(budgetCall[w]), SaveSource(w),
           UNCHANGED <<deployment, borrow, spending>>
    PROVE  TreeSound' /\ KeepsDecisions
<1> DEFINE c == budgetCall[w]
<1>1. /\ c.id \in Sources /\ StoredSource(c.copy) /\ SourceJudged(c)
      /\ source' = [source EXCEPT ![c.id] = c.copy] /\ UNCHANGED <<alloc, forecast>>
  BY DEF TypeInv, CallsOK, CallOK, SaveOK, SaveSource, Judged
<1> HIDE DEF c
<1>2. TreeSound'
  BY <1>1, PutSource DEF TypeInv, TreeSound, SourceJudged, StoredSource
<1>3. \A s \in Sources : source[s].status = "approved" => source'[s].status = "approved"
  BY <1>1 DEF TypeInv, TypeOK, SourceJudged
<1> QED
  BY <1>1, <1>2, <1>3 DEF KeepsDecisions

LEMMA AllocationSaved ==
    ASSUME TypeInv, TypeInv', TreeSound, NEW w \in AnyWorker, Judged(budgetCall[w]), SaveAllocation(w),
           UNCHANGED <<deployment, borrow, spending>>
    PROVE  TreeSound' /\ KeepsDecisions
<1> DEFINE c == budgetCall[w]
<1>1. /\ StoredAllocation(c.copy) /\ Target(c) \in Allocations /\ AllocationJudged(c) /\ UNCHANGED <<source, forecast>>
      /\ c.id = None => Target(c) \notin Known
      /\ c.id # None => Target(c) = c.id
      /\ \/ alloc' = alloc
         \/ /\ alloc' = [alloc EXCEPT ![Target(c)] = c.copy]
            /\ c.copy.parent \in Allocated \cup {None}
  BY SaveAllocationIs DEF Judged
<1> HIDE DEF c
<1>2. PICK k \in Allocations : k = Target(c)
  BY <1>1
<1>3. PICK row : row = c.copy
  OBVIOUS
<1>4. CASE alloc' = alloc
  BY <1>1, <1>4, SameTree
<1>5. CASE alloc' = [alloc EXCEPT ![k] = row] /\ row.parent \in Allocated \cup {None}
  <2>1. row \in AllocationRows
    BY <1>1, <1>3 DEF StoredAllocation
  <2>2. \/ k \notin Allocated /\ row.status = "draft"
        \/ k \in Allocated /\ k = c.id /\ row.status = alloc[k].status /\ row.parent # k
    <3>1. c.id = None => k \notin Allocated /\ row.status = "draft"
      BY <1>1, <1>2, <1>3 DEF AllocationJudged, Known
    <3>2. c.id # None => k = c.id /\ k \in Allocated /\ row.status = alloc[k].status /\ row.parent # k
      BY <1>1, <1>2, <1>3 DEF AllocationJudged
    <3> QED
      BY <3>1, <3>2
  <2>3. k \notin Allocated => c.id = None
    BY <1>1, <1>2 DEF AllocationJudged
  <2>4. row.parent = None => AmountOf(ModelRoots(row.source) \ {k}) + row.amount <= source[row.source].total
    <3>1. ModelRoots(row.source) \ {c.id} = ModelRoots(row.source) \ {k}
      BY <2>2, <2>3, Tables DEF ModelRoots, Roots, Allocated
    <3> QED
      BY <1>1, <1>3, <3>1 DEF AllocationJudged
  <2>5. row.status = "approved" =>
             /\ source[row.source].status = "approved"
             /\ row.parent # None => row.parent \in Allocations \ {k} /\ alloc[row.parent].status = "approved"
    BY <1>1, <1>3, <1>5, <2>2 DEF AllocationJudged, Allocated
  <2>6. alloc[k].status = "approved" => row.status = "approved"
    BY <2>2 DEF Allocated
  <2>7. Covered'
    BY <1>1, <1>5, <2>1, <2>4, PutCovered DEF TypeInv, TreeSound
  <2>8. ApprovedDown'
    BY <1>1, <1>5, <2>1, <2>5, <2>6, PutApproved DEF TypeInv, TreeSound
  <2>9. \A a \in Allocated : alloc[a].status = "approved" => alloc'[a].status = "approved"
    BY <1>5, <2>6 DEF TypeInv, TypeOK, Allocated
  <2>10. TreeSound'
    BY <2>7, <2>8 DEF TreeSound
  <2> QED
    BY <1>1, <2>9, <2>10 DEF KeepsDecisions
<1> QED
  BY <1>1, <1>2, <1>3, <1>4, <1>5

LEMMA StatusSaved ==
    ASSUME TypeInv, TypeInv', TreeSound, NEW w \in AnyWorker, Judged(budgetCall[w]), SaveStatus(w),
           UNCHANGED <<deployment, spending, forecast>>
    PROVE  TreeSound' /\ KeepsDecisions
<1> DEFINE c == budgetCall[w]
<1>1. StatusOK(c) /\ StatusWritten(c) /\ StatusJudged(c)
  BY SaveStatusIs DEF Judged
<1> HIDE DEF c
<1>2. PICK k, status : k = c.id /\ status = c.copy.status
  OBVIOUS
<1>3. CASE UNCHANGED <<source, alloc, borrow>>
  BY <1>3, SameTree
<1>4. CASE /\ c.table = "source" /\ k \in Sources /\ source[k].status # "absent" /\ UNCHANGED <<alloc, borrow>>
           /\ source' = [source EXCEPT ![k].status = status]
  <2>1. PICK row : row = [source[k] EXCEPT !.status = status]
    OBVIOUS
  <2>2. status \in {"submitted", "approved", "rejected"} /\ source[k].status \in StatusBefore[status]
    BY <1>1, <1>2, <1>4 DEF StatusOK, StatusJudged
  <2>3. source' = [source EXCEPT ![k] = row]
    BY <1>4, <2>1
  <2>4. row \in SourceRows /\ row.total = source[k].total
    BY <1>4, <2>1, <2>2, RowTypes DEF TypeInv, SourceRows, Statuses
  <2>5. source[k].status # "approved"
    BY <2>2, StatusBeforeIs
  <2>6. TreeSound'
    BY <1>4, <2>3, <2>4, <2>5, PutSource DEF TypeInv, TreeSound, Covered, Covers
  <2>7. \A s \in Sources : source[s].status = "approved" => source'[s].status = "approved"
    BY <2>3, <2>5 DEF TypeInv, TypeOK
  <2> QED
    BY <1>4, <2>6, <2>7 DEF KeepsDecisions
<1>5. CASE /\ c.table = "allocation" /\ k \in Allocated /\ UNCHANGED <<source, borrow>>
           /\ alloc' = [alloc EXCEPT ![k].status = status]
  <2>1. PICK row : row = [alloc[k] EXCEPT !.status = status]
    OBVIOUS
  <2>2. /\ status \in {"submitted", "approved", "rejected"} /\ alloc[k].status \in StatusBefore[status]
        /\ status = "approved" => ApprovedAbove(k)
    BY <1>1, <1>2, <1>5 DEF StatusOK, StatusJudged
  <2>3. alloc' = [alloc EXCEPT ![k] = row] /\ k \in Allocations
    BY <1>5, <2>1 DEF Allocated
  <2>4. /\ row \in AllocationRows /\ row.status = status /\ row.amount = alloc[k].amount /\ row.source = alloc[k].source
        /\ row.parent = alloc[k].parent /\ row.sink = alloc[k].sink
    BY <2>1, <2>2, <2>3, RowTypes DEF TypeInv, AllocationRows, Statuses
  <2>5. alloc[k].status # "approved"
    BY <2>2, StatusBeforeIs
  <2>6. row.parent = None /\ ~row.sink => AmountOf(ModelRoots(row.source) \ {k}) + row.amount <= source[row.source].total
    <3> SUFFICES ASSUME row.parent = None, ~row.sink
                 PROVE  AmountOf(ModelRoots(row.source) \ {k}) + row.amount <= source[row.source].total
      OBVIOUS
    <3>1. ModelRoots(row.source) \in SUBSET Allocations /\ k \in ModelRoots(row.source)
      BY <1>5, <2>4 DEF ModelRoots, Roots, Allocated
    <3>2. AmountOf(ModelRoots(row.source)) = AmountOf(ModelRoots(row.source) \ {k}) + row.amount
      BY <2>4, <3>1, AmountWithout DEF TypeInv
    <3>3. row.source \in Sources
      BY <1>5, <2>4, RowTypes DEF TypeInv, StoredAllocation, AllocationRows
    <3>4. AmountOf(ModelRoots(row.source)) <= source[row.source].total
      BY <3>3 DEF TreeSound, Covered, Covers, SourceAllocated, ModelRoots
    <3> QED
      BY <3>2, <3>4
  <2>7. Covered'
    BY <1>5, <2>3, <2>4, <2>6, PutCovered DEF TypeInv, TreeSound
  <2>8. alloc[k].parent # None /\ status = "approved" => alloc[k].parent \in Allocations \ {k}
    BY <2>2, <2>3, <2>5, RowTypes DEF TypeInv, ApprovedAbove, Allocated
  <2>12. row.status = "approved" =>
           /\ source[row.source].status = "approved"
           /\ row.parent # None => row.parent \in Allocations \ {k} /\ alloc[row.parent].status = "approved"
    BY <2>2, <2>4, <2>8 DEF ApprovedAbove
  <2>9. ApprovedDown'
    BY <1>5, <2>3, <2>4, <2>5, <2>12, PutApproved DEF TypeInv, TreeSound
  <2>10. \A a \in Allocated : alloc[a].status = "approved" => alloc'[a].status = "approved"
    BY <2>3, <2>5 DEF TypeInv, TypeOK, Allocated
  <2>11. TreeSound'
    BY <2>7, <2>9 DEF TreeSound
  <2> QED
    BY <1>5, <2>10, <2>11 DEF KeepsDecisions
<1>6. CASE /\ c.table = "borrow" /\ k \in Borrows /\ borrow[k].status # "absent" /\ UNCHANGED <<source, alloc>>
           /\ borrow' = [borrow EXCEPT ![k].status = status]
  <2>1. status \in {"submitted", "rejected", "settled"} /\ borrow[k].status \in StatusBefore[status]
    BY <1>1, <1>2, <1>6 DEF StatusOK, StatusJudged
  <2>2. \A b \in Borrows : borrow'[b].status = IF b = k THEN status ELSE borrow[b].status
    BY <1>6, RowTypes DEF TypeInv, TypeOK, BorrowRows
  <2>3. TreeSound'
    BY <1>6, SameTreeRows
  <2>4. /\ borrow[k].status = "approved" => status = "settled"
        /\ borrow[k].status = "rejected" => status = "submitted"
        /\ borrow[k].status # "settled"
    BY <2>1, StatusBeforeIs
  <2> QED
    BY <1>6, <2>2, <2>3, <2>4 DEF KeepsDecisions
<1> QED
  BY <1>1, <1>2, <1>3, <1>4, <1>5, <1>6 DEF StatusWritten

\* The number that a new destination gets was nobody's: it has no children.
LEMMA NewChildless ==
    ASSUME TypeOK, NEW k \in Allocations \ Allocated PROVE Children(k) = {} /\ alloc[k] = NoAllocation
<1>1. \A a \in Allocations : alloc[a].parent \in Allocated \cup {None}
  BY RowTypes
<1>2. k # None
  BY Tables
<1> QED
  BY <1>1, <1>2 DEF Children, TypeOK, Allocated

LEMMA ApprovalSaved ==
    ASSUME TypeInv, TypeInv', TreeSound, NEW w \in AnyWorker, Judged(budgetCall[w]), ApproveBorrow(w),
           UNCHANGED <<deployment, spending, forecast>>
    PROVE  TreeSound' /\ KeepsDecisions
<1> DEFINE c == budgetCall[w]
<1>1. /\ ApproveOK(c) /\ ApproveJudged(c) /\ UNCHANGED source /\ ApprovalWritten(c)
      /\ c.copy.to = None => StoredAllocation(SinkOf(c))
  BY ApproveBorrowIs DEF Judged
<1> HIDE DEF c
<1>2. PICK k, n : k = c.id /\ n = NewAllocation
  OBVIOUS
<1>3. k \in Borrows /\ borrow[k].status = "submitted"
  BY <1>1, <1>2 DEF ApproveOK, ApproveJudged
<1>4. CASE UNCHANGED <<alloc, borrow>>
  BY <1>1, <1>4, SameTree
<1>5. CASE UNCHANGED alloc /\ borrow' = [borrow EXCEPT ![k].status = "approved"]
  <2>1. TreeSound'
    BY <1>1, <1>5, SameTreeRows
  <2>2. \A b \in Borrows : b # k => borrow'[b] = borrow[b]
    BY <1>5 DEF TypeInv, TypeOK
  <2> QED
    BY <1>1, <1>3, <1>5, <2>1, <2>2 DEF KeepsDecisions
<1>6. CASE /\ c.copy.to = None /\ n \in Allocations \ Known
           /\ AllocationClean(n, SinkOf(c), ModelRoots(SinkOf(c).source))
           /\ borrow' = [borrow EXCEPT ![k].status = "approved", ![k].to = n]
           /\ alloc' = [alloc EXCEPT ![n] = SinkOf(c)]
  <2>1. PICK row : row = SinkOf(c)
    OBVIOUS
  <2>2. /\ StoredAllocation(row) /\ row \in AllocationRows
        /\ row.status = "approved" /\ row.sink /\ row.parent = None /\ source[row.source].status = "approved"
    <3>1. SinkOf(c).status = "approved" /\ SinkOf(c).sink /\ SinkOf(c).parent = None
      BY DEF SinkOf
    <3>2. source[SinkOf(c).source].status = "approved"
      BY <1>6, <3>1 DEF AllocationClean
    <3> QED
      BY <1>1, <1>6, <2>1, <3>1, <3>2 DEF StoredAllocation
  <2>3. n \in Allocations /\ n \notin Allocated
    BY <1>6 DEF Known
  <2>4. alloc[n].status # "approved"
    BY <2>3 DEF Allocated
  <2>5. alloc' = [alloc EXCEPT ![n] = row]
    BY <1>6, <2>1
  <2>6. Covered'
    BY <1>1, <2>2, <2>3, <2>5, PutCovered DEF TypeInv, TreeSound
  <2>7. ApprovedDown'
    BY <1>1, <2>2, <2>3, <2>4, <2>5, PutApproved DEF TypeInv, TreeSound
  <2>8. \A b \in Borrows : b # k => borrow'[b] = borrow[b]
    BY <1>6 DEF TypeInv, TypeOK
  <2>9. \A a \in Allocated : alloc'[a] = alloc[a]
    BY <2>3, <2>5 DEF TypeInv, TypeOK, Allocated
  <2>10. TreeSound'
    BY <2>6, <2>7 DEF TreeSound
  <2> QED
    BY <1>1, <1>3, <2>8, <2>9, <2>10 DEF KeepsDecisions
<1> QED
  BY <1>1, <1>2, <1>4, <1>5, <1>6 DEF ApprovalWritten

LEMMA BorrowSaved ==
    ASSUME TypeInv, TreeSound, NEW w \in AnyWorker, Judged(budgetCall[w]), SaveBorrow(w)
    PROVE  TreeSound' /\ KeepsDecisions
<1> DEFINE c == budgetCall[w]
<1>1. /\ c.id \in Borrows /\ StoredBorrow(c.copy) /\ UNCHANGED <<source, alloc>> /\ BorrowJudged(c)
      /\ borrow' = borrow \/ borrow' = [borrow EXCEPT ![c.id] = c.copy]
  BY SaveBorrowIs DEF Judged
<1> HIDE DEF c
<1>2. TreeSound'
  BY <1>1, SameTreeRows
<1>3. \A b \in Borrows : borrow[b].status # "absent" => borrow'[b].status = borrow[b].status
  BY <1>1 DEF TypeInv, TypeOK, BorrowJudged
<1> QED
  BY <1>1, <1>2, <1>3 DEF KeepsDecisions

LEMMA TreeDeleted ==
    ASSUME TypeInv, TypeInv', TreeSound, NEW w \in AnyWorker, Deletes(w)
    PROVE  TreeSound' /\ KeepsDecisions
<1>1. ASSUME NEW s \in Sources, DeleteSource(w, s), UNCHANGED <<deployment, borrow, spending>>
      PROVE  TreeSound' /\ KeepsDecisions
  <2>1. /\ source' = [source EXCEPT ![s] = NoSource] /\ UNCHANGED <<alloc, forecast, budgetCall>>
        /\ \A a \in Allocated : alloc[a].source # s
    BY <1>1 DEF DeleteSource
  <2>2. SourceAllocated(s) = 0
    <3>1. {a \in Roots(s) : ~alloc[a].sink} = {}
      BY <2>1 DEF Roots
    <3> QED
      BY <3>1, NoAmounts DEF SourceAllocated
  <2>3. PICK row \in SourceRows : row = NoSource
    BY NoRows
  <2>4. row.total = 0 /\ row.status = "absent"
    BY <2>3 DEF NoSource
  <2>5. source' = [source EXCEPT ![s] = row]
    BY <2>1, <2>3
  <2>8. SourceAllocated(s) <= row.total
    BY <2>2, <2>4
  <2>9. TypeOK /\ Covered /\ ApprovedDown /\ UNCHANGED <<alloc, borrow, spending>>
    BY <1>1, <2>1 DEF TypeInv, TreeSound
  <2>10. Covered' /\ ApprovedDown'
    BY <2>1, <2>5, <2>8, <2>9, PutSource
  <2>6. TreeSound'
    BY <2>10 DEF TreeSound
  <2>7. \A r \in Sources : source'[r] = source[r] \/ source'[r].status = "absent"
    BY <2>4, <2>5 DEF TypeInv, TypeOK
  <2> QED
    BY <1>1, <2>1, <2>6, <2>7 DEF KeepsDecisions
<1>2. ASSUME NEW a \in Allocated, DeleteAllocation(w, a), UNCHANGED <<deployment, borrow, spending>>
      PROVE  TreeSound' /\ KeepsDecisions
  <2>1. alloc' = [alloc EXCEPT ![a] = NoAllocation] /\ Children(a) = {} /\ UNCHANGED source
    BY <1>2 DEF DeleteAllocation
  <2>2. PICK row \in AllocationRows : row = NoAllocation
    BY NoRows
  <2>3. row.status = "absent" /\ a \in Allocations /\ alloc' = [alloc EXCEPT ![a] = row]
    BY <2>1, <2>2 DEF NoAllocation, Allocated
  <2>4. Covered'
    BY <2>1, <2>3, PutCovered DEF TypeInv, TreeSound
  <2>5. ApprovedDown'
    BY <2>1, <2>3, PutApproved DEF TypeInv, TreeSound
  <2>6. \A x \in Allocated : alloc'[x] = alloc[x] \/ alloc'[x].status = "absent"
    BY <2>3 DEF TypeInv, TypeOK, Allocated
  <2>7. TreeSound'
    BY <2>4, <2>5 DEF TreeSound
  <2> QED
    BY <1>2, <2>1, <2>6, <2>7 DEF KeepsDecisions
<1>3. ASSUME NEW b \in Borrows, DeleteBorrow(w, b) PROVE TreeSound' /\ KeepsDecisions
  <2>1. borrow' = [borrow EXCEPT ![b] = NoBorrow] /\ UNCHANGED <<source, alloc>>
    BY <1>3 DEF DeleteBorrow
  <2>2. TreeSound'
    BY <2>1, SameTreeRows
  <2>3. \A x \in Borrows : borrow'[x] = borrow[x] \/ borrow'[x].status = "absent"
    <3>1. NoBorrow.status = "absent"
      BY DEF NoBorrow
    <3> QED
      BY <2>1, <3>1 DEF TypeInv, TypeOK
  <2> QED
    BY <2>1, <2>2, <2>3 DEF KeepsDecisions
<1>4. ASSUME UNCHANGED <<source, alloc, borrow>> PROVE TreeSound' /\ KeepsDecisions
  BY <1>4, SameTreeRows DEF KeepsDecisions
<1>5. ASSUME NEW f \in Forecasts, DeleteForecast(w, f), UNCHANGED <<deployment, borrow, spending>>
      PROVE  UNCHANGED <<source, alloc, borrow>>
  BY <1>5 DEF DeleteForecast
<1> QED
  BY <1>1, <1>2, <1>3, <1>4, <1>5 DEF Deletes

\* What only holds of requests that do not overlap.
SerialSound == Serial => TreeSound

LEMMA SerialStep ==
    TypeInv /\ StillJudged /\ SerialSound /\ [Next]_vars => SerialSound' /\ [Serial => KeepsDecisions]_vars
<1> SUFFICES ASSUME TypeInv, StillJudged, SerialSound, [Next]_vars
             PROVE  SerialSound' /\ (Serial => KeepsDecisions)
  OBVIOUS
<1>1. TypeInv'
  BY TypesKeep
<1>2. Serial' = Serial
  <2>1. UNCHANGED deployment
    <3>1. ASSUME NEW w \in AnyWorker, Reads(w) PROVE UNCHANGED deployment
      BY <3>1 DEF Reads, IsRead
    <3> QED
      BY <3>1, StepIs, CallsByStep DEF vars, budgetVars
  <2> QED
    BY <2>1 DEF Serial
<1> SUFFICES ASSUME Serial PROVE TreeSound' /\ KeepsDecisions
  BY <1>2 DEF SerialSound
<1>3. TreeSound /\ \A w \in AnyWorker : Judged(budgetCall[w])
  BY DEF SerialSound, StillJudged
<1>4. ASSUME NEW w \in AnyWorker, Reads(w) PROVE TreeSound' /\ KeepsDecisions
  <2>1. UNCHANGED <<source, alloc, borrow, spending>>
    BY <1>4 DEF Reads, IsRead
  <2> QED
    BY <1>3, <2>1, SameTree
<1>5. ASSUME NEW w \in AnyWorker, Finishes(w) PROVE TreeSound' /\ KeepsDecisions
  <2>1. UNCHANGED <<source, alloc, borrow>> => TreeSound' /\ KeepsDecisions
    BY <1>3, SameTreeRows DEF KeepsDecisions
  <2>2. SaveForecast(w) => UNCHANGED <<source, alloc>>
    BY DEF SaveForecast
  <2> QED
    BY <1>1, <1>3, <1>5, <2>1, <2>2, SourceSaved, AllocationSaved, StatusSaved, BorrowSaved, ApprovalSaved DEF Finishes
<1>6. UNCHANGED vars => UNCHANGED <<source, alloc, borrow, spending>>
  BY DEF vars, budgetVars
<1> QED
  BY <1>1, <1>3, <1>4, <1>5, <1>6, SameTree, TreeDeleted, StepIs

LEMMA SerialInit == Init => StillJudged /\ SerialSound /\ SpentInFull
<1> SUFFICES ASSUME Init PROVE StillJudged /\ SerialSound /\ SpentInFull
  OBVIOUS
<1>1. Consistent /\ \A w \in AnyWorker : budgetCall[w] = IdleCall
  BY DEF Init, BudgetInit
<1> QED
  BY <1>1, IdleJudged DEF Consistent, StillJudged, SerialSound, TreeSound, Covered, ApprovedDown, SpentInFull

\* The inductive invariant of what holds of every request, and of one at a time.
BudgetInv == TypeInv /\ SpentInFull /\ StillJudged /\ SerialSound

LEMMA BudgetInvKeeps == BudgetInv /\ [Next]_vars => BudgetInv'
BY TypesKeep, PayingKeeps, JudgementKeeps, SerialStep DEF BudgetInv

LEMMA BudgetInvInit == Init => BudgetInv
BY TypesInit, SerialInit DEF BudgetInv

\* A budget is decided once: of a source, an allocation or a borrow that is
\* approved, rejected or settled, no request answered alone takes the decision
\* back, for any number of rows and any deployment.
THEOREM Decided == Spec => DecidedOnce
<1>1. BudgetInv /\ [Next]_vars => [Serial => KeepsDecisions]_vars
  BY SerialStep DEF BudgetInv
<1> QED
  BY <1>1, BudgetInvInit, BudgetInvKeeps, PTL DEF Spec, DecidedOnce

-----------------------------------------------------------------------------
(* How costs and loans add up after one row changed *)

LEMMA PutSpending ==
    ASSUME TypeOK, NEW k \in Spendings, NEW row \in SpendingRows, spending' = [spending EXCEPT ![k] = row]
    PROVE  \A a \in Allocations : Actual(a)' = Actual(a) - Share(spending[k], a) + Share(row, a)
<1> SUFFICES ASSUME NEW a \in Allocations PROVE Actual(a)' = Actual(a) - Share(spending[k], a) + Share(row, a)
  OBVIOUS
<1>1. PICK v : v = [t \in Spendings |-> Share(spending[t], a)]
  OBVIOUS
<1>2. PICK u : u = [t \in Spendings |-> Share(spending'[t], a)]
  OBVIOUS
<1>3. spending'[k] = row /\ \A t \in Spendings \ {k} : spending'[t] = spending[t]
  BY DEF TypeOK
<1>4. \A t \in Spendings : v[t] = Share(spending[t], a) /\ v[t] \in Nat
  BY <1>1, SumsOfRows
<1>5. u[k] = Share(row, a) /\ \A t \in Spendings \ {k} : u[t] = v[t]
  BY <1>1, <1>2, <1>3
<1>6. Share(row, a) \in Nat
  BY FreeType
<1>7. IsFiniteSet(Spendings) /\ Integral(v, Spendings) /\ Integral(u, Spendings)
  BY <1>4, <1>5, <1>6, Tables DEF Integral
<1>8. SumFunctionOnSet(v, Spendings) = SumFunctionOnSet(v, Spendings \ {k}) + v[k]
  BY <1>7, SumWithout
<1>9. SumFunctionOnSet(u, Spendings) = SumFunctionOnSet(v, Spendings \ {k}) + u[k]
  BY <1>5, <1>7, SumPut
<1>10. Actual(a) = SumFunctionOnSet(v, Spendings) /\ Actual(a)' = SumFunctionOnSet(u, Spendings)
  BY <1>1, <1>2 DEF Actual, Share
<1>11. SumFunctionOnSet(v, Spendings \ {k}) \in Int
  <2>1. IsFiniteSet(Spendings \ {k}) /\ Integral(v, Spendings \ {k})
    BY <1>7, FS_Subset DEF Integral
  <2> QED
    BY <2>1, SumInt
<1> QED
  BY <1>4, <1>5, <1>6, <1>8, <1>9, <1>10, <1>11

\* What one borrow adds to what an allocation lent or borrowed.
Adds(row, party, a, statuses) == IF party = a /\ row.status \in statuses THEN row.amount ELSE 0

LEMMA PutBorrow ==
    ASSUME TypeOK, NEW k \in Borrows, NEW row \in BorrowRows, borrow' = [borrow EXCEPT ![k] = row], NEW a, NEW st
    PROVE  /\ BorrowedOut(a, st)' + Adds(borrow[k], borrow[k].from, a, st) = BorrowedOut(a, st) + Adds(row, row.from, a, st)
           /\ BorrowedIn(a, st)' + Adds(borrow[k], borrow[k].to, a, st) = BorrowedIn(a, st) + Adds(row, row.to, a, st)
<1>1. PICK v : v = [b \in Borrows |-> borrow[b].amount]
  OBVIOUS
<1>2. PICK u : u = [b \in Borrows |-> borrow'[b].amount]
  OBVIOUS
<1>3. borrow'[k] = row /\ \A b \in Borrows \ {k} : borrow'[b] = borrow[b]
  BY DEF TypeOK
<1>4. \A b \in Borrows : v[b] = borrow[b].amount /\ v[b] \in Nat
  BY <1>1, RowTypes, Tables DEF BorrowRows
<1>5. u[k] = row.amount /\ u[k] \in Nat /\ \A b \in Borrows \ {k} : u[b] = v[b]
  BY <1>1, <1>2, <1>3, Tables DEF BorrowRows
<1>6. IsFiniteSet(Borrows) /\ Integral(v, Borrows) /\ Integral(u, Borrows)
  BY <1>4, <1>5, Tables DEF Integral
<1>7. BorrowedOut(a, st)' + Adds(borrow[k], borrow[k].from, a, st) = BorrowedOut(a, st) + Adds(row, row.from, a, st)
  <2>1. PICK S : S = {b \in Borrows : borrow[b].from = a /\ borrow[b].status \in st}
    OBVIOUS
  <2>2. PICK T : T = {b \in Borrows : borrow'[b].from = a /\ borrow'[b].status \in st}
    OBVIOUS
  <2>3. S \in SUBSET Borrows /\ T \in SUBSET Borrows /\ \A b \in Borrows \ {k} : b \in S <=> b \in T
    BY <1>3, <2>1, <2>2
  <2>4. /\ k \in S <=> borrow[k].from = a /\ borrow[k].status \in st
        /\ k \in T <=> row.from = a /\ row.status \in st
    BY <1>3, <2>1, <2>2
  <2>5. SumFunctionOnSet(u, T) + (IF k \in S THEN v[k] ELSE 0) = SumFunctionOnSet(v, S) + (IF k \in T THEN u[k] ELSE 0)
    BY <1>5, <1>6, <2>3, SumMoved
  <2>6. BorrowedOut(a, st) = SumFunctionOnSet(v, S) /\ BorrowedOut(a, st)' = SumFunctionOnSet(u, T)
    BY <1>1, <1>2, <2>1, <2>2 DEF BorrowedOut, Lent
  <2> QED
    BY <1>4, <1>5, <2>4, <2>5, <2>6 DEF Adds
<1>8. BorrowedIn(a, st)' + Adds(borrow[k], borrow[k].to, a, st) = BorrowedIn(a, st) + Adds(row, row.to, a, st)
  <2>1. PICK S : S = {b \in Borrows : borrow[b].to = a /\ borrow[b].status \in st}
    OBVIOUS
  <2>2. PICK T : T = {b \in Borrows : borrow'[b].to = a /\ borrow'[b].status \in st}
    OBVIOUS
  <2>3. S \in SUBSET Borrows /\ T \in SUBSET Borrows /\ \A b \in Borrows \ {k} : b \in S <=> b \in T
    BY <1>3, <2>1, <2>2
  <2>4. /\ k \in S <=> borrow[k].to = a /\ borrow[k].status \in st
        /\ k \in T <=> row.to = a /\ row.status \in st
    BY <1>3, <2>1, <2>2
  <2>5. SumFunctionOnSet(u, T) + (IF k \in S THEN v[k] ELSE 0) = SumFunctionOnSet(v, S) + (IF k \in T THEN u[k] ELSE 0)
    BY <1>5, <1>6, <2>3, SumMoved
  <2>6. BorrowedIn(a, st) = SumFunctionOnSet(v, S) /\ BorrowedIn(a, st)' = SumFunctionOnSet(u, T)
    BY <1>1, <1>2, <2>1, <2>2 DEF BorrowedIn, Lent
  <2> QED
    BY <1>4, <1>5, <2>4, <2>5, <2>6 DEF Adds
<1> QED
  BY <1>7, <1>8

-----------------------------------------------------------------------------
(* Costs and approvals of borrows at once *)

\* Borrows are made, approved and settled, and stay.
Lasting == ~Asked("delete borrow") /\ ~Asked("patch borrow")

\* What an approval that is yet to be checked still knows of its borrow: its lender
\* and amount, and its destination unless another approval has made one.
Pending(c) ==
    /\ borrow[c.id].status \in {"submitted", "approved"}
    /\ borrow[c.id].from = c.copy.from /\ borrow[c.id].amount = c.copy.amount /\ c.copy.from # c.copy.to
    /\ c.lender.amount = alloc[c.copy.from].amount
    /\ c.copy.to # None => borrow[c.id].to = c.copy.to
    /\ c.copy.to = None /\ borrow[c.id].status = "submitted" => borrow[c.id].to = None
    /\ c.copy.to = None /\ borrow[c.id].status = "approved" =>
         borrow[c.id].to # None /\ alloc[borrow[c.id].to].sink

Quick(c) ==
    /\ ~(c.step = "save" /\ c.table = "allocation")
    /\ ~(c.step = "status" /\ c.table = "borrow")
    /\ c.step = "save" /\ c.table = "borrow" => borrow[c.id].status = "absent" /\ c.copy.status = "draft"
    /\ c.step = "approve" => Pending(c)

\* Two calls make two borrows, and approve one borrow alike.
Apart(c, d) ==
    /\ c.step = "save" /\ c.table = "borrow" /\ d.table = "borrow" => c.id # d.id
    /\ c.step = "approve" /\ d.step = "approve" /\ c.id = d.id => c.copy.to = d.copy.to

QuickCalls ==
    CheckedAtOnce /\ Lasting =>
      /\ \A w \in AnyWorker : Quick(budgetCall[w])
      /\ \A v, w \in AnyWorker : v # w => Apart(budgetCall[v], budgetCall[w])

LEMMA JudgedPending ==
    ASSUME TypeInv, NEW c, CallOK(c), Judged(c), c.step = "approve" PROVE Pending(c) /\ borrow[c.id].status = "submitted"
<1>1. ApproveJudged(c) /\ c.id \in Borrows
  BY DEF Judged, CallOK, ApproveOK
<1>2. borrow[c.id] \in BorrowRows
  BY <1>1, RowTypes DEF TypeInv
<1>3. /\ borrow[c.id].status = "submitted" /\ c.lender = alloc[c.copy.from] /\ c.copy.from # c.copy.to
      /\ c.copy = [borrow[c.id] EXCEPT !.status = "approved"]
  BY <1>1 DEF ApproveJudged
<1>4. c.copy.from = borrow[c.id].from /\ c.copy.to = borrow[c.id].to /\ c.copy.amount = borrow[c.id].amount
  BY <1>2, <1>3 DEF BorrowRows
<1> QED
  BY <1>3, <1>4 DEF Pending

LEMMA QuickRead ==
    ASSUME TypeInv, CheckedAtOnce, Lasting, NEW c, CallOK(c), Judged(c) PROVE Quick(c)
<1>1. ~(c.step = "save" /\ c.table = "allocation")
  BY DEF Judged, AllocationJudged, CheckedAtOnce
<1>2. ~(c.step = "status" /\ c.table = "borrow")
  BY DEF Judged, StatusJudged, CheckedAtOnce
<1>3. c.step = "save" /\ c.table = "borrow" => borrow[c.id].status = "absent" /\ c.copy.status = "draft"
  BY DEF Judged, BorrowJudged, Lasting
<1> QED
  BY <1>1, <1>2, <1>3, JudgedPending DEF Quick

\* The allocations that a borrow names keep their amount and their kind.
KeepsNamed ==
    \A b \in Borrows : \A a \in {borrow[b].from, borrow[b].to} :
        a # None => alloc'[a].amount = alloc[a].amount /\ (alloc[a].sink => alloc'[a].sink)

LEMMA QuickStays ==
    ASSUME TypeInv, NEW c, CallOK(c), Quick(c), KeepsNamed,
           c.table = "borrow" => borrow'[c.id] = borrow[c.id]
    PROVE  Quick(c)'
<1>1. c.step = "save" /\ c.table = "borrow" => borrow'[c.id].status = "absent" /\ c.copy.status = "draft"
  BY DEF Quick
<1>2. ASSUME c.step = "approve" PROVE Pending(c)'
  <2>1. ApproveOK(c) /\ Pending(c)
    BY <1>2 DEF CallOK, Quick
  <2>2. c.id \in Borrows /\ borrow'[c.id] = borrow[c.id] /\ c.copy.from # None
    BY <2>1 DEF ApproveOK, StoredBorrow
  <2>3. alloc'[c.copy.from].amount = alloc[c.copy.from].amount
    BY <2>1, <2>2 DEF Pending, KeepsNamed
  <2>4. borrow[c.id].to # None /\ alloc[borrow[c.id].to].sink => alloc'[borrow[c.id].to].sink
    BY <2>2 DEF KeepsNamed
  <2> QED
    BY <2>1, <2>2, <2>3, <2>4 DEF Pending
<1> QED
  BY <1>1, <1>2 DEF Quick

LEMMA SameNamed ==
    ASSUME UNCHANGED alloc PROVE KeepsNamed
BY DEF KeepsNamed

LEMMA PutNamed ==
    ASSUME TypeInv, NEW k \in Allocations, NEW row, alloc' = [alloc EXCEPT ![k] = row],
           \/ \A b \in Borrows : k \notin {borrow[b].from, borrow[b].to}
           \/ row.amount = alloc[k].amount /\ row.sink = alloc[k].sink
    PROVE  KeepsNamed
<1>1. \A a \in Allocations : alloc'[a] = IF a = k THEN row ELSE alloc[a]
  BY DEF TypeInv, TypeOK
<1>2. \A b \in Borrows : borrow[b].from \in Allocations \cup {None} /\ borrow[b].to \in Allocations \cup {None}
  BY RowTypes DEF TypeInv, Allocated
<1> QED
  BY <1>1, <1>2 DEF KeepsNamed

LEMMA QuickDeletes ==
    ASSUME TypeInv, CheckedAtOnce, Lasting, NEW w \in AnyWorker, Deletes(w)
    PROVE  KeepsNamed /\ UNCHANGED borrow
<1>1. ASSUME NEW a \in Allocated, DeleteAllocation(w, a), UNCHANGED <<deployment, borrow, spending>>
      PROVE  KeepsNamed /\ UNCHANGED borrow
  <2>1. alloc' = [alloc EXCEPT ![a] = NoAllocation] /\ \A b \in Borrows : a \notin {borrow[b].from, borrow[b].to}
    BY <1>1 DEF DeleteAllocation
  <2>2. a \in Allocations
    BY DEF Allocated
  <2>3. KeepsNamed
    BY <2>1, <2>2, PutNamed
  <2> QED
    BY <1>1, <2>3
<1>2. ~ \E b \in Borrows : DeleteBorrow(w, b)
  BY DEF DeleteBorrow, Serves, Lasting
<1>3. ASSUME UNCHANGED alloc, UNCHANGED borrow PROVE KeepsNamed /\ UNCHANGED borrow
  BY <1>3, SameNamed
<1> QED
  BY <1>1, <1>2, <1>3 DEF Deletes, DeleteSource, DeleteForecast, DeleteSpending

LEMMA QuickStatus ==
    ASSUME TypeInv, NEW w \in AnyWorker, Quick(budgetCall[w]), SaveStatus(w)
    PROVE  KeepsNamed /\ UNCHANGED borrow
<1>1. PICK c : c = budgetCall[w]
  OBVIOUS
<1>2. StatusOK(c) /\ StatusWritten(c) /\ c.step = "status" /\ c.table # "borrow"
  BY <1>1, SaveStatusIs DEF Quick
<1>3. CASE c.id \in Allocated /\ UNCHANGED <<source, borrow>> /\ alloc' = [alloc EXCEPT ![c.id].status = c.copy.status]
  <2>1. PICK row : row = [alloc[c.id] EXCEPT !.status = c.copy.status]
    OBVIOUS
  <2>2. alloc[c.id] \in AllocationRows /\ c.id \in Allocations
    BY <1>3, RowTypes DEF TypeInv, Allocated
  <2>3. row.amount = alloc[c.id].amount /\ row.sink = alloc[c.id].sink
    BY <2>1, <2>2 DEF AllocationRows
  <2>4. alloc' = [alloc EXCEPT ![c.id] = row]
    BY <1>3, <2>1
  <2>5. KeepsNamed
    BY <2>2, <2>3, <2>4, PutNamed
  <2> QED
    BY <1>3, <2>5
<1>4. CASE UNCHANGED <<alloc, borrow>>
  BY <1>4, SameNamed
<1> QED
  BY <1>2, <1>3, <1>4 DEF StatusWritten

LEMMA QuickSaved ==
    ASSUME TypeInv, NEW w \in AnyWorker, SaveBorrow(w), NEW d, CallOK(d), Quick(d), Apart(budgetCall[w], d)
    PROVE  Quick(d)'
<1>1. PICK c : c = budgetCall[w]
  OBVIOUS
<1>2. /\ c.step = "save" /\ c.table = "borrow" /\ UNCHANGED alloc
      /\ borrow' = borrow \/ borrow' = [borrow EXCEPT ![c.id] = c.copy]
  BY <1>1, SaveBorrowIs
<1>3. d.table = "borrow" => c.id # d.id /\ d.id \in Borrows
  BY <1>1, <1>2 DEF Apart, CallOK, SaveOK, StatusOK, ApproveOK, DrawOK, IdleCall
<1>4. d.table = "borrow" => borrow'[d.id] = borrow[d.id]
  BY <1>2, <1>3 DEF TypeInv, TypeOK
<1> QED
  BY <1>2, <1>4, SameNamed, QuickStays

LEMMA QuickApproved ==
    ASSUME TypeInv, NEW w \in AnyWorker, ApproveBorrow(w), Quick(budgetCall[w]), NEW d, CallOK(d), Quick(d),
           Apart(budgetCall[w], d), Apart(d, budgetCall[w])
    PROVE  Quick(d)'
<1>1. PICK c, n : c = budgetCall[w] /\ n = NewAllocation
  OBVIOUS
<1>2. c.step = "approve" /\ ApproveOK(c) /\ ApprovalWritten(c) /\ Pending(c) /\ c.id \in Borrows
  BY <1>1, ApproveBorrowIs DEF Quick, ApproveOK
<1>3. d.table = "borrow" => d.id \in Borrows
  BY DEF CallOK, SaveOK, StatusOK, ApproveOK, DrawOK, IdleCall
<1>4. CASE UNCHANGED <<alloc, borrow>>
  BY <1>4, SameNamed, QuickStays
<1>5. ASSUME c.copy.to = None, n \in Allocations \ Known, alloc' = [alloc EXCEPT ![n] = SinkOf(c)]
      PROVE  /\ KeepsNamed /\ n # None /\ alloc'[n].sink
             /\ \A a \in Allocated : alloc'[a] = alloc[a]
  <2>1. n \in Allocations /\ n \notin Allocated /\ n # None
    BY <1>5, Tables DEF Known
  <2>2. \A b \in Borrows : n \notin {borrow[b].from, borrow[b].to}
    BY <2>1, RowTypes DEF TypeInv
  <2>3. PICK row : row = SinkOf(c)
    OBVIOUS
  <2>4. KeepsNamed
    BY <1>5, <2>1, <2>2, <2>3, PutNamed
  <2>5. row.sink
    BY <2>3 DEF SinkOf
  <2> QED
    BY <1>5, <2>1, <2>3, <2>4, <2>5 DEF TypeInv, TypeOK, Allocated
<1>6. ASSUME d.table = "borrow" => d.id # c.id, KeepsNamed,
             \/ borrow' = [borrow EXCEPT ![c.id].status = "approved"]
             \/ borrow' = [borrow EXCEPT ![c.id].status = "approved", ![c.id].to = n]
      PROVE  Quick(d)'
  <2>1. d.table = "borrow" => borrow'[d.id] = borrow[d.id]
    BY <1>2, <1>3, <1>6 DEF TypeInv, TypeOK
  <2> QED
    BY <1>6, <2>1, QuickStays
<1>7. ASSUME d.table = "borrow", d.id = c.id PROVE d.step = "approve" /\ ApproveOK(d) /\ Pending(d) /\ d.copy.to = c.copy.to
  <2>1. c.table = "borrow"
    BY <1>2 DEF ApproveOK
  <2>2. d.step # "save"
    BY <1>1, <1>7, <2>1 DEF Apart
  <2>3. d.step = "approve"
    BY <1>7, <2>2 DEF CallOK, DrawOK, Quick, IdleCall
  <2> QED
    BY <1>1, <1>2, <1>7, <2>3 DEF Apart, CallOK, Quick
<1>8. borrow[c.id] \in BorrowRows /\ borrow[c.id].from \in Allocated \cup {None} /\ borrow \in [Borrows -> BorrowRows]
  BY <1>2, RowTypes DEF TypeInv, TypeOK
<1>9. CASE c.copy.to # None /\ UNCHANGED alloc /\ borrow' = [borrow EXCEPT ![c.id].status = "approved"]
  <2>1. KeepsNamed
    BY <1>9, SameNamed
  <2>2. CASE d.table = "borrow" => d.id # c.id
    BY <1>9, <2>1, <2>2, <1>6
  <2>3. CASE d.table = "borrow" /\ d.id = c.id
    <3>1. /\ borrow'[d.id].status = "approved" /\ borrow'[d.id].from = borrow[d.id].from
          /\ borrow'[d.id].amount = borrow[d.id].amount /\ borrow'[d.id].to = borrow[d.id].to
      BY <1>2, <1>8, <1>9, <2>3 DEF BorrowRows
    <3>2. d.step = "approve" /\ Pending(d) /\ d.copy.to # None
      BY <1>7, <1>9, <2>3
    <3>3. Pending(d)'
      BY <1>9, <3>1, <3>2 DEF Pending
    <3> QED
      BY <3>2, <3>3 DEF Quick
  <2> QED
    BY <2>2, <2>3
<1>10. CASE /\ c.copy.to = None /\ n \in Allocations \ Known
            /\ borrow' = [borrow EXCEPT ![c.id].status = "approved", ![c.id].to = n]
            /\ alloc' = [alloc EXCEPT ![n] = SinkOf(c)]
  <2>1. KeepsNamed /\ n # None /\ alloc'[n].sink /\ \A a \in Allocated : alloc'[a] = alloc[a]
    BY <1>5, <1>10
  <2>2. CASE d.table = "borrow" => d.id # c.id
    BY <1>6, <1>10, <2>1, <2>2
  <2>3. CASE d.table = "borrow" /\ d.id = c.id
    <3>1. PICK row : row = [borrow[c.id] EXCEPT !.status = "approved", !.to = n]
      OBVIOUS
    <3>2. borrow' = [borrow EXCEPT ![c.id] = row]
      BY <1>2, <1>8, <1>10, <3>1
    <3>3. row.status = "approved" /\ row.from = borrow[c.id].from /\ row.amount = borrow[c.id].amount /\ row.to = n
      BY <1>8, <3>1 DEF BorrowRows
    <3>4. borrow'[d.id] = row
      BY <1>2, <1>8, <2>3, <3>2
    <3>5. d.step = "approve" /\ ApproveOK(d) /\ Pending(d) /\ d.copy.to = None
      BY <1>7, <1>10, <2>3
    <3>6. d.copy.from \in Allocated
      BY <1>8, <2>3, <3>5 DEF ApproveOK, StoredBorrow, Pending
    <3>7. Pending(d)'
      BY <2>1, <2>3, <3>3, <3>4, <3>5, <3>6 DEF Pending
    <3> QED
      BY <3>5, <3>7 DEF Quick
  <2> QED
    BY <2>2, <2>3
<1> QED
  BY <1>1, <1>2, <1>4, <1>9, <1>10 DEF ApprovalWritten

LEMMA QuickFinishes ==
    ASSUME TypeInv, CheckedAtOnce, Lasting, NEW w \in AnyWorker, Finishes(w), Quick(budgetCall[w]),
           NEW d, CallOK(d), Quick(d), Apart(budgetCall[w], d), Apart(d, budgetCall[w])
    PROVE  Quick(d)'
<1>1. ASSUME KeepsNamed, UNCHANGED borrow PROVE Quick(d)'
  BY <1>1, QuickStays
<1>2. ASSUME UNCHANGED <<alloc, borrow>> PROVE Quick(d)'
  BY <1>1, <1>2, SameNamed
<1>3. ASSUME SaveSource(w) \/ SaveForecast(w), UNCHANGED borrow PROVE Quick(d)'
  BY <1>2, <1>3 DEF SaveSource, SaveForecast
<1>4. ~SaveAllocation(w)
  BY DEF SaveAllocation, Quick
<1>5. SaveStatus(w) => Quick(d)'
  BY <1>1, QuickStatus
<1>6. SaveBorrow(w) \/ ApproveBorrow(w) => Quick(d)'
  BY QuickSaved, QuickApproved
<1> QED
  BY <1>2, <1>3, <1>4, <1>5, <1>6 DEF Finishes

LEMMA IdleQuick == Quick(IdleCall) /\ \A d : Apart(IdleCall, d) /\ Apart(d, IdleCall)
BY DEF Quick, Apart, IdleCall

LEMMA QuickKeeps == TypeInv /\ QuickCalls /\ [Next]_vars => QuickCalls'
<1> SUFFICES ASSUME TypeInv, QuickCalls, [Next]_vars, CheckedAtOnce', Lasting'
             PROVE  /\ \A v \in AnyWorker : Quick(budgetCall[v])'
                    /\ \A u, v \in AnyWorker : u # v => Apart(budgetCall[u], budgetCall[v])'
  BY DEF QuickCalls
<1>1. UNCHANGED deployment
  BY StepIs, CallsByStep DEF Reads, IsRead, vars, budgetVars
<1>2. CheckedAtOnce /\ Lasting
  BY <1>1 DEF CheckedAtOnce, Lasting, OnSQLite, Edited, Asked
<1>3. /\ \A v \in AnyWorker : Quick(budgetCall[v]) /\ CallOK(budgetCall[v])
      /\ \A u, v \in AnyWorker : u # v => Apart(budgetCall[u], budgetCall[v])
  BY <1>2 DEF QuickCalls, TypeInv, CallsOK
<1>4. ASSUME NEW w \in AnyWorker, Reads(w)
      PROVE  /\ \A v \in AnyWorker : Quick(budgetCall[v])'
             /\ \A u, v \in AnyWorker : u # v => Apart(budgetCall[u], budgetCall[v])'
  <2>1. PICK c : IsRead(w, c) /\ Judged(c) /\ Fresh(c)
    BY <1>4 DEF Reads
  <2>2. budgetCall' = [v \in AnyWorker |-> IF v = w THEN c ELSE budgetCall[v]] /\ UNCHANGED <<alloc, borrow>> /\ CallOK(c)
    BY <2>1, CallTakes DEF IsRead, TypeInv
  <2>3. Quick(c)
    BY <1>2, <2>1, <2>2, QuickRead
  <2>4. ASSUME NEW v \in AnyWorker PROVE Quick(budgetCall[v])'
    <3>1. PICK d : d = budgetCall'[v]
      OBVIOUS
    <3>2. Quick(d)
      BY <1>3, <2>2, <2>3, <3>1
    <3> QED
      BY <2>2, <3>1, <3>2 DEF Quick, Pending
  <2>5. ASSUME NEW v \in AnyWorker, v # w PROVE Apart(c, budgetCall[v]) /\ Apart(budgetCall[v], c)
    <3>1. PICK d : d = budgetCall[v]
      OBVIOUS
    <3>2. Quick(d) /\ CallOK(d)
      BY <1>3, <3>1
    <3>3. c.step = "save" /\ c.table = "borrow" /\ d.table = "borrow" => c.id # d.id
      <4> SUFFICES ASSUME c.step = "save", c.table = "borrow", d.table = "borrow" PROVE c.id # d.id
        OBVIOUS
      <4>1. c.id \notin Taken("borrow")
        BY <2>1, <2>3 DEF Quick, Fresh
      <4> QED
        BY <3>1, <4>1 DEF Taken
    <3>4. d.step = "save" /\ d.table = "borrow" /\ c.table = "borrow" => c.id # d.id
      <4> SUFFICES ASSUME d.step = "save", d.table = "borrow", c.table = "borrow", c.id = d.id PROVE FALSE
        OBVIOUS
      <4>1. borrow[c.id].status = "absent"
        BY <3>2 DEF Quick
      <4>2. c.id \notin Taken("borrow")
        BY <2>1, <4>1 DEF Fresh
      <4> QED
        BY <3>1, <4>2 DEF Taken
    <3>5. c.step = "approve" /\ d.step = "approve" /\ c.id = d.id => c.copy.to = d.copy.to
      <4> SUFFICES ASSUME c.step = "approve", d.step = "approve", c.id = d.id PROVE c.copy.to = d.copy.to
        OBVIOUS
      <4>1. Pending(c) /\ Pending(d) /\ borrow[c.id].status = "submitted"
        BY <2>1, <2>3, <3>2 DEF Quick, Judged, ApproveJudged
      <4> QED
        BY <4>1 DEF Pending
    <3> QED
      BY <3>1, <3>3, <3>4, <3>5 DEF Apart
  <2>6. ASSUME NEW u \in AnyWorker, NEW v \in AnyWorker, u # v PROVE Apart(budgetCall[u], budgetCall[v])'
    <3>1. PICK d, e : d = budgetCall'[u] /\ e = budgetCall'[v]
      OBVIOUS
    <3>2. Apart(d, e)
      BY <1>3, <2>2, <2>5, <2>6, <3>1
    <3> QED
      BY <3>1, <3>2 DEF Apart
  <2> QED
    BY <2>4, <2>6
<1>5. ASSUME NEW w \in AnyWorker, Deletes(w)
      PROVE  /\ \A v \in AnyWorker : Quick(budgetCall[v])'
             /\ \A u, v \in AnyWorker : u # v => Apart(budgetCall[u], budgetCall[v])'
  <2>1. KeepsNamed /\ UNCHANGED <<borrow, budgetCall>>
    BY <1>2, <1>5, QuickDeletes, CallsByStep
  <2>2. ASSUME NEW v \in AnyWorker PROVE Quick(budgetCall[v])'
    <3>1. PICK d : d = budgetCall[v]
      OBVIOUS
    <3>2. Quick(d)'
      BY <1>3, <2>1, <3>1, QuickStays
    <3> QED
      BY <2>1, <3>1, <3>2 DEF Quick, Pending
  <2> QED
    BY <1>3, <2>1, <2>2 DEF Apart
<1>6. ASSUME NEW w \in AnyWorker, Finishes(w)
      PROVE  /\ \A v \in AnyWorker : Quick(budgetCall[v])'
             /\ \A u, v \in AnyWorker : u # v => Apart(budgetCall[u], budgetCall[v])'
  <2>1. budgetCall'[w] = IdleCall /\ \A v \in AnyWorker \ {w} : budgetCall'[v] = budgetCall[v]
    BY <1>6, CallsByStep
  <2>2. ASSUME NEW v \in AnyWorker PROVE Quick(budgetCall[v])'
    <3>1. CASE v = w
      BY <2>1, <3>1 DEF Quick, IdleCall
    <3>2. CASE v # w
      <4>1. PICK d : d = budgetCall[v]
        OBVIOUS
      <4>2. /\ Quick(d) /\ CallOK(d) /\ Quick(budgetCall[w])
            /\ Apart(budgetCall[w], d) /\ Apart(d, budgetCall[w])
        BY <1>3, <3>2, <4>1
      <4>3. Quick(d)'
        BY <1>2, <1>6, <4>2, QuickFinishes
      <4>4. d = budgetCall'[v]
        BY <2>1, <3>2, <4>1
      <4> QED
        BY <4>3, <4>4 DEF Quick, Pending
    <3> QED
      BY <3>1, <3>2
  <2>3. ASSUME NEW u \in AnyWorker, NEW v \in AnyWorker, u # v PROVE Apart(budgetCall[u], budgetCall[v])'
    <3>1. PICK d, e : d = budgetCall'[u] /\ e = budgetCall'[v]
      OBVIOUS
    <3>2. Apart(d, e)
      BY <1>3, <2>1, <2>3, <3>1, IdleQuick
    <3> QED
      BY <3>1, <3>2 DEF Apart
  <2> QED
    BY <2>2, <2>3
<1>7. ASSUME UNCHANGED vars
      PROVE  /\ \A v \in AnyWorker : Quick(budgetCall[v])'
             /\ \A u, v \in AnyWorker : u # v => Apart(budgetCall[u], budgetCall[v])'
  BY <1>3, <1>7 DEF Quick, Pending, Apart, vars, budgetVars
<1> QED
  BY <1>4, <1>5, <1>6, <1>7, StepIs

-----------------------------------------------------------------------------
(* No allocation gives more than it has *)

Passed(a) == AmountOf(Children(a))
LentOut(a) == BorrowedOut(a, Counted)
Borrowed(a) == BorrowedIn(a, Counted)

RowSums ==
    \A a \in Allocations :
        /\ Actual(a) \in Nat /\ Passed(a) \in Nat /\ LentOut(a) \in Nat /\ Borrowed(a) \in Nat
        /\ alloc[a].amount \in Nat /\ Required(a) = Actual(a) + Passed(a) + LentOut(a) - Borrowed(a)

LEMMA RowSumsAre == TypeOK => RowSums
<1> SUFFICES ASSUME TypeOK, NEW a \in Allocations
             PROVE  /\ Actual(a) \in Nat /\ Passed(a) \in Nat /\ LentOut(a) \in Nat /\ Borrowed(a) \in Nat
                    /\ alloc[a].amount \in Nat /\ Required(a) = Actual(a) + Passed(a) + LentOut(a) - Borrowed(a)
  BY DEF RowSums
<1>1. Children(a) \in SUBSET Allocations
  BY DEF Children, Allocated
<1>2. alloc[a] \in AllocationRows /\ MaxAmount \in Nat
  BY RowTypes, Tables
<1>3. alloc[a].amount \in Nat
  BY <1>2 DEF AllocationRows
<1>4. Actual(a) \in Nat /\ Passed(a) \in Nat /\ LentOut(a) \in Nat /\ Borrowed(a) \in Nat
  BY <1>1, SumsOfRows DEF Passed, LentOut, Borrowed
<1> QED
  BY <1>3, <1>4 DEF Required, Passed, LentOut, Borrowed

\* An allocation covers all it gives, or it was made by one of two approvals of a
\* borrow, or an edit compared its amount with what it passed on alone.
Bears(a) ==
    \/ Provides(a)
    \/ ~Serial /\ alloc[a].sink
    \/ /\ Edited
       /\ Actual(a) + LentOut(a) - Borrowed(a) <= alloc[a].amount
       /\ Passed(a) - Borrowed(a) <= alloc[a].amount

AllBear == \A a \in Allocated : Bears(a)

LEMMA BearsOn ==
    ASSUME TypeOK, TypeOK', UNCHANGED deployment, NEW a \in Allocations, Bears(a),
           alloc'[a].amount = alloc[a].amount, alloc[a].sink => alloc'[a].sink,
           Actual(a)' <= Actual(a), Passed(a)' <= Passed(a), LentOut(a)' <= LentOut(a), Borrowed(a) <= Borrowed(a)'
    PROVE  Bears(a)'
<1>1. RowSums /\ RowSums'
  BY RowSumsAre, PTL
<1>2. /\ Actual(a) \in Nat /\ Passed(a) \in Nat /\ LentOut(a) \in Nat /\ Borrowed(a) \in Nat
      /\ alloc[a].amount \in Nat /\ Required(a) = Actual(a) + Passed(a) + LentOut(a) - Borrowed(a)
  BY <1>1 DEF RowSums
<1>3. /\ Actual(a)' \in Nat /\ Passed(a)' \in Nat /\ LentOut(a)' \in Nat /\ Borrowed(a)' \in Nat
      /\ Required(a)' = Actual(a)' + Passed(a)' + LentOut(a)' - Borrowed(a)'
  BY <1>1 DEF RowSums
<1>4. CASE Required(a) <= alloc[a].amount
  BY <1>2, <1>3, <1>4 DEF Bears, Provides
<1>5. CASE ~Serial /\ alloc[a].sink
  BY <1>5 DEF Bears, Serial
<1>6. CASE /\ Edited
           /\ Actual(a) + LentOut(a) - Borrowed(a) <= alloc[a].amount
           /\ Passed(a) - Borrowed(a) <= alloc[a].amount
  <2>1. Edited'
    BY <1>6 DEF Edited
  <2>2. /\ Actual(a)' + LentOut(a)' - Borrowed(a)' <= alloc'[a].amount
        /\ Passed(a)' - Borrowed(a)' <= alloc'[a].amount
    BY <1>2, <1>3, <1>6
  <2> QED
    BY <2>1, <2>2 DEF Bears
<1> QED
  BY <1>4, <1>5, <1>6 DEF Bears, Provides

\* What it costs an allocation that another row is put.
LEMMA PutPassed ==
    ASSUME TypeOK, NEW k \in Allocations, NEW row \in AllocationRows, alloc' = [alloc EXCEPT ![k] = row], NEW a
    PROVE  Passed(a)' + (IF k \in Children(a) THEN alloc[k].amount ELSE 0)
           = Passed(a) + (IF row.status # "absent" /\ row.parent = a THEN row.amount ELSE 0)
<1>1. PICK m : m = AmountOf(Children(a) \ {k})
  OBVIOUS
<1>2. AmountOf(Children(a))' = m + (IF row.status # "absent" /\ row.parent = a THEN row.amount ELSE 0)
  BY <1>1, PutSums
<1>3. Children(a) \in SUBSET Allocations
  BY DEF Children, Allocated
<1>4. AmountOf(Children(a)) = m + (IF k \in Children(a) THEN alloc[k].amount ELSE 0) /\ m \in Nat
  BY <1>1, <1>3, AmountWithout
<1>5. row.amount \in Nat /\ alloc[k].amount \in Nat
  BY RowTypes, Tables DEF AllocationRows
<1> QED
  BY <1>2, <1>4, <1>5 DEF Passed

LEMMA SameParts ==
    /\ UNCHANGED spending => \A a : Actual(a)' = Actual(a)
    /\ UNCHANGED borrow => \A a : LentOut(a)' = LentOut(a) /\ Borrowed(a)' = Borrowed(a)
    /\ UNCHANGED alloc => Allocated' = Allocated /\ \A a : Passed(a)' = Passed(a)
<1>1. UNCHANGED spending => \A a : Actual(a)' = Actual(a)
  BY DEF Actual, Share
<1>2. UNCHANGED borrow => \A a : LentOut(a)' = LentOut(a) /\ Borrowed(a)' = Borrowed(a)
  BY DEF LentOut, Borrowed, BorrowedOut, BorrowedIn, Lent
<1>3. UNCHANGED alloc => Allocated' = Allocated /\ \A a : Passed(a)' = Passed(a)
  BY DEF Passed, AmountOf, Children, Allocated
<1> QED
  BY <1>1, <1>2, <1>3

\* The allocation a bears no more than before.
Eased(a) ==
    /\ alloc'[a].amount = alloc[a].amount /\ (alloc[a].sink => alloc'[a].sink)
    /\ Actual(a)' <= Actual(a) /\ Passed(a)' <= Passed(a) /\ LentOut(a)' <= LentOut(a) /\ Borrowed(a) <= Borrowed(a)'

LEMMA BearEased ==
    ASSUME TypeOK, TypeOK', UNCHANGED deployment, AllBear, Allocated' \subseteq Allocated, \A a \in Allocated' : Eased(a)
    PROVE  AllBear'
<1> SUFFICES ASSUME NEW a \in Allocated' PROVE Bears(a)'
  BY DEF AllBear
<1>1. a \in Allocated /\ a \in Allocations /\ Bears(a)
  BY DEF AllBear, Allocated
<1> QED
  BY <1>1, BearsOn DEF Eased

LEMMA SameEased ==
    ASSUME TypeOK, UNCHANGED <<alloc, borrow, spending>> PROVE Allocated' = Allocated /\ \A a \in Allocated : Eased(a)
<1>1. /\ Allocated' = Allocated
      /\ \A a : Actual(a)' = Actual(a) /\ Passed(a)' = Passed(a) /\ LentOut(a)' = LentOut(a) /\ Borrowed(a)' = Borrowed(a)
  BY SameParts
<1>2. \A a \in Allocated : Actual(a) \in Nat /\ Passed(a) \in Nat /\ LentOut(a) \in Nat /\ Borrowed(a) \in Nat
  BY RowSumsAre DEF RowSums, Allocated
<1> QED
  BY <1>1, <1>2 DEF Eased

\* What a call was judged on when it finishes.
Sure(c) ==
    /\ c.step = "save" /\ c.table = "allocation" => Serial /\ AllocationJudged(c)
    /\ c.step = "save" /\ c.table = "borrow" => borrow[c.id].status = "absent" /\ c.copy.status = "draft"
    /\ c.step = "status" /\ c.table = "borrow" => borrow[c.id].status \in StatusBefore[c.copy.status]
    /\ c.step = "approve" =>
         /\ Pending(c) /\ (Serial => borrow[c.id].status = "submitted")
         /\ ~OnSQLite => Affordable(c.id, c.copy, c.lender)

LEMMA CallSure ==
    ASSUME TypeInv, StillJudged, QuickCalls, Serial \/ CheckedAtOnce, Lasting, NEW w \in AnyWorker PROVE Sure(budgetCall[w])
<1>1. PICK c : c = budgetCall[w]
  OBVIOUS
<1>2. CallOK(c)
  BY <1>1 DEF TypeInv, CallsOK
<1>3. CASE Serial
  <2>1. Judged(c)
    BY <1>1, <1>3 DEF StillJudged
  <2>2. c.step = "save" /\ c.table = "allocation" => Serial /\ AllocationJudged(c)
    BY <1>3, <2>1 DEF Judged
  <2>3. c.step = "save" /\ c.table = "borrow" => borrow[c.id].status = "absent" /\ c.copy.status = "draft"
    BY <2>1 DEF Judged, BorrowJudged, Lasting
  <2>4. c.step = "status" /\ c.table = "borrow" => borrow[c.id].status \in StatusBefore[c.copy.status]
    BY <2>1 DEF Judged, StatusJudged
  <2>5. c.step = "approve" => Pending(c) /\ borrow[c.id].status = "submitted"
    BY <1>2, <2>1, JudgedPending
  <2>6. c.step = "approve" /\ ~OnSQLite => Affordable(c.id, c.copy, c.lender)
    BY <2>1 DEF Judged, ApproveJudged
  <2> QED
    BY <1>1, <2>2, <2>3, <2>4, <2>5, <2>6 DEF Sure
<1>4. CASE ~Serial /\ CheckedAtOnce
  <2>1. Quick(c) /\ OnSQLite
    BY <1>1, <1>4 DEF QuickCalls, CheckedAtOnce
  <2> QED
    BY <1>1, <1>4, <2>1 DEF Quick, Sure
<1> QED
  BY <1>3, <1>4

\* A new allocation is named by no row.
LEMMA NewBearsNothing ==
    ASSUME TypeOK, NEW k \in Allocations \ Allocated
    PROVE  Actual(k) = 0 /\ LentOut(k) = 0 /\ Borrowed(k) = 0 /\ Passed(k) = 0
<1>1. Children(k) = {}
  BY NewChildless
<1>2. Passed(k) = 0
  BY <1>1, NoAmounts DEF Passed
<1>3. k # None /\ \A b \in Borrows : borrow[b].from # k /\ borrow[b].to # k
  BY Tables, RowTypes
<1>4. {b \in Borrows : borrow[b].from = k /\ borrow[b].status \in Counted} = {}
  BY <1>3
<1>5. {b \in Borrows : borrow[b].to = k /\ borrow[b].status \in Counted} = {}
  BY <1>3
<1>6. Lent({}) = 0
  <2>1. PICK v : v = [b \in Borrows |-> borrow[b].amount]
    OBVIOUS
  <2>2. SumFunctionOnSet(v, {}) = 0
    BY SumEmpty
  <2> QED
    BY <2>1, <2>2 DEF Lent
<1>7. LentOut(k) = 0 /\ Borrowed(k) = 0
  BY <1>4, <1>5, <1>6 DEF LentOut, Borrowed, BorrowedOut, BorrowedIn
<1>8. Actual(k) = 0
  <2>1. \A t \in Spendings : Share(spending[t], k) = 0
    <3>1. \A t \in Spendings : Share(spending[t], k) \in Nat
      BY SumsOfRows
    <3>2. \A t \in Spendings : ~(Share(spending[t], k) > 0)
      BY DEF TypeOK
    <3> QED
      BY <3>1, <3>2
  <2>2. PICK v : v = [t \in Spendings |-> Share(spending[t], k)]
    OBVIOUS
  <2>4. \A t \in Spendings : v[t] = 0
    BY <2>1, <2>2
  <2>5. SumFunctionOnSet(v, Spendings) = 0
    BY <2>4, Tables, SumZeros
  <2> QED
    BY <2>2, <2>5 DEF Actual
<1> QED
  BY <1>2, <1>7, <1>8

LEMMA BearSame ==
    ASSUME TypeOK, TypeOK', UNCHANGED deployment, AllBear, UNCHANGED <<alloc, borrow, spending>>
    PROVE  AllBear'
<1>1. Allocated' = Allocated /\ \A a \in Allocated : Eased(a)
  BY SameEased
<1> QED
  BY <1>1, BearEased

LEMMA BearDeletes ==
    ASSUME TypeInv, TypeInv', AllBear, Lasting, NEW w \in AnyWorker, Deletes(w)
    PROVE  AllBear'
<1>1. TypeOK /\ TypeOK' /\ UNCHANGED deployment
  BY CallsByStep DEF TypeInv
<1>2. CASE UNCHANGED <<alloc, borrow, spending>>
  BY <1>1, <1>2, BearSame
<1>3. ASSUME NEW k \in Allocated, DeleteAllocation(w, k), UNCHANGED <<deployment, borrow, spending>>
      PROVE  AllBear'
  <2>1. alloc' = [alloc EXCEPT ![k] = NoAllocation] /\ k \in Allocations
    BY <1>3 DEF DeleteAllocation, Allocated
  <2>2. NoAllocation \in AllocationRows /\ NoAllocation.status = "absent"
    BY NoRows DEF NoAllocation
  <2>3. \A a \in Allocations : alloc'[a] = IF a = k THEN NoAllocation ELSE alloc[a]
    BY <1>1, <2>1 DEF TypeOK
  <2>4. \A a : Actual(a)' = Actual(a) /\ LentOut(a)' = LentOut(a) /\ Borrowed(a)' = Borrowed(a)
    BY <1>3, SameParts
  <2>5. k \notin Allocated' /\ Allocated' \subseteq Allocated
    BY <2>2, <2>3 DEF Allocated
  <2>6. ASSUME NEW a \in Allocated' PROVE Eased(a)
    <3>1. a \in Allocated /\ a \in Allocations /\ a # k /\ alloc'[a] = alloc[a]
      BY <2>3, <2>5 DEF Allocated
    <3>2. Passed(a)' + (IF k \in Children(a) THEN alloc[k].amount ELSE 0) = Passed(a) + 0
      BY <1>1, <2>1, <2>2, PutPassed
    <3>3. RowSums /\ RowSums'
      BY <1>1, RowSumsAre, PTL
    <3>4. /\ Actual(a) \in Nat /\ Passed(a) \in Nat /\ LentOut(a) \in Nat /\ Borrowed(a) \in Nat
          /\ alloc[k].amount \in Nat /\ Passed(a)' \in Nat
      BY <2>1, <3>1, <3>3 DEF RowSums
    <3>5. Passed(a)' <= Passed(a)
      BY <3>2, <3>4
    <3> QED
      BY <2>4, <3>1, <3>4, <3>5 DEF Eased
  <2> QED
    BY <1>1, <2>5, <2>6, BearEased
<1>4. ~ \E b \in Borrows : DeleteBorrow(w, b)
  BY DEF DeleteBorrow, Serves, Lasting
<1>5. ASSUME NEW k \in Spendings, DeleteSpending(w, k), UNCHANGED <<deployment, source, alloc, borrow, forecast>>
      PROVE  AllBear'
  <2>1. spending' = [spending EXCEPT ![k] = NoSpending] /\ NoSpending \in SpendingRows
    BY <1>5, NoRows DEF DeleteSpending
  <2>2. Allocated' = Allocated /\ \A a : LentOut(a)' = LentOut(a) /\ Borrowed(a)' = Borrowed(a) /\ Passed(a)' = Passed(a)
    BY <1>5, SameParts
  <2>3. ASSUME NEW a \in Allocated PROVE Eased(a)
    <3>1. a \in Allocations
      BY DEF Allocated
    <3>2. Actual(a)' = Actual(a) - Share(spending[k], a) + Share(NoSpending, a)
      BY <1>1, <2>1, <3>1, PutSpending
    <3>3. Share(NoSpending, a) = 0 /\ Share(spending[k], a) \in Nat
      BY <1>1, <3>1, NothingTaken, SumsOfRows
    <3>4. Actual(a) \in Nat /\ Passed(a) \in Nat /\ LentOut(a) \in Nat /\ Borrowed(a) \in Nat
      BY <1>1, <3>1, RowSumsAre DEF RowSums
    <3>5. Actual(a)' <= Actual(a)
      BY <3>2, <3>3, <3>4
    <3> QED
      BY <1>5, <2>2, <3>4, <3>5 DEF Eased
  <2> QED
    BY <1>1, <2>2, <2>3, BearEased
<1> QED
  BY <1>2, <1>3, <1>4, <1>5 DEF Deletes, DeleteSource, DeleteForecast

LEMMA BearSavedAllocation ==
    ASSUME TypeInv, TypeInv', AllBear, NEW w \in AnyWorker, Sure(budgetCall[w]), SaveAllocation(w),
           UNCHANGED <<deployment, borrow, spending>>
    PROVE  AllBear'
<1>1. PICK c : c = budgetCall[w]
  OBVIOUS
<1>2. PICK k, row : k = Target(c) /\ row = c.copy
  OBVIOUS
<1>3. /\ StoredAllocation(row) /\ k \in Allocations /\ k # None /\ Serial /\ AllocationJudged(c)
      /\ c.id = None => k \notin Known
      /\ c.id # None => k = c.id
      /\ \/ alloc' = alloc
         \/ alloc' = [alloc EXCEPT ![k] = row] /\ row.parent \in Allocated \cup {None}
  BY <1>1, <1>2, SaveAllocationIs DEF Sure
<1>4. TypeOK /\ TypeOK'
  BY DEF TypeInv
<1>5. CASE alloc' = alloc
  BY <1>4, <1>5, BearSame
<1>6. CASE alloc' = [alloc EXCEPT ![k] = row] /\ row.parent \in Allocated \cup {None}
  <2>1. row \in AllocationRows /\ row.status # "absent"
    BY <1>3 DEF StoredAllocation
  <2>2. \A a \in Allocations : alloc'[a] = IF a = k THEN row ELSE alloc[a]
    BY <1>4, <1>6 DEF TypeOK
  <2>3. \A a : Actual(a)' = Actual(a) /\ LentOut(a)' = LentOut(a) /\ Borrowed(a)' = Borrowed(a)
    BY SameParts
  <2>4. RowSums /\ RowSums'
    BY <1>4, RowSumsAre, PTL
  <2>5. /\ Edited /\ row.parent # k
        /\ k \in Allocated => k = c.id /\ Required(k) <= row.amount /\ row.sink = alloc[k].sink
        /\ k \notin Allocated => c.id = None
    <3>1. c.id = None => k \notin Allocated /\ row.parent # k
      BY <1>3, <1>6 DEF Known
    <3>2. c.id # None => k = c.id /\ k \in Allocated /\ row.parent # k /\ Required(k) <= row.amount /\ row.sink = alloc[k].sink
      BY <1>2, <1>3 DEF AllocationJudged
    <3> QED
      BY <1>3, <3>1, <3>2 DEF AllocationJudged
  <2>6. \A a : Passed(a)' + (IF k \in Children(a) THEN alloc[k].amount ELSE 0)
               = Passed(a) + (IF row.parent = a THEN row.amount ELSE 0)
    BY <1>3, <1>4, <1>6, <2>1, PutPassed
  <2>7. Bears(k)'
    <3>1. row.amount \in Nat /\ alloc[k].amount \in Nat /\ alloc'[k] = row
      BY <1>3, <2>1, <2>2, <2>4, Tables DEF RowSums, AllocationRows
    <3>2. /\ Actual(k) \in Nat /\ Passed(k) \in Nat /\ LentOut(k) \in Nat /\ Borrowed(k) \in Nat /\ Passed(k)' \in Nat
          /\ Required(k) = Actual(k) + Passed(k) + LentOut(k) - Borrowed(k)
          /\ Required(k)' = Actual(k)' + Passed(k)' + LentOut(k)' - Borrowed(k)'
      BY <1>3, <2>4 DEF RowSums
    <3>3. Passed(k)' + (IF k \in Children(k) THEN alloc[k].amount ELSE 0) = Passed(k)
      BY <2>5, <2>6, <3>2
    <3>4. Passed(k)' <= Passed(k)
      BY <3>1, <3>2, <3>3
    <3>5. Required(k)' <= Required(k)
      BY <2>3, <3>2, <3>4
    <3>6. Required(k) <= row.amount
      <4>1. CASE k \in Allocated
        BY <2>5, <4>1
      <4>2. CASE k \notin Allocated
        <5>1. Actual(k) = 0 /\ LentOut(k) = 0 /\ Borrowed(k) = 0 /\ Passed(k) = 0
          BY <1>3, <1>4, <4>2, NewBearsNothing
        <5> QED
          BY <3>1, <3>2, <5>1
      <4> QED
        BY <4>1, <4>2
    <3>7. Required(k)' \in Int /\ Required(k) \in Int
      BY <2>3, <3>2
    <3>8. Required(k)' <= row.amount
      BY <3>1, <3>5, <3>6, <3>7
    <3> QED
      BY <3>1, <3>8 DEF Bears, Provides
  <2>8. ASSUME NEW a \in Allocated, a # k, a # row.parent PROVE Bears(a)'
    <3>1. a \in Allocations /\ Bears(a) /\ alloc'[a] = alloc[a]
      BY <2>2, <2>8 DEF AllBear, Allocated
    <3>2. /\ Actual(a) \in Nat /\ Passed(a) \in Nat /\ LentOut(a) \in Nat /\ Borrowed(a) \in Nat /\ Passed(a)' \in Nat
          /\ alloc[k].amount \in Nat
      BY <1>3, <2>4, <3>1 DEF RowSums
    <3>3. Passed(a)' + (IF k \in Children(a) THEN alloc[k].amount ELSE 0) = Passed(a)
      BY <2>6, <2>8, <3>2
    <3>4. Passed(a)' <= Passed(a)
      BY <3>2, <3>3
    <3>5. Actual(a)' <= Actual(a) /\ LentOut(a)' <= LentOut(a) /\ Borrowed(a) <= Borrowed(a)'
      BY <2>3, <3>2
    <3>6. alloc'[a].amount = alloc[a].amount /\ (alloc[a].sink => alloc'[a].sink)
      BY <3>1
    <3> QED
      BY <1>4, <3>1, <3>4, <3>5, <3>6, BearsOn
  <2>9. ASSUME NEW a \in Allocated, a # k, a = row.parent PROVE Bears(a)'
    <3>1. a \in Allocations /\ Bears(a) /\ alloc'[a] = alloc[a] /\ a # None
      BY <2>2, <2>9, Tables DEF AllBear, Allocated
    <3>2. /\ Actual(a) \in Nat /\ Passed(a) \in Nat /\ LentOut(a) \in Nat /\ Borrowed(a) \in Nat /\ Passed(a)' \in Nat
          /\ alloc[a].amount \in Nat /\ Required(a) = Actual(a) + Passed(a) + LentOut(a) - Borrowed(a)
      BY <2>4, <3>1 DEF RowSums
    <3>3. PICK n : n = AmountOf(Children(a) \ {k})
      OBVIOUS
    <3>4. Passed(a)' = n + row.amount
      <4>1. AmountOf(Children(a))' = n + (IF row.status # "absent" /\ row.parent = a THEN row.amount ELSE 0)
        BY <1>3, <1>4, <1>6, <2>1, <3>3, PutSums, ZenonT(40)
      <4> QED
        BY <2>1, <2>9, <4>1 DEF Passed
    <3>5. n + row.amount <= alloc[a].amount
      <4>1. AmountOf(Children(a) \ {c.id}) + row.amount <= alloc[a].amount
        BY <1>2, <1>3, <2>9, <3>1 DEF AllocationJudged
      <4>2. Children(a) \ {c.id} = Children(a) \ {k}
        BY <1>3, <2>5, Tables DEF Children, Allocated
      <4> QED
        BY <3>3, <4>1, <4>2
    <3>6. Passed(a)' - Borrowed(a) <= alloc[a].amount
      BY <3>2, <3>4, <3>5
    <3>7. Actual(a) + LentOut(a) - Borrowed(a) <= alloc[a].amount
      BY <1>3, <3>1, <3>2 DEF Bears, Provides
    <3> QED
      BY <2>3, <2>5, <3>1, <3>6, <3>7 DEF Bears, Edited
  <2>10. Allocated' \subseteq Allocated \cup {k}
    BY <2>2 DEF Allocated
  <2> QED
    BY <1>4, <2>7, <2>8, <2>9, <2>10 DEF AllBear
<1> QED
  BY <1>3, <1>5, <1>6

LEMMA PutLent ==
    ASSUME TypeOK, NEW k \in Borrows, NEW row \in BorrowRows, borrow' = [borrow EXCEPT ![k] = row]
    PROVE  \A a : /\ LentOut(a)' + Adds(borrow[k], borrow[k].from, a, Counted) = LentOut(a) + Adds(row, row.from, a, Counted)
                  /\ Borrowed(a)' + Adds(borrow[k], borrow[k].to, a, Counted) = Borrowed(a) + Adds(row, row.to, a, Counted)
<1> TAKE a
<1>1. PICK st : st = Counted
  OBVIOUS
<1>2. /\ BorrowedOut(a, st)' + Adds(borrow[k], borrow[k].from, a, st) = BorrowedOut(a, st) + Adds(row, row.from, a, st)
      /\ BorrowedIn(a, st)' + Adds(borrow[k], borrow[k].to, a, st) = BorrowedIn(a, st) + Adds(row, row.to, a, st)
  BY PutBorrow, ZenonT(40)
<1> QED
  BY <1>1, <1>2 DEF LentOut, Borrowed

LEMMA BearStatus ==
    ASSUME TypeInv, TypeInv', AllBear, NEW w \in AnyWorker, Sure(budgetCall[w]), SaveStatus(w),
           UNCHANGED <<deployment, spending, forecast>>
    PROVE  AllBear'
<1>1. PICK c, k : c = budgetCall[w] /\ k = c.id
  OBVIOUS
<1>2. StatusOK(c) /\ StatusWritten(c) /\ c.step = "status"
  BY <1>1, SaveStatusIs
<1>3. TypeOK /\ TypeOK'
  BY DEF TypeInv
<1>4. CASE UNCHANGED <<alloc, borrow>>
  BY <1>3, <1>4, BearSame
<1>5. CASE c.table = "allocation" /\ k \in Allocated /\ UNCHANGED borrow /\ alloc' = [alloc EXCEPT ![k].status = c.copy.status]
  <2>1. PICK row : row = [alloc[k] EXCEPT !.status = c.copy.status]
    OBVIOUS
  <2>2. alloc[k] \in AllocationRows /\ k \in Allocations /\ c.copy.status \in {"submitted", "approved", "rejected"}
    BY <1>2, <1>3, <1>5, RowTypes DEF Allocated, StatusOK
  <2>3. /\ row \in AllocationRows /\ row.status = c.copy.status /\ row.parent = alloc[k].parent
        /\ row.amount = alloc[k].amount /\ row.sink = alloc[k].sink
    BY <2>1, <2>2 DEF AllocationRows, Statuses
  <2>4. alloc' = [alloc EXCEPT ![k] = row]
    BY <1>5, <2>1
  <2>5. \A a \in Allocations : alloc'[a] = IF a = k THEN row ELSE alloc[a]
    BY <1>3, <2>4 DEF TypeOK
  <2>6. Allocated' = Allocated
    BY <1>5, <2>2, <2>3, <2>5 DEF Allocated
  <2>7. \A a : Actual(a)' = Actual(a) /\ LentOut(a)' = LentOut(a) /\ Borrowed(a)' = Borrowed(a)
    BY <1>5, SameParts
  <2>8. \A a : Passed(a)' + (IF k \in Children(a) THEN alloc[k].amount ELSE 0)
               = Passed(a) + (IF row.parent = a THEN row.amount ELSE 0)
    <3>1. row \in AllocationRows /\ row.status # "absent"
      BY <2>2, <2>3
    <3> QED
      BY <1>3, <2>2, <2>4, <3>1, PutPassed, ZenonT(40)
  <2>9. ASSUME NEW a \in Allocated PROVE Eased(a)
    <3>1. a \in Allocations
      BY DEF Allocated
    <3>2. RowSums /\ RowSums'
      BY <1>3, RowSumsAre, PTL
    <3>3. /\ Actual(a) \in Nat /\ Passed(a) \in Nat /\ LentOut(a) \in Nat /\ Borrowed(a) \in Nat /\ Passed(a)' \in Nat
          /\ alloc[k].amount \in Nat
      BY <2>2, <3>1, <3>2 DEF RowSums
    <3>4. Passed(a)' + (IF k \in Children(a) THEN alloc[k].amount ELSE 0)
          = Passed(a) + (IF row.parent = a THEN row.amount ELSE 0)
      BY <2>8
    <3>5. k \in Children(a) <=> row.parent = a
      BY <1>5, <2>3 DEF Children
    <3>6. Passed(a)' = Passed(a)
      BY <2>3, <3>3, <3>4, <3>5
    <3>7. alloc'[a].amount = alloc[a].amount /\ alloc'[a].sink = alloc[a].sink
      BY <2>3, <2>5, <3>1
    <3> QED
      BY <2>7, <3>3, <3>6, <3>7 DEF Eased
  <2> QED
    BY <1>3, <2>6, <2>9, BearEased
<1>6. CASE /\ c.table = "borrow" /\ k \in Borrows /\ borrow[k].status # "absent" /\ UNCHANGED alloc
           /\ borrow' = [borrow EXCEPT ![k].status = c.copy.status]
  <2>1. PICK row : row = [borrow[k] EXCEPT !.status = c.copy.status]
    OBVIOUS
  <2>2. /\ borrow[k] \in BorrowRows /\ c.copy.status \in {"submitted", "rejected", "settled"}
        /\ borrow[k].status \in StatusBefore[c.copy.status]
    BY <1>1, <1>2, <1>3, <1>6, RowTypes DEF StatusOK, Sure
  <2>3. /\ row \in BorrowRows /\ row.status = c.copy.status /\ row.from = borrow[k].from /\ row.to = borrow[k].to
        /\ row.amount = borrow[k].amount
    BY <2>1, <2>2 DEF BorrowRows, Statuses
  <2>4. borrow' = [borrow EXCEPT ![k] = row]
    BY <1>6, <2>1
  <2>5. row.status \in Counted <=> borrow[k].status \in Counted
    BY <2>2, <2>3, StatusBeforeIs DEF Counted
  <2>6. Allocated' = Allocated /\ \A a : Actual(a)' = Actual(a) /\ Passed(a)' = Passed(a)
    BY <1>6, SameParts
  <2>7. ASSUME NEW a \in Allocated PROVE Eased(a)
    <3>1. a \in Allocations
      BY DEF Allocated
    <3>2. RowSums /\ RowSums'
      BY <1>3, RowSumsAre, PTL
    <3>3. /\ Actual(a) \in Nat /\ Passed(a) \in Nat /\ LentOut(a) \in Nat /\ Borrowed(a) \in Nat
          /\ LentOut(a)' \in Nat /\ Borrowed(a)' \in Nat
      BY <3>1, <3>2 DEF RowSums
    <3>4. /\ LentOut(a)' + Adds(borrow[k], borrow[k].from, a, Counted) = LentOut(a) + Adds(row, row.from, a, Counted)
          /\ Borrowed(a)' + Adds(borrow[k], borrow[k].to, a, Counted) = Borrowed(a) + Adds(row, row.to, a, Counted)
      BY <1>3, <1>6, <2>3, <2>4, PutLent, ZenonT(40)
    <3>5. /\ Adds(borrow[k], borrow[k].from, a, Counted) = Adds(row, row.from, a, Counted)
          /\ Adds(borrow[k], borrow[k].to, a, Counted) = Adds(row, row.to, a, Counted)
      BY <2>3, <2>5 DEF Adds
    <3>6. Adds(row, row.from, a, Counted) \in Nat /\ Adds(row, row.to, a, Counted) \in Nat
      BY <2>3, Tables DEF Adds, BorrowRows
    <3>7. LentOut(a)' = LentOut(a) /\ Borrowed(a)' = Borrowed(a)
      BY <3>3, <3>4, <3>5, <3>6
    <3> QED
      BY <1>6, <2>6, <3>3, <3>7 DEF Eased
  <2> QED
    BY <1>3, <2>6, <2>7, BearEased
<1> QED
  BY <1>1, <1>2, <1>4, <1>5, <1>6 DEF StatusWritten

LEMMA BearSavedBorrow ==
    ASSUME TypeInv, TypeInv', AllBear, NEW w \in AnyWorker, Sure(budgetCall[w]), SaveBorrow(w),
           UNCHANGED <<deployment, spending, forecast>>
    PROVE  AllBear'
<1>1. PICK c, k, row : c = budgetCall[w] /\ k = c.id /\ row = c.copy
  OBVIOUS
<1>2. /\ StoredBorrow(row) /\ k \in Borrows /\ UNCHANGED <<source, alloc>>
      /\ borrow[k].status = "absent" /\ row.status = "draft"
      /\ borrow' = borrow \/ borrow' = [borrow EXCEPT ![k] = row]
  BY <1>1, SaveBorrowIs DEF Sure
<1>3. TypeOK /\ TypeOK'
  BY DEF TypeInv
<1>4. CASE borrow' = borrow
  BY <1>2, <1>3, <1>4, BearSame
<1>5. CASE borrow' = [borrow EXCEPT ![k] = row]
  <2>1. row \in BorrowRows /\ row.status \notin Counted /\ borrow[k].status \notin Counted
    BY <1>2 DEF StoredBorrow, Counted
  <2>2. Allocated' = Allocated /\ \A a : Actual(a)' = Actual(a) /\ Passed(a)' = Passed(a)
    BY <1>2, SameParts
  <2>3. ASSUME NEW a \in Allocated PROVE Eased(a)
    <3>1. a \in Allocations
      BY DEF Allocated
    <3>2. RowSums /\ RowSums'
      BY <1>3, RowSumsAre, PTL
    <3>3. /\ Actual(a) \in Nat /\ Passed(a) \in Nat /\ LentOut(a) \in Nat /\ Borrowed(a) \in Nat
          /\ LentOut(a)' \in Nat /\ Borrowed(a)' \in Nat
      BY <3>1, <3>2 DEF RowSums
    <3>4. /\ LentOut(a)' + Adds(borrow[k], borrow[k].from, a, Counted) = LentOut(a) + Adds(row, row.from, a, Counted)
          /\ Borrowed(a)' + Adds(borrow[k], borrow[k].to, a, Counted) = Borrowed(a) + Adds(row, row.to, a, Counted)
      BY <1>2, <1>3, <1>5, <2>1, PutLent
    <3>5. /\ Adds(borrow[k], borrow[k].from, a, Counted) = 0 /\ Adds(row, row.from, a, Counted) = 0
          /\ Adds(borrow[k], borrow[k].to, a, Counted) = 0 /\ Adds(row, row.to, a, Counted) = 0
      BY <2>1 DEF Adds
    <3>6. LentOut(a)' = LentOut(a) /\ Borrowed(a)' = Borrowed(a)
      BY <3>3, <3>4, <3>5
    <3> QED
      BY <1>2, <2>2, <3>3, <3>6 DEF Eased
  <2> QED
    BY <1>2, <1>3, <2>2, <2>3, BearEased
<1> QED
  BY <1>2, <1>4, <1>5

\* A lender gives what its amount leaves.
LEMMA LenderBears ==
    ASSUME TypeOK, TypeOK', NEW a \in Allocations, NEW m \in Nat, m <= alloc[a].amount - Required(a),
           alloc'[a].amount = alloc[a].amount, Actual(a)' = Actual(a), Passed(a)' = Passed(a),
           LentOut(a)' = LentOut(a) + m, Borrowed(a)' = Borrowed(a)
    PROVE  Bears(a)'
<1>1. RowSums /\ RowSums'
  BY RowSumsAre, PTL
<1>2. /\ Actual(a) \in Nat /\ Passed(a) \in Nat /\ LentOut(a) \in Nat /\ Borrowed(a) \in Nat
      /\ alloc[a].amount \in Nat /\ Required(a) = Actual(a) + Passed(a) + LentOut(a) - Borrowed(a)
  BY <1>1 DEF RowSums
<1>3. Required(a)' = Actual(a)' + Passed(a)' + LentOut(a)' - Borrowed(a)'
  BY <1>1 DEF RowSums
<1>4. Required(a)' <= alloc'[a].amount
  BY <1>2, <1>3
<1> QED
  BY <1>4 DEF Bears, Provides

LEMMA BearApproved ==
    ASSUME TypeInv, TypeInv', AllBear, NEW w \in AnyWorker, Sure(budgetCall[w]), ApproveBorrow(w),
           UNCHANGED <<deployment, spending, forecast>>
    PROVE  AllBear'
<1>1. PICK c, k, n, old : c = budgetCall[w] /\ k = c.id /\ n = NewAllocation /\ old = borrow[k]
  OBVIOUS
<1>2. /\ ApproveOK(c) /\ ApprovalWritten(c) /\ (c.copy.to = None => StoredAllocation(SinkOf(c)))
      /\ Pending(c) /\ (Serial => old.status = "submitted")
      /\ ~OnSQLite => Affordable(k, c.copy, c.lender)
  BY <1>1, ApproveBorrowIs DEF Sure
<1>3. TypeOK /\ TypeOK'
  BY DEF TypeInv
<1>4. CASE UNCHANGED <<alloc, borrow>>
  BY <1>3, <1>4, BearSame
<1>5. PICK f, m : f = c.copy.from /\ m = c.copy.amount
  OBVIOUS
<1>6. /\ k \in Borrows /\ old \in BorrowRows /\ old.status \in {"submitted", "approved"} /\ old.from = f /\ old.amount = m
      /\ f \in Allocated /\ f \in Allocations /\ f # None /\ m \in Nat
  <2>1. k \in Borrows /\ c.copy.from # None
    BY <1>1, <1>2 DEF ApproveOK, StoredBorrow
  <2>2. old.status \in {"submitted", "approved"} /\ old.from = f /\ old.amount = m
    BY <1>1, <1>2, <1>5 DEF Pending
  <2>3. old \in BorrowRows /\ old.from \in Allocated \cup {None}
    BY <1>1, <1>3, <2>1, RowTypes
  <2> QED
    BY <1>5, <2>1, <2>2, <2>3, Tables DEF BorrowRows, Allocated
<1>7. ASSUME ~ UNCHANGED <<alloc, borrow>>
      PROVE  /\ c.copy.to # f
             /\ old.status = "submitted" => m <= alloc[f].amount - Required(f)
  <2>1. Affordable(k, c.copy, c.lender) /\ c.copy.to # f
    <3>1. OnSQLite => Affordable(k, c.copy, c.lender)
      BY <1>1, <1>2, <1>7 DEF ApprovalWritten
    <3>2. c.copy.to # f
      BY <1>2, <1>5 DEF Pending
    <3> QED
      BY <1>2, <1>5, <3>1, <3>2
  <2>2. c.lender.amount = alloc[f].amount
    BY <1>2, <1>5 DEF Pending
  <2>3. old.status = "submitted" => m <= alloc[f].amount - Required(f) + 0
    BY <1>1, <1>5, <2>1, <2>2 DEF Affordable, Counted
  <2>4. Required(f) \in Int /\ alloc[f].amount \in Nat
    BY <1>3, <1>6, SumsOfRows, RowSumsAre DEF RowSums
  <2> QED
    BY <1>6, <2>1, <2>3, <2>4
<1>8. RowSums /\ RowSums' /\ \A a : Actual(a)' = Actual(a)
  <2>1. RowSums /\ RowSums'
    BY <1>3, RowSumsAre, PTL
  <2> QED
    BY <2>1, SameParts
<1>9. ASSUME NEW row \in BorrowRows, borrow' = [borrow EXCEPT ![k] = row],
             row.status = "approved", row.from = f, row.amount = m
      PROVE  \A a \in Allocations :
               /\ LentOut(a)' = LentOut(a) + (IF a = f /\ old.status = "submitted" THEN m ELSE 0)
               /\ a # old.to \/ row.to = old.to \/ old.status = "submitted" => Borrowed(a) <= Borrowed(a)'
               /\ a # old.to /\ a # row.to => Borrowed(a)' = Borrowed(a)
  <2>1. \A a : /\ LentOut(a)' + Adds(old, f, a, Counted) = LentOut(a) + Adds(row, f, a, Counted)
               /\ Borrowed(a)' + Adds(old, old.to, a, Counted) = Borrowed(a) + Adds(row, row.to, a, Counted)
    <3>1. \A a : /\ LentOut(a)' + Adds(borrow[k], borrow[k].from, a, Counted) = LentOut(a) + Adds(row, row.from, a, Counted)
                 /\ Borrowed(a)' + Adds(borrow[k], borrow[k].to, a, Counted) = Borrowed(a) + Adds(row, row.to, a, Counted)
      BY <1>3, <1>6, <1>9, PutLent
    <3> QED
      BY <1>1, <1>6, <1>9, <3>1
  <2>2. ASSUME NEW a \in Allocations
        PROVE  /\ LentOut(a)' = LentOut(a) + (IF a = f /\ old.status = "submitted" THEN m ELSE 0)
               /\ a # old.to \/ row.to = old.to \/ old.status = "submitted" => Borrowed(a) <= Borrowed(a)'
               /\ a # old.to /\ a # row.to => Borrowed(a)' = Borrowed(a)
    <3>1. LentOut(a) \in Nat /\ Borrowed(a) \in Nat /\ LentOut(a)' \in Nat /\ Borrowed(a)' \in Nat
      BY <1>8 DEF RowSums
    <3>2. /\ Adds(old, f, a, Counted) = (IF a = f /\ old.status # "submitted" THEN m ELSE 0)
          /\ Adds(row, f, a, Counted) = (IF a = f THEN m ELSE 0)
      BY <1>6, <1>9 DEF Adds, Counted
    <3>3. /\ Adds(old, old.to, a, Counted) = (IF a = old.to /\ old.status # "submitted" THEN m ELSE 0)
          /\ Adds(row, row.to, a, Counted) = (IF a = row.to THEN m ELSE 0)
      BY <1>6, <1>9 DEF Adds, Counted
    <3>4. LentOut(a)' = LentOut(a) + (IF a = f /\ old.status = "submitted" THEN m ELSE 0)
      BY <1>6, <2>1, <3>1, <3>2
    <3>5. Borrowed(a)' + (IF a = old.to /\ old.status # "submitted" THEN m ELSE 0) = Borrowed(a) + (IF a = row.to THEN m ELSE 0)
      BY <2>1, <3>3
    <3> QED
      BY <1>6, <3>1, <3>4, <3>5
  <2> QED
    BY <2>2
<1>10. CASE c.copy.to # None /\ UNCHANGED alloc /\ borrow' = [borrow EXCEPT ![k].status = "approved"] /\ borrow' # borrow
  <2>1. PICK row : row = [old EXCEPT !.status = "approved"]
    OBVIOUS
  <2>2. row \in BorrowRows /\ row.status = "approved" /\ row.from = f /\ row.amount = m /\ row.to = old.to
    BY <1>6, <2>1 DEF BorrowRows, Statuses
  <2>3. borrow' = [borrow EXCEPT ![k] = row]
    BY <1>1, <1>10, <2>1
  <2>4. old.to = c.copy.to
    BY <1>1, <1>2, <1>10 DEF Pending
  <2>5. Allocated' = Allocated /\ \A a : Passed(a)' = Passed(a)
    BY <1>10, SameParts
  <2>6. ASSUME NEW a \in Allocated PROVE Bears(a)'
    <3>1. a \in Allocations /\ Bears(a)
      BY DEF AllBear, Allocated
    <3>2. /\ LentOut(a)' = LentOut(a) + (IF a = f /\ old.status = "submitted" THEN m ELSE 0)
          /\ Borrowed(a) <= Borrowed(a)' /\ (a # old.to => Borrowed(a)' = Borrowed(a))
      BY <1>9, <2>2, <2>3, <3>1
    <3>3. Actual(a) \in Nat /\ Passed(a) \in Nat /\ LentOut(a) \in Nat
      BY <1>8, <3>1 DEF RowSums
    <3>4. CASE a = f /\ old.status = "submitted"
      <4>1. a # old.to /\ m <= alloc[a].amount - Required(a)
        BY <1>7, <1>10, <2>4, <3>4
      <4> QED
        BY <1>3, <1>6, <1>8, <1>10, <2>5, <3>1, <3>2, <3>4, <4>1, LenderBears
    <3>5. CASE ~(a = f /\ old.status = "submitted")
      <4>1. LentOut(a)' <= LentOut(a) /\ Actual(a)' <= Actual(a) /\ Passed(a)' <= Passed(a)
        BY <1>8, <2>5, <3>2, <3>3, <3>5
      <4> QED
        BY <1>3, <1>10, <3>1, <3>2, <4>1, BearsOn
    <3> QED
      BY <3>4, <3>5
  <2> QED
    BY <2>5, <2>6 DEF AllBear
<1>11. CASE /\ c.copy.to = None /\ n \in Allocations \ Known
            /\ borrow' = [borrow EXCEPT ![k].status = "approved", ![k].to = n]
            /\ alloc' = [alloc EXCEPT ![n] = SinkOf(c)]
  <2>1. PICK row : row = [old EXCEPT !.status = "approved", !.to = n]
    OBVIOUS
  <2>2. row \in BorrowRows /\ row.status = "approved" /\ row.from = f /\ row.amount = m /\ row.to = n
    BY <1>6, <1>11, <2>1 DEF BorrowRows, Statuses
  <2>3. borrow' = [borrow EXCEPT ![k] = row]
    <3>1. borrow \in [Borrows -> BorrowRows]
      BY <1>3 DEF TypeOK
    <3> QED
      BY <1>1, <1>6, <1>11, <2>1, <3>1
  <2>4. PICK sink : sink = SinkOf(c)
    OBVIOUS
  <2>5. sink \in AllocationRows /\ sink.parent = None /\ sink.amount = 0 /\ sink.sink
    BY <1>2, <1>11, <2>4 DEF StoredAllocation, SinkOf
  <2>6. n \in Allocations /\ n \notin Allocated /\ n # None /\ n # f
    BY <1>6, <1>11, Tables DEF Known
  <2>7. \A a \in Allocations : alloc'[a] = IF a = n THEN sink ELSE alloc[a]
    BY <1>3, <1>11, <2>4 DEF TypeOK
  <2>8. \A a \in Allocations : Passed(a)' = Passed(a)
    <3>1. \A a : Passed(a)' + (IF n \in Children(a) THEN alloc[n].amount ELSE 0)
                 = Passed(a) + (IF sink.status # "absent" /\ sink.parent = a THEN sink.amount ELSE 0)
      BY <1>3, <1>11, <2>4, <2>5, <2>6, PutPassed
    <3>2. \A a : n \notin Children(a)
      BY <2>6 DEF Children
    <3>3. \A a \in Allocations : Passed(a)' + 0 = Passed(a) + 0
      BY <2>5, <3>1, <3>2
    <3> QED
      BY <1>8, <3>3 DEF RowSums
  <2>9. Allocated' \subseteq Allocated \cup {n}
    BY <2>7 DEF Allocated
  <2>10. old.status = "approved" => ~Serial /\ old.to # None /\ alloc[old.to].sink
    BY <1>1, <1>2, <1>11 DEF Pending
  <2>11. old.status = "submitted" => old.to = None
    BY <1>1, <1>2, <1>11 DEF Pending
  <2>12. Bears(n)'
    <3>1. Actual(n) = 0 /\ LentOut(n) = 0 /\ Borrowed(n) = 0 /\ Passed(n) = 0
      BY <1>3, <2>6, NewBearsNothing
    <3>2. LentOut(n)' = LentOut(n) + 0 /\ Borrowed(n)' \in Nat
      BY <1>8, <1>9, <2>2, <2>3, <2>6 DEF RowSums
    <3>3. Required(n)' = Actual(n)' + Passed(n)' + LentOut(n)' - Borrowed(n)' /\ alloc'[n].amount = 0
      BY <1>8, <2>5, <2>6, <2>7 DEF RowSums
    <3>4. Required(n)' <= alloc'[n].amount
      BY <1>8, <2>6, <2>8, <3>1, <3>2, <3>3
    <3> QED
      BY <3>4 DEF Bears, Provides
  <2>13. ASSUME NEW a \in Allocated PROVE Bears(a)'
    <3>1. a \in Allocations /\ Bears(a) /\ a # n /\ alloc'[a] = alloc[a] /\ a # None
      BY <2>6, <2>7, Tables DEF AllBear, Allocated
    <3>2. /\ LentOut(a)' = LentOut(a) + (IF a = f /\ old.status = "submitted" THEN m ELSE 0)
          /\ a # old.to => Borrowed(a)' = Borrowed(a)
      BY <1>9, <2>2, <2>3, <3>1
    <3>3. Actual(a) \in Nat /\ Passed(a) \in Nat /\ LentOut(a) \in Nat /\ Borrowed(a) \in Nat
      BY <1>8, <3>1 DEF RowSums
    <3>4. CASE a = f /\ old.status = "submitted"
      <4>1. a # old.to /\ m <= alloc[a].amount - Required(a)
        <5>1. alloc' # alloc
          BY <1>3, <2>5, <2>6, <2>7 DEF TypeOK, Allocated, NoAllocation
        <5> QED
          BY <1>7, <2>11, <3>1, <3>4, <5>1
      <4> QED
        BY <1>3, <1>6, <1>8, <2>8, <3>1, <3>2, <3>4, <4>1, LenderBears
    <3>5. CASE a = old.to /\ old.status = "approved"
      BY <2>10, <3>1, <3>5 DEF Bears, Serial
    <3>6. CASE ~(a = f /\ old.status = "submitted") /\ a # old.to
      <4>1. LentOut(a)' <= LentOut(a) /\ Actual(a)' <= Actual(a) /\ Passed(a)' <= Passed(a) /\ Borrowed(a) <= Borrowed(a)'
        BY <1>8, <2>8, <3>1, <3>2, <3>3, <3>6
      <4> QED
        BY <1>3, <3>1, <4>1, BearsOn
    <3> QED
      BY <1>6, <2>11, <3>1, <3>4, <3>5, <3>6
  <2> QED
    BY <2>9, <2>12, <2>13 DEF AllBear
<1> QED
  <2>1. CASE c.copy.to # None /\ UNCHANGED alloc /\ borrow' = [borrow EXCEPT ![k].status = "approved"]
    BY <1>4, <1>10, <2>1
  <2> QED
    BY <1>1, <1>2, <1>4, <1>11, <2>1 DEF ApprovalWritten

LEMMA DrawnRow ==
    ASSUME TypeInv, NEW w \in AnyWorker, Draw(w), ~ UNCHANGED spending
    PROVE  \E t \in Spendings : \E row \in SpendingRows :
             /\ spending' = [spending EXCEPT ![t] = row] /\ row.direct = None
             /\ row.draws = Draws(row.amount, row.task, spending[t])
             /\ \A a \in Eligible(row.task) : ~Endless(a)
<1>1. PICK c, draws : c = budgetCall[w] /\ draws = Draws(c.copy.amount, c.copy.task, spending[c.id])
  OBVIOUS
<1>2. PICK row : row = [c.copy EXCEPT !.draws = draws]
  OBVIOUS
<1>3. DrawOK(c) /\ spending' = [spending EXCEPT ![c.id] = row] /\ \A a \in Eligible(c.copy.task) : ~Endless(a)
  BY <1>1, <1>2, DrawIs DEF Draw
<1>4. c.id \in Spendings /\ c.copy \in SpendingRows /\ c.copy.direct = None /\ c.copy.amount \in 0..MaxAmount
  BY <1>3 DEF DrawOK, SpendingRows
<1>5. spending[c.id] \in SpendingRows
  BY <1>4, RowTypes DEF TypeInv
<1>6. draws \in [Allocations -> 0..MaxAmount]
  BY <1>1, <1>4, <1>5, DrawsIs DEF TypeInv
<1>7. /\ row \in SpendingRows /\ row.direct = None /\ row.draws = draws
      /\ row.amount = c.copy.amount /\ row.task = c.copy.task
  BY <1>2, <1>4, <1>6 DEF SpendingRows
<1> QED
  BY <1>1, <1>3, <1>4, <1>7

\* With no borrow settled, what a cost transaction may draw is what nothing else needs.
LEMMA RemainingIs ==
    ASSUME TypeOK, \A b \in Borrows : borrow[b].status # "settled", NEW a \in Allocations
    PROVE  Remaining(a) = alloc[a].amount - Required(a)
<1>1. /\ {b \in Borrows : borrow[b].to = a /\ borrow[b].status \in {"approved"}}
         = {b \in Borrows : borrow[b].to = a /\ borrow[b].status \in Counted}
      /\ {b \in Borrows : borrow[b].from = a /\ borrow[b].status \in {"approved"}}
         = {b \in Borrows : borrow[b].from = a /\ borrow[b].status \in Counted}
  BY DEF Counted
<1>2. BorrowedIn(a, {"approved"}) = Borrowed(a) /\ BorrowedOut(a, {"approved"}) = LentOut(a)
  BY <1>1 DEF Borrowed, LentOut, BorrowedIn, BorrowedOut
<1>3. /\ Actual(a) \in Nat /\ Passed(a) \in Nat /\ LentOut(a) \in Nat /\ Borrowed(a) \in Nat
      /\ alloc[a].amount \in Nat /\ Required(a) = Actual(a) + Passed(a) + LentOut(a) - Borrowed(a)
  BY RowSumsAre DEF RowSums
<1>4. Remaining(a) = alloc[a].amount + Borrowed(a) - Actual(a) - Passed(a) - LentOut(a)
  BY <1>2 DEF Remaining, Passed
<1> QED
  BY <1>3, <1>4

LEMMA BearDrawn ==
    ASSUME TypeInv, TypeInv', AllBear, \A b \in Borrows : borrow[b].status # "settled", NEW w \in AnyWorker, Draw(w),
           UNCHANGED <<deployment, source, alloc, borrow, forecast>>
    PROVE  AllBear'
<1>1. TypeOK /\ TypeOK'
  BY DEF TypeInv
<1>2. CASE UNCHANGED spending
  BY <1>1, <1>2, BearSame
<1>3. CASE ~ UNCHANGED spending
  <2>1. PICK t \in Spendings, row \in SpendingRows :
          /\ spending' = [spending EXCEPT ![t] = row] /\ row.direct = None
          /\ row.draws = Draws(row.amount, row.task, spending[t])
    BY <1>3, DrawnRow
  <2>2. PICK own : own = spending[t]
    OBVIOUS
  <2>3. own \in SpendingRows /\ row.amount \in 0..MaxAmount /\ row.draws \in [Allocations -> 0..MaxAmount]
    BY <1>1, <2>2, RowTypes DEF SpendingRows
  <2>4. Allocated' = Allocated /\ \A a : LentOut(a)' = LentOut(a) /\ Borrowed(a)' = Borrowed(a) /\ Passed(a)' = Passed(a)
    BY SameParts
  <2>5. RowSums /\ RowSums'
    BY <1>1, RowSumsAre, PTL
  <2>6. ASSUME NEW a \in Allocated PROVE Bears(a)'
    <3>1. a \in Allocations /\ a # None /\ Bears(a)
      BY Tables DEF Allocated, AllBear
    <3>2. /\ Actual(a) \in Nat /\ Passed(a) \in Nat /\ LentOut(a) \in Nat /\ Borrowed(a) \in Nat
          /\ alloc[a].amount \in Nat /\ Required(a) = Actual(a) + Passed(a) + LentOut(a) - Borrowed(a)
          /\ Required(a)' = Actual(a)' + Passed(a)' + LentOut(a)' - Borrowed(a)'
      BY <2>5, <3>1 DEF RowSums
    <3>3. Actual(a)' = Actual(a) - Share(own, a) + Share(row, a)
      BY <1>1, <2>1, <2>2, <3>1, PutSpending
    <3>4. Share(row, a) = row.draws[a] /\ row.draws[a] \in Nat
      BY <2>1, <2>3, <3>1, Tables DEF Share
    <3>5. Share(own, a) \in Nat /\ Remaining(a) = alloc[a].amount - Required(a)
      BY <1>1, <2>3, <3>1, FreeType, RemainingIs
    <3>6. row.draws[a] <= Free(own, a)
      BY <1>1, <2>1, <2>2, <2>3, <3>1, DrawsIs
    <3>7. CASE row.draws[a] = 0
      <4>1. Actual(a)' <= Actual(a)
        BY <3>2, <3>3, <3>4, <3>5, <3>7
      <4> QED
        BY <1>1, <2>4, <3>1, <3>2, <4>1, BearsOn
    <3>8. CASE row.draws[a] > 0
      <4>1. Free(own, a) > 0
        BY <1>1, <2>3, <3>1, <3>4, <3>6, <3>8, FreeType
      <4>2. row.draws[a] <= alloc[a].amount - Required(a) + Share(own, a)
        BY <3>4, <3>5, <3>6, <4>1 DEF Free, Positive
      <4>3. Required(a)' <= alloc[a].amount
        BY <2>4, <3>2, <3>3, <3>4, <3>5, <4>2
      <4> QED
        BY <4>3 DEF Bears, Provides
    <3> QED
      BY <3>4, <3>7, <3>8
  <2> QED
    BY <1>1, <2>4, <2>6 DEF AllBear
<1> QED
  BY <1>2, <1>3

LEMMA NewSettled ==
    ASSUME TypeInv, Lasting, NEW w \in AnyWorker, Sure(budgetCall[w]), Deletes(w) \/ Finishes(w),
           NEW b \in Borrows, borrow[b].status = "settled"
    PROVE  borrow'[b].status = "settled"
<1>1. PICK c : c = budgetCall[w]
  OBVIOUS
<1>2. CASE UNCHANGED borrow
  BY <1>2
<1>3. CASE Deletes(w)
  <2>1. ~ \E d \in Borrows : DeleteBorrow(w, d)
    BY DEF DeleteBorrow, Serves, Lasting
  <2> QED
    BY <1>2, <1>3, <2>1 DEF Deletes, DeleteSpending
<1>4. CASE SaveStatus(w)
  <2>1. StatusOK(c) /\ StatusWritten(c) /\ c.step = "status"
    BY <1>1, <1>4, SaveStatusIs
  <2>2. CASE c.table = "borrow" /\ c.id \in Borrows /\ borrow' = [borrow EXCEPT ![c.id].status = c.copy.status]
    <3>1. borrow[c.id].status \in StatusBefore[c.copy.status] /\ c.copy.status \in {"submitted", "rejected", "settled"}
      BY <1>1, <2>1, <2>2 DEF Sure, StatusOK
    <3>2. b # c.id
      BY <3>1, StatusBeforeIs
    <3> QED
      BY <2>2, <3>2 DEF TypeInv, TypeOK
  <2> QED
    BY <1>2, <2>1, <2>2 DEF StatusWritten
<1>5. CASE SaveBorrow(w)
  <2>1. borrow' = borrow \/ (borrow' = [borrow EXCEPT ![c.id] = c.copy] /\ c.id # b)
    BY <1>1, <1>5, SaveBorrowIs DEF Sure
  <2> QED
    BY <2>1 DEF TypeInv, TypeOK
<1>6. CASE ApproveBorrow(w)
  <2>1. c.step = "approve" /\ ApprovalWritten(c)
    BY <1>1, <1>6, ApproveBorrowIs
  <2>2. c.id # b
    BY <1>1, <2>1 DEF Sure, Pending
  <2>3. \/ UNCHANGED borrow
        \/ borrow' = [borrow EXCEPT ![c.id].status = "approved"]
        \/ borrow' = [borrow EXCEPT ![c.id].status = "approved", ![c.id].to = NewAllocation]
    BY <2>1 DEF ApprovalWritten
  <2> QED
    BY <2>2, <2>3 DEF TypeInv, TypeOK
<1> QED
  BY <1>2, <1>3, <1>4, <1>5, <1>6 DEF Finishes

\* The inductive invariant: where nothing is withdrawn and every request finds what
\* it was judged on, each allocation bears what it gives.
Capacity == ~Withdrawn /\ (Serial \/ CheckedAtOnce) => AllBear

LEMMA CapacityKeeps == BudgetInv /\ QuickCalls /\ Capacity /\ [Next]_vars => Capacity'
<1> SUFFICES ASSUME BudgetInv, QuickCalls, Capacity, [Next]_vars, ~Withdrawn', Serial' \/ CheckedAtOnce' PROVE AllBear'
  BY DEF Capacity
<1>1. TypeInv /\ TypeInv' /\ StillJudged
  BY TypesKeep DEF BudgetInv
<1>2. UNCHANGED deployment
  BY <1>1, StepIs, CallsByStep DEF Reads, IsRead, vars, budgetVars
<1>3. Lasting /\ (Serial \/ CheckedAtOnce)
  <2>1. Lasting
    BY <1>2 DEF Withdrawn, Lasting, Asked
  <2>2. Serial' => Serial
    BY <1>2 DEF Serial
  <2>3. CheckedAtOnce' => CheckedAtOnce
    BY <1>2 DEF CheckedAtOnce, OnSQLite, Edited, Asked
  <2> QED
    BY <2>1, <2>2, <2>3
<1>4. \A b \in Borrows : borrow'[b].status # "settled"
  BY DEF Withdrawn
<1>5. (\A b \in Borrows : borrow[b].status # "settled") => AllBear
  BY <1>3 DEF Capacity, Withdrawn, Lasting
<1>6. TypeOK /\ TypeOK'
  BY <1>1 DEF TypeInv
<1>7. CASE UNCHANGED <<alloc, borrow, spending>>
  BY <1>2, <1>4, <1>5, <1>6, <1>7, BearSame
<1>8. ASSUME NEW w \in AnyWorker, Deletes(w) \/ Finishes(w) PROVE AllBear'
  <2>1. Sure(budgetCall[w])
    BY <1>1, <1>3, CallSure
  <2>2. (\A b \in Borrows : borrow[b].status # "settled") /\ AllBear
    BY <1>1, <1>3, <1>4, <1>5, <1>8, <2>1, NewSettled
  <2>3. Deletes(w) => AllBear'
    BY <1>1, <1>3, <2>2, BearDeletes
  <2>4. CASE Finishes(w)
    <3>1. SaveSource(w) \/ SaveForecast(w) => UNCHANGED alloc
      BY DEF SaveSource, SaveForecast
    <3>2. ASSUME SaveAllocation(w), UNCHANGED <<deployment, borrow, spending>> PROVE AllBear'
      BY <1>1, <2>1, <2>2, <3>2, BearSavedAllocation
    <3>3. ASSUME SaveStatus(w) \/ SaveBorrow(w) \/ ApproveBorrow(w), UNCHANGED <<deployment, spending, forecast>> PROVE AllBear'
      BY <1>1, <2>1, <2>2, <3>3, BearStatus, BearSavedBorrow, BearApproved
    <3>4. ASSUME Draw(w), UNCHANGED <<deployment, source, alloc, borrow, forecast>> PROVE AllBear'
      BY <1>1, <2>2, <3>4, BearDrawn
    <3> QED
      BY <1>7, <2>4, <3>1, <3>2, <3>3, <3>4 DEF Finishes
  <2> QED
    BY <1>8, <2>3, <2>4
<1>9. UNCHANGED vars => UNCHANGED <<alloc, borrow, spending>>
  BY DEF vars, budgetVars
<1>10. ASSUME NEW w \in AnyWorker, Reads(w) PROVE UNCHANGED <<alloc, borrow, spending>>
  BY <1>10 DEF Reads, IsRead
<1> QED
  BY <1>1, <1>7, <1>8, <1>9, <1>10, StepIs

LEMMA CapacityIs == TypeInv /\ Capacity => WithinCapacity
<1> SUFFICES ASSUME TypeInv, ~Withdrawn, Serial \/ CheckedAtOnce, AllBear, NEW a \in Allocated
             PROVE  \/ Provides(a)
                    \/ ~Serial /\ alloc[a].sink
                    \/ Edited /\ Children(a) # {} /\ Actual(a) + BorrowedOut(a, Counted) > 0
  BY DEF Capacity, WithinCapacity
<1>1. a \in Allocations /\ Bears(a)
  BY DEF AllBear, Allocated
<1>2. /\ Actual(a) \in Nat /\ Passed(a) \in Nat /\ LentOut(a) \in Nat /\ Borrowed(a) \in Nat
      /\ Required(a) = Actual(a) + Passed(a) + LentOut(a) - Borrowed(a)
  BY <1>1, RowSumsAre DEF RowSums, TypeInv
<1>3. CASE /\ Edited
           /\ Actual(a) + LentOut(a) - Borrowed(a) <= alloc[a].amount
           /\ Passed(a) - Borrowed(a) <= alloc[a].amount
  <2>1. CASE Children(a) = {}
    <3>1. Passed(a) = 0
      BY <2>1, NoAmounts DEF Passed
    <3> QED
      BY <1>2, <1>3, <3>1 DEF Provides
  <2>2. CASE ~(Actual(a) + LentOut(a) > 0)
    <3>1. Actual(a) = 0 /\ LentOut(a) = 0
      BY <1>2, <2>2
    <3> QED
      BY <1>2, <1>3, <3>1 DEF Provides
  <2> QED
    BY <1>3, <2>1, <2>2 DEF LentOut
<1> QED
  BY <1>1, <1>3 DEF Bears

LEMMA CapacityInit == Init => QuickCalls /\ Capacity
<1> SUFFICES ASSUME Init PROVE QuickCalls /\ Capacity
  OBVIOUS
<1>1. Consistent /\ \A w \in AnyWorker : budgetCall[w] = IdleCall
  BY DEF Init, BudgetInit
<1>2. QuickCalls
  BY <1>1, IdleQuick DEF QuickCalls
<1>3. AllBear
  BY <1>1 DEF Consistent, AllBear, Bears
<1> QED
  BY <1>2, <1>3 DEF Capacity

\* The money is there, for any number of rows and any deployment: sources cover
\* their allocations, allocations what they give, and every cost is paid in full
\* by consumptions of budgets approved from the source down.
THEOREM Sound == Spec => []BudgetSound
<1>1. BudgetInv /\ QuickCalls /\ Capacity /\ [Next]_vars => (BudgetInv /\ QuickCalls /\ Capacity)'
  BY BudgetInvKeeps, QuickKeeps, CapacityKeeps DEF BudgetInv
<1>2. Init => BudgetInv /\ QuickCalls /\ Capacity
  BY BudgetInvInit, CapacityInit
<1>3. BudgetInv /\ QuickCalls /\ Capacity => BudgetSound
  <2>1. BudgetInv /\ Capacity => TypeOK /\ WithinCapacity /\ SpentInFull
    BY CapacityIs DEF BudgetInv, TypeInv
  <2>2. BudgetInv => SourceCovered /\ ApprovedFromAbove
    BY DEF BudgetInv, SerialSound, TreeSound, SourceCovered, Covered, ApprovedFromAbove, ApprovedDown
  <2> QED
    BY <2>1, <2>2 DEF BudgetSound
<1> QED
  BY <1>1, <1>2, <1>3, PTL DEF Spec

-----------------------------------------------------------------------------
(* Narrow budgets first *)

\* What is above something above an allocation is above the allocation.
LEMMA AboveThat ==
    ASSUME NEW a, NEW b \in Above(a) PROVE Above(b) \subseteq Above(a)
<1> SUFFICES ASSUME NEW p \in Above(b), NEW S \in SUBSET Allocations, Closed(S, a) PROVE p \in S
  BY DEF Above
<1>1. b \in S
  BY DEF Above
<1>2. Closed(S, b)
  BY <1>1 DEF Closed
<1> QED
  BY <1>2 DEF Above

LEMMA DepthType == ASSUME NEW a PROVE IsFiniteSet(Above(a)) /\ Depth(a) \in Nat
<1>1. Above(a) \subseteq Allocations
  BY DEF Above
<1> QED
  BY <1>1, Tables, FS_Subset, FS_CardinalityType DEF Depth

\* The walk up is longer from below, unless it goes in a circle.
LEMMA Deeper ==
    ASSUME NEW a, ~Endless(a), NEW b \in Above(a) PROVE Depth(b) < Depth(a)
<1>1. PICK A, B : A = Above(a) /\ B = Above(b)
  OBVIOUS
<1>2. IsFiniteSet(A) /\ B \subseteq A /\ b \in A /\ b \notin B
  BY <1>1, AboveThat, DepthType DEF Endless
<1>3. Cardinality(B) <= Cardinality(A) /\ (Cardinality(B) = Cardinality(A) => B = A)
  BY <1>2, FS_Subset
<1>4. Cardinality(A) \in Nat /\ Cardinality(B) \in Nat
  BY <1>2, FS_Subset, FS_CardinalityType
<1>5. Cardinality(B) < Cardinality(A)
  BY <1>2, <1>3, <1>4
<1> QED
  BY <1>1, <1>5 DEF Depth

LEMMA Ranks ==
    ASSUME TypeOK, NEW task, NEW a \in Eligible(task) PROVE Rank[alloc[a].scope] \in Nat /\ a \in Allocations /\ a \in Nat
<1>1. alloc[a].scope \in {"task", "wbs", "project"} /\ a \in Allocations
  BY DEF Eligible, Rank, Allocated
<1> QED
  BY <1>1, Tables DEF Rank

LEMMA BeforeOrders ==
    ASSUME TypeOK, NEW task, NEW a \in Eligible(task), NEW b \in Eligible(task), Before(a, b)
    PROVE  Earlier(task, a) \cup {a} \subseteq Earlier(task, b) /\ a \notin Earlier(task, a)
<1> SUFFICES /\ ~Before(a, a)
             /\ \A e \in Eligible(task) : Before(e, a) => Before(e, b)
  BY DEF Earlier
<1>1. /\ Rank[alloc[a].scope] \in Nat /\ Rank[alloc[b].scope] \in Nat /\ Depth(a) \in Nat /\ Depth(b) \in Nat
      /\ a \in Nat /\ b \in Nat
  BY Ranks, DepthType
<1>2. ASSUME NEW e \in Eligible(task), Before(e, a) PROVE Before(e, b)
  <2>1. Rank[alloc[e].scope] \in Nat /\ Depth(e) \in Nat /\ e \in Nat
    BY Ranks, DepthType
  <2> QED
    BY <1>1, <1>2, <2>1 DEF Before
<1>3. ~Before(a, a)
  BY <1>1 DEF Before
<1> QED
  BY <1>2, <1>3

LEMMA NarrowerBefore ==
    ASSUME NEW task, NEW a \in Eligible(task), NEW b \in Eligible(task), ~Endless(a), Narrower(a, b) PROVE Before(a, b)
<1>1. CASE Rank[alloc[a].scope] < Rank[alloc[b].scope]
  BY <1>1 DEF Before
<1>2. CASE alloc[a].scope = alloc[b].scope /\ b \in Above(a)
  <2>1. Depth(b) < Depth(a) /\ Depth(a) \in Nat /\ Depth(b) \in Nat
    BY <1>2, Deeper, DepthType
  <2> QED
    BY <1>2, <2>1 DEF Before
<1> QED
  BY <1>1, <1>2 DEF Narrower

\* What comes before an allocation is given first, all of it.
LEMMA GivenFirst ==
    ASSUME TypeOK, NEW own \in SpendingRows, NEW task, NEW a \in Eligible(task), NEW b \in Eligible(task), Before(a, b)
    PROVE  Given(task, own, a) + Free(own, a) <= Given(task, own, b)
<1>1. PICK E, F : E = Earlier(task, a) /\ F = Earlier(task, b)
  OBVIOUS
<1>2. PICK W : W = E \cup {a}
  OBVIOUS
<1>3. W \subseteq F /\ a \notin E /\ F \subseteq Allocations /\ a \in Allocations
  BY <1>1, <1>2, BeforeOrders DEF Earlier, Eligible, Allocated
<1>4. PICK v : v = [e \in Allocations |-> Free(own, e)]
  OBVIOUS
<1>5. \A e \in Allocations : v[e] = Free(own, e) /\ v[e] \in Nat
  BY <1>4, FreeType
<1>6. IsFiniteSet(F) /\ IsFiniteSet(W) /\ Natural(v, F) /\ Integral(v, W)
  <2>1. IsFiniteSet(F) /\ IsFiniteSet(W)
    BY <1>3, Tables, FS_Subset
  <2> QED
    BY <1>3, <1>5, <2>1 DEF Natural, Integral
<1>7. SumFunctionOnSet(v, W) <= SumFunctionOnSet(v, F)
  BY <1>3, <1>6, SumFewer
<1>8. SumFunctionOnSet(v, W) = v[a] + SumFunctionOnSet(v, W \ {a})
  BY <1>2, <1>6, SumRemove
<1>9. W \ {a} = E
  BY <1>2, <1>3
<1>10. SumFunctionOnSet(v, W) = Free(own, a) + SumFunctionOnSet(v, E)
  BY <1>3, <1>5, <1>8, <1>9
<1>11. Given(task, own, a) = SumFunctionOnSet(v, E) /\ Given(task, own, b) = SumFunctionOnSet(v, F)
  BY <1>1, <1>4 DEF Given
<1>12. Given(task, own, a) \in Nat /\ Given(task, own, b) \in Nat /\ Free(own, a) \in Nat
  BY <1>3, FreeType
<1> QED
  BY <1>7, <1>10, <1>11, <1>12

LEMMA NarrowDrawn ==
    ASSUME TypeInv, NEW w \in AnyWorker, Draw(w), UNCHANGED <<deployment, source, alloc, borrow, forecast>>
    PROVE  DrawsNarrowFirst
<1> SUFFICES ASSUME NEW k \in Spendings, spending'[k] # spending[k],
                    NEW a \in Eligible(spending'[k].task), NEW b \in Eligible(spending'[k].task),
                    Narrower(a, b), spending'[k].draws[b] > 0
             PROVE  Remaining(a)' <= 0
  BY DEF DrawsNarrowFirst
<1>1. TypeOK
  BY DEF TypeInv
<1>2. PICK t \in Spendings, row \in SpendingRows :
        /\ spending' = [spending EXCEPT ![t] = row] /\ row.direct = None
        /\ row.draws = Draws(row.amount, row.task, spending[t])
        /\ \A e \in Eligible(row.task) : ~Endless(e)
  BY DrawnRow
<1>3. PICK own, task, m : own = spending[t] /\ task = row.task /\ m = row.amount
  OBVIOUS
<1>4. k = t /\ spending'[k] = row
  BY <1>1, <1>2 DEF TypeOK
<1>5. own \in SpendingRows /\ m \in 0..MaxAmount /\ row.draws \in [Allocations -> 0..MaxAmount]
  BY <1>1, <1>2, <1>3, RowTypes DEF SpendingRows
<1>6. a \in Eligible(task) /\ b \in Eligible(task) /\ a \in Allocations /\ b \in Allocations
  BY <1>3, <1>4 DEF Eligible, Allocated
<1>7. Before(a, b)
  BY <1>2, <1>3, <1>6, NarrowerBefore
<1>8. Given(task, own, a) + Free(own, a) <= Given(task, own, b)
  BY <1>1, <1>5, <1>6, <1>7, GivenFirst
<1>9. row.draws = Draws(m, task, own)
  BY <1>2, <1>3
<1>10. Given(task, own, b) + row.draws[b] <= m /\ row.draws[b] > 0
  BY <1>1, <1>4, <1>5, <1>6, <1>9, DrawsIs
<1>11. /\ Given(task, own, a) \in Nat /\ Given(task, own, b) \in Nat /\ Free(own, a) \in Nat
       /\ Remaining(a) \in Int /\ Share(own, a) \in Nat /\ row.draws[b] \in Nat /\ m \in Nat
  BY <1>1, <1>5, <1>6, FreeType, Tables
<1>12. row.draws[a] = Smaller(Free(own, a), Positive(m - Given(task, own, a)))
  BY <1>6, <1>9 DEF Draws
<1>13. row.draws[a] = Free(own, a)
  <2>1. Free(own, a) < m - Given(task, own, a)
    BY <1>8, <1>10, <1>11
  <2> QED
    BY <1>11, <1>12, <2>1 DEF Smaller, Positive
<1>14. Remaining(a) + Share(own, a) <= row.draws[a]
  BY <1>11, <1>13 DEF Free, Positive
<1>15. Actual(a)' = Actual(a) - Share(own, a) + row.draws[a]
  <2>1. Actual(a)' = Actual(a) - Share(own, a) + Share(row, a)
    BY <1>1, <1>2, <1>3, <1>6, PutSpending
  <2>2. Share(row, a) = row.draws[a]
    BY <1>2, <1>5, <1>6, Tables DEF Share
  <2> QED
    BY <2>1, <2>2
<1>16. PICK in, out, kids : /\ in = BorrowedIn(a, {"approved"}) /\ out = BorrowedOut(a, {"approved"})
                            /\ kids = AmountOf(Children(a))
  OBVIOUS
<1>17. /\ alloc[a].amount \in Nat /\ Actual(a) \in Nat /\ row.draws[a] \in Nat
       /\ in \in Nat /\ out \in Nat /\ kids \in Nat
  <2>1. alloc[a].amount \in Nat /\ kids \in Nat /\ Actual(a) \in Nat
    BY <1>1, <1>6, <1>16, RowSumsAre DEF RowSums, Passed
  <2>2. in \in Nat /\ out \in Nat
    BY <1>1, <1>16, SumsOfRows
  <2> QED
    BY <1>5, <1>6, <2>1, <2>2
<1>18. Remaining(a) = alloc[a].amount + in - Actual(a) - kids - out
  BY <1>16 DEF Remaining
<1>19. Remaining(a)' = alloc[a].amount + in - Actual(a)' - kids - out
  <2>1. BorrowedIn(a, {"approved"})' = in /\ BorrowedOut(a, {"approved"})' = out
    BY <1>16 DEF BorrowedIn, BorrowedOut, Lent
  <2>2. AmountOf(Children(a))' = kids
    BY <1>16 DEF AmountOf, Children, Allocated
  <2> QED
    BY <2>1, <2>2 DEF Remaining
<1> QED
  BY <1>11, <1>14, <1>15, <1>17, <1>18, <1>19

\* A wider budget is drawn on only when every narrower one is used up, whatever
\* requests overlap, for any number of rows and any deployment.
THEOREM NarrowDrawnFirst == Spec => NarrowFirst
<1>1. ASSUME TypeInv, Next PROVE DrawsNarrowFirst \/ UNCHANGED spending
  <2>1. PICK w \in AnyWorker : Reads(w) \/ Deletes(w) \/ Finishes(w)
    BY <1>1, StepIs
  <2>2. CASE Reads(w)
    BY <2>2 DEF Reads, IsRead
  <2>3. CASE Deletes(w)
    <3>1. ASSUME NEW t \in Spendings, DeleteSpending(w, t) PROVE DrawsNarrowFirst
      <4>1. \A u \in Spendings : spending'[u] = spending[u] \/ spending'[u] = NoSpending
        BY <1>1, <3>1 DEF DeleteSpending, TypeInv, TypeOK
      <4>2. ~NoSpending.exists
        BY DEF NoSpending
      <4> QED
        BY <4>1, <4>2 DEF DrawsNarrowFirst
    <3> QED
      BY <2>3, <3>1 DEF Deletes
  <2>4. CASE Finishes(w)
    BY <1>1, <2>4, NarrowDrawn DEF Finishes
  <2> QED
    BY <2>1, <2>2, <2>3, <2>4
<1>2. TypeInv /\ [Next]_vars => [DrawsNarrowFirst]_spending
  BY <1>1 DEF vars, budgetVars
<1> QED
  BY <1>2, TypesInit, TypesKeep, PTL DEF Spec, NarrowFirst

=============================================================================
