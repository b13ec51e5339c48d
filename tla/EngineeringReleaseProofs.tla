-------------------------- MODULE EngineeringReleaseProofs --------------------------
(***************************************************************************)
(* Proofs about EngineeringRelease, for all items, BOMs, process charts,   *)
(* nodes, threads and days: first about item revisions, which the proofs   *)
(* about BOMs and then those about charts rest on, at last about the three *)
(* together.                                                               *)
(***************************************************************************)
EXTENDS EngineeringRelease, TLAPS

(***************************************************************************)
(* Item revisions: the periods of released revisions are disjoint, what    *)
(* was released stays released, and the official revisions implement       *)
(* OfficialRevision.  The argument is about row locks.  Whoever holds a    *)
(* row finds it as it was when it was validated, and who holds an item     *)
(* finds that no other revision of it was released meanwhile.              *)
(***************************************************************************)

(* The steps, by the thread whose request they begin, continue or end *)

Starting(x) ==
    \/ \E kind \in MoveKinds \cup ReleaseKinds, r \in Revs, day \in Days \cup {None} : Lock(x, kind, r, day)
    \/ \E r \in Revs, from, to \in Days \cup {None} : CreateRevision(x, r, from, to) \/ ReadPatch(x, r, from, to)
    \/ \E r \in Revs : ReadDestroy(x, r)
    \/ \E kind \in {"activate", "deactivate", "item"}, r \in Revs, copy \in ItemRows : ReadItem(x, kind, r, copy)
    \/ \E r \in Revs, status \in ItemTargets : ChangeItemStatus(x, ItemOf[r], status)

\* The database aborts the request.
Aborted(x) == call[x].step \in {"row", "both"} /\ Finish(x) /\ UNCHANGED <<deployment, rev, item>>

Going(x) ==
    \/ LockItem(x) \/ Move(x) \/ Validate(x) \/ Release(x) \/ Aborted(x)
    \/ SavePatch(x) \/ SaveItem(x)
    \/ \E referenced \in SUBSET Revs : Destroy(x, referenced)

Step(x) == Starting(x) \/ Going(x)

LEMMA StatusesToggled ==
    ASSUME NEW kind \in {"activate", "deactivate"}, NEW status \in ItemStatuses
    PROVE  Toggled(kind, status) \in ItemStatuses
BY DEF Toggled, ItemStatuses

LEMMA StartCases ==
    ASSUME ItemTypeOK, NEW w \in AnyWorker, ItemStarts(w)
    PROVE  Starting(w)
<1>1. PICK r \in Revs :
        \/ \E kind \in MoveKinds \cup ReleaseKinds, day \in Days \cup {None} : Lock(w, kind, r, day)
        \/ \E from, to \in Days \cup {None} :
            CreateRevision(w, r, from, to) \/ ReadPatch(w, r, from, to)
        \/ ReadDestroy(w, r)
        \/ \E kind \in {"activate", "deactivate"} : ReadToggle(w, kind, r)
        \/ \E status \in ItemTargets : ChangeItemStatus(w, ItemOf[r], status)
        \/ \E copy \in ItemRows :
            /\ copy.status \in {item[ItemOf[r]].status} \cup ItemTargets
            /\ ReadItemPatch(w, r, copy.status, copy.default)
  BY DEF ItemStarts
<1>2. ASSUME NEW kind \in {"activate", "deactivate"}, ReadToggle(w, kind, r) PROVE Starting(w)
  <2> DEFINE copy == [item[ItemOf[r]] EXCEPT !.status = Toggled(kind, @)]
  <2>1. item[ItemOf[r]] \in ItemRows
    BY ItemOfAssumption DEF ItemTypeOK
  <2>2. copy \in ItemRows
    BY <2>1, StatusesToggled DEF ItemRows
  <2>3. ReadItem(w, kind, r, copy)
    BY <1>2 DEF ReadToggle
  <2> HIDE DEF copy
  <2> QED
    BY <2>2, <2>3 DEF Starting
<1>3. ASSUME NEW copy \in ItemRows, ReadItemPatch(w, r, copy.status, copy.default) PROVE Starting(w)
  <2>1. [status |-> copy.status, default |-> copy.default] = copy
    BY DEF ItemRows
  <2> QED
    BY <1>3, <2>1 DEF ReadItemPatch, Starting
<1> QED
  BY <1>1, <1>2, <1>3 DEF Starting

LEMMA ContinueCases ==
    ASSUME NEW w \in AnyWorker, NEW referenced \in SUBSET Revs, ItemContinues(w, referenced)
    PROVE  \E x \in AnyWorker : Going(x)
<1>1. ASSUME NEW u \in AnyWorker, NEW v \in AnyWorker, Deadlock(u, v)
      PROVE  Aborted(u) \/ Aborted(v)
  BY <1>1 DEF Deadlock, Aborted, At
<1> QED
  BY <1>1 DEF ItemContinues, Going

LEMMA StepCases ==
    ASSUME ItemTypeOK, ItemNext
    PROVE  \E x \in AnyWorker : Step(x)
BY StartCases, ContinueCases DEF ItemNext, Continued, Step

-----------------------------------------------------------------------------------
(* What a step does to the calls, and to the rows *)

\* Only the thread's own call changes, and it takes free rows only.
LEMMA CallEffects ==
    ASSUME ItemTypeOK, NEW x \in AnyWorker, Step(x)
    PROVE  /\ deployment' = deployment
           /\ \A v \in AnyWorker \ {x} : call'[v] = call[v]
           /\ \A r \in Revs : HoldsRev(x, r)' => HoldsRev(x, r) \/ RevFree(x, r)
           /\ \A i \in Items : HoldsItem(x, i)' => HoldsItem(x, i) \/ ItemFree(x, i)
<1> call \in [AnyWorker -> Calls]
  BY DEF ItemTypeOK
<1> DEFINE Goal ==
        /\ deployment' = deployment
        /\ \A v \in AnyWorker \ {x} : call'[v] = call[v]
        /\ \A r \in Revs : HoldsRev(x, r)' => HoldsRev(x, r) \/ RevFree(x, r)
        /\ \A i \in Items : HoldsItem(x, i)' => HoldsItem(x, i) \/ ItemFree(x, i)
<1> USE DEF HoldsRev, HoldsItem, At
<1>1. ASSUME Finish(x), deployment' = deployment PROVE Goal
  BY <1>1 DEF Finish, IdleCall
<1>2. ASSUME UNCHANGED <<deployment, call>> PROVE Goal
  BY <1>2
<1>3. ASSUME call' = [call EXCEPT ![x] = call'[x]], call'[x].step = "edit", deployment' = deployment PROVE Goal
  BY <1>3
<1>4. CASE Starting(x)
  <2>1. ASSUME NEW kind \in MoveKinds \cup ReleaseKinds, NEW r \in Revs, NEW day \in Days \cup {None},
               Lock(x, kind, r, day)
        PROVE  Goal
    <3>1. RevFree(x, r) /\ deployment' = deployment
      BY <2>1 DEF Lock
    <3>2. /\ \A v \in AnyWorker \ {x} : call'[v] = call[v]
          /\ call'[x].step = "row" /\ call'[x].doc = r
      BY <2>1 DEF Lock, Calls
    <3> HIDE DEF RevFree
    <3> QED
      BY <3>1, <3>2
  <2>2. ASSUME NEW r \in Revs, NEW from \in Days \cup {None}, NEW to \in Days \cup {None},
               CreateRevision(x, r, from, to) \/ ReadPatch(x, r, from, to)
        PROVE  Goal
    <3>1. CASE CreateRevision(x, r, from, to)
      BY <1>2, <3>1 DEF CreateRevision
    <3>2. CASE ReadPatch(x, r, from, to)
      <4>1. /\ deployment' = deployment /\ call'[x].step = "edit"
            /\ call' = [call EXCEPT ![x] = call'[x]]
        BY <3>2, ZenonT(30) DEF ReadPatch, Calls
      <4> QED
        BY <1>3, <4>1
    <3> QED
      BY <2>2, <3>1, <3>2
  <2>3. ASSUME NEW r \in Revs, ReadDestroy(x, r) PROVE Goal
    <3>1. /\ deployment' = deployment /\ call'[x].step = "edit"
          /\ call' = [call EXCEPT ![x] = call'[x]]
      BY <2>3 DEF ReadDestroy, Calls
    <3> QED
      BY <1>3, <3>1
  <2>4. ASSUME NEW kind, NEW r \in Revs, NEW copy \in ItemRows, ReadItem(x, kind, r, copy) PROVE Goal
    <3>1. /\ deployment' = deployment /\ call'[x].step = "edit"
          /\ call' = [call EXCEPT ![x] = call'[x]]
      BY <2>4 DEF ReadItem, Calls
    <3> QED
      BY <1>3, <3>1
  <2>5. ASSUME NEW i, NEW status, ChangeItemStatus(x, i, status) PROVE Goal
    BY <1>2, <2>5 DEF ChangeItemStatus
  <2> QED
    BY <1>4, <2>1, <2>2, <2>3, <2>4, <2>5 DEF Starting
<1>5. CASE LockItem(x)
  <2>1. /\ ItemFree(x, ItemOf[call[x].doc]) /\ deployment' = deployment /\ call[x].step = "row"
        /\ \A v \in AnyWorker \ {x} : call'[v] = call[v]
        /\ call'[x].step = "both" /\ call'[x].doc = call[x].doc
    BY <1>5 DEF LockItem, Go, Calls
  <2> HIDE DEF ItemFree
  <2> QED
    BY <2>1
<1>6. CASE Validate(x)
  <2>1. PICK cur \in Found(call[x].doc) :
          /\ \A c \in cur : RevFree(x, c)
          /\ \/ call' = [call EXCEPT ![x].step = "ready",
                                     ![x].cur = IF cur = {} THEN NoDoc ELSE CHOOSE c \in cur : TRUE]
             \/ Finish(x)
    BY <1>6 DEF Validate
  <2>2. CASE Finish(x)
    BY <1>1, <1>6, <2>2 DEF Validate
  <2>3. CASE call' = [call EXCEPT ![x].step = "ready",
                                  ![x].cur = IF cur = {} THEN NoDoc ELSE CHOOSE c \in cur : TRUE]
    <3>1. /\ deployment' = deployment /\ call[x].step = "both"
          /\ \A v \in AnyWorker \ {x} : call'[v] = call[v]
          /\ call'[x].step = "ready" /\ call'[x].doc = call[x].doc
          /\ call'[x].cur = IF cur = {} THEN NoDoc ELSE CHOOSE c \in cur : TRUE
      BY <1>6, <2>3 DEF Validate, Calls
    <3>2. call'[x].cur = NoDoc \/ RevFree(x, call'[x].cur)
      BY <2>1, <3>1
    <3> HIDE DEF RevFree
    <3> QED
      BY <3>1, <3>2, NoDocAssumption
  <2> QED
    BY <2>1, <2>2, <2>3
<1>7. CASE Move(x) \/ Release(x) \/ Aborted(x) \/ SavePatch(x) \/ SaveItem(x)
           \/ \E referenced \in SUBSET Revs : Destroy(x, referenced)
  BY <1>1, <1>7 DEF Move, Release, Aborted, SavePatch, SaveItem, Destroy
<1> QED
  BY <1>4, <1>5, <1>6, <1>7 DEF Step, Going

\* A row changes under its lock, by an update that waited for the lock, or comes to be.
LEMMA RevEffects ==
    ASSUME ItemTypeOK, NEW x \in AnyWorker, Step(x), NEW r \in Revs
    PROVE  \/ rev'[r] = rev[r]
           \/ HoldsRev(x, r)
           \/ ~Exists(r)
           \/ RevFree(x, r)
<1> rev \in [Revs -> Rows]
  BY DEF ItemTypeOK
<1>1. CASE Starting(x)
  <2>1. ASSUME NEW q \in Revs, NEW from, NEW to, CreateRevision(x, q, from, to)
        PROVE  rev'[r] = rev[r] \/ ~Exists(r)
    BY <2>1 DEF CreateRevision
  <2> QED
    BY <1>1, <2>1 DEF Starting, Lock, ReadPatch, ReadDestroy, ReadItem, ChangeItemStatus
<1>2. CASE Move(x)
  BY <1>2 DEF Move, HoldsRev, At
<1>3. CASE Release(x)
  BY <1>3 DEF Release, HoldsRev, At
<1>4. CASE SavePatch(x)
  BY <1>4 DEF SavePatch
<1>5. CASE \E referenced \in SUBSET Revs : Destroy(x, referenced)
  BY <1>5 DEF Destroy
<1>6. CASE LockItem(x) \/ Validate(x) \/ Aborted(x) \/ SaveItem(x)
  BY <1>6 DEF LockItem, Validate, Aborted, SaveItem
<1> QED
  BY <1>1, <1>2, <1>3, <1>4, <1>5, <1>6 DEF Step, Going

LEMMA ItemEffects ==
    ASSUME ItemTypeOK, NEW x \in AnyWorker, Step(x), NEW i \in Items
    PROVE  item'[i] = item[i] \/ HoldsItem(x, i) \/ ItemFree(x, i)
<1> item \in [Items -> ItemRows]
  BY DEF ItemTypeOK
<1>1. CASE Starting(x)
  <2>1. ASSUME NEW j, NEW status, ChangeItemStatus(x, j, status)
        PROVE  item'[i] = item[i] \/ ItemFree(x, i)
    BY <2>1 DEF ChangeItemStatus
  <2> QED
    BY <1>1, <2>1 DEF Starting, Lock, CreateRevision, ReadPatch, ReadDestroy, ReadItem
<1>2. CASE Release(x)
  BY <1>2 DEF Release, HoldsItem, At
<1>3. CASE SaveItem(x)
  BY <1>3 DEF SaveItem
<1>4. CASE LockItem(x) \/ Move(x) \/ Validate(x) \/ Aborted(x) \/ SavePatch(x)
           \/ \E referenced \in SUBSET Revs : Destroy(x, referenced)
  BY <1>4 DEF LockItem, Move, Validate, Aborted, SavePatch, Destroy
<1> QED
  BY <1>1, <1>2, <1>3, <1>4 DEF Step, Going

-----------------------------------------------------------------------------------
(* Locks: one thread holds a row, and what it holds stays *)

Locks ==
    /\ \A v, w \in AnyWorker, r \in Revs : HoldsRev(v, r) /\ HoldsRev(w, r) => v = w
    /\ \A v, w \in AnyWorker, i \in Items : HoldsItem(v, i) /\ HoldsItem(w, i) => v = w

LEMMA LocksNext ==
    ASSUME ItemTypeOK, Locks, NEW x \in AnyWorker, Step(x)
    PROVE  Locks'
<1>1. \A v \in AnyWorker \ {x} : /\ \A r \in Revs : HoldsRev(v, r)' <=> HoldsRev(v, r)
                                 /\ \A i \in Items : HoldsItem(v, i)' <=> HoldsItem(v, i)
  BY CallEffects DEF HoldsRev, HoldsItem, At
<1>2. ASSUME NEW v \in AnyWorker \ {x}, NEW r \in Revs, HoldsRev(v, r)
      PROVE  ~HoldsRev(x, r)'
  BY <1>2, CallEffects DEF Locks, RevFree
<1>3. ASSUME NEW v \in AnyWorker \ {x}, NEW i \in Items, HoldsItem(v, i)
      PROVE  ~HoldsItem(x, i)'
  BY <1>3, CallEffects DEF Locks, ItemFree
<1> QED
  BY <1>1, <1>2, <1>3 DEF Locks

LEMMA HeldStays ==
    ASSUME ItemTypeOK, Locks, NEW x \in AnyWorker, Step(x), NEW v \in AnyWorker \ {x}
    PROVE  /\ \A r \in Revs : HoldsRev(v, r) /\ Exists(r) => rev'[r] = rev[r]
           /\ \A i \in Items : HoldsItem(v, i) => item'[i] = item[i]
<1>1. ASSUME NEW r \in Revs, HoldsRev(v, r), Exists(r) PROVE rev'[r] = rev[r]
  BY <1>1, RevEffects DEF Locks, RevFree
<1>2. ASSUME NEW i \in Items, HoldsItem(v, i) PROVE item'[i] = item[i]
  BY <1>2, ItemEffects DEF Locks, ItemFree
<1> QED
  BY <1>1, <1>2

-----------------------------------------------------------------------------------
(* What a request knows: the conditions of a release hold from the validation on *)

NewRow(w) == Dated(rev[call[w].doc], call[w].day)

Supersedes(w) ==
    LET r == call[w].doc c == call[w].cur IN
    /\ c \in Revs \ {r} /\ ItemOf[c] = ItemOf[r]
    /\ rev[c].status = "released" /\ rev[c].to = None
    /\ rev[c].from # None /\ rev[c].from < NewRow(w).from

ReadyNow(w) ==
    /\ rev[call[w].doc].status = "approved"
    /\ NewRow(w).from # None /\ ValidPeriod(NewRow(w))
    /\ Active(ItemOf[call[w].doc])
    /\ call[w].cur # NoDoc => Supersedes(w)

CallInv(w) ==
    /\ call[w].step # "idle" =>
         w \in Workers /\ call[w].kind \in deployment.kinds /\ call[w].doc \in Revs
    /\ call[w].step \in {"row", "both", "ready"} =>
         Exists(call[w].doc) /\ call[w].kind \in MoveKinds \cup ReleaseKinds
    /\ At(w, "ready") => ReadyNow(w)

LockInv == ItemTypeOK /\ Locks /\ \A w \in AnyWorker : CallInv(w)

\* Only an approved revision can be released.
LEMMA ApprovedBefore == \A s \in Statuses : "released" \in TRANSITIONS[s] => s = "approved"
BY DEF Statuses, TRANSITIONS

LEMMA DatedTyped ==
    ASSUME NEW row \in Rows, NEW day \in Days \cup {None}
    PROVE  /\ Dated(row, day) \in Rows
           /\ Dated(row, day).status = row.status
           /\ Dated(row, day).to = row.to
BY DEF Dated, Rows

\* What a validation finds.
LEMMA ValidateReady ==
    ASSUME LockInv, NEW x \in AnyWorker, Validate(x), call'[x].step # "idle"
    PROVE  /\ call' = [call EXCEPT ![x] = call'[x]] /\ call'[x] \in Calls
           /\ call'[x].doc = call[x].doc /\ call'[x].kind = call[x].kind /\ call'[x].day = call[x].day
           /\ call'[x].step = "ready" /\ ReadyNow(x)'
           /\ NoReleasedOverlap(call[x].doc, NewRow(x), {call'[x].cur} \cap Revs)
<1> USE DEF LockInv
<1> DEFINE r == call[x].doc
<1>1. /\ call \in [AnyWorker -> Calls] /\ rev \in [Revs -> Rows] /\ rev' = rev /\ item' = item
      /\ deployment' = deployment /\ call[x].step = "both"
  BY DEF ItemTypeOK, Validate, At
<1>2. r \in Revs /\ call[x].day \in Days \cup {None}
  BY <1>1 DEF CallInv, Calls
<1>3. PICK cur \in Found(r) :
        /\ \A c \in cur : RevFree(x, c)
        /\ \/ /\ Releasable(x, cur)
              /\ call' = [call EXCEPT ![x].step = "ready",
                                      ![x].cur = IF cur = {} THEN NoDoc ELSE CHOOSE c \in cur : TRUE]
           \/ ~Releasable(x, cur) /\ Finish(x)
  BY DEF Validate
<1>4. /\ Releasable(x, cur)
      /\ call' = [call EXCEPT ![x].step = "ready",
                              ![x].cur = IF cur = {} THEN NoDoc ELSE CHOOSE c \in cur : TRUE]
  BY <1>1, <1>3 DEF Finish, IdleCall
<1>5. /\ cur \subseteq CurrentReleased(r)
      /\ cur = {} \/ cur = {CHOOSE c \in cur : TRUE}
  BY <1>3 DEF Found
<1> DEFINE chosen == IF cur = {} THEN NoDoc ELSE CHOOSE c \in cur : TRUE
<1>6. (chosen = NoDoc /\ cur = {}) \/ (chosen \in CurrentReleased(r) /\ cur = {chosen})
  BY <1>5
<1>7. CurrentReleased(r) \subseteq Revs \ {r}
  BY DEF CurrentReleased
<1>8. cur = {chosen} \cap Revs
  BY <1>6, <1>7, NoDocAssumption
<1> DEFINE c == [call[x] EXCEPT !.step = "ready", !.cur = chosen]
<1>17. call' = [call EXCEPT ![x] = c]
  BY <1>4
<1>15. chosen \in Revs \cup {NoDoc}
  BY <1>6, <1>7
<1> HIDE DEF chosen
<1>16. /\ c \in Calls /\ c.doc = call[x].doc /\ c.kind = call[x].kind /\ c.day = call[x].day
      /\ c.step = "ready" /\ c.cur = chosen
  BY <1>1, <1>15 DEF Calls
<1> HIDE DEF c
<1>9. /\ call' = [call EXCEPT ![x] = call'[x]] /\ call'[x] \in Calls
      /\ call'[x].doc = call[x].doc /\ call'[x].kind = call[x].kind /\ call'[x].day = call[x].day
      /\ call'[x].step = "ready" /\ call'[x].cur = chosen
  BY <1>1, <1>17, <1>16
<1>10. NewRow(x)' = NewRow(x)
  BY <1>1, <1>9 DEF NewRow
<1>11. /\ Dated(rev[r], call[x].day).status = rev[r].status /\ rev[r].status \in Statuses
  BY <1>1, <1>2, DatedTyped DEF Rows
<1>12. /\ rev[r].status = "approved" /\ NewRow(x).from # None /\ ValidPeriod(NewRow(x))
       /\ Active(ItemOf[r]) /\ NoReleasedOverlap(r, NewRow(x), cur)
       /\ \A o \in cur : rev[o].from # None /\ rev[o].from < NewRow(x).from
  BY <1>4, <1>11, ApprovedBefore DEF Releasable, Ready, NewRow
<1>13. (call[x].cur # NoDoc => Supersedes(x))'
  <2> SUFFICES ASSUME chosen # NoDoc PROVE Supersedes(x)'
    BY <1>9
  <2>1. chosen \in CurrentReleased(r) /\ rev[chosen].from # None /\ rev[chosen].from < NewRow(x).from
    BY <1>6, <1>12
  <2> QED
    BY <1>1, <1>9, <1>10, <2>1 DEF Supersedes, CurrentReleased
<1>14. ReadyNow(x)'
  BY <1>1, <1>9, <1>10, <1>12, <1>13 DEF ReadyNow, Active
<1> QED
  BY <1>8, <1>9, <1>12, <1>14

LEMMA LockInit == (\E d \in Deployments : ItemInit(d)) => LockInv
<1> SUFFICES ASSUME NEW d \in Deployments, ItemInit(d) PROVE LockInv
  OBVIOUS
<1>1. rev \in [Revs -> Rows]
  BY DeploymentsAssumption DEF ItemInit, Unreleased
<1>2. item \in [Items -> ItemRows]
  BY DEF ItemInit, ItemRows, ItemStatuses
<1>3. IdleCall \in Calls
  BY MaxDayAssumption DEF IdleCall, Calls, ItemKinds, Absent, Rows, Statuses, ItemRows, ItemStatuses
<1>4. ItemTypeOK
  BY <1>1, <1>2, <1>3 DEF ItemInit, ItemTypeOK
<1>5. \A w \in AnyWorker : call[w].step = "idle"
  BY DEF ItemInit, IdleCall
<1>6. Locks
  BY <1>5 DEF Locks, HoldsRev, HoldsItem, At
<1>7. ASSUME NEW w \in AnyWorker PROVE CallInv(w)
  BY <1>5 DEF CallInv, At
<1> QED
  BY <1>4, <1>6, <1>7 DEF LockInv

\* The calls of other threads stay good for what they know.
LEMMA OthersKnow ==
    ASSUME LockInv, NEW x \in AnyWorker, Step(x), NEW v \in AnyWorker \ {x}
    PROVE  CallInv(v)' /\ (At(v, "ready") => NewRow(v)' = NewRow(v))
<1>1. CallInv(v) /\ call'[v] = call[v] /\ deployment' = deployment
  BY CallEffects DEF LockInv
<1>2. ASSUME call[v].step \in {"row", "both", "ready"} PROVE rev'[call[v].doc] = rev[call[v].doc]
  BY <1>1, <1>2, HeldStays DEF LockInv, CallInv, HoldsRev
<1>3. ASSUME At(v, "ready") PROVE ReadyNow(v)' /\ NewRow(v)' = NewRow(v)
  <2>1. rev'[call[v].doc] = rev[call[v].doc] /\ ReadyNow(v) /\ call[v].doc \in Revs
    BY <1>1, <1>2, <1>3 DEF At, CallInv
  <2>2. ItemOf[call[v].doc] \in Items /\ HoldsItem(v, ItemOf[call[v].doc])
    BY <1>3, <2>1, ItemOfAssumption DEF HoldsItem, At
  <2>3. item'[ItemOf[call[v].doc]] = item[ItemOf[call[v].doc]]
    BY <2>2, HeldStays DEF LockInv
  <2>4. NewRow(v)' = NewRow(v)
    BY <1>1, <2>1 DEF NewRow
  <2>5. ASSUME call[v].cur # NoDoc PROVE Supersedes(v)'
    <3>1. Supersedes(v)
      BY <2>1, <2>5 DEF ReadyNow
    <3>2. Exists(call[v].cur) /\ HoldsRev(v, call[v].cur)
      BY <1>3, <3>1 DEF Supersedes, Exists, HoldsRev
    <3>3. rev'[call[v].cur] = rev[call[v].cur]
      BY <3>1, <3>2, HeldStays DEF LockInv, Supersedes
    <3> QED
      BY <1>1, <2>4, <3>1, <3>3 DEF Supersedes
  <2> QED
    BY <1>1, <2>1, <2>3, <2>4, <2>5 DEF ReadyNow, Active
<1> QED
  BY <1>1, <1>2, <1>3 DEF CallInv, At, Exists, Workers

\* The thread that steps: its new call has its type, and knows what it should.
LEMMA OwnCall ==
    ASSUME LockInv, NEW x \in AnyWorker, Step(x)
    PROVE  call' \in [AnyWorker -> Calls] /\ CallInv(x)'
<1> call \in [AnyWorker -> Calls] /\ rev \in [Revs -> Rows] /\ item \in [Items -> ItemRows] /\ CallInv(x)
  BY DEF LockInv, ItemTypeOK
<1> deployment' = deployment
  BY CallEffects DEF LockInv
<1> DEFINE Goal == call' \in [AnyWorker -> Calls] /\ CallInv(x)'
<1>1. ASSUME Finish(x) PROVE Goal
  <2>1. IdleCall \in Calls /\ IdleCall.step = "idle"
    BY MaxDayAssumption DEF IdleCall, Calls, ItemKinds, Absent, Rows, Statuses, ItemRows, ItemStatuses
  <2> QED
    BY <1>1, <2>1 DEF Finish, CallInv, At
<1>2. ASSUME call' = call, call[x] = IdleCall PROVE Goal
  BY <1>2 DEF IdleCall, CallInv, At
<1>3. ASSUME NEW kind \in MoveKinds \cup ReleaseKinds, NEW r \in Revs, NEW day \in Days \cup {None},
             Lock(x, kind, r, day)
      PROVE  Goal
  <2> DEFINE c == [call[x] EXCEPT !.step = "row", !.kind = kind, !.doc = r, !.day = day]
  <2>0. c \in Calls /\ c.step = "row" /\ c.kind = kind /\ c.doc = r
    BY ZenonT(30) DEF Calls, ItemKinds
  <2>1. call' = [call EXCEPT ![x] = c] /\ rev' = rev
    BY <1>3 DEF Lock
  <2> HIDE DEF c
  <2>2. call' \in [AnyWorker -> Calls] /\ call'[x] = c
    BY <2>0, <2>1
  <2>3. x \in Workers /\ kind \in deployment.kinds /\ Exists(r)
    BY <1>3 DEF Lock, Serves
  <2> QED
    BY <2>0, <2>1, <2>2, <2>3 DEF CallInv, At, Exists, Workers
<1>4. ASSUME NEW c \in Calls, call' = [call EXCEPT ![x] = c], c.step = "edit", c.doc \in Revs, Serves(x, c.kind)
      PROVE  Goal
  BY <1>4 DEF CallInv, At, Serves, Workers
<1>5. CASE Starting(x)
  <2>1. ASSUME NEW r \in Revs, NEW from \in Days \cup {None}, NEW to \in Days \cup {None},
               CreateRevision(x, r, from, to)
        PROVE  Goal
    BY <1>2, <2>1 DEF CreateRevision, Idle
  <2>2. ASSUME NEW r \in Revs, NEW from \in Days \cup {None}, NEW to \in Days \cup {None},
               ReadPatch(x, r, from, to)
        PROVE  Goal
    <3> DEFINE row == [rev[r] EXCEPT !.from = from, !.to = to]
               c == [call[x] EXCEPT !.step = "edit", !.kind = "patch", !.doc = r, !.copy = row]
    <3>1. row \in Rows
      BY DEF Rows
    <3> HIDE DEF row
    <3>2. c \in Calls /\ c.step = "edit" /\ c.kind = "patch" /\ c.doc = r
      BY <3>1, ZenonT(30) DEF Calls, ItemKinds
    <3>3. call' = [call EXCEPT ![x] = c] /\ Serves(x, "patch")
      BY <2>2 DEF ReadPatch, row
    <3> QED
      BY <1>4, <3>2, <3>3
  <2>3. ASSUME NEW r \in Revs, ReadDestroy(x, r) PROVE Goal
    <3> DEFINE c == [call[x] EXCEPT !.step = "edit", !.kind = "destroy", !.doc = r]
    <3>1. c \in Calls /\ c.step = "edit" /\ c.kind = "destroy" /\ c.doc = r
      BY DEF Calls, ItemKinds
    <3>2. call' = [call EXCEPT ![x] = c] /\ Serves(x, "destroy")
      BY <2>3 DEF ReadDestroy
    <3> QED
      BY <1>4, <3>1, <3>2
  <2>4. ASSUME NEW kind \in {"activate", "deactivate", "item"}, NEW r \in Revs, NEW copy \in ItemRows,
               ReadItem(x, kind, r, copy)
        PROVE  Goal
    <3> DEFINE c == [call[x] EXCEPT !.step = "edit", !.kind = kind, !.doc = r, !.icopy = copy]
    <3>1. c \in Calls /\ c.step = "edit" /\ c.kind = kind /\ c.doc = r
      BY ZenonT(30) DEF Calls, ItemKinds
    <3>2. call' = [call EXCEPT ![x] = c] /\ Serves(x, kind)
      BY <2>4 DEF ReadItem
    <3> QED
      BY <1>4, <3>1, <3>2
  <2>5. ASSUME NEW i, NEW status, ChangeItemStatus(x, i, status) PROVE Goal
    BY <1>2, <2>5 DEF ChangeItemStatus, Idle
  <2> QED
    BY <1>3, <1>5, <2>1, <2>2, <2>3, <2>4, <2>5 DEF Starting
<1>6. CASE LockItem(x)
  <2>1. call'[x] = [call[x] EXCEPT !.step = "both"] /\ rev' = rev /\ call[x].step = "row"
        /\ call' = [call EXCEPT ![x] = call'[x]]
    BY <1>6 DEF LockItem, Go, At
  <2>2. call'[x] \in Calls /\ call'[x].step = "both" /\ call'[x].kind = call[x].kind /\ call'[x].doc = call[x].doc
    BY <2>1 DEF Calls
  <2> QED
    BY <2>1, <2>2 DEF CallInv, At, Exists, Workers
<1>7. CASE Validate(x)
  <2>1. CASE call'[x].step = "idle"
    <3>1. Finish(x)
      BY <1>7, <2>1 DEF Validate, Calls
    <3> QED
      BY <1>1, <3>1
  <2>2. CASE call'[x].step # "idle"
    <3>1. /\ call' = [call EXCEPT ![x] = call'[x]] /\ call'[x] \in Calls
          /\ call'[x].doc = call[x].doc /\ call'[x].kind = call[x].kind
          /\ call'[x].step = "ready" /\ ReadyNow(x)'
      BY <1>7, <2>2, ValidateReady
    <3>2. call[x].step = "both" /\ rev' = rev
      BY <1>7 DEF Validate, At
    <3> QED
      BY <3>1, <3>2 DEF CallInv, At, Exists, Workers
  <2> QED
    BY <2>1, <2>2
<1>8. CASE Move(x) \/ Release(x) \/ Aborted(x) \/ SavePatch(x) \/ SaveItem(x)
           \/ \E referenced \in SUBSET Revs : Destroy(x, referenced)
  BY <1>1, <1>8 DEF Move, Release, Aborted, SavePatch, SaveItem, Destroy
<1> QED
  BY <1>5, <1>6, <1>7, <1>8 DEF Step, Going

\* What a release does to the rows: it dates the revision and ends the one it supersedes.
LEMMA ReleaseEffects ==
    ASSUME LockInv, NEW x \in AnyWorker, Release(x)
    PROVE  /\ ReadyNow(x) /\ call[x].doc \in Revs /\ call[x].cur \in Revs \cup {NoDoc}
           /\ NewRow(x) \in Rows /\ NewRow(x).from \in Days
           /\ rev'[call[x].doc] = [NewRow(x) EXCEPT !.status = "released"]
           /\ \A c \in Revs : c = call[x].cur =>
                Supersedes(x) /\ rev'[c] = [rev[c] EXCEPT !.status = "superseded", !.to = NewRow(x).from - 1]
           /\ \A o \in Revs \ {call[x].doc, call[x].cur} : rev'[o] = rev[o]
           /\ rev' \in [Revs -> Rows]
<1> DEFINE r == call[x].doc c == call[x].cur
<1>1. /\ call \in [AnyWorker -> Calls] /\ rev \in [Revs -> Rows] /\ CallInv(x) /\ At(x, "ready")
  BY DEF LockInv, ItemTypeOK, Release
<1>2. ReadyNow(x) /\ r \in Revs /\ c \in Revs \cup {NoDoc} /\ call[x].day \in Days \cup {None}
  BY <1>1 DEF CallInv, At, Calls
<1>3. NewRow(x) \in Rows /\ NewRow(x).from \in Days
  <2>1. NewRow(x) \in Rows
    BY <1>1, <1>2, DatedTyped DEF NewRow
  <2>2. NewRow(x).from # None /\ NewRow(x).from \in Days \cup {None}
    BY <1>2, <2>1 DEF ReadyNow, Rows
  <2> QED
    BY <2>1, <2>2
<1>4. rev' = [o \in Revs |-> CASE o = r -> [NewRow(x) EXCEPT !.status = "released"]
                               [] o = c -> Superseded(rev[c], NewRow(x).from)
                               [] OTHER -> rev[o]]
  BY DEF Release, NewRow
<1>5. c \in Revs => c # r /\ Supersedes(x)
  BY <1>2, NoDocAssumption DEF ReadyNow, Supersedes
<1>6. [NewRow(x) EXCEPT !.status = "released"] \in Rows
  BY <1>3 DEF Rows, Statuses
<1>7. c \in Revs => Superseded(rev[c], NewRow(x).from) \in Rows
  <2>1. NewRow(x).from - 1 \in Days \cup {None}
    BY <1>3, MaxDayAssumption DEF Days, None
  <2> QED
    BY <1>1, <2>1 DEF Superseded, Rows, Statuses
<1>8. rev' \in [Revs -> Rows]
  BY <1>1, <1>4, <1>6, <1>7
<1>9. /\ rev'[r] = [NewRow(x) EXCEPT !.status = "released"]
      /\ \A o \in Revs \ {r, c} : rev'[o] = rev[o]
  <2>1. rev'[r] = [NewRow(x) EXCEPT !.status = "released"]
    BY <1>2, <1>4, <1>5
  <2>2. ASSUME NEW o \in Revs, o # r, o # c PROVE rev'[o] = rev[o]
    BY <1>4, <2>2
  <2> QED
    BY <2>1, <2>2
<1>10. c \in Revs => rev'[c] = Superseded(rev[c], NewRow(x).from)
  BY <1>4, <1>5
<1> QED
  BY <1>2, <1>3, <1>5, <1>8, <1>9, <1>10 DEF Superseded

LEMMA RowsTyped ==
    ASSUME LockInv, NEW x \in AnyWorker, Step(x)
    PROVE  rev' \in [Revs -> Rows] /\ item' \in [Items -> ItemRows]
<1> call \in [AnyWorker -> Calls] /\ rev \in [Revs -> Rows] /\ item \in [Items -> ItemRows] /\ CallInv(x)
  BY DEF LockInv, ItemTypeOK
<1> DEFINE Goal == rev' \in [Revs -> Rows] /\ item' \in [Items -> ItemRows]
<1>1. CASE Starting(x)
  <2>1. ASSUME NEW r \in Revs, NEW from \in Days \cup {None}, NEW to \in Days \cup {None},
               CreateRevision(x, r, from, to)
        PROVE  Goal
    <3>1. [status |-> "draft", from |-> from, to |-> to] \in Rows
      BY DEF Rows, Statuses
    <3> QED
      BY <2>1, <3>1 DEF CreateRevision
  <2>2. ASSUME NEW i, NEW status \in ItemTargets, ChangeItemStatus(x, i, status) PROVE Goal
    <3>1. status \in ItemStatuses
      BY ItemTargetsAssumption
    <3> QED
      BY <2>2, <3>1 DEF ChangeItemStatus, ItemRows
  <2> QED
    BY <1>1, <2>1, <2>2 DEF Starting, Lock, ReadPatch, ReadDestroy, ReadItem
<1>2. CASE Move(x)
  <2>1. call[x].kind \in MoveKinds => Moves[call[x].kind] \in Statuses
    BY DEF MoveKinds, Moves, Statuses
  <2> HIDE DEF MoveKinds, Moves
  <2> QED
    BY <1>2, <2>1 DEF Move, Rows
<1>3. CASE Release(x)
  <2>1. item' = [item EXCEPT ![ItemOf[call[x].doc]].default = call[x].doc,
                             ![ItemOf[call[x].doc]].status = IF @ = "draft" THEN "active" ELSE @]
    BY <1>3 DEF Release
  <2>2. call[x].doc \in Revs /\ rev' \in [Revs -> Rows]
    BY <1>3, ReleaseEffects
  <2>3. item' \in [Items -> ItemRows]
    <3>1. PICK i \in Items : i = ItemOf[call[x].doc]
      BY <2>2, ItemOfAssumption
    <3>2. item[i] \in ItemRows /\ item \in [Items -> ItemRows]
      OBVIOUS
    <3>3. [item[i] EXCEPT !.default = call[x].doc, !.status = IF @ = "draft" THEN "active" ELSE @] \in ItemRows
      BY <2>2, <3>2 DEF ItemRows, ItemStatuses
    <3>4. item' = [item EXCEPT ![i] = [item[i] EXCEPT !.default = call[x].doc,
                                         !.status = IF @ = "draft" THEN "active" ELSE @]]
      BY <2>1, <3>1, <3>2 DEF ItemRows
    <3> QED
      BY <3>2, <3>3, <3>4
  <2> QED
    BY <2>2, <2>3
<1>4. CASE SavePatch(x)
  BY <1>4 DEF SavePatch, Calls
<1>5. CASE SaveItem(x)
  <2>1. call[x].icopy \in ItemRows
    BY DEF Calls
  <2> QED
    BY <1>5, <2>1 DEF SaveItem, ItemRows
<1>6. CASE \E referenced \in SUBSET Revs : Destroy(x, referenced)
  <2>1. Absent \in Rows
    BY DEF Absent, Rows, Statuses
  <2> QED
    BY <1>6, <2>1 DEF Destroy
<1>7. CASE LockItem(x) \/ Validate(x) \/ Aborted(x)
  BY <1>7 DEF LockItem, Validate, Aborted
<1> QED
  BY <1>1, <1>2, <1>3, <1>4, <1>5, <1>6, <1>7 DEF Step, Going

LEMMA LockInvNext ==
    ASSUME LockInv, NEW x \in AnyWorker, Step(x)
    PROVE  LockInv'
<1>1. ItemTypeOK'
  BY RowsTyped, OwnCall, CallEffects DEF LockInv, ItemTypeOK
<1>2. Locks'
  BY LocksNext DEF LockInv
<1>3. \A w \in AnyWorker : CallInv(w)'
  BY OthersKnow, OwnCall
<1> QED
  BY <1>1, <1>2, <1>3 DEF LockInv

LEMMA LockInvStutters == ASSUME LockInv, UNCHANGED itemVars PROVE LockInv'
BY DEF itemVars, LockInv, ItemTypeOK, Locks, HoldsRev, HoldsItem, CallInv, ReadyNow, Supersedes, NewRow,
       At, Exists, Active, Workers

\* The rows and the calls keep their types: the day before a release, for
\* example, is a day or no date.
THEOREM ItemTypeCorrect == ItemSpec => []ItemTypeOK
<1>1. LockInv /\ [ItemNext]_itemVars => LockInv'
  BY StepCases, LockInvNext, LockInvStutters DEF LockInv
<1>2. LockInv => ItemTypeOK
  BY DEF LockInv
<1> QED
  BY LockInit, <1>1, <1>2, PTL DEF ItemSpec

-----------------------------------------------------------------------------------
(* What the rows go through when updates do not race *)

\* An update that holds no lock saves the status it read, and what is locked as it is.
Fresh(w) ==
    LET r == call[w].doc IN
    /\ At(w, "edit") /\ call[w].kind = "patch" =>
        /\ call[w].copy.status = rev[r].status
        /\ rev[r].status \in LOCKED_STATUSES => call[w].copy = rev[r]
    /\ At(w, "edit") /\ call[w].kind = "destroy" => rev[r].status = "draft"

LEMMA MovesAre ==
    ASSUME NEW s \in Statuses, NEW k \in MoveKinds, Moves[k] \in TRANSITIONS[s]
    PROVE  \/ s \notin LOCKED_STATUSES /\ Moves[k] \notin LOCKED_STATUSES
           \/ s \in {"released", "superseded"} /\ Moves[k] = "obsolete"
BY DEF Statuses, MoveKinds, Moves, TRANSITIONS, LOCKED_STATUSES

\* No revision is released, or changed once it was.
Quiet ==
    \A r \in Revs : rev'[r] = rev[r] \/ (rev[r].status \notin LOCKED_STATUSES /\ rev'[r].status \notin LOCKED_STATUSES)

Retires(q) ==
    /\ rev[q].status \in {"released", "superseded"}
    /\ rev' = [rev EXCEPT ![q].status = "obsolete"]

\* Only those who are served take steps.
LEMMA StepsAreServed ==
    ASSUME LockInv, NEW x \in AnyWorker, Step(x)
    PROVE  x \in Workers
<1>1. CASE Starting(x)
  BY <1>1 DEF Starting, Lock, CreateRevision, ReadPatch, ReadDestroy, ReadItem, ChangeItemStatus, Serves
<1>2. CASE Going(x)
  <2>1. call[x].step # "idle"
    BY <1>2 DEF Going, LockItem, Move, Validate, Release, Aborted, SavePatch, SaveItem, Destroy, At
  <2> QED
    BY <2>1 DEF LockInv, CallInv
<1> QED
  BY <1>1, <1>2 DEF Step

LEMMA StepKinds ==
    ASSUME LockInv, NEW x \in AnyWorker, Step(x), Fresh(x)
    PROVE  Quiet \/ (\E q \in Revs : Retires(q)) \/ Release(x)
<1> rev \in [Revs -> Rows] /\ call \in [AnyWorker -> Calls] /\ CallInv(x)
  BY DEF LockInv, ItemTypeOK
<1>1. ASSUME rev' = rev PROVE Quiet
  BY <1>1 DEF Quiet
<1>2. CASE Starting(x)
  <2>1. ASSUME NEW r \in Revs, NEW from, NEW to, CreateRevision(x, r, from, to) PROVE Quiet
    BY <2>1 DEF CreateRevision, Quiet, Exists, LOCKED_STATUSES
  <2> QED
    BY <1>1, <1>2, <2>1 DEF Starting, Lock, ReadPatch, ReadDestroy, ReadItem, ChangeItemStatus
<1>3. CASE Move(x)
  <2> DEFINE r == call[x].doc target == Moves[call[x].kind]
  <2>1. /\ r \in Revs /\ call[x].kind \in MoveKinds /\ rev[r].status \in Statuses
        /\ rev' = IF target \in TRANSITIONS[rev[r].status] THEN [rev EXCEPT ![r].status = target] ELSE rev
    BY <1>3 DEF Move, CallInv, At, Rows
  <2>2. CASE target \notin TRANSITIONS[rev[r].status]
    BY <1>1, <2>1, <2>2
  <2>3. CASE target \in TRANSITIONS[rev[r].status]
    <3>1. \/ rev[r].status \notin LOCKED_STATUSES /\ target \notin LOCKED_STATUSES
          \/ rev[r].status \in {"released", "superseded"} /\ target = "obsolete"
      BY <2>1, <2>3, MovesAre
    <3>2. rev' = [rev EXCEPT ![r].status = target]
      BY <2>1, <2>3
    <3> HIDE DEF target
    <3>3. rev'[r].status = target /\ \A o \in Revs \ {r} : rev'[o] = rev[o]
      BY <2>1, <3>2 DEF Rows
    <3> QED
      BY <2>1, <3>1, <3>2, <3>3 DEF Quiet, Retires
  <2> QED
    BY <2>2, <2>3
<1>4. CASE SavePatch(x)
  <2>1. /\ call[x].doc \in Revs /\ call[x].copy.status = rev[call[x].doc].status
        /\ rev[call[x].doc].status \in LOCKED_STATUSES => call[x].copy = rev[call[x].doc]
        /\ rev' = [rev EXCEPT ![call[x].doc] = call[x].copy]
    BY <1>4 DEF SavePatch, CallInv, Fresh, At
  <2> QED
    BY <2>1 DEF Quiet
<1>5. CASE \E referenced \in SUBSET Revs : Destroy(x, referenced)
  <2>1. /\ call[x].doc \in Revs /\ rev[call[x].doc].status = "draft"
        /\ rev' = rev \/ rev' = [rev EXCEPT ![call[x].doc] = Absent]
    BY <1>5 DEF Destroy, CallInv, Fresh, At
  <2> QED
    BY <2>1 DEF Quiet, Absent, LOCKED_STATUSES
<1>6. CASE LockItem(x) \/ Validate(x) \/ Aborted(x) \/ SaveItem(x)
  BY <1>1, <1>6 DEF LockItem, Validate, Aborted, SaveItem
<1> QED
  BY <1>2, <1>3, <1>4, <1>5, <1>6 DEF Step, Going

-----------------------------------------------------------------------------------
(* The invariant: what a release has checked stays true until it commits *)

\* Nobody else releases a revision of the item on the days that are checked.
Clear(w) ==
    At(w, "ready") => \A o \in Revs \ {call[w].doc, call[w].cur} :
        ItemOf[o] = ItemOf[call[w].doc] /\ rev[o].status = "released" => ~PeriodsOverlap(NewRow(w), rev[o])

Started == \A r \in Revs : rev[r].status = "released" => rev[r].from # None

Disjoint ==
    \A r, s \in Revs :
        /\ r # s /\ ItemOf[r] = ItemOf[s]
        /\ rev[r].status = "released" /\ rev[s].status = "released"
        => ~PeriodsOverlap(rev[r], rev[s])

ReleaseInv ==
    /\ LockInv
    /\ Undisturbed => Started /\ Disjoint /\ \A w \in AnyWorker : Fresh(w) /\ Clear(w)

LEMMA ReleaseInit == (\E d \in Deployments : ItemInit(d)) => ReleaseInv
<1> SUFFICES ASSUME NEW d \in Deployments, ItemInit(d) PROVE ReleaseInv
  OBVIOUS
<1>1. \A r \in Revs : rev[r].status # "released"
  BY DeploymentsAssumption DEF ItemInit, Unreleased, LOCKED_STATUSES
<1>2. \A w \in AnyWorker : call[w].step = "idle"
  BY DEF ItemInit, IdleCall
<1> QED
  BY LockInit, <1>1, <1>2 DEF ReleaseInv, Started, Disjoint, Fresh, Clear, At

LEMMA OverlapSymmetric == \A a, b : PeriodsOverlap(a, b) <=> PeriodsOverlap(b, a)
BY DEF PeriodsOverlap

\* The rows: a step that releases nothing cannot make two releases overlap,
\* and a release has checked that it does not.
LEMMA RowsStaySound ==
    ASSUME ReleaseInv, Undisturbed, NEW x \in AnyWorker, Step(x)
    PROVE  Started' /\ Disjoint'
<1> LockInv /\ Started /\ Disjoint /\ Fresh(x) /\ Clear(x) /\ rev \in [Revs -> Rows]
  BY DEF ReleaseInv, LockInv, ItemTypeOK
<1>1. ASSUME \A r \in Revs : rev'[r].status = "released" => rev'[r] = rev[r]
      PROVE  Started' /\ Disjoint'
  BY <1>1 DEF Started, Disjoint
<1>2. CASE Quiet
  <2>1. \A r \in Revs : rev'[r].status = "released" => rev'[r] = rev[r]
    BY <1>2 DEF Quiet, LOCKED_STATUSES
  <2> QED
    BY <1>1, <2>1
<1>3. ASSUME NEW q \in Revs, Retires(q) PROVE Started' /\ Disjoint'
  <2>1. \A r \in Revs : rev'[r].status = "released" => rev'[r] = rev[r]
    BY <1>3 DEF Retires, Rows
  <2> QED
    BY <1>1, <2>1
<1>4. CASE Release(x)
  <2> DEFINE r == call[x].doc c == call[x].cur
  <2>1. /\ r \in Revs /\ NewRow(x) \in Rows /\ NewRow(x).from \in Days
        /\ rev'[r] = [NewRow(x) EXCEPT !.status = "released"]
        /\ \A o \in Revs : o = c => rev'[o] = [rev[o] EXCEPT !.status = "superseded", !.to = NewRow(x).from - 1]
        /\ \A o \in Revs \ {r, c} : rev'[o] = rev[o]
    BY <1>4, ReleaseEffects
  <2>2. \A o \in Revs : o # r /\ rev'[o].status = "released" => o # c /\ rev'[o] = rev[o]
    BY <2>1, ZenonT(30) DEF Rows
  <2>3. rev'[r].from = NewRow(x).from /\ rev'[r].to = NewRow(x).to
    BY <2>1 DEF Rows
  <2>4. ASSUME NEW o \in Revs, o # r, ItemOf[o] = ItemOf[r], rev'[o].status = "released"
        PROVE  ~PeriodsOverlap(rev'[r], rev'[o]) /\ ~PeriodsOverlap(rev'[o], rev'[r])
    <3>1. ~PeriodsOverlap(NewRow(x), rev[o])
      BY <1>4, <2>2, <2>4 DEF Clear, Release
    <3>2. ~PeriodsOverlap(rev'[r], rev'[o])
      BY <2>2, <2>3, <2>4, <3>1 DEF PeriodsOverlap
    <3> QED
      BY <3>2, OverlapSymmetric
  <2>5. Started'
    <3>1. rev'[r].from # None
      BY <1>4, <2>3, ReleaseEffects DEF ReadyNow
    <3> QED
      BY <2>2, <3>1 DEF Started
  <2>6. Disjoint'
    <3> SUFFICES ASSUME NEW a \in Revs, NEW b \in Revs, a # b, ItemOf[a] = ItemOf[b],
                        rev'[a].status = "released", rev'[b].status = "released"
                 PROVE  ~PeriodsOverlap(rev'[a], rev'[b])
      BY DEF Disjoint
    <3>1. CASE a = r \/ b = r
      BY <2>4, <3>1
    <3>2. CASE a # r /\ b # r
      BY <2>2, <3>2 DEF Disjoint
    <3> QED
      BY <3>1, <3>2
  <2> QED
    BY <2>5, <2>6
<1> QED
  BY StepKinds, <1>2, <1>3, <1>4

\* The thread that steps: an update it has read is fresh, a release it has
\* validated is clear.
LEMMA OwnCallSound ==
    ASSUME LockInv, Started, NEW x \in AnyWorker, Step(x)
    PROVE  Fresh(x)' /\ Clear(x)'
<1> call \in [AnyWorker -> Calls] /\ rev \in [Revs -> Rows]
  BY DEF LockInv, ItemTypeOK
<1> DEFINE Goal == Fresh(x)' /\ Clear(x)'
<1>1. ASSUME call'[x].step \notin {"edit", "ready"} PROVE Goal
  BY <1>1 DEF Fresh, Clear, At
<1>2. ASSUME call'[x].step = "edit", call'[x].kind \notin {"patch", "destroy"} PROVE Goal
  BY <1>2 DEF Fresh, Clear, At
<1>3. ASSUME NEW r \in Revs, NEW from, NEW to, CreateRevision(x, r, from, to) \/ ChangeItemStatus(x, from, to)
      PROVE  Goal
  <2>1. call'[x].step = "idle"
    BY <1>3 DEF CreateRevision, ChangeItemStatus, Idle, IdleCall
  <2> QED
    BY <1>1, <2>1
<1>4. ASSUME NEW r \in Revs, NEW from, NEW to, ReadPatch(x, r, from, to) PROVE Goal
  <2> DEFINE row == [rev[r] EXCEPT !.from = from, !.to = to]
  <2>1. /\ call'[x].step = "edit" /\ call'[x].kind = "patch" /\ call'[x].doc = r
        /\ call'[x].copy = row /\ rev' = rev
        /\ rev[r].status \in LOCKED_STATUSES => row = rev[r]
    BY <1>4 DEF ReadPatch, Calls
  <2>2. row.status = rev[r].status
    BY DEF Rows
  <2> HIDE DEF row
  <2> QED
    BY <2>1, <2>2 DEF Fresh, Clear, At
<1>5. ASSUME NEW r \in Revs, ReadDestroy(x, r) PROVE Goal
  <2>1. /\ call'[x].step = "edit" /\ call'[x].kind = "destroy" /\ call'[x].doc = r
        /\ rev' = rev /\ rev[r].status = "draft"
    BY <1>5 DEF ReadDestroy, Calls
  <2> QED
    BY <2>1 DEF Fresh, Clear, At
<1>6. CASE Starting(x)
  <2>1. ASSUME NEW kind, NEW r, NEW day, Lock(x, kind, r, day) PROVE Goal
    <3>1. call'[x].step = "row"
      BY <2>1 DEF Lock, Calls
    <3> QED
      BY <1>1, <3>1
  <2>2. ASSUME NEW kind \in {"activate", "deactivate", "item"}, NEW r, NEW copy, ReadItem(x, kind, r, copy) PROVE Goal
    <3>1. call'[x].step = "edit" /\ call'[x].kind = kind
      BY <2>2 DEF ReadItem, Calls
    <3> QED
      BY <1>2, <3>1
  <2>3. ASSUME NEW r \in Revs, NEW status, ChangeItemStatus(x, ItemOf[r], status) PROVE Goal
    BY <1>3, <2>3
  <2> QED
    BY <1>3, <1>4, <1>5, <1>6, <2>1, <2>2, <2>3 DEF Starting
<1>7. CASE Validate(x)
  <2>1. CASE call'[x].step = "idle"
    BY <1>1, <2>1
  <2>2. CASE call'[x].step # "idle"
    <3>1. /\ call'[x].doc = call[x].doc /\ call'[x].day = call[x].day /\ call'[x].step = "ready"
          /\ NoReleasedOverlap(call[x].doc, NewRow(x), {call'[x].cur} \cap Revs)
      BY <1>7, <2>2, ValidateReady
    <3>2. rev' = rev /\ NewRow(x)' = NewRow(x)
      BY <1>7, <3>1 DEF Validate, NewRow
    <3>3. Fresh(x)'
      BY <3>1 DEF Fresh, At
    <3>4. ASSUME NEW o \in Revs \ {call[x].doc, call'[x].cur}, ItemOf[o] = ItemOf[call[x].doc],
                 rev[o].status = "released"
          PROVE  ~PeriodsOverlap(NewRow(x), rev[o])
      BY <3>1, <3>4 DEF NoReleasedOverlap, Started
    <3> QED
      BY <3>1, <3>2, <3>3, <3>4 DEF Clear
  <2> QED
    BY <2>1, <2>2
<1>8. CASE LockItem(x)
  <2>1. call'[x].step = "both"
    BY <1>8 DEF LockItem, Go, Calls
  <2> QED
    BY <1>1, <2>1
<1>9. CASE Move(x) \/ Release(x) \/ Aborted(x) \/ SavePatch(x) \/ SaveItem(x)
           \/ \E referenced \in SUBSET Revs : Destroy(x, referenced)
  <2>1. call'[x].step = "idle"
    <3>1. CASE Move(x) \/ Release(x)
      BY <3>1 DEF Move, Release, Finish, IdleCall
    <3>2. CASE SavePatch(x) \/ SaveItem(x)
      BY <3>2 DEF SavePatch, SaveItem, Finish, IdleCall
    <3>4. CASE Aborted(x)
      BY <3>4 DEF Aborted, Finish, IdleCall
    <3>3. ASSUME NEW referenced \in SUBSET Revs, Destroy(x, referenced) PROVE call'[x].step = "idle"
      BY <3>3 DEF Destroy, Finish, IdleCall
    <3> QED
      BY <1>9, <3>1, <3>2, <3>3, <3>4
  <2> QED
    BY <1>1, <2>1
<1> QED
  BY <1>6, <1>7, <1>8, <1>9 DEF Step, Going

\* The other threads: updates do not race, and nobody can release a revision of
\* an item that a release holds.
LEMMA OthersCallsSound ==
    ASSUME ReleaseInv, Undisturbed, NEW x \in AnyWorker, Step(x), NEW v \in AnyWorker \ {x}
    PROVE  Fresh(v)' /\ Clear(v)'
<1> LockInv /\ Fresh(x) /\ Fresh(v) /\ Clear(v) /\ CallInv(v)
  BY DEF ReleaseInv, LockInv
<1> call'[v] = call[v]
  BY CallEffects DEF LockInv
<1>1. Fresh(v)'
  <2>1. ASSUME At(v, "edit"), call[v].kind \in {"patch", "destroy"} PROVE FALSE
    <3>1. v \in Workers /\ Serial
      BY <2>1 DEF CallInv, At, Undisturbed
    <3>2. x \in Workers
      BY StepsAreServed
    <3> QED
      BY <3>1, <3>2 DEF Serial
  <2> QED
    BY <2>1 DEF Fresh, At
<1>2. ASSUME At(v, "ready") PROVE Clear(v)'
  <2> DEFINE r == call[v].doc c == call[v].cur
  <2>1. NewRow(v)' = NewRow(v)
    BY <1>2, OthersKnow
  <2>2. r \in Revs /\ ItemOf[r] \in Items /\ HoldsItem(v, ItemOf[r])
    BY <1>2, ItemOfAssumption DEF CallInv, HoldsItem, At
  <2>3. ASSUME NEW o \in Revs, ItemOf[o] = ItemOf[r], rev'[o].status = "released"
        PROVE  rev'[o] = rev[o]
    <3>1. CASE Quiet
      BY <2>3, <3>1 DEF Quiet, LOCKED_STATUSES
    <3>2. ASSUME NEW q \in Revs, Retires(q) PROVE rev'[o] = rev[o]
      BY <2>3, <3>2 DEF Retires, LockInv, ItemTypeOK, Rows
    <3>3. CASE Release(x)
      <4>1. call[x].doc \in Revs /\ HoldsItem(x, ItemOf[call[x].doc])
        BY <3>3, ReleaseEffects DEF Release, HoldsItem, At
      <4>2. ItemOf[call[x].doc] # ItemOf[r]
        BY <2>2, <4>1 DEF LockInv, Locks
      <4>3. rev'[o] = rev[o] \/ o = call[x].cur
        BY <2>3, <3>3, <4>2, ReleaseEffects
      <4>4. o = call[x].cur => ItemOf[o] = ItemOf[call[x].doc]
        BY <3>3, ReleaseEffects DEF Supersedes
      <4> QED
        BY <2>3, <4>2, <4>3, <4>4
    <3> QED
      BY StepKinds, <3>1, <3>2, <3>3
  <2> QED
    BY <1>2, <2>1, <2>3 DEF Clear, At
<1> QED
  BY <1>1, <1>2 DEF Clear, At

LEMMA ReleaseInvNext ==
    ASSUME ReleaseInv, NEW x \in AnyWorker, Step(x)
    PROVE  ReleaseInv'
<1>1. LockInv /\ LockInv'
  BY LockInvNext DEF ReleaseInv
<1>2. Undisturbed' <=> Undisturbed
  BY <1>1, CallEffects DEF LockInv, Undisturbed, Serial, Workers
<1>3. ASSUME Undisturbed PROVE Started' /\ Disjoint' /\ \A w \in AnyWorker : Fresh(w)' /\ Clear(w)'
  BY <1>1, <1>3, RowsStaySound, OwnCallSound, OthersCallsSound DEF ReleaseInv
<1> QED
  BY <1>1, <1>2, <1>3 DEF ReleaseInv

LEMMA ReleaseInvStutters == ASSUME ReleaseInv, UNCHANGED itemVars PROVE ReleaseInv'
<1>1. LockInv'
  BY LockInvStutters DEF ReleaseInv
<1> QED
  BY <1>1 DEF itemVars, ReleaseInv, Undisturbed, Serial, Workers, Started, Disjoint, Fresh, Clear, NewRow, At

LEMMA ReleaseInvKept == ReleaseInv /\ [ItemNext]_itemVars => ReleaseInv'
BY StepCases, ReleaseInvNext, ReleaseInvStutters DEF ReleaseInv, LockInv

\* Two released revisions of an item are never valid on the same day, whatever
\* the number of threads that release: the check for overlaps reads rows that
\* are not locked, and the item's lock alone keeps others from being released.
THEOREM ReleasesAreDisjoint == ItemSpec => []ReleasedPeriodsDisjoint
<1>1. ReleaseInv => ReleasedPeriodsDisjoint
  BY DEF ReleaseInv, Disjoint, ReleasedPeriodsDisjoint
<1> QED
  BY ReleaseInit, ReleaseInvKept, <1>1, PTL DEF ItemSpec

-----------------------------------------------------------------------------------
(* What a step never does *)

Stays ==
    \A r \in Revs : rev[r].status \in LOCKED_STATUSES =>
        /\ rev'[r].status \in LOCKED_STATUSES /\ rev'[r].from = rev[r].from
        /\ rev'[r].to # rev[r].to => rev[r].to = None /\ rev'[r].status = "superseded"

UnderActive ==
    \A r \in Revs : rev[r].status # "released" /\ rev'[r].status = "released" => Active(ItemOf[r])

LEMMA StepsKeepReleases ==
    ASSUME ReleaseInv, Undisturbed, NEW x \in AnyWorker, Step(x)
    PROVE  Stays /\ UnderActive
<1> LockInv /\ Fresh(x) /\ rev \in [Revs -> Rows]
  BY DEF ReleaseInv, LockInv, ItemTypeOK
<1>1. CASE Quiet
  BY <1>1 DEF Quiet, Stays, UnderActive, LOCKED_STATUSES
<1>2. ASSUME NEW q \in Revs, Retires(q) PROVE Stays /\ UnderActive
  <2>1. /\ rev'[q].status = "obsolete" /\ rev'[q].from = rev[q].from /\ rev'[q].to = rev[q].to
        /\ \A o \in Revs \ {q} : rev'[o] = rev[o]
    BY <1>2 DEF Retires, Rows
  <2> QED
    BY <2>1 DEF Stays, UnderActive, LOCKED_STATUSES
<1>3. CASE Release(x)
  <2> DEFINE r == call[x].doc c == call[x].cur
  <2>1. /\ r \in Revs /\ rev[r].status = "approved" /\ Active(ItemOf[r])
        /\ \A o \in Revs \ {r, c} : rev'[o] = rev[o]
        /\ \A o \in Revs : o = c =>
             /\ o # r /\ rev[o].status = "released" /\ rev[o].to = None
             /\ rev'[o] = [rev[o] EXCEPT !.status = "superseded", !.to = NewRow(x).from - 1]
    BY <1>3, ReleaseEffects DEF ReadyNow, Supersedes
  <2>2. ASSUME NEW o \in Revs, o = c
        PROVE  rev'[o].status = "superseded" /\ rev'[o].from = rev[o].from
    <3>1. rev'[o] = [rev[o] EXCEPT !.status = "superseded", !.to = NewRow(x).from - 1]
      BY <2>1, <2>2
    <3>2. rev[o] = [status |-> rev[o].status, from |-> rev[o].from, to |-> rev[o].to]
      BY DEF Rows
    <3> QED
      BY <3>1, <3>2
  <2> QED
    BY <2>1, <2>2 DEF Stays, UnderActive, LOCKED_STATUSES
<1> QED
  BY StepKinds, <1>1, <1>2, <1>3

\* A released revision stays released, superseded or obsolete, and keeps its
\* start; only being superseded gives it an end.
THEOREM ReleasesStay == ItemSpec => ReleasedIsForever
<1> DEFINE Kept == Undisturbed => Stays
<1>1. ReleaseInv /\ [ItemNext]_itemVars => [Kept]_rev
  BY StepCases, StepsKeepReleases DEF ReleaseInv, LockInv, itemVars
<1>2. [][Kept]_rev <=> ReleasedIsForever
  BY DEF Kept, Stays, ReleasedIsForever
<1> HIDE DEF Kept
<1> QED
  BY ReleaseInit, ReleaseInvKept, <1>1, <1>2, PTL DEF ItemSpec

\* Whatever is released belongs to an item that is active at that moment.
THEOREM ReleasesNeedActiveItem == ItemSpec => ReleasedUnderActiveItem
<1> DEFINE Kept == Undisturbed => UnderActive
<1>1. ReleaseInv /\ [ItemNext]_itemVars => [Kept]_rev
  BY StepCases, StepsKeepReleases DEF ReleaseInv, LockInv, itemVars
<1>2. [][Kept]_rev <=> ReleasedUnderActiveItem
  BY DEF Kept, UnderActive, ReleasedUnderActiveItem
<1> HIDE DEF Kept
<1> QED
  BY ReleaseInit, ReleaseInvKept, <1>1, <1>2, PTL DEF ItemSpec

-----------------------------------------------------------------------------------
(* The default revision of an item *)

LEMMA DefaultEffects ==
    ASSUME LockInv, "item" \notin deployment.kinds, NEW x \in AnyWorker, Step(x), NEW i \in Items
    PROVE  \/ item'[i].default = item[i].default
           \/ Release(x) /\ i = ItemOf[call[x].doc] /\ item'[i].default = call[x].doc
<1> item \in [Items -> ItemRows] /\ CallInv(x)
  BY DEF LockInv, ItemTypeOK
<1>1. CASE Starting(x)
  <2>1. ASSUME NEW r \in Revs, NEW status, ChangeItemStatus(x, ItemOf[r], status)
        PROVE  item'[i].default = item[i].default
    BY <2>1, ItemOfAssumption DEF ChangeItemStatus, ItemRows
  <2> QED
    BY <1>1, <2>1 DEF Starting, Lock, CreateRevision, ReadPatch, ReadDestroy, ReadItem
<1>2. CASE Release(x)
  <2>1. call[x].doc \in Revs
    BY <1>2, ReleaseEffects
  <2>2. item' = [item EXCEPT ![ItemOf[call[x].doc]].default = call[x].doc,
                             ![ItemOf[call[x].doc]].status = IF @ = "draft" THEN "active" ELSE @]
    BY <1>2 DEF Release
  <2> QED
    BY <1>2, <2>1, <2>2, ItemOfAssumption DEF ItemRows
<1>3. CASE SaveItem(x)
  <2>1. call[x].kind \in deployment.kinds /\ call[x].doc \in Revs
    BY <1>3 DEF SaveItem, CallInv, At
  <2>2. item' = [item EXCEPT ![ItemOf[call[x].doc]] = [@ EXCEPT !.status = call[x].icopy.status]]
    BY <1>3, <2>1 DEF SaveItem
  <2> QED
    BY <2>1, <2>2, ItemOfAssumption DEF ItemRows
<1>4. CASE LockItem(x) \/ Move(x) \/ Validate(x) \/ Aborted(x) \/ SavePatch(x)
           \/ \E referenced \in SUBSET Revs : Destroy(x, referenced)
  BY <1>4 DEF LockItem, Move, Validate, Aborted, SavePatch, Destroy
<1> QED
  BY <1>1, <1>2, <1>3, <1>4 DEF Step, Going

LEMMA DefaultsNext ==
    ASSUME ReleaseInv, DefaultWasReleased, NEW x \in AnyWorker, Step(x)
    PROVE  DefaultWasReleased'
<1> LockInv
  BY DEF ReleaseInv
<1>1. deployment' = deployment
  BY CallEffects DEF LockInv
<1> SUFFICES ASSUME Undisturbed, "item" \notin deployment.kinds, NEW i \in Items, item'[i].default # R0
             PROVE  ItemOf[item'[i].default] = i /\ rev'[item'[i].default].status \in LOCKED_STATUSES
  BY <1>1 DEF DefaultWasReleased, Undisturbed, Serial, Workers
<1>2. CASE item'[i].default = item[i].default
  <2>1. item[i].default \in Revs
    BY <1>2 DEF LockInv, ItemTypeOK, ItemRows
  <2>2. ItemOf[item[i].default] = i /\ rev[item[i].default].status \in LOCKED_STATUSES
    BY <1>2 DEF DefaultWasReleased
  <2> QED
    BY <1>2, <2>1, <2>2, StepsKeepReleases DEF Stays
<1>3. CASE Release(x) /\ i = ItemOf[call[x].doc] /\ item'[i].default = call[x].doc
  <2>1. rev'[call[x].doc].status = "released"
    BY <1>3, ReleaseEffects DEF Rows
  <2> QED
    BY <1>3, <2>1 DEF LOCKED_STATUSES
<1> QED
  BY <1>2, <1>3, DefaultEffects

\* Where items are not patched, the default revision of an item is one of its
\* own and was released.
THEOREM DefaultsWereReleased == ItemSpec => []DefaultWasReleased
<1> DEFINE Inv == ReleaseInv /\ DefaultWasReleased
<1>1. (\E d \in Deployments : ItemInit(d)) => Inv
  BY ReleaseInit DEF ItemInit, DefaultWasReleased
<1>2. Inv /\ [ItemNext]_itemVars => Inv'
  <2>1. ASSUME Inv, UNCHANGED itemVars PROVE DefaultWasReleased'
    BY <2>1 DEF itemVars, DefaultWasReleased, Undisturbed, Serial, Workers
  <2> QED
    BY <2>1, ReleaseInvKept, StepCases, DefaultsNext DEF ReleaseInv, LockInv
<1>3. Inv => DefaultWasReleased
  OBVIOUS
<1> HIDE DEF Inv
<1> QED
  BY <1>1, <1>2, <1>3, PTL DEF ItemSpec

-----------------------------------------------------------------------------------
(* The official revisions of an item *)

\* Released revisions do not overlap: a day has one.
LEMMA OneOfficial ==
    ASSUME LockInv, Disjoint, NEW i \in Items, NEW d \in Days
    PROVE  /\ \A r, s \in ReleasedOn(i, d) : r = s
           /\ \A r \in Revs : OfficialOf(i)[d] = r <=> r \in ReleasedOn(i, d)
           /\ OfficialOf(i)[d] \in Revs \cup {NoDoc}
           /\ OfficialOf(i)[d] = NoDoc <=> ReleasedOn(i, d) = {}
<1> rev \in [Revs -> Rows]
  BY DEF LockInv, ItemTypeOK
<1>1. ASSUME NEW r \in ReleasedOn(i, d), NEW s \in ReleasedOn(i, d) PROVE r = s
  <2>1. /\ r \in Revs /\ s \in Revs /\ ItemOf[r] = ItemOf[s]
        /\ rev[r].status = "released" /\ rev[s].status = "released"
        /\ Covers(rev[r], d) /\ Covers(rev[s], d)
    BY <1>1 DEF ReleasedOn
  <2>2. /\ rev[r].from \in Int /\ rev[s].from \in Int /\ rev[r].to \in Int /\ rev[s].to \in Int /\ d \in Int
    BY <2>1, MaxDayAssumption DEF Rows, Days, None
  <2>3. PeriodsOverlap(rev[r], rev[s])
    BY <2>1, <2>2 DEF PeriodsOverlap, Covers
  <2> QED
    BY <2>1, <2>3 DEF Disjoint
<1>2. OfficialOf(i)[d] = IF ReleasedOn(i, d) = {} THEN NoDoc ELSE CHOOSE r \in ReleasedOn(i, d) : TRUE
  BY DEF OfficialOf
<1>3. ReleasedOn(i, d) \subseteq Revs
  BY DEF ReleasedOn
<1> QED
  BY <1>1, <1>2, <1>3, NoDocAssumption

LEMMA SameOfficial ==
    ASSUME NEW i \in Items, \A d \in Days : ReleasedOn(i, d)' = ReleasedOn(i, d)
    PROVE  OfficialOf(i)' = OfficialOf(i)
<1>1. ASSUME NEW d \in Days PROVE OfficialOf(i)'[d] = OfficialOf(i)[d]
  <2>1. OfficialOf(i)'[d] = IF ReleasedOn(i, d)' = {} THEN NoDoc ELSE CHOOSE r \in ReleasedOn(i, d)' : TRUE
    BY DEF OfficialOf
  <2>2. OfficialOf(i)[d] = IF ReleasedOn(i, d) = {} THEN NoDoc ELSE CHOOSE r \in ReleasedOn(i, d) : TRUE
    BY DEF OfficialOf
  <2>3. ReleasedOn(i, d)' = ReleasedOn(i, d)
    OBVIOUS
  <2> QED
    BY <2>1, <2>2, <2>3
<1>2. /\ OfficialOf(i)' = [d \in Days |-> OfficialOf(i)'[d]]
      /\ OfficialOf(i) = [d \in Days |-> OfficialOf(i)[d]]
  BY DEF OfficialOf
<1> QED
  BY <1>1, <1>2

\* What is released after a release: the new revision on its days, the others
\* but the one it supersedes.
LEMMA ReleasedAfter ==
    ASSUME LockInv, NEW x \in AnyWorker, Release(x), NEW i \in Items, NEW d \in Days
    PROVE  ReleasedOn(i, d)' =
             (ReleasedOn(i, d) \ {call[x].cur})
               \cup {r \in {call[x].doc} : ItemOf[r] = i /\ Covers(NewRow(x), d)}
<1> DEFINE r == call[x].doc c == call[x].cur
<1>1. /\ r \in Revs /\ rev[r].status = "approved" /\ NewRow(x) \in Rows
      /\ rev'[r] = [NewRow(x) EXCEPT !.status = "released"]
      /\ \A o \in Revs : o = c =>
           /\ o # r /\ rev'[o] = [rev[o] EXCEPT !.status = "superseded", !.to = NewRow(x).from - 1]
      /\ \A o \in Revs \ {r, c} : rev'[o] = rev[o]
  BY ReleaseEffects DEF ReadyNow, Supersedes
<1>2. rev'[r].status = "released" /\ (Covers(rev'[r], d) <=> Covers(NewRow(x), d))
  BY <1>1 DEF Rows, Covers
<1>3. \A o \in Revs : o = c => rev'[o].status # "released"
  BY <1>1, ZenonT(30) DEF LockInv, ItemTypeOK, Rows
<1>4. ASSUME NEW o \in Revs
      PROVE  o \in ReleasedOn(i, d)' <=> \/ o \in ReleasedOn(i, d) /\ o # c
                                         \/ o = r /\ ItemOf[r] = i /\ Covers(NewRow(x), d)
  <2>1. CASE o = r
    BY <1>1, <1>2, <2>1 DEF ReleasedOn
  <2>2. CASE o # r /\ o = c
    BY <1>3, <2>2 DEF ReleasedOn
  <2>3. CASE o # r /\ o # c
    BY <1>1, <2>3 DEF ReleasedOn
  <2> QED
    BY <2>1, <2>2, <2>3
<1>5. ReleasedOn(i, d) \subseteq Revs /\ ReleasedOn(i, d)' \subseteq Revs
  BY DEF ReleasedOn
<1> QED
  BY <1>1, <1>4, <1>5, ZenonT(30)

LEMMA PublishStep ==
    ASSUME ReleaseInv, Undisturbed, NEW x \in AnyWorker, Release(x), NEW i \in Items, ItemOf[call[x].doc] = i
    PROVE  Official(i)!Next
<1> DEFINE r == call[x].doc c == call[x].cur S == {d \in Days : Covers(NewRow(x), d)}
<1>1. /\ LockInv /\ Disjoint /\ Clear(x) /\ At(x, "ready")
      /\ r \in Revs /\ c \in Revs \cup {NoDoc} /\ rev[r].status = "approved"
      /\ NewRow(x) \in Rows /\ NewRow(x).from \in Days /\ ValidPeriod(NewRow(x)) /\ NewRow(x).from # None
  BY ReleaseEffects DEF ReleaseInv, ReadyNow, Release
<1>2. S # {}
  <2>1. NewRow(x).from \in S
    BY <1>1, MaxDayAssumption DEF Covers, ValidPeriod, Rows, Days, None
  <2> QED
    BY <2>1
<1>3. ASSUME NEW d \in Days, NEW o \in ReleasedOn(i, d), d \in S PROVE o = c
  <2>1. /\ o \in Revs /\ ItemOf[o] = i /\ rev[o].status = "released" /\ Covers(rev[o], d) /\ o # r
        /\ rev[o] \in Rows /\ Covers(NewRow(x), d)
    BY <1>1, <1>3 DEF ReleasedOn, LockInv, ItemTypeOK
  <2>2. PeriodsOverlap(NewRow(x), rev[o])
    <3>1. /\ rev[o].from \in Int /\ rev[o].to \in Int /\ NewRow(x).from \in Int /\ NewRow(x).to \in Int /\ d \in Int
      BY <1>1, <2>1, MaxDayAssumption DEF Rows, Days, None
    <3> QED
      BY <2>1, <3>1 DEF PeriodsOverlap, Covers
  <2> QED
    BY <1>1, <2>1, <2>2 DEF Clear
<1>4. ASSUME NEW d \in Days
      PROVE  /\ d \in S => OfficialOf(i)[d] \in {NoDoc, c}
             /\ OfficialOf(i)[d] # r
             /\ OfficialOf(i)'[d] = IF d \in S THEN r
                                    ELSE IF OfficialOf(i)[d] = c THEN NoDoc ELSE OfficialOf(i)[d]
  <2>1. /\ \A a, b \in ReleasedOn(i, d) : a = b
        /\ \A o \in Revs : OfficialOf(i)[d] = o <=> o \in ReleasedOn(i, d)
        /\ OfficialOf(i)[d] \in Revs \cup {NoDoc}
        /\ OfficialOf(i)[d] = NoDoc <=> ReleasedOn(i, d) = {}
    BY <1>1, OneOfficial
  <2>2. r \notin ReleasedOn(i, d)
    BY <1>1 DEF ReleasedOn
  <2>3. /\ d \in S => ReleasedOn(i, d)' = {r}
        /\ d \notin S => ReleasedOn(i, d)' = ReleasedOn(i, d) \ {c}
    <3>1. ReleasedOn(i, d)' = (ReleasedOn(i, d) \ {c}) \cup {q \in {r} : ItemOf[q] = i /\ Covers(NewRow(x), d)}
      BY <1>1, ReleasedAfter
    <3>2. CASE d \in S
      BY <1>3, <3>1, <3>2
    <3>3. CASE d \notin S
      BY <3>1, <3>3
    <3> QED
      BY <3>2, <3>3
  <2>4. OfficialOf(i)'[d] = IF ReleasedOn(i, d)' = {} THEN NoDoc ELSE CHOOSE o \in ReleasedOn(i, d)' : TRUE
    BY DEF OfficialOf
  <2>5. d \in S => OfficialOf(i)'[d] = r
    BY <2>3, <2>4
  <2>6. d \in S => OfficialOf(i)[d] \in {NoDoc, c}
    BY <1>3, <2>1
  <2>7. OfficialOf(i)[d] # r
    BY <1>1, <2>1, <2>2
  <2>8. ASSUME d \notin S
        PROVE  OfficialOf(i)'[d] = IF OfficialOf(i)[d] = c THEN NoDoc ELSE OfficialOf(i)[d]
    <3>1. CASE ReleasedOn(i, d) = {}
      BY <2>1, <2>3, <2>4, <2>8, <3>1
    <3>2. ASSUME NEW o \in ReleasedOn(i, d)
          PROVE  OfficialOf(i)'[d] = IF OfficialOf(i)[d] = c THEN NoDoc ELSE OfficialOf(i)[d]
      <4>1. ReleasedOn(i, d) = {o} /\ o \in Revs /\ OfficialOf(i)[d] = o
        BY <2>1, <3>2 DEF ReleasedOn
      <4>2. CASE o = c
        <5>1. ReleasedOn(i, d)' = {}
          BY <2>3, <2>8, <4>1, <4>2
        <5> QED
          BY <2>4, <4>1, <4>2, <5>1
      <4>3. CASE o # c
        <5>1. ReleasedOn(i, d)' = {o}
          BY <2>3, <2>8, <4>1, <4>3
        <5> QED
          BY <2>4, <4>1, <4>3, <5>1
      <4> QED
        BY <4>2, <4>3
    <3> QED
      BY <3>1, <3>2
  <2> QED
    BY <2>5, <2>6, <2>7, <2>8
<1>5. OfficialOf(i)' = [d \in Days |-> OfficialOf(i)'[d]]
  BY DEF OfficialOf
<1>6. OfficialOf(i)' = [d \in Days |-> IF d \in S THEN r
                                       ELSE IF OfficialOf(i)[d] = c THEN NoDoc ELSE OfficialOf(i)[d]]
  BY <1>4, <1>5
<1>7. S \in SUBSET Days
  OBVIOUS
<1> HIDE DEF S
<1>8. /\ \A d \in S : OfficialOf(i)[d] \in {NoDoc, c}
      /\ \A d \in Days : OfficialOf(i)[d] # r
  BY <1>4, <1>7
<1>9. Official(i)!Publish(r, S, c)
  BY <1>2, <1>6, <1>8 DEF Official!Publish
<1> QED
  BY <1>1, <1>7, <1>9 DEF Official!Next

LEMMA OfficialSteps ==
    ASSUME ReleaseInv, Undisturbed, NEW x \in AnyWorker, Step(x), NEW i \in Items
    PROVE  Official(i)!Next \/ OfficialOf(i)' = OfficialOf(i)
<1> LockInv /\ Disjoint /\ Fresh(x) /\ rev \in [Revs -> Rows]
  BY DEF ReleaseInv, LockInv, ItemTypeOK
<1>1. CASE Quiet
  <2>1. \A d \in Days : ReleasedOn(i, d)' = ReleasedOn(i, d)
    BY <1>1 DEF Quiet, ReleasedOn, LOCKED_STATUSES
  <2> QED
    BY <2>1, SameOfficial
<1>2. ASSUME NEW q \in Revs, Retires(q) PROVE Official(i)!Next
  <2>1. rev'[q].status = "obsolete" /\ \A o \in Revs \ {q} : rev'[o] = rev[o]
    BY <1>2 DEF Retires, Rows
  <2>2. \A d \in Days : ReleasedOn(i, d)' = ReleasedOn(i, d) \ {q}
    BY <2>1 DEF ReleasedOn
  <2>3. ASSUME NEW d \in Days
        PROVE  OfficialOf(i)'[d] = IF OfficialOf(i)[d] = q THEN NoDoc ELSE OfficialOf(i)[d]
    <3>1. /\ \A a, b \in ReleasedOn(i, d) : a = b
          /\ \A o \in Revs : OfficialOf(i)[d] = o <=> o \in ReleasedOn(i, d)
          /\ OfficialOf(i)[d] = NoDoc <=> ReleasedOn(i, d) = {}
      BY OneOfficial
    <3>2. OfficialOf(i)'[d] = IF ReleasedOn(i, d)' = {} THEN NoDoc ELSE CHOOSE o \in ReleasedOn(i, d)' : TRUE
      BY DEF OfficialOf
    <3>3. OfficialOf(i)[d] = IF ReleasedOn(i, d) = {} THEN NoDoc ELSE CHOOSE o \in ReleasedOn(i, d) : TRUE
      BY DEF OfficialOf
    <3>4. CASE q \in ReleasedOn(i, d)
      <4>1. ReleasedOn(i, d)' = {} /\ OfficialOf(i)[d] = q
        BY <2>2, <3>1, <3>4
      <4> QED
        BY <3>2, <4>1
    <3>5. CASE q \notin ReleasedOn(i, d)
      <4>1. ReleasedOn(i, d)' = ReleasedOn(i, d) /\ OfficialOf(i)[d] # q
        BY <2>2, <3>1, <3>5
      <4> QED
        BY <3>2, <3>3, <4>1
    <3> QED
      BY <3>4, <3>5
  <2>4. OfficialOf(i)' = [d \in Days |-> OfficialOf(i)'[d]]
    BY DEF OfficialOf
  <2>5. Official(i)!Withdraw(q)
    BY <2>3, <2>4 DEF Official!Withdraw
  <2> QED
    BY <2>5 DEF Official!Next
<1>3. CASE Release(x)
  <2>1. CASE ItemOf[call[x].doc] = i
    BY <1>3, <2>1, PublishStep
  <2>2. CASE ItemOf[call[x].doc] # i
    <3>1. ASSUME NEW d \in Days PROVE ReleasedOn(i, d)' = ReleasedOn(i, d)
      <4>1. call[x].cur \notin ReleasedOn(i, d)
        BY <1>3, <2>2, ReleaseEffects, NoDocAssumption DEF ReleasedOn, Supersedes
      <4> QED
        BY <1>3, <2>2, <4>1, ReleasedAfter
    <3> QED
      BY <3>1, SameOfficial
  <2> QED
    BY <2>1, <2>2
<1> QED
  BY StepKinds, <1>1, <1>2, <1>3

\* Seen from outside, releases publish a revision on days that were free or
\* that it takes over from the one it supersedes, and nothing else appears.
THEOREM OfficialRevisions == ItemSpec => ImplementsOfficial
<1> DEFINE Kept == Undisturbed => \A i \in Items : Official(i)!Next \/ OfficialOf(i)' = OfficialOf(i)
<1>1. ReleaseInv /\ [ItemNext]_itemVars => [Kept]_rev
  BY StepCases, OfficialSteps DEF ReleaseInv, LockInv, itemVars
<1>2. [][Kept]_rev <=> ImplementsOfficial
  BY DEF Kept, ImplementsOfficial
<1> HIDE DEF Kept
<1> QED
  BY ReleaseInit, ReleaseInvKept, <1>1, <1>2, PTL DEF ItemSpec

-----------------------------------------------------------------------------
(***************************************************************************)
(* Bills of material.  A release holds its BOM, so two releases of one BOM *)
(* come one after the other; updates hold nothing, and are kept out by     *)
(* BomUndisturbed.                                                         *)
(***************************************************************************)

(* Steps on item revisions, among those of the other documents *)

LEMMA ItemStepCases ==
    ASSUME ItemTypeOK, NEW w \in AnyWorker, ItemStep(w)
    PROVE  \E x \in AnyWorker :
             /\ Step(x)
             /\ Going(x) \/ (bomCall[x] = IdleBomCall /\ opcCall[x] = IdleOpcCall)
<1>1. Referenced \in SUBSET Revs
  BY DEF Referenced
<1> HIDE DEF Referenced
<1> QED
  BY <1>1, StartCases, ContinueCases DEF ItemStep, Step

\* Served with BOMs and charts, item revisions go through what ItemRelease
\* allows them by themselves.
LEMMA ItemSteps == [Next]_vars => [ItemNext]_itemVars
<1> SUFFICES ASSUME [Next]_vars, ~UNCHANGED itemVars PROVE ItemNext
  OBVIOUS
<1>1. PICK w \in AnyWorker : ItemStep(w)
  BY DEF Next, BomStep, OpcStep, vars
<1>2. Referenced \in SUBSET Revs
  BY DEF Referenced
<1> HIDE DEF Referenced
<1>3. ItemStarts(w) \/ Continued(w)
  BY <1>1, <1>2 DEF ItemStep, Continued
<1> QED
  BY <1>3 DEF ItemNext

-----------------------------------------------------------------------------------
(* Steps on bills of material *)

\* What an update that was read, and is not yet saved, relies on.
FreshEdit(c) ==
    /\ c.kind = "patch" =>
        /\ c.copy.status = bomRev[c.doc].status
        /\ bomRev[c.doc].status \in LOCKED_STATUSES => c.copy = bomRev[c.doc]
    /\ c.kind = "destroy" => bomRev[c.doc].status = "draft"
    /\ c.kind = "line" =>
        \A p \in c.removes \cup c.adds : bomRev[p[1]].status \notin LOCKED_STATUSES

Edits(x, c) ==
    /\ bomCall[x] = IdleBomCall /\ call[x] = IdleCall /\ opcCall[x] = IdleOpcCall
    /\ x \in Workers /\ c.kind \in deployment.bomKinds
    /\ c.step = "edit" /\ c.doc \in BomRevs /\ FreshEdit(c)
    /\ bomCall' = [bomCall EXCEPT ![x] = c]
    /\ UNCHANGED <<parent, bomRev, lines, releases>>

Adds(x, b, row, components) ==
    /\ bomCall[x] = IdleBomCall
    /\ ~BomExists(b) /\ row.status = "draft"
    /\ ParentOf(b) # NoDoc \/ \E o \in BomRevs : BomOf[o] = BomOf[b] /\ BomExists(o)
    /\ bomRev' = [bomRev EXCEPT ![b] = row]
    /\ lines' = [lines EXCEPT ![b] = components]
    /\ UNCHANGED <<parent, releases, bomCall>>

Reparents(x, m, p) ==
    /\ bomCall[x] = IdleBomCall
    /\ \/ parent[m] = NoDoc
       \/ BomFree(m) /\ \A b \in BomRevs : BomOf[b] = m => ~BomExists(b)
       \/ "parent" \in deployment.bomKinds
    /\ parent' = [parent EXCEPT ![m] = p]
    /\ UNCHANGED <<bomRev, lines, releases, bomCall>>

Validates(x) ==
    /\ bomCall[x] = IdleBomCall /\ call[x] = IdleCall /\ opcCall[x] = IdleOpcCall
    /\ \E kind \in ReleaseKinds, b \in BomRevs, day \in Days \cup {None} : BomValidate(x, kind, b, day)

BomAct(x) ==
    \/ \E kind \in MoveKinds, b \in BomRevs : BomMove(x, kind, b)
    \/ Validates(x)
    \/ \E b \in BomRevs, row \in Rows, components \in SUBSET Revs : Adds(x, b, row, components)
    \/ \E m \in Boms, p \in Revs \cup {NoDoc} : Reparents(x, m, p)
    \/ \E c \in BomCalls : Edits(x, c)
    \/ BomContinues(x)

BomTyped ==
    /\ parent \in [Boms -> Revs \cup {NoDoc}]
    /\ bomRev \in [BomRevs -> Rows] /\ lines \in [BomRevs -> SUBSET Revs]
    /\ releases \in Seq(BomRevs) /\ bomCall \in [AnyWorker -> BomCalls]

LEMMA IdleBomTyped == IdleBomCall \in BomCalls
BY MaxDayAssumption DEF IdleBomCall, BomCalls, BomKinds, Absent, Rows, Statuses

LEMMA EditCases ==
    ASSUME BomTyped, NEW x \in AnyWorker, NEW kind \in BomKinds, NEW b \in BomRevs, NEW row \in Rows,
           NEW removes \in SUBSET (BomRevs \X Revs), NEW adds \in SUBSET (BomRevs \X Revs),
           BomEdit(x, kind, b, row, removes, adds), Idle(x), opcCall[x] = IdleOpcCall,
           kind = "patch" => /\ row.status = bomRev[b].status
                             /\ bomRev[b].status \in LOCKED_STATUSES => row = bomRev[b],
           kind = "destroy" => bomRev[b].status = "draft",
           kind = "line" => \A p \in removes \cup adds : bomRev[p[1]].status \notin LOCKED_STATUSES
    PROVE  \E c \in BomCalls : Edits(x, c)
<1> DEFINE c == [IdleBomCall EXCEPT !.step = "edit", !.kind = kind, !.doc = b, !.copy = row,
                                    !.removes = removes, !.adds = adds]
<1>1. /\ c \in BomCalls /\ c.step = "edit" /\ c.kind = kind /\ c.doc = b /\ c.copy = row
      /\ c.removes = removes /\ c.adds = adds
  BY MaxDayAssumption DEF IdleBomCall, BomCalls, Absent, Rows, Statuses
<1>2. bomCall' = [bomCall EXCEPT ![x] = c] /\ BomServes(x, kind) /\ UNCHANGED <<parent, bomRev, lines, releases>>
  BY DEF BomEdit
<1> HIDE DEF c
<1>3. FreshEdit(c)
  BY <1>1 DEF FreshEdit
<1>4. Edits(x, c)
  BY <1>1, <1>2, <1>3 DEF Edits, BomServes, Idle
<1> QED
  BY <1>1, <1>4

LEMMA BomCases ==
    ASSUME ItemTypeOK, BomTyped, NEW x \in AnyWorker, BomStep(x)
    PROVE  BomAct(x)
<1> bomRev \in [BomRevs -> Rows] /\ lines \in [BomRevs -> SUBSET Revs]
  BY DEF BomTyped
<1>1. deployment.bomDocs \subseteq BomRevs /\ deployment.bomKinds \subseteq BomKinds
  BY BomDeploymentsAssumption DEF ItemTypeOK
<1>2. CASE BomContinues(x)
  BY <1>2 DEF BomAct
<1>3. CASE BomStarts(x) /\ Idle(x) /\ opcCall[x] = IdleOpcCall
  <2>1. PICK b \in BomRevs :
        \/ \E kind \in MoveKinds : BomMove(x, kind, b)
        \/ \E kind \in ReleaseKinds, day \in Days \cup {None} : BomValidate(x, kind, b, day)
        \/ \E from, to \in Days \cup {None} :
            CreateBomRevision(x, b, from, to) \/ ReadBomPatch(x, b, from, to)
        \/ \E n \in BomRevs : BomClone(x, b, n)
        \/ ReadBomDestroy(x, b)
        \/ DestroyBom(x, BomOf[b])
        \/ \E r \in Revs : \/ CreateBom(x, BomOf[b], r) \/ BomParent(x, BomOf[b], r)
                          \/ ReadLine(x, b, r)
        \/ \E c, c2 \in Revs, b2 \in BomRevs : ReadMoveLine(x, b, c, b2, c2)
    BY <1>1, <1>3 DEF BomStarts
  <2>2. ASSUME NEW kind \in ReleaseKinds, NEW day \in Days \cup {None}, BomValidate(x, kind, b, day)
        PROVE  BomAct(x)
    <3>1. Validates(x)
      BY <1>3, <2>2 DEF Validates, BomValidate, BomServes, Idle
    <3> QED
      BY <3>1 DEF BomAct
  <2>3. ASSUME NEW from \in Days \cup {None}, NEW to \in Days \cup {None}, CreateBomRevision(x, b, from, to)
        PROVE  BomAct(x)
    <3>1. [status |-> "draft", from |-> from, to |-> to] \in Rows
      BY DEF Rows, Statuses
    <3>2. Adds(x, b, [status |-> "draft", from |-> from, to |-> to], {})
      BY <2>3 DEF CreateBomRevision, Adds, BomServes
    <3>3. {} \in SUBSET Revs
      OBVIOUS
    <3> QED
      BY <3>1, <3>2, <3>3 DEF BomAct
  <2>4. ASSUME NEW from \in Days \cup {None}, NEW to \in Days \cup {None}, ReadBomPatch(x, b, from, to)
        PROVE  BomAct(x)
    <3> DEFINE row == [bomRev[b] EXCEPT !.from = from, !.to = to]
    <3>1. row \in Rows /\ row.status = bomRev[b].status
      BY DEF Rows
    <3>2. /\ bomRev[b].status \in LOCKED_STATUSES => row = bomRev[b]
          /\ BomEdit(x, "patch", b, row, {}, {})
      BY <2>4 DEF ReadBomPatch
    <3> HIDE DEF row
    <3>3. "patch" \in BomKinds /\ {} \in SUBSET (BomRevs \X Revs) /\ Idle(x) /\ opcCall[x] = IdleOpcCall
      BY <1>3 DEF BomKinds
    <3>4. \E c \in BomCalls : Edits(x, c)
      BY <3>1, <3>2, <3>3, EditCases
    <3> QED
      BY <3>4 DEF BomAct
  <2>5. ASSUME NEW n \in BomRevs, BomClone(x, b, n) PROVE BomAct(x)
    <3>1. [Absent EXCEPT !.status = "draft"] \in Rows /\ [Absent EXCEPT !.status = "draft"].status = "draft"
      BY DEF Rows, Statuses, Absent
    <3>2. Adds(x, n, [Absent EXCEPT !.status = "draft"], lines[b])
      BY <2>5, <3>1 DEF BomClone, Adds, BomServes
    <3>3. lines[b] \in SUBSET Revs
      OBVIOUS
    <3> QED
      BY <3>1, <3>2, <3>3 DEF BomAct
  <2>6. ASSUME ReadBomDestroy(x, b) PROVE BomAct(x)
    <3>1. Absent \in Rows
      BY DEF Rows, Statuses, Absent
    <3>2. "destroy" \in BomKinds /\ {} \in SUBSET (BomRevs \X Revs) /\ Idle(x) /\ opcCall[x] = IdleOpcCall
      BY <1>3 DEF BomKinds
    <3>3. bomRev[b].status = "draft" /\ BomEdit(x, "destroy", b, Absent, {}, {})
      BY <2>6 DEF ReadBomDestroy
    <3>4. \E c \in BomCalls : Edits(x, c)
      BY <3>1, <3>2, <3>3, EditCases
    <3> QED
      BY <3>4 DEF BomAct
  <2>7. ASSUME DestroyBom(x, BomOf[b]) PROVE BomAct(x)
    <3>1. BomOf[b] \in Boms /\ Reparents(x, BomOf[b], NoDoc)
      BY <2>7, BomOfAssumption DEF DestroyBom, Reparents, BomServes
    <3> QED
      BY <3>1 DEF BomAct
  <2>8. ASSUME NEW r \in Revs, CreateBom(x, BomOf[b], r) \/ BomParent(x, BomOf[b], r) PROVE BomAct(x)
    <3>1. BomOf[b] \in Boms /\ Reparents(x, BomOf[b], r)
      BY <2>8, BomOfAssumption DEF CreateBom, BomParent, Reparents, BomServes
    <3> QED
      BY <3>1 DEF BomAct
  <2>9. ASSUME NEW r \in Revs, ReadLine(x, b, r) PROVE BomAct(x)
    <3>1. Absent \in Rows
      BY DEF Rows, Statuses, Absent
    <3>2. PICK removes \in {{}, {<<b, r>>}}, adds \in {{}, {<<b, r>>}} : BomEdit(x, "line", b, Absent, removes, adds)
      BY <2>9 DEF ReadLine
    <3>3. /\ \A p \in removes \cup adds : p = <<b, r>>
          /\ removes \in SUBSET (BomRevs \X Revs) /\ adds \in SUBSET (BomRevs \X Revs)
      OBVIOUS
    <3>4. \A p \in removes \cup adds : bomRev[p[1]].status \notin LOCKED_STATUSES
      BY <2>9, <3>3 DEF ReadLine
    <3>5. \E c \in BomCalls : Edits(x, c)
      BY <1>3, <3>1, <3>2, <3>3, <3>4, EditCases DEF BomKinds
    <3> QED
      BY <3>5 DEF BomAct
  <2>10. ASSUME NEW c \in Revs, NEW c2 \in Revs, NEW b2 \in BomRevs, ReadMoveLine(x, b, c, b2, c2) PROVE BomAct(x)
    <3>1. Absent \in Rows
      BY DEF Rows, Statuses, Absent
    <3>2. "move line" \in BomKinds /\ Idle(x) /\ opcCall[x] = IdleOpcCall
      BY <1>3 DEF BomKinds
    <3>3. {<<b, c>>} \in SUBSET (BomRevs \X Revs) /\ {<<b2, c2>>} \in SUBSET (BomRevs \X Revs)
      OBVIOUS
    <3>4. BomEdit(x, "move line", b, Absent, {<<b, c>>}, {<<b2, c2>>})
      BY <2>10 DEF ReadMoveLine
    <3>5. \E e \in BomCalls : Edits(x, e)
      BY <3>1, <3>2, <3>3, <3>4, EditCases
    <3> QED
      BY <3>5 DEF BomAct
  <2> QED
    BY <2>1, <2>2, <2>3, <2>4, <2>5, <2>6, <2>7, <2>8, <2>9, <2>10 DEF BomAct
<1> QED
  BY <1>2, <1>3 DEF BomStep

-----------------------------------------------------------------------------------
(* Types and locks, whatever is served *)

\* The row as the release will leave it.
NewBom(w) == Dated(bomRev[bomCall[w].doc], bomCall[w].day)

ReadyBom(w) ==
    LET b == bomCall[w].doc IN
    /\ bomRev[b].status = "approved"
    /\ NewBom(w).from # None /\ ValidPeriod(NewBom(w))
    /\ \A c \in bomCall[w].cur :
        /\ c \in BomRevs \ {b} /\ BomOf[c] = BomOf[b]
        /\ bomRev[c].status = "released" /\ bomRev[c].to = None
        /\ bomRev[c].from # None /\ bomRev[c].from < NewBom(w).from

\* A thread does one thing at a time.
BomKnows(w) ==
    /\ bomCall[w].step # "idle" =>
        /\ w \in Workers /\ bomCall[w].kind \in deployment.bomKinds /\ bomCall[w].doc \in BomRevs
        /\ call[w] = IdleCall /\ opcCall[w] = IdleOpcCall
    /\ BomAt(w, "ready") => ReadyBom(w)

BomLocks ==
    \A v, w \in AnyWorker :
        /\ BomAt(v, "ready") /\ BomAt(w, "ready") /\ BomOf[bomCall[v].doc] = BomOf[bomCall[w].doc]
        => v = w

OpcCallsTotal == opcCall = [w \in AnyWorker |-> opcCall[w]]

BomBase == ItemTypeOK /\ BomTyped /\ OpcCallsTotal /\ BomLocks /\ \A w \in AnyWorker : BomKnows(w)

LEMMA BomCallEffects ==
    ASSUME BomBase, NEW x \in AnyWorker, BomAct(x)
    PROVE  /\ bomCall' = [bomCall EXCEPT ![x] = bomCall'[x]]
           /\ \A v \in AnyWorker \ {x} : bomCall'[v] = bomCall[v]
<1> bomCall \in [AnyWorker -> BomCalls]
  BY DEF BomBase, BomTyped
<1>1. ASSUME NEW c, bomCall' = [bomCall EXCEPT ![x] = c]
      PROVE  /\ bomCall' = [bomCall EXCEPT ![x] = bomCall'[x]]
             /\ \A v \in AnyWorker \ {x} : bomCall'[v] = bomCall[v]
  BY <1>1
<1>2. bomCall' = bomCall \/ \E c : bomCall' = [bomCall EXCEPT ![x] = c]
  <2>1. CASE BomContinues(x)
    BY <2>1 DEF BomContinues, PublishBom, SaveBomPatch, BomDestroy, SaveLine, BomFinish
  <2>2. CASE Validates(x)
    BY <2>2 DEF Validates, BomValidate
  <2> QED
    BY <2>1, <2>2 DEF BomAct, BomMove, Adds, Reparents, Edits
<1> QED
  BY <1>1, <1>2

\* A row changes under its lock, by an update that waited for the lock, or comes to be.
LEMMA BomRowEffects ==
    ASSUME BomBase, NEW x \in AnyWorker, BomAct(x), NEW o \in BomRevs
    PROVE  bomRev'[o] = bomRev[o] \/ HoldsBomRev(x, o) \/ ~BomExists(o) \/ BomRevFree(o)
<1> bomRev \in [BomRevs -> Rows]
  BY DEF BomBase, BomTyped
<1>1. ASSUME NEW kind, NEW b, BomMove(x, kind, b) PROVE bomRev'[o] = bomRev[o] \/ BomRevFree(o)
  BY <1>1 DEF BomMove, RowsFree
<1>2. ASSUME NEW b, NEW row, NEW components, Adds(x, b, row, components)
      PROVE  bomRev'[o] = bomRev[o] \/ ~BomExists(o)
  BY <1>2 DEF Adds
<1>3. CASE Validates(x) \/ (\E m, p : Reparents(x, m, p)) \/ \E c : Edits(x, c)
  BY <1>3 DEF Validates, BomValidate, Reparents, Edits
<1>4. CASE PublishBom(x)
  BY <1>4 DEF PublishBom, HoldsBomRev
<1>5. CASE SaveBomPatch(x) \/ BomDestroy(x) \/ SaveLine(x)
  BY <1>5 DEF SaveBomPatch, BomDestroy, SaveLine
<1> QED
  BY <1>1, <1>2, <1>3, <1>4, <1>5 DEF BomAct, BomContinues

\* What the validation of a release finds.
LEMMA BomValidated ==
    ASSUME BomBase, NEW x \in AnyWorker, NEW kind \in ReleaseKinds, NEW b \in BomRevs, NEW day \in Days \cup {None},
           BomValidate(x, kind, b, day)
    PROVE  /\ bomCall'[x] \in BomCalls /\ bomCall'[x].step = "ready" /\ bomCall'[x].kind = kind
           /\ bomCall'[x].doc = b /\ bomCall'[x].cur = CurrentBom(b) /\ bomCall'[x].day = day
           /\ x \in Workers /\ kind \in deployment.bomKinds
           /\ ReadyBom(x)' /\ NewBom(x)' = Dated(bomRev[b], day)
           /\ UNCHANGED <<parent, bomRev, lines, releases>>
<1> bomCall \in [AnyWorker -> BomCalls] /\ bomRev \in [BomRevs -> Rows]
  BY DEF BomBase, BomTyped
<1> DEFINE cur == CurrentBom(b)
           c == [IdleBomCall EXCEPT !.step = "ready", !.kind = kind, !.doc = b, !.cur = cur, !.day = day]
<1>1. bomCall' = [bomCall EXCEPT ![x] = c] /\ UNCHANGED <<parent, bomRev, lines, releases>>
  BY DEF BomValidate
<1>2. cur \subseteq {o \in BomRevs \ {b} : BomOf[o] = BomOf[b] /\ bomRev[o].status = "released" /\ bomRev[o].to = None}
  BY DEF CurrentBom, Latest
<1>3. /\ "released" \in TRANSITIONS[bomRev[b].status] /\ BomValid(b, Dated(bomRev[b], day), cur)
      /\ ValidPeriod(Dated(bomRev[b], day)) /\ x \in Workers /\ kind \in deployment.bomKinds
      /\ \A o \in cur : bomRev[o].from # None /\ bomRev[o].from < Dated(bomRev[b], day).from
  BY DEF BomValidate, BomServes
<1> HIDE DEF cur
<1>4. /\ c \in BomCalls /\ c.step = "ready" /\ c.kind = kind /\ c.doc = b /\ c.cur = cur /\ c.day = day
  BY <1>2, MaxDayAssumption DEF IdleBomCall, BomCalls, BomKinds, Absent, Rows, Statuses
<1> HIDE DEF c
<1>5. bomCall'[x] = c
  BY <1>1
<1>6. bomRev[b].status = "approved" /\ Dated(bomRev[b], day).from # None
  BY <1>3, ApprovedBefore DEF BomValid, Rows
<1>7. NewBom(x)' = Dated(bomRev[b], day)
  BY <1>1, <1>4, <1>5 DEF NewBom
<1>8. ReadyBom(x)'
  BY <1>1, <1>2, <1>3, <1>4, <1>5, <1>6, <1>7 DEF ReadyBom
<1> QED
  BY <1>1, <1>3, <1>4, <1>5, <1>7, <1>8 DEF cur

\* What the release does.
LEMMA BomPublished ==
    ASSUME BomBase, NEW x \in AnyWorker, PublishBom(x)
    PROVE  /\ ReadyBom(x) /\ BomAt(x, "ready") /\ bomCall[x].doc \in BomRevs
           /\ NewBom(x) \in Rows /\ NewBom(x).from \in Days
           /\ bomRev'[bomCall[x].doc] = [NewBom(x) EXCEPT !.status = "released"]
           /\ \A c \in bomCall[x].cur : bomRev'[c] = Superseded(bomRev[c], NewBom(x).from)
           /\ \A o \in BomRevs \ ({bomCall[x].doc} \cup bomCall[x].cur) : bomRev'[o] = bomRev[o]
           /\ bomRev' \in [BomRevs -> Rows]
<1> DEFINE b == bomCall[x].doc cur == bomCall[x].cur
<1>1. /\ bomCall \in [AnyWorker -> BomCalls] /\ bomRev \in [BomRevs -> Rows] /\ BomKnows(x) /\ BomAt(x, "ready")
  BY DEF BomBase, BomTyped, PublishBom
<1>2. ReadyBom(x) /\ b \in BomRevs /\ bomCall[x].day \in Days \cup {None} /\ cur \subseteq BomRevs
  BY <1>1 DEF BomKnows, BomAt, BomCalls
<1>3. NewBom(x) \in Rows /\ NewBom(x).from \in Days
  <2>1. NewBom(x) \in Rows
    BY <1>1, <1>2, DatedTyped DEF NewBom
  <2> QED
    BY <1>2, <2>1 DEF ReadyBom, Rows
<1>4. bomRev' = [o \in BomRevs |-> CASE o = b -> [NewBom(x) EXCEPT !.status = "released"]
                                     [] o \in cur -> Superseded(bomRev[o], NewBom(x).from)
                                     [] OTHER -> bomRev[o]]
  BY DEF PublishBom, NewBom
<1>5. b \notin cur
  BY <1>2 DEF ReadyBom
<1>6. [NewBom(x) EXCEPT !.status = "released"] \in Rows
  BY <1>3 DEF Rows, Statuses
<1>7. ASSUME NEW o \in BomRevs PROVE Superseded(bomRev[o], NewBom(x).from) \in Rows
  <2>1. NewBom(x).from - 1 \in Days \cup {None}
    BY <1>3, MaxDayAssumption DEF Days, None
  <2> QED
    BY <1>1, <2>1 DEF Superseded, Rows, Statuses
<1>8. bomRev'[b] = [NewBom(x) EXCEPT !.status = "released"]
  BY <1>2, <1>4, <1>5
<1>9. \A c \in cur : bomRev'[c] = Superseded(bomRev[c], NewBom(x).from)
  BY <1>2, <1>4, <1>5
<1>10. \A o \in BomRevs \ ({b} \cup cur) : bomRev'[o] = bomRev[o]
  BY <1>4
<1>11. bomRev' \in [BomRevs -> Rows]
  BY <1>1, <1>4, <1>6, <1>7
<1> QED
  BY <1>1, <1>2, <1>3, <1>8, <1>9, <1>10, <1>11

LEMMA HeldBomStays ==
    ASSUME BomBase, NEW x \in AnyWorker, BomAct(x), NEW v \in AnyWorker \ {x}
    PROVE  /\ \A o \in BomRevs : HoldsBomRev(v, o) => bomRev'[o] = bomRev[o]
           /\ BomKnows(v) /\ call' = call /\ opcCall' = opcCall /\ deployment' = deployment => BomKnows(v)'
<1>1. bomCall'[v] = bomCall[v]
  BY BomCallEffects
<1>2. ASSUME NEW w \in AnyWorker, NEW o \in BomRevs, HoldsBomRev(w, o)
      PROVE  BomAt(w, "ready") /\ BomOf[o] = BomOf[bomCall[w].doc] /\ BomExists(o)
  BY <1>2 DEF HoldsBomRev, BomBase, BomKnows, ReadyBom, BomExists
<1>3. ASSUME NEW o \in BomRevs, HoldsBomRev(v, o) PROVE bomRev'[o] = bomRev[o]
  <2>1. ~HoldsBomRev(x, o)
    BY <1>2, <1>3 DEF BomBase, BomLocks
  <2> QED
    BY <1>2, <1>3, <2>1, BomRowEffects DEF BomRevFree
<1>4. ASSUME BomAt(v, "ready") PROVE ReadyBom(v)'
  <2>1. ReadyBom(v) /\ bomCall[v].doc \in BomRevs
    BY <1>4 DEF BomBase, BomKnows, BomAt
  <2>2. bomRev'[bomCall[v].doc] = bomRev[bomCall[v].doc]
    BY <1>3, <1>4, <2>1 DEF HoldsBomRev
  <2>3. \A c \in bomCall[v].cur : bomRev'[c] = bomRev[c]
    BY <1>3, <1>4, <2>1 DEF HoldsBomRev, ReadyBom
  <2>4. NewBom(v)' = NewBom(v)
    BY <1>1, <2>2 DEF NewBom
  <2> QED
    BY <1>1, <2>1, <2>2, <2>3, <2>4 DEF ReadyBom
<1> QED
  BY <1>1, <1>3, <1>4 DEF BomKnows, BomAt, Workers

LEMMA BomTypedNext ==
    ASSUME BomBase, NEW x \in AnyWorker, BomAct(x)
    PROVE  BomTyped'
<1> /\ parent \in [Boms -> Revs \cup {NoDoc}] /\ bomRev \in [BomRevs -> Rows]
    /\ lines \in [BomRevs -> SUBSET Revs] /\ releases \in Seq(BomRevs) /\ bomCall \in [AnyWorker -> BomCalls]
  BY DEF BomBase, BomTyped
<1>1. ASSUME BomFinish(x) PROVE bomCall' \in [AnyWorker -> BomCalls]
  BY <1>1, IdleBomTyped DEF BomFinish
<1>2. ASSUME NEW kind \in MoveKinds, NEW b \in BomRevs, BomMove(x, kind, b) PROVE BomTyped'
  <2>1. Moves[kind] \in Statuses
    BY DEF MoveKinds, Moves, Statuses
  <2> HIDE DEF MoveKinds, Moves
  <2> QED
    BY <1>2, <2>1 DEF BomMove, BomTyped, Rows
<1>3. CASE Validates(x)
  <2>1. bomCall'[x] \in BomCalls /\ UNCHANGED <<parent, bomRev, lines, releases>>
    BY <1>3, BomValidated DEF Validates
  <2> QED
    BY <2>1, BomCallEffects DEF BomTyped
<1>4. ASSUME NEW b \in BomRevs, NEW row \in Rows, NEW components \in SUBSET Revs, Adds(x, b, row, components)
      PROVE  BomTyped'
  BY <1>4 DEF Adds, BomTyped
<1>5. ASSUME NEW m \in Boms, NEW p \in Revs \cup {NoDoc}, Reparents(x, m, p) PROVE BomTyped'
  BY <1>5 DEF Reparents, BomTyped
<1>6. ASSUME NEW c \in BomCalls, Edits(x, c) PROVE BomTyped'
  BY <1>6 DEF Edits, BomTyped
<1>7. CASE PublishBom(x)
  <2>1. bomRev' \in [BomRevs -> Rows] /\ bomCall[x].doc \in BomRevs
    BY <1>7, BomPublished
  <2>2. releases' = Append(releases, bomCall[x].doc) /\ UNCHANGED <<parent, lines>> /\ BomFinish(x)
    BY <1>7 DEF PublishBom
  <2>3. releases' \in Seq(BomRevs)
    BY <2>1, <2>2
  <2> QED
    BY <1>1, <2>1, <2>2, <2>3 DEF BomTyped
<1>8. CASE SaveBomPatch(x)
  BY <1>1, <1>8 DEF SaveBomPatch, BomTyped, BomCalls
<1>9. CASE BomDestroy(x)
  <2>1. Absent \in Rows
    BY DEF Rows, Statuses, Absent
  <2> QED
    BY <1>1, <1>9, <2>1 DEF BomDestroy, BomTyped
<1>10. CASE SaveLine(x)
  <2>1. lines' \in [BomRevs -> SUBSET Revs]
    BY <1>10 DEF SaveLine
  <2> QED
    BY <1>1, <1>10, <2>1 DEF SaveLine, BomTyped
<1> QED
  BY <1>2, <1>3, <1>4, <1>5, <1>6, <1>7, <1>8, <1>9, <1>10 DEF BomAct, BomContinues

LEMMA BomBaseByBom ==
    ASSUME BomBase, NEW x \in AnyWorker, BomStep(x)
    PROVE  BomBase'
<1>1. BomAct(x)
  BY BomCases DEF BomBase
<1>2. UNCHANGED <<itemVars, opcVars>>
  BY DEF BomStep
<1>3. ItemTypeOK' /\ BomTyped' /\ OpcCallsTotal'
  BY <1>1, <1>2, BomTypedNext DEF BomBase, ItemTypeOK, OpcCallsTotal, itemVars, opcVars
<1>4. bomCall \in [AnyWorker -> BomCalls] /\ \A v \in AnyWorker \ {x} : bomCall'[v] = bomCall[v]
  BY <1>1, BomCallEffects DEF BomBase, BomTyped
<1>5. \A v \in AnyWorker \ {x} : BomKnows(v)'
  BY <1>1, <1>2, HeldBomStays DEF BomBase, itemVars, opcVars
<1>6. ASSUME bomCall'[x].step = "idle" PROVE BomKnows(x)' /\ BomLocks'
  BY <1>4, <1>6 DEF BomBase, BomKnows, BomLocks, BomAt
<1>7. ASSUME BomFinish(x) PROVE BomKnows(x)' /\ BomLocks'
  <2>1. bomCall'[x].step = "idle"
    BY <1>4, <1>7 DEF BomFinish, IdleBomCall
  <2> QED
    BY <1>6, <2>1
<1>8. ASSUME bomCall' = bomCall, bomCall[x] = IdleBomCall PROVE BomKnows(x)' /\ BomLocks'
  BY <1>6, <1>8 DEF IdleBomCall
<1>9. ASSUME NEW c \in BomCalls, Edits(x, c) PROVE BomKnows(x)' /\ BomLocks'
  <2>1. bomCall'[x] = c /\ c.step = "edit" /\ c.doc \in BomRevs /\ x \in Workers /\ c.kind \in deployment.bomKinds
        /\ call[x] = IdleCall /\ opcCall[x] = IdleOpcCall
    BY <1>4, <1>9 DEF Edits
  <2> QED
    BY <1>2, <1>4, <2>1 DEF BomBase, BomKnows, BomLocks, BomAt, Workers, itemVars, opcVars
<1>10. ASSUME Validates(x) PROVE BomKnows(x)' /\ BomLocks'
  <2>1. PICK kind \in ReleaseKinds, b \in BomRevs, day \in Days \cup {None} : BomValidate(x, kind, b, day)
    BY <1>10 DEF Validates
  <2>2. /\ bomCall'[x].step = "ready" /\ bomCall'[x].kind = kind /\ bomCall'[x].doc = b
        /\ x \in Workers /\ kind \in deployment.bomKinds /\ ReadyBom(x)'
    BY <2>1, BomValidated
  <2>3. BomFree(BomOf[b])
    BY <2>1 DEF BomValidate, RowsFree
  <2>4. BomKnows(x)'
    BY <1>2, <1>10, <2>1, <2>2 DEF Validates, BomKnows, BomAt, Workers, itemVars, opcVars
  <2>5. BomLocks'
    BY <1>4, <2>2, <2>3 DEF BomBase, BomLocks, BomFree, HoldsBom, BomAt
  <2> QED
    BY <2>4, <2>5
<1>11. ASSUME BomContinues(x) PROVE BomKnows(x)' /\ BomLocks'
  BY <1>7, <1>11 DEF BomContinues, PublishBom, SaveBomPatch, BomDestroy, SaveLine
<1>12. ASSUME NEW kind, NEW b, BomMove(x, kind, b) PROVE BomKnows(x)' /\ BomLocks'
  BY <1>8, <1>12 DEF BomMove, BomServes
<1>13. ASSUME bomCall' = bomCall, UNCHANGED <<bomRev>> PROVE BomKnows(x)' /\ BomLocks'
  BY <1>2, <1>13 DEF BomBase, BomKnows, BomLocks, BomAt, ReadyBom, NewBom, Workers, itemVars, opcVars
<1>14. ASSUME NEW b \in BomRevs, NEW row, NEW components, Adds(x, b, row, components)
       PROVE  BomKnows(x)' /\ BomLocks'
  <2>1. ~BomExists(b) /\ bomCall' = bomCall /\ \A o \in BomRevs \ {b} : bomRev'[o] = bomRev[o]
    BY <1>14 DEF Adds, BomBase, BomTyped
  <2>2. BomLocks'
    BY <2>1 DEF BomBase, BomLocks, BomAt
  <2>3. ASSUME BomAt(x, "ready") PROVE ReadyBom(x)'
    <3>1. ReadyBom(x) /\ bomCall[x].doc \in BomRevs
      BY <2>3 DEF BomBase, BomKnows, BomAt
    <3>2. /\ bomRev'[bomCall[x].doc] = bomRev[bomCall[x].doc]
          /\ \A c \in bomCall[x].cur : bomRev'[c] = bomRev[c]
      BY <2>1, <3>1 DEF ReadyBom, BomExists
    <3>3. NewBom(x)' = NewBom(x)
      BY <2>1, <3>2 DEF NewBom
    <3> QED
      BY <2>1, <3>1, <3>2, <3>3 DEF ReadyBom
  <2>4. BomKnows(x)'
    BY <1>2, <2>1, <2>3 DEF BomBase, BomKnows, BomAt, Workers, itemVars, opcVars
  <2> QED
    BY <2>2, <2>4
<1>15. BomKnows(x)' /\ BomLocks'
  BY <1>1, <1>9, <1>10, <1>11, <1>12, <1>13, <1>14 DEF BomAct, Reparents
<1> QED
  BY <1>3, <1>5, <1>15 DEF BomBase

\* A thread that is at work on a BOM does nothing else.
LEMMA BomBaseByItems ==
    ASSUME BomBase, LockInv, NEW w \in AnyWorker, ItemStep(w)
    PROVE  BomBase'
<1>1. PICK x \in AnyWorker : Step(x) /\ (Going(x) \/ (bomCall[x] = IdleBomCall /\ opcCall[x] = IdleOpcCall))
  BY ItemStepCases DEF BomBase
<1>2. ItemTypeOK' /\ deployment' = deployment /\ \A v \in AnyWorker \ {x} : call'[v] = call[v]
  BY <1>1, LockInvNext, CallEffects DEF LockInv
<1>3. UNCHANGED <<parent, bomRev, lines, releases, bomCall, opcCall>>
  BY DEF ItemStep, bomVars, opcVars
<1>4. bomCall[x].step = "idle"
  <2>1. CASE Going(x)
    <3>1. call[x].step # "idle"
      BY <2>1 DEF Going, LockItem, Move, Validate, Release, Aborted, SavePatch, SaveItem, Destroy, At
    <3>2. IdleCall.step = "idle"
      BY DEF IdleCall
    <3> QED
      BY <3>1, <3>2 DEF BomBase, BomKnows
  <2>2. CASE bomCall[x] = IdleBomCall
    BY <2>2 DEF IdleBomCall
  <2> QED
    BY <1>1, <2>1, <2>2
<1>5. BomTyped' /\ BomLocks' /\ OpcCallsTotal'
  BY <1>3 DEF BomBase, BomTyped, BomLocks, BomAt, OpcCallsTotal
<1>6. \A v \in AnyWorker : ReadyBom(v)' <=> ReadyBom(v)
  BY <1>3 DEF ReadyBom, NewBom
<1>7. \A v \in AnyWorker : BomKnows(v)'
  BY <1>2, <1>3, <1>4, <1>6 DEF BomBase, BomKnows, BomAt, Workers
<1> QED
  BY <1>2, <1>5, <1>7 DEF BomBase

LEMMA OpcCallEffects ==
    ASSUME NEW x, OpcStarts(x) \/ OpcContinues(x)
    PROVE  opcCall' = opcCall \/ \E c : opcCall' = [opcCall EXCEPT ![x] = c]
<1> DEFINE Goal == opcCall' = opcCall \/ \E c : opcCall' = [opcCall EXCEPT ![x] = c]
<1>1. ASSUME NEW kind, NEW c, OpcEdit(x, kind, c) PROVE Goal
  BY <1>1 DEF OpcEdit
<1>2. ASSUME NEW kind, NEW d, NEW day, OpcValidate(x, kind, d, day) PROVE Goal
  BY <1>2 DEF OpcValidate
<1>3. CASE OpcContinues(x)
  BY <1>3 DEF OpcContinues, PublishChart, SaveChartPatch, SaveNode, SaveEdge, OpcFinish
<1>4. ASSUME NEW d, NEW o, OpcClone(x, d, o) PROVE Goal
  BY <1>4 DEF OpcClone
<1>5. ASSUME NEW d, NEW from, NEW to, NEW kind,
             OpcMove(x, kind, d) \/ CreateChart(x, d, from, to) \/ DestroyChart(x, d)
      PROVE  Goal
  BY <1>5 DEF OpcMove, CreateChart, DestroyChart
<1>6. ASSUME NEW d, NEW from, NEW to, ReadChartPatch(x, d, from, to) PROVE Goal
  BY <1>1, <1>6 DEF ReadChartPatch
<1>7. ASSUME NEW d, NEW n, ReadNode(x, n, d) \/ ReadMoveNode(x, n, d) PROVE Goal
  BY <1>1, <1>7 DEF ReadNode, ReadMoveNode
<1>8. ASSUME NEW d, NEW n, NEW m, ReadEdge(x, d, n, m) \/ \E e \in edges : ReadMoveEdge(x, e, d, n, m) PROVE Goal
  BY <1>1, <1>8 DEF ReadEdge, ReadMoveEdge
<1> QED
  BY <1>2, <1>3, <1>4, <1>5, <1>6, <1>7, <1>8 DEF OpcStarts

LEMMA BomBaseByCharts ==
    ASSUME BomBase, NEW x \in AnyWorker, OpcStep(x)
    PROVE  BomBase'
<1>1. UNCHANGED <<itemVars, bomVars>>
  BY DEF OpcStep
<1>2. \A v \in AnyWorker \ {x} : opcCall'[v] = opcCall[v]
  <2>1. opcCall' = opcCall \/ \E c : opcCall' = [opcCall EXCEPT ![x] = c]
    BY OpcCallEffects DEF OpcStep
  <2> QED
    BY <2>1 DEF BomBase, OpcCallsTotal
<1>3. bomCall[x].step = "idle"
  <2>1. CASE OpcStarts(x) /\ bomCall[x] = IdleBomCall
    BY <2>1 DEF IdleBomCall
  <2>2. CASE OpcContinues(x)
    <3>1. opcCall[x].step # "idle"
      BY <2>2 DEF OpcContinues, PublishChart, SaveChartPatch, SaveNode, SaveEdge, OpcAt
    <3>2. IdleOpcCall.step = "idle"
      BY DEF IdleOpcCall
    <3> QED
      BY <3>1, <3>2 DEF BomBase, BomKnows
  <2> QED
    BY <2>1, <2>2 DEF OpcStep
<1>4. ItemTypeOK' /\ BomTyped' /\ BomLocks' /\ OpcCallsTotal'
  <2>1. OpcCallsTotal'
    BY OpcCallEffects DEF OpcStep, BomBase, OpcCallsTotal
  <2> QED
    BY <1>1, <2>1 DEF itemVars, bomVars, BomBase, ItemTypeOK, BomTyped, BomLocks, BomAt
<1>5. \A v \in AnyWorker : ReadyBom(v)' <=> ReadyBom(v)
  BY <1>1 DEF bomVars, ReadyBom, NewBom
<1>6. \A v \in AnyWorker : BomKnows(v)'
  BY <1>1, <1>2, <1>3, <1>5 DEF itemVars, bomVars, BomBase, BomKnows, BomAt, Workers
<1> QED
  BY <1>4, <1>6 DEF BomBase

LEMMA BomBaseStutters == ASSUME BomBase, UNCHANGED vars PROVE BomBase'
BY DEF vars, itemVars, bomVars, opcVars, BomBase, ItemTypeOK, BomTyped, BomLocks, BomKnows, ReadyBom, NewBom,
       BomAt, Workers, OpcCallsTotal

LEMMA BomBaseInit == Init => BomBase
<1> SUFFICES ASSUME NEW d \in Deployments, ItemInit(d), BomInit(d), OpcInit(d) PROVE BomBase
  BY DEF Init
<1>1. ItemTypeOK
  BY LockInit DEF LockInv
<1>2. bomRev \in [BomRevs -> Rows]
  BY BomDeploymentsAssumption DEF BomInit, Unreleased
<1>3. BomTyped
  BY <1>2, BomDeploymentsAssumption, IdleBomTyped DEF BomInit, BomTyped
<1>4. \A w \in AnyWorker : bomCall[w].step = "idle"
  BY DEF BomInit, IdleBomCall
<1> QED
  BY <1>1, <1>3, <1>4 DEF BomBase, BomLocks, BomKnows, BomAt, OpcCallsTotal, OpcInit

-----------------------------------------------------------------------------------
(* Rows and lines when updates do not race *)

BomFresh(w) == BomAt(w, "edit") => FreshEdit(bomCall[w])

\* Nobody else releases a revision of the BOM on the days that are checked.
BomClear(w) ==
    BomAt(w, "ready") => \A o \in BomRevs \ ({bomCall[w].doc} \cup bomCall[w].cur) :
        BomOf[o] = BomOf[bomCall[w].doc] /\ bomRev[o].status = "released"
            => ~PeriodsOverlap(NewBom(w), bomRev[o])

BomStarted == \A b \in BomRevs : bomRev[b].status = "released" => bomRev[b].from # None

BomDisjoint ==
    \A a, b \in BomRevs :
        /\ a # b /\ BomOf[a] = BomOf[b]
        /\ bomRev[a].status = "released" /\ bomRev[b].status = "released"
        => ~PeriodsOverlap(bomRev[a], bomRev[b])

BomQuiet ==
    \A b \in BomRevs : \/ bomRev'[b] = bomRev[b]
                       \/ bomRev[b].status \notin LOCKED_STATUSES /\ bomRev'[b].status \notin LOCKED_STATUSES

BomRetires(q) ==
    /\ bomRev[q].status \in {"released", "superseded"}
    /\ bomRev' = [bomRev EXCEPT ![q].status = "obsolete"]

LEMMA BomServed ==
    ASSUME BomBase, NEW x \in AnyWorker, BomStep(x)
    PROVE  x \in Workers
<1>1. CASE BomStarts(x)
  <2>1. ASSUME NEW kind, NEW b, NEW n, BomMove(x, kind, b) \/ BomClone(x, b, n) PROVE x \in Workers
    BY <2>1 DEF BomMove, BomClone, BomServes
  <2>2. ASSUME NEW kind, NEW b, NEW day, BomValidate(x, kind, b, day) PROVE x \in Workers
    BY <2>2 DEF BomValidate, BomServes
  <2>3. ASSUME NEW b, NEW from, NEW to, CreateBomRevision(x, b, from, to) PROVE x \in Workers
    BY <2>3 DEF CreateBomRevision, BomServes
  <2>4. ASSUME NEW m, NEW r, DestroyBom(x, m) \/ CreateBom(x, m, r) \/ BomParent(x, m, r) PROVE x \in Workers
    BY <2>4 DEF DestroyBom, CreateBom, BomParent, BomServes
  <2>5. ASSUME NEW kind, NEW b, NEW row, NEW removes, NEW adds, BomEdit(x, kind, b, row, removes, adds)
        PROVE  x \in Workers
    BY <2>5 DEF BomEdit, BomServes
  <2>6. ASSUME NEW b, NEW from, NEW to, ReadBomPatch(x, b, from, to) PROVE x \in Workers
    BY <2>5, <2>6 DEF ReadBomPatch
  <2>7. ASSUME NEW b, NEW c, NEW b2, NEW c2,
               ReadBomDestroy(x, b) \/ ReadLine(x, b, c) \/ ReadMoveLine(x, b, c, b2, c2)
        PROVE  x \in Workers
    BY <2>5, <2>7 DEF ReadBomDestroy, ReadLine, ReadMoveLine
  <2> QED
    BY <1>1, <2>1, <2>2, <2>3, <2>4, <2>6, <2>7 DEF BomStarts
<1>2. CASE BomContinues(x)
  <2>1. bomCall[x].step # "idle"
    BY <1>2 DEF BomContinues, PublishBom, SaveBomPatch, BomDestroy, SaveLine, BomAt
  <2> QED
    BY <2>1 DEF BomBase, BomKnows
<1> QED
  BY <1>1, <1>2 DEF BomStep

LEMMA BomRowKinds ==
    ASSUME BomBase, NEW x \in AnyWorker, BomAct(x), BomFresh(x)
    PROVE  BomQuiet \/ (\E q \in BomRevs : BomRetires(q)) \/ PublishBom(x)
<1> bomRev \in [BomRevs -> Rows] /\ bomCall \in [AnyWorker -> BomCalls] /\ BomKnows(x)
  BY DEF BomBase, BomTyped
<1>1. ASSUME bomRev' = bomRev PROVE BomQuiet
  BY <1>1 DEF BomQuiet
<1>2. ASSUME NEW kind \in MoveKinds, NEW b \in BomRevs, BomMove(x, kind, b)
      PROVE  BomQuiet \/ \E q \in BomRevs : BomRetires(q)
  <2> DEFINE target == Moves[kind]
  <2>1. target \in TRANSITIONS[bomRev[b].status] /\ bomRev' = [bomRev EXCEPT ![b].status = target]
    BY <1>2 DEF BomMove
  <2>2. bomRev[b].status \in Statuses
    BY DEF Rows
  <2>3. \/ bomRev[b].status \notin LOCKED_STATUSES /\ target \notin LOCKED_STATUSES
        \/ bomRev[b].status \in {"released", "superseded"} /\ target = "obsolete"
    BY <2>1, <2>2, MovesAre
  <2> HIDE DEF target
  <2>4. bomRev'[b].status = target /\ \A o \in BomRevs \ {b} : bomRev'[o] = bomRev[o]
    BY <2>1 DEF Rows
  <2> QED
    BY <2>1, <2>3, <2>4 DEF BomQuiet, BomRetires
<1>3. ASSUME NEW b \in BomRevs, NEW row, NEW components, Adds(x, b, row, components) PROVE BomQuiet
  BY <1>3 DEF Adds, BomQuiet, BomExists, LOCKED_STATUSES
<1>4. CASE Validates(x) \/ (\E m, p : Reparents(x, m, p)) \/ (\E c : Edits(x, c)) \/ SaveLine(x)
  BY <1>1, <1>4 DEF Validates, BomValidate, Reparents, Edits, SaveLine
<1>5. CASE SaveBomPatch(x)
  <2>1. /\ bomCall[x].doc \in BomRevs /\ bomCall[x].copy.status = bomRev[bomCall[x].doc].status
        /\ bomRev[bomCall[x].doc].status \in LOCKED_STATUSES => bomCall[x].copy = bomRev[bomCall[x].doc]
        /\ bomRev' = [bomRev EXCEPT ![bomCall[x].doc] = bomCall[x].copy]
    BY <1>5 DEF SaveBomPatch, BomKnows, BomFresh, FreshEdit, BomAt
  <2> QED
    BY <2>1 DEF BomQuiet
<1>6. CASE BomDestroy(x)
  <2>1. /\ bomCall[x].doc \in BomRevs /\ bomRev[bomCall[x].doc].status = "draft"
        /\ bomRev' = [bomRev EXCEPT ![bomCall[x].doc] = Absent]
    BY <1>6 DEF BomDestroy, BomKnows, BomFresh, FreshEdit, BomAt
  <2> QED
    BY <2>1 DEF BomQuiet, Absent, LOCKED_STATUSES
<1> QED
  BY <1>2, <1>3, <1>4, <1>5, <1>6 DEF BomAct, BomContinues

LEMMA SupersededRow ==
    ASSUME NEW row \in Rows, NEW day \in Days
    PROVE  Superseded(row, day).status = "superseded" /\ Superseded(row, day).from = row.from
<1>1. row = [status |-> row.status, from |-> row.from, to |-> row.to]
  BY DEF Rows
<1> QED
  BY <1>1 DEF Superseded

LEMMA BomRowsStaySound ==
    ASSUME BomBase, BomStarted, BomDisjoint, NEW x \in AnyWorker, BomAct(x), BomFresh(x), BomClear(x)
    PROVE  BomStarted' /\ BomDisjoint'
<1> bomRev \in [BomRevs -> Rows]
  BY DEF BomBase, BomTyped
<1>1. ASSUME \A b \in BomRevs : bomRev'[b].status = "released" => bomRev'[b] = bomRev[b]
      PROVE  BomStarted' /\ BomDisjoint'
  BY <1>1 DEF BomStarted, BomDisjoint
<1>2. CASE BomQuiet
  <2>1. \A b \in BomRevs : bomRev'[b].status = "released" => bomRev'[b] = bomRev[b]
    BY <1>2 DEF BomQuiet, LOCKED_STATUSES
  <2> QED
    BY <1>1, <2>1
<1>3. ASSUME NEW q \in BomRevs, BomRetires(q) PROVE BomStarted' /\ BomDisjoint'
  <2>1. \A b \in BomRevs : bomRev'[b].status = "released" => bomRev'[b] = bomRev[b]
    BY <1>3 DEF BomRetires, Rows
  <2> QED
    BY <1>1, <2>1
<1>4. CASE PublishBom(x)
  <2> DEFINE b == bomCall[x].doc
  <2>1. /\ b \in BomRevs /\ NewBom(x) \in Rows /\ NewBom(x).from # None /\ NewBom(x).from \in Days
        /\ BomAt(x, "ready") /\ bomRev'[b] = [NewBom(x) EXCEPT !.status = "released"]
        /\ \A o \in bomCall[x].cur : bomRev'[o] = Superseded(bomRev[o], NewBom(x).from)
        /\ \A o \in BomRevs \ ({b} \cup bomCall[x].cur) : bomRev'[o] = bomRev[o]
    BY <1>4, BomPublished DEF ReadyBom
  <2>2. \A o \in BomRevs \cap bomCall[x].cur : bomRev'[o].status # "released"
    BY <2>1, SupersededRow
  <2>3. \A o \in BomRevs : o # b /\ bomRev'[o].status = "released" => o \notin bomCall[x].cur /\ bomRev'[o] = bomRev[o]
    BY <2>1, <2>2
  <2>4. bomRev'[b].from = NewBom(x).from /\ bomRev'[b].to = NewBom(x).to
    BY <2>1 DEF Rows
  <2>5. ASSUME NEW o \in BomRevs, o # b, BomOf[o] = BomOf[b], bomRev'[o].status = "released"
        PROVE  ~PeriodsOverlap(bomRev'[b], bomRev'[o]) /\ ~PeriodsOverlap(bomRev'[o], bomRev'[b])
    <3>1. ~PeriodsOverlap(NewBom(x), bomRev[o])
      BY <2>1, <2>3, <2>5 DEF BomClear
    <3>2. ~PeriodsOverlap(bomRev'[b], bomRev'[o])
      BY <2>3, <2>4, <2>5, <3>1 DEF PeriodsOverlap
    <3> QED
      BY <3>2, OverlapSymmetric
  <2>6. BomStarted'
    BY <2>1, <2>3, <2>4 DEF BomStarted
  <2>7. BomDisjoint'
    <3> SUFFICES ASSUME NEW a \in BomRevs, NEW o \in BomRevs, a # o, BomOf[a] = BomOf[o],
                        bomRev'[a].status = "released", bomRev'[o].status = "released"
                 PROVE  ~PeriodsOverlap(bomRev'[a], bomRev'[o])
      BY DEF BomDisjoint
    <3>1. CASE a = b \/ o = b
      BY <2>5, <3>1
    <3>2. CASE a # b /\ o # b
      BY <2>3, <3>2 DEF BomDisjoint
    <3> QED
      BY <3>1, <3>2
  <2> QED
    BY <2>6, <2>7
<1> QED
  BY BomRowKinds, <1>2, <1>3, <1>4

\* The thread that steps: an update it has read is fresh, a release it has
\* validated is clear.
LEMMA OwnBomCallSound ==
    ASSUME BomBase, BomStarted, NEW x \in AnyWorker, BomAct(x)
    PROVE  BomFresh(x)' /\ BomClear(x)'
<1> bomCall \in [AnyWorker -> BomCalls] /\ bomRev \in [BomRevs -> Rows]
  BY DEF BomBase, BomTyped
<1> DEFINE Goal == BomFresh(x)' /\ BomClear(x)'
<1>1. ASSUME bomCall'[x].step = "idle" PROVE Goal
  BY <1>1 DEF BomFresh, BomClear, BomAt
<1>2. ASSUME bomCall' = bomCall, bomCall[x] = IdleBomCall PROVE Goal
  BY <1>1, <1>2 DEF IdleBomCall
<1>3. ASSUME BomFinish(x) PROVE Goal
  BY <1>1, <1>3 DEF BomFinish, IdleBomCall
<1>4. ASSUME NEW c \in BomCalls, Edits(x, c) PROVE Goal
  <2>1. bomCall'[x] = c /\ c.step = "edit" /\ FreshEdit(c) /\ bomRev' = bomRev
    BY <1>4 DEF Edits
  <2>2. BomClear(x)'
    BY <2>1 DEF BomClear, BomAt
  <2>3. BomFresh(x)'
    BY <2>1 DEF BomFresh, FreshEdit
  <2> QED
    BY <2>2, <2>3
<1>5. CASE Validates(x)
  <2>1. PICK kind \in ReleaseKinds, b \in BomRevs, day \in Days \cup {None} : BomValidate(x, kind, b, day)
    BY <1>5 DEF Validates
  <2>2. /\ bomCall'[x].step = "ready" /\ bomCall'[x].doc = b /\ bomCall'[x].cur = CurrentBom(b)
        /\ NewBom(x)' = Dated(bomRev[b], day) /\ bomRev' = bomRev
    BY <2>1, BomValidated
  <2>3. NoReleasedBomOverlap(b, Dated(bomRev[b], day), CurrentBom(b))
    BY <2>1 DEF BomValidate, BomValid
  <2>4. ASSUME NEW o \in BomRevs \ ({b} \cup CurrentBom(b)), BomOf[o] = BomOf[b], bomRev[o].status = "released"
        PROVE  ~PeriodsOverlap(Dated(bomRev[b], day), bomRev[o])
    BY <2>3, <2>4 DEF NoReleasedBomOverlap, BomStarted
  <2>5. BomClear(x)'
    BY <2>2, <2>4 DEF BomClear
  <2>6. BomFresh(x)'
    BY <2>2 DEF BomFresh, BomAt
  <2> QED
    BY <2>5, <2>6
<1>6. CASE BomContinues(x)
  BY <1>3, <1>6 DEF BomContinues, PublishBom, SaveBomPatch, BomDestroy, SaveLine
<1> QED
  BY <1>2, <1>4, <1>5, <1>6 DEF BomAct, BomMove, BomServes, Adds, Reparents

\* The other threads: updates do not race, and nobody can release a revision of
\* a BOM that a release holds.
LEMMA OthersBomCallsSound ==
    ASSUME BomBase, BomUndisturbed, NEW x \in AnyWorker, x \in Workers, BomAct(x), BomFresh(x),
           NEW v \in AnyWorker \ {x}, BomClear(v)
    PROVE  BomFresh(v)' /\ BomClear(v)'
<1>0. bomCall'[v] = bomCall[v] /\ BomKnows(v) /\ bomRev \in [BomRevs -> Rows]
  BY BomCallEffects DEF BomBase, BomTyped
<1>1. BomFresh(v)'
  <2>1. ASSUME BomAt(v, "edit"), bomCall[v].kind \in {"patch", "destroy", "line"} PROVE FALSE
    <3>1. v \in Workers /\ Serial
      BY <1>0, <2>1 DEF BomKnows, BomAt, BomUndisturbed
    <3> QED
      BY <3>1 DEF Serial
  <2> QED
    BY <1>0, <2>1 DEF BomFresh, FreshEdit, BomAt
<1>2. ASSUME BomAt(v, "ready") PROVE BomClear(v)'
  <2> DEFINE b == bomCall[v].doc
  <2>1. b \in BomRevs
    BY <1>0, <1>2 DEF BomKnows, BomAt
  <2>2. bomRev'[b] = bomRev[b]
    BY <1>2, <2>1, HeldBomStays DEF HoldsBomRev
  <2>3. NewBom(v)' = NewBom(v)
    BY <1>0, <2>2 DEF NewBom
  <2>4. ASSUME NEW o \in BomRevs, BomOf[o] = BomOf[b], bomRev'[o].status = "released"
        PROVE  bomRev'[o] = bomRev[o]
    <3>1. CASE BomQuiet
      BY <2>4, <3>1 DEF BomQuiet, LOCKED_STATUSES
    <3>2. ASSUME NEW q \in BomRevs, BomRetires(q) PROVE bomRev'[o] = bomRev[o]
      BY <1>0, <2>4, <3>2 DEF BomRetires, Rows
    <3>3. CASE PublishBom(x)
      <4>1. /\ bomCall[x].doc \in BomRevs /\ BomAt(x, "ready") /\ ReadyBom(x)
            /\ bomRev'[o] = bomRev[o] \/ o \in {bomCall[x].doc} \cup bomCall[x].cur
        BY <3>3, BomPublished
      <4>2. BomOf[bomCall[x].doc] # BomOf[b]
        BY <1>2, <4>1 DEF BomBase, BomLocks
      <4> QED
        BY <2>4, <4>1, <4>2 DEF ReadyBom
    <3> QED
      BY BomRowKinds, <3>1, <3>2, <3>3
  <2> QED
    BY <1>0, <1>2, <2>3, <2>4 DEF BomClear
<1> QED
  BY <1>0, <1>1, <1>2 DEF BomClear, BomAt

BomSound == BomStarted /\ BomDisjoint /\ \A w \in AnyWorker : BomFresh(w) /\ BomClear(w)

BomInv == BomBase /\ (BomUndisturbed => BomSound)

LEMMA BomSoundStays ==
    ASSUME bomRev' = bomRev, bomCall' = bomCall, BomSound
    PROVE  BomSound'
BY DEF BomSound, BomStarted, BomDisjoint, BomFresh, FreshEdit, BomClear, BomAt, NewBom

LEMMA BomInvNext ==
    ASSUME BomInv, LockInv, [Next]_vars
    PROVE  BomInv'
<1>1. ASSUME NEW x \in AnyWorker, BomStep(x) PROVE BomInv'
  <2>1. BomAct(x) /\ BomBase' /\ x \in Workers
    BY <1>1, BomCases, BomBaseByBom, BomServed DEF BomInv, BomBase
  <2>2. deployment' = deployment
    BY <1>1 DEF BomStep, itemVars
  <2>3. ASSUME BomUndisturbed PROVE BomSound'
    <3>1. BomBase /\ BomSound
      BY <2>3 DEF BomInv
    <3>2. BomStarted' /\ BomDisjoint'
      BY <2>1, <3>1, BomRowsStaySound DEF BomSound
    <3>3. BomFresh(x)' /\ BomClear(x)'
      BY <2>1, <3>1, OwnBomCallSound DEF BomSound
    <3>4. \A v \in AnyWorker \ {x} : BomFresh(v)' /\ BomClear(v)'
      BY <2>1, <2>3, <3>1, OthersBomCallsSound DEF BomSound
    <3> QED
      BY <3>2, <3>3, <3>4 DEF BomSound
  <2> QED
    BY <2>1, <2>2, <2>3 DEF BomInv, BomUndisturbed, Serial, Workers
<1>2. ASSUME BomBase', bomRev' = bomRev, bomCall' = bomCall, deployment' = deployment PROVE BomInv'
  BY <1>2, BomSoundStays DEF BomInv, BomUndisturbed, Serial, Workers
<1>3. ASSUME NEW x \in AnyWorker, ItemStep(x) PROVE BomInv'
  <2>1. BomBase' /\ bomRev' = bomRev /\ bomCall' = bomCall
    BY <1>3, BomBaseByItems DEF BomInv, ItemStep, bomVars
  <2>2. deployment' = deployment
    BY <1>3, ItemStepCases, CallEffects DEF BomInv, BomBase
  <2> QED
    BY <1>2, <2>1, <2>2
<1>4. ASSUME NEW x \in AnyWorker, OpcStep(x) PROVE BomInv'
  BY <1>2, <1>4, BomBaseByCharts DEF BomInv, OpcStep, bomVars, itemVars
<1>5. ASSUME UNCHANGED vars PROVE BomInv'
  BY <1>2, <1>5, BomBaseStutters DEF BomInv, vars, bomVars, itemVars
<1> QED
  BY <1>1, <1>3, <1>4, <1>5 DEF Next

LEMMA BomInvInit == Init => BomInv
<1> SUFFICES ASSUME NEW d \in Deployments, BomInit(d), BomBase PROVE BomSound
  BY BomBaseInit DEF Init, BomInv
<1>1. \A b \in BomRevs : bomRev[b].status # "released"
  BY BomDeploymentsAssumption DEF BomInit, Unreleased, LOCKED_STATUSES
<1>2. \A w \in AnyWorker : bomCall[w].step = "idle"
  BY DEF BomInit, IdleBomCall
<1> QED
  BY <1>1, <1>2 DEF BomSound, BomStarted, BomDisjoint, BomFresh, BomClear, BomAt

-----------------------------------------------------------------------------------
(* Lines, parents and components *)

LinesStay ==
    \A b \in BomRevs : bomRev[b].status \in LOCKED_STATUSES =>
        bomRev'[b].status \in LOCKED_STATUSES /\ lines'[b] = lines[b]

LEMMA LinesChange ==
    ASSUME BomBase, BomUndisturbed, NEW x \in AnyWorker, BomAct(x), BomFresh(x), NEW b \in BomRevs
    PROVE  \/ lines'[b] = lines[b]
           \/ ~BomExists(b)
           \/ bomRev[b].status \notin LOCKED_STATUSES /\ BomAt(x, "edit") /\ Serial
<1> /\ bomCall \in [AnyWorker -> BomCalls] /\ bomRev \in [BomRevs -> Rows]
    /\ lines \in [BomRevs -> SUBSET Revs] /\ BomKnows(x)
  BY DEF BomBase, BomTyped
<1>1. ASSUME NEW kind, NEW d, BomMove(x, kind, d) PROVE lines'[b] = lines[b]
  BY <1>1 DEF BomMove
<1>2. CASE Validates(x) \/ (\E m, p : Reparents(x, m, p)) \/ (\E c : Edits(x, c)) \/ PublishBom(x) \/ SaveBomPatch(x)
  BY <1>2 DEF Validates, BomValidate, Reparents, Edits, PublishBom, SaveBomPatch
<1>3. ASSUME NEW d \in BomRevs, NEW row, NEW components, Adds(x, d, row, components)
      PROVE  lines'[b] = lines[b] \/ ~BomExists(b)
  BY <1>3 DEF Adds
<1>4. CASE BomDestroy(x)
  <2>1. /\ BomAt(x, "edit") /\ bomCall[x].kind = "destroy" /\ lines' = [lines EXCEPT ![bomCall[x].doc] = {}]
        /\ bomRev[bomCall[x].doc].status = "draft" /\ "destroy" \in deployment.bomKinds
    BY <1>4 DEF BomDestroy, BomFresh, FreshEdit, BomKnows, BomAt
  <2> QED
    BY <2>1 DEF BomUndisturbed, LOCKED_STATUSES
<1>5. CASE SaveLine(x)
  <2>1. /\ BomAt(x, "edit") /\ bomCall[x].kind = "line" /\ "line" \in deployment.bomKinds
        /\ \A p \in bomCall[x].removes \cup bomCall[x].adds : bomRev[p[1]].status \notin LOCKED_STATUSES
    BY <1>5 DEF SaveLine, BomFresh, FreshEdit, BomKnows, BomAt, BomUndisturbed
  <2>2. CASE lines' = lines
    BY <2>2
  <2>3. CASE lines' = [d \in BomRevs |-> (lines[d] \ {c \in Revs : <<d, c>> \in bomCall[x].removes})
                                         \cup {c \in Revs : <<d, c>> \in bomCall[x].adds}]
    <3>1. lines'[b] = (lines[b] \ {c \in Revs : <<b, c>> \in bomCall[x].removes})
                      \cup {c \in Revs : <<b, c>> \in bomCall[x].adds}
      BY <2>3
    <3>2. CASE \E c \in Revs : <<b, c>> \in bomCall[x].removes \cup bomCall[x].adds
      BY <2>1, <3>2 DEF BomUndisturbed
    <3>3. CASE \A c \in Revs : <<b, c>> \notin bomCall[x].removes \cup bomCall[x].adds
      BY <3>1, <3>3
    <3> QED
      BY <3>2, <3>3
  <2> QED
    BY <1>5, <2>2, <2>3 DEF SaveLine
<1> QED
  BY <1>1, <1>2, <1>3, <1>4, <1>5 DEF BomAct, BomContinues

LEMMA LockedLinesStay ==
    ASSUME BomBase, BomUndisturbed, NEW x \in AnyWorker, BomAct(x), BomFresh(x)
    PROVE  LinesStay
<1> bomRev \in [BomRevs -> Rows]
  BY DEF BomBase, BomTyped
<1> SUFFICES ASSUME NEW b \in BomRevs, bomRev[b].status \in LOCKED_STATUSES
             PROVE  bomRev'[b].status \in LOCKED_STATUSES /\ lines'[b] = lines[b]
  BY DEF LinesStay
<1>1. lines'[b] = lines[b]
  BY LinesChange DEF BomExists, LOCKED_STATUSES
<1>2. CASE BomQuiet
  BY <1>1, <1>2 DEF BomQuiet
<1>3. ASSUME NEW q \in BomRevs, BomRetires(q) PROVE bomRev'[b].status \in LOCKED_STATUSES
  BY <1>3 DEF BomRetires, Rows, LOCKED_STATUSES
<1>4. CASE PublishBom(x)
  <2>1. /\ bomRev[bomCall[x].doc].status = "approved" /\ NewBom(x).from \in Days
        /\ \A o \in bomCall[x].cur : bomRev'[o] = Superseded(bomRev[o], NewBom(x).from)
        /\ \A o \in BomRevs \ ({bomCall[x].doc} \cup bomCall[x].cur) : bomRev'[o] = bomRev[o]
    BY <1>4, BomPublished DEF ReadyBom
  <2>2. b # bomCall[x].doc
    BY <2>1 DEF LOCKED_STATUSES
  <2>3. CASE b \in bomCall[x].cur
    BY <1>1, <2>1, <2>3, SupersededRow DEF LOCKED_STATUSES
  <2>4. CASE b \notin bomCall[x].cur
    BY <1>1, <2>1, <2>2, <2>4
  <2> QED
    BY <2>3, <2>4
<1> QED
  BY BomRowKinds, <1>1, <1>2, <1>3, <1>4

\* A BOM with revisions keeps its parent, unless a PATCH gives it another.
ParentInv == \A b \in BomRevs : BomExists(b) => ParentOf(b) \in Revs

LEMMA OnlyAddsCreate ==
    ASSUME BomBase, NEW x \in AnyWorker, BomAct(x), BomFresh(x), NEW b \in BomRevs, ~BomExists(b), BomExists(b)'
    PROVE  \E row, components : Adds(x, b, row, components)
<1> bomCall \in [AnyWorker -> BomCalls] /\ bomRev \in [BomRevs -> Rows] /\ BomKnows(x)
  BY DEF BomBase, BomTyped
<1>1. bomRev'[b] # bomRev[b] /\ bomRev[b].status = "absent"
  BY DEF BomExists
<1>2. ASSUME NEW kind, NEW d \in BomRevs, BomMove(x, kind, d) PROVE FALSE
  <2>1. d = b /\ Moves[kind] \in TRANSITIONS["absent"]
    BY <1>1, <1>2 DEF BomMove
  <2> QED
    BY <2>1 DEF TRANSITIONS
<1>3. CASE Validates(x) \/ (\E m, p : Reparents(x, m, p)) \/ (\E c : Edits(x, c)) \/ SaveLine(x)
  BY <1>1, <1>3 DEF Validates, BomValidate, Reparents, Edits, SaveLine
<1>4. CASE PublishBom(x)
  <2>1. ReadyBom(x) /\ \A o \in BomRevs \ ({bomCall[x].doc} \cup bomCall[x].cur) : bomRev'[o] = bomRev[o]
    BY <1>4, BomPublished
  <2> QED
    BY <1>1, <2>1 DEF ReadyBom
<1>5. CASE SaveBomPatch(x)
  <2>1. /\ bomCall[x].doc \in BomRevs /\ bomCall[x].copy.status = bomRev[bomCall[x].doc].status
        /\ bomRev' = [bomRev EXCEPT ![bomCall[x].doc] = bomCall[x].copy]
    BY <1>5 DEF SaveBomPatch, BomKnows, BomFresh, FreshEdit, BomAt
  <2> QED
    BY <2>1 DEF BomExists
<1>6. CASE BomDestroy(x)
  BY <1>6 DEF BomDestroy, BomExists, Absent
<1>7. ASSUME NEW d \in BomRevs, NEW row, NEW components, Adds(x, d, row, components)
      PROVE  \E r, c : Adds(x, b, r, c)
  <2>1. d = b
    BY <1>1, <1>7 DEF Adds
  <2> QED
    BY <1>7, <2>1
<1> QED
  BY <1>2, <1>3, <1>4, <1>5, <1>6, <1>7 DEF BomAct, BomContinues

LEMMA ParentsStay ==
    ASSUME BomBase, BomUndisturbed, ParentInv, NEW x \in AnyWorker, BomAct(x), BomFresh(x)
    PROVE  /\ \A b \in BomRevs : BomExists(b) => ParentOf(b)' = ParentOf(b)
           /\ ParentInv'
<1> parent \in [Boms -> Revs \cup {NoDoc}]
  BY DEF BomBase, BomTyped
<1>1. parent' = parent \/ \E m \in Boms, p \in Revs \cup {NoDoc} : Reparents(x, m, p)
  <2>1. CASE Validates(x)
    BY <2>1 DEF Validates, BomValidate
  <2>2. CASE BomContinues(x)
    BY <2>2 DEF BomContinues, PublishBom, SaveBomPatch, BomDestroy, SaveLine
  <2> QED
    BY <2>1, <2>2 DEF BomAct, BomMove, Adds, Edits
<1>2. ASSUME NEW b \in BomRevs, BomExists(b) PROVE ParentOf(b)' = ParentOf(b)
  <2>1. ASSUME NEW m \in Boms, NEW p \in Revs \cup {NoDoc}, Reparents(x, m, p) PROVE BomOf[b] # m
    BY <1>2, <2>1, NoDocAssumption DEF Reparents, ParentInv, ParentOf, BomUndisturbed
  <2>2. ASSUME NEW m \in Boms, NEW p \in Revs \cup {NoDoc}, Reparents(x, m, p)
        PROVE  parent'[BomOf[b]] = parent[BomOf[b]]
    <3>1. parent' = [parent EXCEPT ![m] = p] /\ BomOf[b] # m /\ BomOf[b] \in Boms
      BY <2>1, <2>2, BomOfAssumption DEF Reparents
    <3> QED
      BY <3>1
  <2> QED
    BY <1>1, <2>2 DEF ParentOf
<1>3. ASSUME NEW b \in BomRevs, BomExists(b)' PROVE ParentOf(b)' \in Revs
  <2>1. CASE BomExists(b)
    BY <1>2, <2>1 DEF ParentInv
  <2>2. ASSUME NEW row, NEW components, Adds(x, b, row, components) PROVE ParentOf(b)' \in Revs
    <3>1. ParentOf(b)' = ParentOf(b)
      BY <2>2 DEF Adds, ParentOf
    <3>2. ParentOf(b) \in Revs
      BY <2>2, BomOfAssumption DEF Adds, ParentOf, ParentInv
    <3> QED
      BY <3>1, <3>2
  <2> QED
    BY <1>3, <2>1, <2>2, OnlyAddsCreate
<1> QED
  BY <1>2, <1>3 DEF ParentInv

-----------------------------------------------------------------------------------
(* What a release has checked outside of its rows *)

\* The parent, whose row the release holds.
ForParent(w) == BomAt(w, "ready") => rev[ParentOf(bomCall[w].doc)].status \in {"approved", "released"}

\* The components, which may be retired but were released.
WereReleased(b) == lines[b] # {} /\ \A c \in lines[b] : rev[c].status \in LOCKED_STATUSES
ForComponents(w) == BomAt(w, "ready") => WereReleased(bomCall[w].doc)
Components == \A b \in BomRevs : bomRev[b].status \in LOCKED_STATUSES => WereReleased(b)

\* The structure, which changes unless the thread is the only one.
ForCircle(w) == BomAt(w, "ready") => ~Circular(bomCall[w].doc)

Checked ==
    /\ ParentInv
    /\ \A w \in AnyWorker : ForParent(w)
    /\ Undisturbed => Components /\ \A w \in AnyWorker : ForComponents(w)
    /\ Serial => \A w \in AnyWorker : ForCircle(w)

CheckedInv == ReleaseInv /\ BomInv /\ (BomUndisturbed => Checked)

LEMMA SameCircle ==
    ASSUME NEW b \in BomRevs, parent' = parent, lines' = lines,
           \A r \in Revs \ {ParentOf(b)} : Latest(ReleasedBoms(r))' = Latest(ReleasedBoms(r))
    PROVE  Circular(b)' <=> Circular(b)
<1>1. ParentOf(b)' = ParentOf(b)
  BY DEF ParentOf
<1>2. ASSUME NEW r \in Revs PROVE BomsFor(r, b)' = BomsFor(r, b)
  <2>1. CASE ParentOf(b) = r
    BY <1>1, <2>1 DEF BomsFor
  <2>2. CASE ParentOf(b) # r
    <3>1. Latest(ReleasedBoms(r))' = Latest(ReleasedBoms(r))
      BY <2>2
    <3> HIDE DEF Latest, ReleasedBoms
    <3> QED
      BY <1>1, <2>2, <3>1 DEF BomsFor
  <2> QED
    BY <2>1, <2>2
<1>3. Uses(b)' = Uses(b)
  <2>1. ASSUME NEW p \in Revs \X Revs
        PROVE  (\E d \in BomsFor(p[1], b)' : p[2] \in lines'[d]) = (\E d \in BomsFor(p[1], b) : p[2] \in lines[d])
    <3>1. p[1] \in Revs
      OBVIOUS
    <3>2. BomsFor(p[1], b)' = BomsFor(p[1], b)
      BY <1>2, <3>1
    <3> QED
      BY <3>2
  <2> QED
    BY <2>1 DEF Uses
<1> QED
  BY <1>1, <1>3 DEF Circular

\* A validated release is the thread's own.
LEMMA OwnReady ==
    ASSUME BomBase, NEW x \in AnyWorker, BomAct(x), BomAt(x, "ready")'
    PROVE  \E kind \in ReleaseKinds, b \in BomRevs, day \in Days \cup {None} : BomValidate(x, kind, b, day)
<1> bomCall \in [AnyWorker -> BomCalls]
  BY DEF BomBase, BomTyped
<1>1. ~BomFinish(x)
  BY DEF BomFinish, IdleBomCall, BomAt
<1>2. ~(bomCall' = bomCall /\ bomCall[x] = IdleBomCall)
  BY DEF IdleBomCall, BomAt
<1>3. ASSUME NEW c \in BomCalls, Edits(x, c) PROVE FALSE
  BY <1>3 DEF Edits, BomAt
<1>4. ~BomContinues(x)
  BY <1>1 DEF BomContinues, PublishBom, SaveBomPatch, BomDestroy, SaveLine
<1>5. Validates(x)
  BY <1>2, <1>3, <1>4 DEF BomAct, BomMove, BomServes, Adds, Reparents
<1> QED
  BY <1>5 DEF Validates

\* Only a release locks a revision for good.
LEMMA LockedBefore ==
    ASSUME BomBase, NEW x \in AnyWorker, BomAct(x), BomFresh(x), NEW b \in BomRevs,
           bomRev'[b].status \in LOCKED_STATUSES
    PROVE  bomRev[b].status \in LOCKED_STATUSES \/ (PublishBom(x) /\ b = bomCall[x].doc)
<1> bomRev \in [BomRevs -> Rows]
  BY DEF BomBase, BomTyped
<1>1. CASE BomQuiet
  BY <1>1 DEF BomQuiet
<1>2. ASSUME NEW q \in BomRevs, BomRetires(q) PROVE bomRev[b].status \in LOCKED_STATUSES
  <2>1. bomRev[q].status \in LOCKED_STATUSES
    BY <1>2 DEF BomRetires, LOCKED_STATUSES
  <2>2. b # q => bomRev'[b] = bomRev[b]
    BY <1>2 DEF BomRetires
  <2> QED
    BY <2>1, <2>2
<1>3. CASE PublishBom(x)
  <2>1. /\ ReadyBom(x)
        /\ bomRev'[b] = bomRev[b] \/ b \in {bomCall[x].doc} \cup bomCall[x].cur
    BY <1>3, BomPublished
  <2>2. b \in bomCall[x].cur => bomRev[b].status = "released"
    BY <2>1 DEF ReadyBom
  <2> QED
    BY <1>3, <2>1, <2>2 DEF LOCKED_STATUSES
<1> QED
  BY BomRowKinds, <1>1, <1>2, <1>3

LEMMA CheckedByBom ==
    ASSUME CheckedInv, BomUndisturbed, NEW x \in AnyWorker, BomStep(x)
    PROVE  Checked'
<1>1. /\ BomBase /\ BomSound /\ BomAct(x) /\ x \in Workers /\ Checked
      /\ \A v \in AnyWorker : BomFresh(v) /\ BomKnows(v)
  BY BomCases, BomServed DEF CheckedInv, BomInv, BomBase, BomSound
<1>2. /\ bomCall \in [AnyWorker -> BomCalls] /\ bomRev \in [BomRevs -> Rows] /\ lines \in [BomRevs -> SUBSET Revs]
      /\ deployment' = deployment /\ rev' = rev
  BY <1>1 DEF BomBase, BomTyped, BomStep, itemVars
<1>3. ParentInv' /\ \A b \in BomRevs : BomExists(b) => ParentOf(b)' = ParentOf(b)
  BY <1>1, ParentsStay DEF Checked
<1>4. ASSUME NEW v \in AnyWorker \ {x}, BomAt(v, "ready")'
      PROVE  /\ bomCall'[v] = bomCall[v] /\ BomAt(v, "ready") /\ bomCall[v].doc \in BomRevs /\ v \in Workers
             /\ BomExists(bomCall[v].doc) /\ bomRev[bomCall[v].doc].status = "approved"
  <2>1. bomCall'[v] = bomCall[v]
    BY <1>1, BomCallEffects
  <2>2. BomKnows(v) /\ BomAt(v, "ready")
    BY <1>1, <1>4, <2>1 DEF BomAt
  <2> QED
    BY <2>1, <2>2 DEF BomKnows, BomAt, ReadyBom, BomExists
<1>5. ASSUME BomAt(x, "ready")'
      PROVE  \E kind \in ReleaseKinds, b \in BomRevs, day \in Days \cup {None} :
               BomValid(b, Dated(bomRev[b], day), CurrentBom(b)) /\ bomCall'[x].doc = b
                 /\ UNCHANGED <<parent, bomRev, lines, releases>>
  <2>1. PICK kind \in ReleaseKinds, b \in BomRevs, day \in Days \cup {None} : BomValidate(x, kind, b, day)
    BY <1>1, <1>5, OwnReady
  <2>2. BomValid(b, Dated(bomRev[b], day), CurrentBom(b))
    BY <2>1 DEF BomValidate
  <2>3. bomCall'[x].doc = b /\ UNCHANGED <<parent, bomRev, lines, releases>>
    BY <1>1, <2>1, BomValidated
  <2> QED
    BY <2>2, <2>3
<1>6. ASSUME NEW v \in AnyWorker PROVE ForParent(v)'
  <2>1. CASE v = x
    <3> SUFFICES ASSUME BomAt(x, "ready")' PROVE rev'[ParentOf(bomCall[x].doc)'].status \in {"approved", "released"}
      BY <2>1 DEF ForParent, ParentOf
    <3> QED
      BY <1>2, <1>5 DEF BomValid, ParentOf
  <2>2. CASE v # x
    <3> SUFFICES ASSUME BomAt(v, "ready")' PROVE rev'[ParentOf(bomCall[v].doc)'].status \in {"approved", "released"}
      BY DEF ForParent, ParentOf
    <3>1. bomCall'[v] = bomCall[v] /\ BomAt(v, "ready") /\ ForParent(v) /\ ParentOf(bomCall[v].doc)' = ParentOf(bomCall[v].doc)
      BY <1>1, <1>3, <1>4, <2>2 DEF Checked, ParentOf
    <3> QED
      BY <1>2, <3>1 DEF ForParent
  <2> QED
    BY <2>1, <2>2
<1>7. ASSUME Undisturbed PROVE Components' /\ \A w \in AnyWorker : ForComponents(w)'
  <2>1. Components /\ \A w \in AnyWorker : ForComponents(w)
    BY <1>1, <1>7 DEF Checked
  <2>2. ASSUME NEW b \in BomRevs, bomRev'[b].status \in LOCKED_STATUSES PROVE WereReleased(b)'
    <3>1. CASE bomRev[b].status \in LOCKED_STATUSES
      <4>1. lines'[b] = lines[b]
        BY <1>1, <3>1, LockedLinesStay DEF LinesStay
      <4>2. WereReleased(b)
        BY <2>1, <3>1 DEF Components
      <4> QED
        BY <1>2, <4>1, <4>2 DEF WereReleased
    <3>2. CASE PublishBom(x) /\ b = bomCall[x].doc
      <4>1. lines' = lines /\ BomAt(x, "ready")
        BY <3>2 DEF PublishBom
      <4>2. WereReleased(b)
        BY <2>1, <3>2, <4>1 DEF ForComponents
      <4> QED
        BY <1>2, <4>1, <4>2 DEF WereReleased
    <3> QED
      BY <1>1, <2>2, <3>1, <3>2, LockedBefore
  <2>3. ASSUME NEW v \in AnyWorker \ {x} PROVE ForComponents(v)'
    <3> SUFFICES ASSUME BomAt(v, "ready")' PROVE WereReleased(bomCall[v].doc)'
      BY DEF ForComponents
    <3>1. PICK b \in BomRevs : /\ b = bomCall[v].doc /\ bomCall'[v].doc = b
                               /\ BomAt(v, "ready") /\ BomExists(b) /\ v \in Workers
                               /\ bomRev[b].status = "approved"
      BY <1>4
    <3>2. ~Serial
      BY <1>1, <3>1 DEF Serial
    <3>3. lines'[b] = lines[b]
      BY <1>1, <3>1, <3>2, LinesChange
    <3>4. WereReleased(b)
      BY <2>1, <3>1 DEF ForComponents
    <3> QED
      BY <1>2, <3>1, <3>3, <3>4 DEF WereReleased
  <2>4. ForComponents(x)'
    <3> SUFFICES ASSUME BomAt(x, "ready")' PROVE WereReleased(bomCall[x].doc)'
      BY DEF ForComponents
    <3>1. PICK b \in BomRevs : /\ \E day \in Days \cup {None} : BomValid(b, Dated(bomRev[b], day), CurrentBom(b))
                               /\ bomCall'[x].doc = b /\ lines' = lines
      BY <1>5
    <3>2. lines[b] # {} /\ \A c \in lines[b] : rev[c].status = "released"
      BY <3>1 DEF BomValid
    <3> QED
      BY <1>2, <3>1, <3>2 DEF WereReleased, LOCKED_STATUSES
  <2> QED
    BY <2>2, <2>3, <2>4 DEF Components
<1>8. ASSUME Serial, NEW v \in AnyWorker PROVE ForCircle(v)'
  <2> SUFFICES ASSUME BomAt(v, "ready")' PROVE ~Circular(bomCall[v].doc)'
    BY DEF ForCircle
  <2>1. v = x
    BY <1>1, <1>4, <1>8 DEF Serial
  <2>2. PICK b \in BomRevs : /\ \E day \in Days \cup {None} : BomValid(b, Dated(bomRev[b], day), CurrentBom(b))
                             /\ bomCall'[x].doc = b /\ UNCHANGED <<parent, bomRev, lines, releases>>
    BY <1>5, <2>1
  <2>3. ~Circular(b)
    BY <2>2 DEF BomValid
  <2>4. \A r \in Revs : Latest(ReleasedBoms(r))' = Latest(ReleasedBoms(r))
    BY <2>2 DEF Latest, ReleasedBoms, ParentOf
  <2>5. ~Circular(b)'
    BY <2>2, <2>3, <2>4, SameCircle
  <2>6. Circular(bomCall[v].doc)' = Circular(b)'
    BY <2>1, <2>2 DEF Circular, Uses, BomsFor, ParentOf
  <2> QED
    BY <2>5, <2>6
<1> QED
  BY <1>2, <1>3, <1>6, <1>7, <1>8 DEF Checked, Undisturbed, Serial, Workers

LEMMA CheckedByItems ==
    ASSUME CheckedInv, BomUndisturbed, NEW w \in AnyWorker, ItemStep(w)
    PROVE  Checked'
<1>1. /\ BomBase /\ Checked /\ ReleaseInv /\ RespectsBomLocks /\ UNCHANGED <<parent, bomRev, lines, releases, bomCall>>
      /\ \A v \in AnyWorker : BomKnows(v)
  BY DEF CheckedInv, BomInv, BomBase, ItemStep, bomVars
<1>2. PICK x \in AnyWorker : Step(x)
  BY <1>1, ItemStepCases DEF BomBase
<1>3. deployment' = deployment
  BY <1>1, <1>2, CallEffects DEF BomBase
<1>4. ParentInv'
  BY <1>1 DEF Checked, ParentInv, ParentOf, BomExists
<1>5. ASSUME NEW v \in AnyWorker PROVE ForParent(v)'
  <2> SUFFICES ASSUME BomAt(v, "ready") PROVE rev'[ParentOf(bomCall[v].doc)].status \in {"approved", "released"}
    BY <1>1 DEF ForParent, BomAt, ParentOf
  <2>1. ForParent(v) /\ BomExists(bomCall[v].doc) /\ bomCall[v].doc \in BomRevs
    BY <1>1 DEF Checked, BomKnows, BomAt, ReadyBom, BomExists
  <2>2. PICK r \in Revs : r = ParentOf(bomCall[v].doc)
    BY <1>1, <2>1 DEF Checked, ParentInv
  <2>3. HoldsParent(v, r)
    BY <2>2 DEF HoldsParent
  <2>4. rev'[r] = rev[r]
    BY <1>1, <2>3 DEF RespectsBomLocks
  <2> QED
    BY <2>1, <2>2, <2>4 DEF ForParent
<1>6. ASSUME Undisturbed PROVE Components' /\ \A v \in AnyWorker : ForComponents(v)'
  <2>1. \A r \in Revs : rev[r].status \in LOCKED_STATUSES => rev'[r].status \in LOCKED_STATUSES
    BY <1>1, <1>2, <1>6, StepsKeepReleases DEF Stays
  <2>2. lines \in [BomRevs -> SUBSET Revs]
    BY <1>1 DEF BomBase, BomTyped
  <2>3. ASSUME NEW b \in BomRevs, WereReleased(b) PROVE lines[b] # {} /\ \A c \in lines[b] : rev'[c].status \in LOCKED_STATUSES
    BY <2>1, <2>2, <2>3 DEF WereReleased
  <2>4. Components'
    BY <1>1, <1>6, <2>3 DEF Checked, Components, WereReleased
  <2>5. ASSUME NEW v \in AnyWorker PROVE ForComponents(v)'
    <3> SUFFICES ASSUME BomAt(v, "ready")
                 PROVE  /\ lines[bomCall[v].doc] # {}
                        /\ \A c \in lines[bomCall[v].doc] : rev'[c].status \in LOCKED_STATUSES
      BY <1>1 DEF ForComponents, BomAt, WereReleased
    <3>1. bomCall[v].doc \in BomRevs
      BY <1>1 DEF BomKnows, BomAt
    <3>2. WereReleased(bomCall[v].doc)
      BY <1>1, <1>6 DEF Checked, ForComponents
    <3> QED
      BY <2>3, <3>1, <3>2
  <2> QED
    BY <2>4, <2>5
<1>7. ASSUME Serial, NEW v \in AnyWorker PROVE ForCircle(v)'
  <2>1. ForCircle(v)
    BY <1>1, <1>7 DEF Checked
  <2> QED
    BY <1>1, <2>1 DEF ForCircle, BomAt, Circular, Uses, BomsFor, Latest, ReleasedBoms, ParentOf
<1> QED
  BY <1>3, <1>4, <1>5, <1>6, <1>7 DEF Checked, Undisturbed, Serial, Workers

LEMMA CheckedStays ==
    ASSUME Checked, UNCHANGED <<itemVars, bomVars>>
    PROVE  Checked'
<1> USE DEF itemVars, bomVars
<1>1. ParentInv'
  BY DEF Checked, ParentInv, ParentOf, BomExists
<1>2. \A w \in AnyWorker : ForParent(w)'
  BY DEF Checked, ForParent, ParentOf, BomAt
<1>3. Undisturbed => Components' /\ \A w \in AnyWorker : ForComponents(w)'
  BY DEF Checked, Components, ForComponents, WereReleased, BomAt
<1>4. ASSUME Serial, NEW w \in AnyWorker PROVE ForCircle(w)'
  <2>1. ForCircle(w)
    BY <1>4 DEF Checked
  <2> QED
    BY <2>1, ZenonT(30) DEF ForCircle, BomAt, Circular, Uses, BomsFor, Latest, ReleasedBoms, ParentOf
<1> QED
  BY <1>1, <1>2, <1>3, <1>4 DEF Checked, Undisturbed, Serial, Workers

LEMMA CheckedInvNext == ASSUME CheckedInv, [Next]_vars PROVE CheckedInv'
<1>1. ReleaseInv'
  BY ItemSteps, ReleaseInvKept DEF CheckedInv
<1>2. BomInv'
  BY BomInvNext DEF CheckedInv, ReleaseInv
<1>3. deployment' = deployment
  <2>1. ASSUME NEW w \in AnyWorker, ItemStep(w) PROVE deployment' = deployment
    BY <2>1, ItemStepCases, CallEffects DEF CheckedInv, BomInv, BomBase
  <2> QED
    BY <2>1 DEF Next, BomStep, OpcStep, vars, itemVars
<1>4. ASSUME BomUndisturbed PROVE Checked'
  <2>1. Checked
    BY <1>4 DEF CheckedInv
  <2>2. CASE \E w \in AnyWorker : ItemStep(w) \/ BomStep(w)
    BY <1>4, <2>2, CheckedByItems, CheckedByBom
  <2>3. CASE (\E w \in AnyWorker : OpcStep(w)) \/ UNCHANGED vars
    BY <2>1, <2>3, CheckedStays DEF OpcStep, vars
  <2> QED
    BY <2>2, <2>3 DEF Next
<1> QED
  BY <1>1, <1>2, <1>3, <1>4 DEF CheckedInv, BomUndisturbed, Serial, Workers

LEMMA CheckedInvInit == Init => CheckedInv
<1> SUFFICES ASSUME NEW d \in Deployments, ItemInit(d), BomInit(d), OpcInit(d) PROVE CheckedInv
  BY DEF Init
<1>1. ReleaseInv /\ BomInv
  BY ReleaseInit, BomInvInit DEF Init
<1>2. \A w \in AnyWorker : bomCall[w].step = "idle"
  BY DEF BomInit, IdleBomCall
<1>3. \A b \in BomRevs : bomRev[b].status \notin LOCKED_STATUSES
  BY BomDeploymentsAssumption DEF BomInit, Unreleased
<1>4. ParentInv
  BY BomDeploymentsAssumption DEF BomInit, ParentInv, ParentOf, BomExists
<1> QED
  BY <1>1, <1>2, <1>3, <1>4
     DEF CheckedInv, Checked, Components, ForParent, ForComponents, ForCircle, BomAt

-----------------------------------------------------------------------------------
(* What a release does not do to other item revisions' BOMs *)

LEMMA LatestIgnores ==
    ASSUME releases \in Seq(BomRevs), NEW b \in BomRevs, releases' = Append(releases, b),
           NEW r \in Revs, ReleasedBoms(r)' = ReleasedBoms(r), b \notin ReleasedBoms(r)
    PROVE  Latest(ReleasedBoms(r))' = Latest(ReleasedBoms(r))
<1>1. PICK S : S = ReleasedBoms(r) /\ ReleasedBoms(r)' = S /\ b \notin S
  OBVIOUS
<1> HIDE DEF ReleasedBoms
<1>2. /\ Len(releases') = Len(releases) + 1 /\ Len(releases) \in Nat
      /\ DOMAIN releases = 1..Len(releases) /\ DOMAIN releases' = 1..Len(releases')
      /\ \A i \in DOMAIN releases : releases'[i] = releases[i]
      /\ releases'[Len(releases) + 1] = b
  OBVIOUS
<1>3. ASSUME NEW o \in S
      PROVE  (\E i \in DOMAIN releases' :
                releases'[i] = o /\ \A j \in DOMAIN releases' : releases'[j] \in S => j <= i)
             = (\E i \in DOMAIN releases :
                releases[i] = o /\ \A j \in DOMAIN releases : releases[j] \in S => j <= i)
  <2>1. ASSUME NEW i \in DOMAIN releases,
               releases[i] = o /\ \A j \in DOMAIN releases : releases[j] \in S => j <= i
        PROVE  i \in DOMAIN releases' /\ releases'[i] = o /\ \A j \in DOMAIN releases' : releases'[j] \in S => j <= i
    <3>1. ASSUME NEW j \in DOMAIN releases', releases'[j] \in S PROVE j \in DOMAIN releases
      BY <1>1, <1>2, <3>1
    <3> QED
      BY <1>2, <2>1, <3>1
  <2>2. ASSUME NEW i \in DOMAIN releases',
               releases'[i] = o /\ \A j \in DOMAIN releases' : releases'[j] \in S => j <= i
        PROVE  i \in DOMAIN releases /\ releases[i] = o /\ \A j \in DOMAIN releases : releases[j] \in S => j <= i
    <3>1. i \in DOMAIN releases
      BY <1>1, <1>2, <2>2
    <3> QED
      BY <1>2, <2>2, <3>1
  <2> QED
    BY <2>1, <2>2
<1> QED
  BY <1>1, <1>3 DEF Latest

LEMMA ReleaseClosesNone ==
    ASSUME BomBase, NEW x \in AnyWorker, PublishBom(x),
           NEW b \in BomRevs, b = bomCall[x].doc, ~Circular(b)
    PROVE  ~Circular(b)'
<1>1. /\ ReadyBom(x) /\ BomAt(x, "ready")
      /\ \A o \in BomRevs \ ({b} \cup bomCall[x].cur) : bomRev'[o] = bomRev[o]
  BY BomPublished
<1>2. parent' = parent /\ lines' = lines /\ releases' = Append(releases, b) /\ releases \in Seq(BomRevs)
  BY DEF PublishBom, BomBase, BomTyped
<1>3. ASSUME NEW r \in Revs \ {ParentOf(b)} PROVE Latest(ReleasedBoms(r))' = Latest(ReleasedBoms(r))
  <2>1. \A o \in BomRevs : ParentOf(o) = r => o # b /\ o \notin bomCall[x].cur
    BY <1>1 DEF ReadyBom, ParentOf
  <2>2. ReleasedBoms(r)' = ReleasedBoms(r)
    BY <1>1, <1>2, <2>1 DEF ReleasedBoms, ParentOf
  <2>3. b \notin ReleasedBoms(r)
    BY <2>1 DEF ReleasedBoms
  <2> QED
    BY <1>2, <2>2, <2>3, LatestIgnores
<1> QED
  BY <1>2, <1>3, SameCircle

-----------------------------------------------------------------------------------
(* Results *)

LEMMA BomsReleasedForParent ==
    ASSUME CheckedInv, [Next]_vars, BomUndisturbed,
           NEW b \in BomRevs, bomRev[b].status # "released", bomRev'[b].status = "released"
    PROVE  /\ rev[ParentOf(b)].status \in {"approved", "released"}
           /\ Serial => ~Circular(b)'
<1>1. PICK x \in AnyWorker : BomStep(x)
  BY DEF Next, ItemStep, OpcStep, vars, bomVars
<1>2. BomBase /\ BomAct(x) /\ BomFresh(x) /\ Checked
  BY <1>1, BomCases DEF CheckedInv, BomInv, BomBase, BomSound
<1>3. PublishBom(x) /\ b = bomCall[x].doc
  <2>1. bomRev'[b].status \in LOCKED_STATUSES
    BY DEF LOCKED_STATUSES
  <2>2. CASE bomRev[b].status \in LOCKED_STATUSES
    <3>1. ~BomQuiet
      BY <2>1, <2>2 DEF BomQuiet
    <3>2. ASSUME NEW q \in BomRevs, BomRetires(q) PROVE FALSE
      BY <1>2, <3>2 DEF BomRetires, BomBase, BomTyped, Rows
    <3>3. PublishBom(x)
      BY <1>2, <3>1, <3>2, BomRowKinds
    <3>4. /\ bomRev'[b] = bomRev[b] \/ b \in {bomCall[x].doc} \cup bomCall[x].cur
          /\ ReadyBom(x)
      BY <1>2, <3>3, BomPublished
    <3> QED
      BY <3>3, <3>4 DEF ReadyBom
  <2> QED
    BY <1>2, <2>1, <2>2, LockedBefore
<1>4. BomAt(x, "ready")
  BY <1>3 DEF PublishBom
<1>5. rev[ParentOf(b)].status \in {"approved", "released"}
  BY <1>2, <1>3, <1>4 DEF Checked, ForParent
<1>6. Serial => ~Circular(b)'
  BY <1>2, <1>3, <1>4, ReleaseClosesNone DEF Checked, ForCircle
<1> QED
  BY <1>5, <1>6

LEMMA LinesKept ==
    ASSUME CheckedInv, [Next]_vars, BomUndisturbed
    PROVE  LinesStay
<1>1. CASE UNCHANGED <<bomRev, lines>>
  BY <1>1 DEF LinesStay
<1>2. CASE \E x \in AnyWorker : BomStep(x)
  BY <1>2, BomCases, LockedLinesStay DEF CheckedInv, BomInv, BomBase, BomSound
<1> QED
  BY <1>1, <1>2 DEF Next, ItemStep, OpcStep, vars, bomVars

LEMMA CheckedAlways == Spec => []CheckedInv
BY CheckedInvInit, CheckedInvNext, PTL DEF Spec

\* Released revisions of a BOM are never valid on the same day, however many
\* releases there are at once.
THEOREM BomsDisjoint == Spec => []ReleasedBomsDisjoint
<1>1. CheckedInv => ReleasedBomsDisjoint
  BY DEF CheckedInv, BomInv, BomSound, BomDisjoint, ReleasedBomsDisjoint
<1> QED
  BY <1>1, CheckedAlways, PTL

\* A locked BOM revision stays locked and keeps its lines.
THEOREM BomLinesStay == Spec => ReleasedLinesStay
<1> DEFINE Kept == BomUndisturbed => LinesStay
<1>1. CheckedInv /\ [Next]_vars => Kept
  BY LinesKept
<1>2. Kept => (BomUndisturbed => \A b \in BomRevs : bomRev[b].status \in LOCKED_STATUSES =>
                 bomRev'[b].status \in LOCKED_STATUSES /\ lines'[b] = lines[b])
  BY DEF LinesStay
<1> QED
  BY <1>1, <1>2, CheckedAlways, PTL DEF Spec, ReleasedLinesStay

\* What a released BOM is made of was released, although nothing locks the
\* components while the release goes on.
THEOREM BomComponents == Spec => []ComponentsWereReleased
<1>1. CheckedInv => ComponentsWereReleased
  BY DEF CheckedInv, Checked, Components, WereReleased, ComponentsWereReleased
<1> QED
  BY <1>1, CheckedAlways, PTL

\* A BOM is released for a parent that is approved or released at the moment
\* the release commits: the release holds the parent's row.
THEOREM BomsForApprovedParents == Spec => ReleasedForApprovedParent
<1> DEFINE Kept == BomUndisturbed => \A b \in BomRevs :
        bomRev[b].status # "released" /\ bomRev'[b].status = "released" =>
            rev[ParentOf(b)].status \in {"approved", "released"}
<1>1. CheckedInv /\ [Next]_vars => Kept
  BY BomsReleasedForParent
<1> QED
  BY <1>1, CheckedAlways, PTL DEF Spec, ReleasedForApprovedParent

\* A release by the only thread closes no circle of BOMs.
THEOREM BomsCloseNoCircle == Spec => ReleaseClosesNoCircle
<1> DEFINE Kept == Serial /\ BomUndisturbed => \A b \in BomRevs :
        bomRev[b].status # "released" /\ bomRev'[b].status = "released" => ~Circular(b)'
<1>1. CheckedInv /\ [Next]_vars => Kept
  BY BomsReleasedForParent
<1> QED
  BY <1>1, CheckedAlways, PTL DEF Spec, ReleaseClosesNoCircle

-----------------------------------------------------------------------------
(***************************************************************************)
(* Process charts.  A release holds its chart's row alone, which keeps the *)
(* row and, where updates do not race, the graph; it keeps no other chart  *)
(* from being released, so what relates two charts is proved for a single  *)
(* thread.                                                                 *)
(***************************************************************************)

(* Steps on charts *)

OpcTyped ==
    /\ chart \in [Charts -> Rows] /\ place \in [Nodes -> Charts \cup {NoDoc}]
    /\ edges \subseteq EdgeRows /\ opcCall \in [AnyWorker -> OpcCalls]

\* What an update that was read, and is not yet saved, relies on.
FreshChart(c) ==
    /\ c.kind = "patch" =>
        /\ c.doc \in Charts /\ c.copy.status = chart[c.doc].status
        /\ chart[c.doc].status \in LOCKED_STATUSES => c.copy = chart[c.doc]
    /\ c.kind = "node" =>
        /\ c.node \in Nodes /\ place[c.node] # NoDoc => chart[place[c.node]].status \notin LOCKED_STATUSES
        /\ c.doc # NoDoc => place[c.node] = NoDoc /\ chart[c.doc].status \notin LOCKED_STATUSES
    /\ c.kind = "edge" =>
        \A e \in c.adds \cup c.removes : chart[e.diagram].status \notin LOCKED_STATUSES

OpcEdits(x, c) ==
    /\ opcCall[x] = IdleOpcCall /\ x \in Workers /\ c.kind \in deployment.opcKinds
    /\ c.step = "edit" /\ FreshChart(c)
    /\ opcCall' = [opcCall EXCEPT ![x] = c]
    /\ UNCHANGED <<chart, place, edges>>

OpcAct(x) ==
    \/ \E kind \in MoveKinds, d \in Charts : OpcMove(x, kind, d)
    \/ \E kind \in ReleaseKinds, d \in Charts, day \in Days \cup {None} : OpcValidate(x, kind, d, day)
    \/ \E d, n \in Charts : OpcClone(x, d, n)
    \/ \E d \in Charts, from, to \in Days \cup {None} : CreateChart(x, d, from, to)
    \/ \E d \in Charts : DestroyChart(x, d)
    \/ \E c \in OpcCalls : OpcEdits(x, c)
    \/ PublishChart(x) \/ SaveChartPatch(x) \/ SaveNode(x) \/ SaveEdge(x)

LEMMA IdleOpcTyped == IdleOpcCall \in OpcCalls
BY MaxDayAssumption DEF IdleOpcCall, OpcCalls, OpcKinds, Absent, Rows, Statuses

LEMMA OpcEditCases ==
    ASSUME NEW x, NEW kind \in OpcKinds, NEW call1 \in OpcCalls,
           OpcEdit(x, kind, call1),
           NEW c, c = [call1 EXCEPT !.step = "edit", !.kind = kind],
           FreshChart(c)
    PROVE  \E c2 \in OpcCalls : OpcEdits(x, c2)
<1>1. c \in OpcCalls /\ c.step = "edit" /\ c.kind = kind
  BY DEF OpcCalls
<1>2. OpcEdits(x, c)
  BY <1>1 DEF OpcEdits, OpcEdit, OpcServes
<1> QED
  BY <1>1, <1>2

LEMMA OpcCases ==
    ASSUME OpcTyped, NEW x \in AnyWorker, OpcStarts(x) \/ OpcContinues(x)
    PROVE  OpcAct(x)
<1> /\ chart \in [Charts -> Rows] /\ place \in [Nodes -> Charts \cup {NoDoc}] /\ edges \subseteq EdgeRows
  BY DEF OpcTyped
<1> IdleOpcCall \in OpcCalls /\ {"patch", "node", "move node", "edge", "move edge"} \subseteq OpcKinds
  BY IdleOpcTyped DEF OpcKinds
<1> DEFINE Edited == \E c \in OpcCalls : OpcEdits(x, c)
<1>1. CASE OpcContinues(x)
  BY <1>1 DEF OpcAct, OpcContinues
<1>2. ASSUME NEW d \in Charts, NEW from \in Days \cup {None}, NEW to \in Days \cup {None}, ReadChartPatch(x, d, from, to)
      PROVE  Edited
  <2> DEFINE row == [chart[d] EXCEPT !.from = from, !.to = to]
             c1 == [IdleOpcCall EXCEPT !.doc = d, !.copy = row]
             c == [c1 EXCEPT !.step = "edit", !.kind = "patch"]
  <2>1. row \in Rows /\ row.status = chart[d].status
    BY DEF Rows
  <2>2. (chart[d].status \in LOCKED_STATUSES => row = chart[d]) /\ OpcEdit(x, "patch", c1)
    BY <1>2 DEF ReadChartPatch
  <2> HIDE DEF row
  <2>3. c1 \in OpcCalls /\ c.doc = d /\ c.copy = row /\ c.kind = "patch"
    BY <2>1 DEF OpcCalls, IdleOpcCall
  <2>4. FreshChart(c)
    <3> HIDE DEF c
    <3> QED
      BY <2>1, <2>2, <2>3 DEF FreshChart
  <2> QED
    BY <2>2, <2>3, <2>4, OpcEditCases
<1>3. ASSUME NEW n \in Nodes, NEW d \in Charts, ReadNode(x, n, d) PROVE Edited
  <2>1. CASE place[n] = NoDoc /\ OpcEdit(x, "node", [IdleOpcCall EXCEPT !.doc = d, !.node = n])
    <3> DEFINE c1 == [IdleOpcCall EXCEPT !.doc = d, !.node = n]
               c == [c1 EXCEPT !.step = "edit", !.kind = "node"]
    <3>1. c1 \in OpcCalls /\ c.doc = d /\ c.node = n /\ c.kind = "node"
      BY DEF OpcCalls, IdleOpcCall
    <3>2. chart[d].status \notin LOCKED_STATUSES
      BY <1>3 DEF ReadNode
    <3>3. FreshChart(c)
      <4> HIDE DEF c
      <4> QED
        BY <2>1, <3>1, <3>2 DEF FreshChart
    <3> QED
      BY <2>1, <3>1, <3>3, OpcEditCases
  <2>2. CASE place[n] = d /\ OpcEdit(x, "node", [IdleOpcCall EXCEPT !.node = n])
    <3> DEFINE c1 == [IdleOpcCall EXCEPT !.node = n]
               c == [c1 EXCEPT !.step = "edit", !.kind = "node"]
    <3>1. c1 \in OpcCalls /\ c.doc = NoDoc /\ c.node = n /\ c.kind = "node"
      BY DEF OpcCalls, IdleOpcCall
    <3>2. chart[d].status \notin LOCKED_STATUSES
      BY <1>3 DEF ReadNode
    <3>3. FreshChart(c)
      <4> HIDE DEF c
      <4> QED
        BY <2>2, <3>1, <3>2 DEF FreshChart
    <3> QED
      BY <2>2, <3>1, <3>3, OpcEditCases
  <2> QED
    BY <1>3, <2>1, <2>2 DEF ReadNode
<1>4. ASSUME NEW n \in Nodes, NEW d \in Charts, ReadMoveNode(x, n, d) PROVE Edited
  <2> DEFINE c1 == [IdleOpcCall EXCEPT !.doc = d, !.node = n]
             c == [c1 EXCEPT !.step = "edit", !.kind = "move node"]
  <2>1. c1 \in OpcCalls /\ c.kind = "move node"
    BY DEF OpcCalls, IdleOpcCall
  <2>2. FreshChart(c)
    BY <2>1 DEF FreshChart
  <2>3. OpcEdit(x, "move node", c1)
    BY <1>4 DEF ReadMoveNode
  <2> QED
    BY <2>1, <2>2, <2>3, OpcEditCases
<1>5. ASSUME NEW d \in Charts, NEW n \in Nodes, NEW m \in Nodes, ReadEdge(x, d, n, m) PROVE Edited
  <2>1. PICK e \in EdgeRows : e = [diagram |-> d, source |-> n, target |-> m] /\ e.diagram = d
    <3>1. [diagram |-> d, source |-> n, target |-> m] \in EdgeRows
      BY DEF EdgeRows
    <3> QED
      BY <3>1
  <2>2. chart[d].status \notin LOCKED_STATUSES
    BY <1>5 DEF ReadEdge
  <2>3. CASE OpcEdit(x, "edge", [IdleOpcCall EXCEPT !.doc = d, !.adds = {e}])
    <3> DEFINE c1 == [IdleOpcCall EXCEPT !.doc = d, !.adds = {e}]
               c == [c1 EXCEPT !.step = "edit", !.kind = "edge"]
    <3>1. c1 \in OpcCalls /\ c.kind = "edge" /\ c.adds = {e} /\ c.removes = {}
      BY DEF OpcCalls, IdleOpcCall
    <3>2. FreshChart(c)
      <4> HIDE DEF c
      <4> QED
        BY <2>1, <2>2, <3>1 DEF FreshChart
    <3> QED
      BY <2>3, <3>1, <3>2, OpcEditCases
  <2>4. CASE OpcEdit(x, "edge", [IdleOpcCall EXCEPT !.removes = {e}])
    <3> DEFINE c1 == [IdleOpcCall EXCEPT !.removes = {e}]
               c == [c1 EXCEPT !.step = "edit", !.kind = "edge"]
    <3>1. c1 \in OpcCalls /\ c.kind = "edge" /\ c.adds = {} /\ c.removes = {e}
      BY DEF OpcCalls, IdleOpcCall
    <3>2. FreshChart(c)
      <4> HIDE DEF c
      <4> QED
        BY <2>1, <2>2, <3>1 DEF FreshChart
    <3> QED
      BY <2>4, <3>1, <3>2, OpcEditCases
  <2> QED
    BY <1>5, <2>1, <2>3, <2>4 DEF ReadEdge
<1>6. ASSUME NEW d \in Charts, NEW n \in Nodes, NEW m \in Nodes, NEW e \in edges, ReadMoveEdge(x, e, d, n, m) PROVE Edited
  <2> DEFINE c1 == [IdleOpcCall EXCEPT !.doc = d, !.removes = {e}, !.adds = {[diagram |-> d, source |-> n, target |-> m]}]
             c == [c1 EXCEPT !.step = "edit", !.kind = "move edge"]
  <2>1. c1 \in OpcCalls /\ c.kind = "move edge"
    <3>1. [diagram |-> d, source |-> n, target |-> m] \in EdgeRows
      BY DEF EdgeRows
    <3>2. {[diagram |-> d, source |-> n, target |-> m]} \in SUBSET EdgeRows /\ {e} \in SUBSET EdgeRows
      BY <3>1
    <3> QED
      BY <3>2 DEF OpcCalls, IdleOpcCall
  <2>2. FreshChart(c)
    BY <2>1 DEF FreshChart
  <2>3. OpcEdit(x, "move edge", c1)
    BY <1>6 DEF ReadMoveEdge
  <2> QED
    BY <2>1, <2>2, <2>3, OpcEditCases
<1>7. CASE OpcStarts(x)
  <2> HIDE DEF Edited
  <2>1. PICK d \in Charts :
        \/ \E kind \in MoveKinds : OpcMove(x, kind, d)
        \/ \E kind \in ReleaseKinds, day \in Days \cup {None} : OpcValidate(x, kind, d, day)
        \/ \E o \in Charts : OpcClone(x, d, o)
        \/ \E from, to \in Days \cup {None} : CreateChart(x, d, from, to) \/ ReadChartPatch(x, d, from, to)
        \/ DestroyChart(x, d)
        \/ \E n \in Nodes : ReadNode(x, n, d) \/ ReadMoveNode(x, n, d)
        \/ \E n, m \in Nodes :
            ReadEdge(x, d, n, m) \/ \E e \in edges : ReadMoveEdge(x, e, d, n, m)
    BY <1>7 DEF OpcStarts
  <2>2. Edited => OpcAct(x)
    BY DEF Edited, OpcAct
  <2> QED
    BY <1>2, <1>3, <1>4, <1>5, <1>6, <2>1, <2>2 DEF OpcAct
<1> QED
  BY <1>1, <1>7

-----------------------------------------------------------------------------------
(* Types and locks, whatever is served *)

\* The row as the release would leave it.
NewChart(w) == Dated(chart[opcCall[w].doc], opcCall[w].day)

ReadyChart(w) ==
    /\ opcCall[w].doc \in Charts
    /\ chart[opcCall[w].doc].status = "approved" /\ NewChart(w).from # None

OpcKnows(w) ==
    /\ opcCall[w].step # "idle" => w \in Workers /\ opcCall[w].kind \in deployment.opcKinds
    /\ OpcAt(w, "ready") => ReadyChart(w)

OpcLocks ==
    \A v, w \in AnyWorker :
        OpcAt(v, "ready") /\ OpcAt(w, "ready") /\ opcCall[v].doc = opcCall[w].doc => v = w

OpcBase == OpcTyped /\ OpcLocks /\ \A w \in AnyWorker : OpcKnows(w)

LEMMA OpcServed ==
    ASSUME OpcBase, NEW x \in AnyWorker, OpcAct(x)
    PROVE  x \in Workers
<1>1. ASSUME NEW kind, NEW d, NEW day, NEW n, NEW from, NEW to,
             \/ OpcMove(x, kind, d) \/ OpcValidate(x, kind, d, day) \/ OpcClone(x, d, n)
             \/ CreateChart(x, d, from, to) \/ DestroyChart(x, d) \/ OpcEdits(x, d)
      PROVE  x \in Workers
  BY <1>1 DEF OpcMove, OpcValidate, OpcClone, CreateChart, DestroyChart, OpcEdits, OpcServes
<1>2. CASE PublishChart(x) \/ SaveChartPatch(x) \/ SaveNode(x) \/ SaveEdge(x)
  BY <1>2 DEF PublishChart, SaveChartPatch, SaveNode, SaveEdge, OpcAt, OpcBase, OpcKnows
<1> QED
  BY <1>1, <1>2 DEF OpcAct

LEMMA ChartValidated ==
    ASSUME OpcBase, NEW x \in AnyWorker, NEW kind \in ReleaseKinds, NEW d \in Charts, NEW day \in Days \cup {None},
           OpcValidate(x, kind, d, day)
    PROVE  /\ opcCall' = [opcCall EXCEPT ![x] = opcCall'[x]] /\ opcCall'[x] \in OpcCalls
           /\ opcCall'[x].step = "ready" /\ opcCall'[x].kind = kind
           /\ opcCall'[x].doc = d /\ opcCall'[x].day = day
           /\ ReadyChart(x)' /\ NewChart(x)' = Dated(chart[d], day)
           /\ UNCHANGED <<chart, place, edges>>
<1> opcCall \in [AnyWorker -> OpcCalls] /\ chart \in [Charts -> Rows]
  BY DEF OpcBase, OpcTyped
<1> DEFINE c == [IdleOpcCall EXCEPT !.step = "ready", !.kind = kind, !.doc = d, !.day = day]
<1>1. opcCall' = [opcCall EXCEPT ![x] = c] /\ UNCHANGED <<chart, place, edges>>
  BY DEF OpcValidate
<1>2. c \in OpcCalls /\ c.step = "ready" /\ c.kind = kind /\ c.doc = d /\ c.day = day
  BY IdleOpcTyped DEF OpcCalls, IdleOpcCall, OpcKinds
<1> HIDE DEF c
<1>3. opcCall'[x] = c
  BY <1>1
<1>4. "released" \in TRANSITIONS[Dated(chart[d], day).status] /\ Dated(chart[d], day).from # None
  BY DEF OpcValidate
<1>5. chart[d].status = "approved"
  <2>1. chart[d] \in Rows /\ chart[d].status \in Statuses
    BY DEF Rows
  <2> QED
    BY <1>4, <2>1, DatedTyped, ApprovedBefore
<1>6. NewChart(x)' = Dated(chart[d], day)
  BY <1>1, <1>2, <1>3 DEF NewChart
<1>7. ReadyChart(x)'
  BY <1>1, <1>2, <1>3, <1>4, <1>5, <1>6 DEF ReadyChart
<1> QED
  BY <1>1, <1>2, <1>3, <1>6, <1>7

\* A release that is refused changes nothing; one that is not, two rows.
LEMMA ChartPublished ==
    ASSUME OpcBase, NEW x \in AnyWorker, PublishChart(x)
    PROVE  /\ OpcAt(x, "ready") /\ ReadyChart(x) /\ UNCHANGED <<place, edges>>
           /\ opcCall' = [opcCall EXCEPT ![x] = IdleOpcCall]
           /\ \/ chart' = chart
              \/ \E cur \in SUBSET (Charts \ {opcCall[x].doc}) :
                   /\ \A c \in cur : /\ ChartOf[c] = ChartOf[opcCall[x].doc] /\ ChartFree(c)
                                     /\ chart[c].status = "released" /\ chart[c].to = None
                                     /\ chart[c].from # None /\ chart[c].from < NewChart(x).from
                                     /\ chart'[c] = Superseded(chart[c], NewChart(x).from)
                   /\ NewChart(x) \in Rows /\ NewChart(x).from \in Days /\ ValidPeriod(NewChart(x))
                   /\ chart'[opcCall[x].doc] = [NewChart(x) EXCEPT !.status = "released"]
                   /\ \A o \in Charts \ ({opcCall[x].doc} \cup cur) : chart'[o] = chart[o]
                   /\ chart' \in [Charts -> Rows]
<1> DEFINE d == opcCall[x].doc row == NewChart(x)
<1>1. /\ opcCall \in [AnyWorker -> OpcCalls] /\ chart \in [Charts -> Rows]
      /\ OpcAt(x, "ready") /\ ReadyChart(x) /\ d \in Charts /\ opcCall[x].day \in Days \cup {None}
  BY DEF OpcBase, OpcTyped, OpcKnows, OpcAt, PublishChart, ReadyChart, OpcCalls
<1>2. UNCHANGED <<place, edges>> /\ opcCall' = [opcCall EXCEPT ![x] = IdleOpcCall]
  BY DEF PublishChart, OpcFinish
<1>3. row \in Rows /\ row.from \in Days
  <2>1. row \in Rows
    BY <1>1, DatedTyped DEF NewChart
  <2> QED
    BY <1>1, <2>1 DEF ReadyChart, Rows
<1>4. PICK cur \in FoundChart(d) :
        /\ \A c \in cur : ChartFree(c)
        /\ \/ chart' = chart
           \/ /\ \A c \in cur : chart[c].from # None /\ chart[c].from < row.from
              /\ ValidPeriod(row)
              /\ chart' = [o \in Charts |-> CASE o = d -> [row EXCEPT !.status = "released"]
                                              [] o \in cur -> Superseded(chart[o], row.from)
                                              [] OTHER -> chart[o]]
  BY DEF PublishChart, NewChart
<1>5. cur \subseteq CurrentCharts(d)
  BY DEF FoundChart
<1>6. /\ cur \subseteq Charts \ {d}
      /\ \A c \in cur : ChartOf[c] = ChartOf[d] /\ chart[c].status = "released" /\ chart[c].to = None
  BY <1>5 DEF CurrentCharts
<1> HIDE DEF row
<1>7. [row EXCEPT !.status = "released"] \in Rows
  BY <1>3 DEF Rows, Statuses
<1>8. ASSUME NEW o \in Charts PROVE Superseded(chart[o], row.from) \in Rows
  <2>1. row.from - 1 \in Days \cup {None}
    BY <1>3, MaxDayAssumption DEF Days, None
  <2> QED
    BY <1>1, <2>1 DEF Superseded, Rows, Statuses
<1>9. CASE chart' # chart
  <2>1. chart' = [o \in Charts |-> CASE o = d -> [row EXCEPT !.status = "released"]
                                     [] o \in cur -> Superseded(chart[o], row.from)
                                     [] OTHER -> chart[o]]
    BY <1>4, <1>9
  <2>2. chart'[d] = [row EXCEPT !.status = "released"]
    BY <1>1, <1>6, <2>1
  <2>3. \A c \in cur : chart'[c] = Superseded(chart[c], row.from)
    BY <1>6, <2>1
  <2>4. \A o \in Charts \ ({d} \cup cur) : chart'[o] = chart[o]
    BY <2>1
  <2>5. chart' \in [Charts -> Rows]
    BY <1>1, <1>7, <1>8, <2>1
  <2>6. /\ \A c \in cur : /\ ChartOf[c] = ChartOf[d] /\ ChartFree(c)
                          /\ chart[c].status = "released" /\ chart[c].to = None
                          /\ chart[c].from # None /\ chart[c].from < row.from
                          /\ chart'[c] = Superseded(chart[c], row.from)
        /\ ValidPeriod(row)
    BY <1>4, <1>6, <1>9, <2>3
  <2>7. cur \in SUBSET (Charts \ {d})
    BY <1>6
  <2> QED
    BY <1>1, <1>2, <1>3, <2>2, <2>4, <2>5, <2>6, <2>7 DEF row
<1> QED
  BY <1>1, <1>2, <1>9

LEMMA OpcCallIsOwn ==
    ASSUME OpcBase, NEW x \in AnyWorker, OpcAct(x)
    PROVE  /\ opcCall' \in [AnyWorker -> OpcCalls]
           /\ \A v \in AnyWorker \ {x} : opcCall'[v] = opcCall[v]
           /\ \/ opcCall'[x].step = "idle"
              \/ \E c \in OpcCalls : OpcEdits(x, c) /\ opcCall'[x] = c
              \/ \E kind \in ReleaseKinds, d \in Charts, day \in Days \cup {None} : OpcValidate(x, kind, d, day)
<1> opcCall \in [AnyWorker -> OpcCalls]
  BY DEF OpcBase, OpcTyped
<1> DEFINE Goal == /\ opcCall' \in [AnyWorker -> OpcCalls]
                   /\ \A v \in AnyWorker \ {x} : opcCall'[v] = opcCall[v]
<1>1. ASSUME NEW kind, NEW d, NEW n, NEW from, NEW to,
             OpcMove(x, kind, d) \/ OpcClone(x, d, n) \/ CreateChart(x, d, from, to) \/ DestroyChart(x, d)
      PROVE  Goal /\ opcCall'[x].step = "idle"
  <2>1. opcCall' = opcCall /\ opcCall[x] = IdleOpcCall
    BY <1>1 DEF OpcMove, OpcClone, CreateChart, DestroyChart, OpcServes
  <2> QED
    BY <2>1 DEF IdleOpcCall
<1>2. CASE PublishChart(x) \/ SaveChartPatch(x) \/ SaveNode(x) \/ SaveEdge(x)
  <2>1. opcCall' = [opcCall EXCEPT ![x] = IdleOpcCall]
    BY <1>2 DEF PublishChart, SaveChartPatch, SaveNode, SaveEdge, OpcFinish
  <2>2. Goal /\ opcCall'[x] = IdleOpcCall
    BY <2>1, IdleOpcTyped
  <2> QED
    BY <2>2 DEF IdleOpcCall
<1>3. ASSUME NEW c \in OpcCalls, OpcEdits(x, c) PROVE Goal /\ opcCall'[x] = c
  <2>1. opcCall' = [opcCall EXCEPT ![x] = c]
    BY <1>3 DEF OpcEdits
  <2> QED
    BY <2>1
<1>4. ASSUME NEW kind \in ReleaseKinds, NEW d \in Charts, NEW day \in Days \cup {None}, OpcValidate(x, kind, d, day)
      PROVE  Goal
  <2>1. PICK c \in OpcCalls : opcCall' = [opcCall EXCEPT ![x] = c]
    BY <1>4, ChartValidated
  <2> QED
    BY <2>1
<1> QED
  BY <1>1, <1>2, <1>3, <1>4 DEF OpcAct

\* Nobody else writes a row that a release holds.
LEMMA HeldChartStays ==
    ASSUME OpcBase, NEW x \in AnyWorker, OpcAct(x), NEW v \in AnyWorker \ {x}, OpcAt(v, "ready")
    PROVE  chart'[opcCall[v].doc] = chart[opcCall[v].doc]
<1> chart \in [Charts -> Rows] /\ ReadyChart(v)
  BY DEF OpcBase, OpcTyped, OpcKnows
<1>1. PICK own \in Charts : own = opcCall[v].doc /\ ChartExists(own) /\ ~ChartFree(own)
  BY DEF ReadyChart, ChartExists, ChartFree
<1>2. ASSUME NEW kind \in MoveKinds, NEW o \in Charts, OpcMove(x, kind, o) PROVE chart'[own] = chart[own]
  BY <1>1, <1>2 DEF OpcMove
<1>3. ASSUME NEW o \in Charts, NEW n \in Charts, OpcClone(x, o, n) PROVE chart'[own] = chart[own]
  BY <1>1, <1>3 DEF OpcClone
<1>4. ASSUME NEW o \in Charts, NEW from, NEW to, CreateChart(x, o, from, to) PROVE chart'[own] = chart[own]
  BY <1>1, <1>4 DEF CreateChart
<1>5. ASSUME NEW o \in Charts, DestroyChart(x, o) PROVE chart'[own] = chart[own]
  BY <1>1, <1>5 DEF DestroyChart
<1>6. CASE PublishChart(x)
  <2>1. opcCall[x].doc # own
    BY <1>1, <1>6 DEF PublishChart, OpcBase, OpcLocks
  <2> QED
    BY <1>1, <1>6, <2>1, ChartPublished, ZenonT(30)
<1>7. ASSUME NEW c \in OpcCalls, OpcEdits(x, c) PROVE chart'[own] = chart[own]
  BY <1>7 DEF OpcEdits
<1>8. ASSUME NEW kind, NEW o \in Charts, NEW day, OpcValidate(x, kind, o, day) PROVE chart'[own] = chart[own]
  BY <1>8 DEF OpcValidate
<1>9. CASE SaveChartPatch(x) \/ SaveNode(x) \/ SaveEdge(x)
  BY <1>1, <1>9 DEF SaveChartPatch, SaveNode, SaveEdge
<1> QED
  BY <1>1, <1>2, <1>3, <1>4, <1>5, <1>6, <1>7, <1>8, <1>9 DEF OpcAct

LEMMA OpcTypedNext ==
    ASSUME OpcBase, NEW x \in AnyWorker, OpcAct(x)
    PROVE  OpcTyped'
<1> /\ chart \in [Charts -> Rows] /\ place \in [Nodes -> Charts \cup {NoDoc}]
    /\ edges \subseteq EdgeRows /\ opcCall \in [AnyWorker -> OpcCalls]
  BY DEF OpcBase, OpcTyped
<1>1. opcCall' \in [AnyWorker -> OpcCalls]
  BY OpcCallIsOwn
<1>2. ASSUME chart' \in [Charts -> Rows], UNCHANGED <<place, edges>> PROVE OpcTyped'
  BY <1>1, <1>2 DEF OpcTyped
<1>3. ASSUME NEW kind \in MoveKinds, NEW d \in Charts, OpcMove(x, kind, d) PROVE OpcTyped'
  <2>1. Moves[kind] \in Statuses
    BY DEF MoveKinds, Moves, Statuses
  <2>2. [chart[d] EXCEPT !.status = Moves[kind]] \in Rows
    BY <2>1 DEF Rows
  <2>3. chart' = [chart EXCEPT ![d] = [chart[d] EXCEPT !.status = Moves[kind]]] /\ UNCHANGED <<place, edges>>
    BY <1>3 DEF OpcMove
  <2> QED
    BY <1>2, <2>2, <2>3
<1>4. Absent \in Rows /\ [Absent EXCEPT !.status = "draft"] \in Rows
  BY DEF Absent, Rows, Statuses
<1>5. ASSUME NEW d \in Charts, NEW n \in Charts, OpcClone(x, d, n) PROVE OpcTyped'
  <2>1. PICK copies \in [NodesOf(d) -> NodesOf(NoDoc)] :
        /\ \A e \in EdgesOf(d) : {e.source, e.target} \subseteq NodesOf(d)
        /\ place' = [m \in Nodes |-> IF \E a \in NodesOf(d) : copies[a] = m THEN n ELSE place[m]]
        /\ edges' = edges \cup {[diagram |-> n, source |-> copies[e.source],
                                 target |-> copies[e.target]] : e \in EdgesOf(d)}
    BY <1>5 DEF OpcClone
  <2>2. place' \in [Nodes -> Charts \cup {NoDoc}]
    BY <2>1
  <2>3. ASSUME NEW e \in EdgesOf(d)
        PROVE  [diagram |-> n, source |-> copies[e.source], target |-> copies[e.target]] \in EdgeRows
    <3>1. copies[e.source] \in Nodes /\ copies[e.target] \in Nodes
      <4>1. e.source \in NodesOf(d) /\ e.target \in NodesOf(d)
        BY <2>1
      <4>2. NodesOf(NoDoc) \subseteq Nodes
        BY DEF NodesOf
      <4> HIDE DEF NodesOf
      <4> QED
        BY <4>1, <4>2
    <3> QED
      BY <3>1 DEF EdgeRows
  <2>4. edges' \subseteq EdgeRows
    BY <2>1, <2>3
  <2>5. chart' = [chart EXCEPT ![n] = [Absent EXCEPT !.status = "draft"]]
    BY <1>5 DEF OpcClone
  <2>6. chart' \in [Charts -> Rows]
    BY <1>4, <2>5
  <2> QED
    BY <1>1, <2>2, <2>4, <2>6 DEF OpcTyped
<1>6. ASSUME NEW d \in Charts, NEW from \in Days \cup {None}, NEW to \in Days \cup {None}, CreateChart(x, d, from, to)
      PROVE  OpcTyped'
  <2>1. [status |-> "draft", from |-> from, to |-> to] \in Rows
    BY DEF Rows, Statuses
  <2> QED
    BY <1>2, <1>6, <2>1 DEF CreateChart
<1>7. ASSUME NEW d \in Charts, DestroyChart(x, d) PROVE OpcTyped'
  <2>1. /\ chart' = [chart EXCEPT ![d] = Absent]
        /\ place' = [n \in Nodes |-> IF place[n] = d THEN NoDoc ELSE place[n]]
        /\ edges' \subseteq edges
    BY <1>7 DEF DestroyChart
  <2> QED
    BY <1>1, <1>4, <2>1 DEF OpcTyped
<1>8. ASSUME NEW c, NEW kind, NEW d, NEW day, OpcEdits(x, c) \/ OpcValidate(x, kind, d, day) PROVE OpcTyped'
  BY <1>2, <1>8 DEF OpcEdits, OpcValidate
<1>9. CASE PublishChart(x)
  BY <1>2, <1>9, ChartPublished
<1>10. CASE SaveChartPatch(x)
  <2>1. chart' = [chart EXCEPT ![opcCall[x].doc] = opcCall[x].copy] /\ UNCHANGED <<place, edges>> /\ opcCall[x].copy \in Rows
    BY <1>10 DEF SaveChartPatch, OpcCalls
  <2> QED
    BY <1>2, <2>1
<1>11. CASE SaveNode(x)
  <2> DEFINE n == opcCall[x].node d == opcCall[x].doc
  <2>1. /\ place' = [place EXCEPT ![n] = IF d = NoDoc \/ ChartExists(d) THEN d ELSE @]
        /\ edges' \subseteq edges /\ chart' = chart /\ d \in Charts \cup {NoDoc}
    BY <1>11 DEF SaveNode, OpcCalls
  <2> HIDE DEF n, d
  <2>2. place' \in [Nodes -> Charts \cup {NoDoc}]
    BY <2>1
  <2> QED
    BY <1>1, <2>1, <2>2 DEF OpcTyped
<1>12. CASE SaveEdge(x)
  <2>1. opcCall[x].adds \subseteq EdgeRows
    BY DEF OpcCalls
  <2>2. edges' \subseteq edges \cup opcCall[x].adds /\ UNCHANGED <<chart, place>>
    BY <1>12 DEF SaveEdge
  <2> QED
    BY <1>1, <2>1, <2>2 DEF OpcTyped
<1> QED
  BY <1>3, <1>5, <1>6, <1>7, <1>8, <1>9, <1>10, <1>11, <1>12 DEF OpcAct

LEMMA OpcBaseNext ==
    ASSUME OpcBase, NEW x \in AnyWorker, OpcAct(x), deployment' = deployment
    PROVE  OpcBase'
<1>1. OpcTyped' /\ x \in Workers
  BY OpcTypedNext, OpcServed
<1>2. ASSUME NEW v \in AnyWorker \ {x} PROVE OpcKnows(v)'
  <2>1. opcCall'[v] = opcCall[v] /\ OpcKnows(v)
    BY OpcCallIsOwn DEF OpcBase
  <2>2. ASSUME OpcAt(v, "ready") PROVE ReadyChart(v)'
    <3>1. ReadyChart(v) /\ chart'[opcCall[v].doc] = chart[opcCall[v].doc]
      BY <2>1, <2>2, HeldChartStays DEF OpcKnows
    <3> QED
      BY <2>1, <3>1 DEF ReadyChart, NewChart
  <2> QED
    BY <2>1, <2>2 DEF OpcKnows, OpcAt, Workers
<1>3. OpcKnows(x)' /\ \A v \in AnyWorker \ {x} : OpcAt(v, "ready") /\ OpcAt(x, "ready")' => opcCall[v].doc # opcCall'[x].doc
  <2>1. CASE opcCall'[x].step = "idle"
    BY <2>1 DEF OpcKnows, OpcAt
  <2>2. ASSUME NEW c \in OpcCalls, OpcEdits(x, c) /\ opcCall'[x] = c
        PROVE  OpcKnows(x)' /\ opcCall'[x].step # "ready"
    BY <1>1, <2>2 DEF OpcEdits, OpcKnows, OpcAt, Workers
  <2>3. ASSUME NEW kind \in ReleaseKinds, NEW d \in Charts, NEW day \in Days \cup {None}, OpcValidate(x, kind, d, day)
        PROVE  OpcKnows(x)' /\ opcCall'[x].doc = d /\ ChartFree(d)
    <3>1. opcCall'[x].kind = kind /\ opcCall'[x].doc = d /\ ReadyChart(x)'
      BY <2>3, ChartValidated
    <3>2. kind \in deployment.opcKinds /\ ChartFree(d)
      BY <2>3 DEF OpcValidate, OpcServes
    <3> QED
      BY <1>1, <3>1, <3>2 DEF OpcKnows, Workers
  <2> QED
    BY <2>1, <2>2, <2>3, OpcCallIsOwn DEF ChartFree, OpcAt
<1>4. OpcLocks'
  <2> SUFFICES ASSUME NEW v \in AnyWorker, NEW w \in AnyWorker, v # w, OpcAt(v, "ready")', OpcAt(w, "ready")'
               PROVE  opcCall'[v].doc # opcCall'[w].doc
    BY DEF OpcLocks
  <2>1. \A u \in AnyWorker \ {x} : opcCall'[u] = opcCall[u]
    BY OpcCallIsOwn
  <2>2. CASE v # x /\ w # x
    BY <2>1, <2>2 DEF OpcBase, OpcLocks, OpcAt
  <2>3. CASE v = x \/ w = x
    BY <1>3, <2>1, <2>3 DEF OpcAt
  <2> QED
    BY <2>2, <2>3
<1> QED
  BY <1>1, <1>2, <1>3, <1>4 DEF OpcBase

-----------------------------------------------------------------------------------
(* Rows when updates do not race *)

OpcFresh(w) == OpcAt(w, "edit") => FreshChart(opcCall[w])

\* No other chart of the item revision is released on the days that are checked.
ChartClear(w) ==
    OpcAt(w, "ready") => \A o \in Charts \ {opcCall[w].doc} :
        ChartOf[o] = ChartOf[opcCall[w].doc] /\ chart[o].status = "released"
            => ~PeriodsOverlap(NewChart(w), chart[o])

ChartsStarted == \A d \in Charts : chart[d].status = "released" => chart[d].from # None

ChartsApart ==
    \A a, b \in Charts :
        /\ a # b /\ ChartOf[a] = ChartOf[b]
        /\ chart[a].status = "released" /\ chart[b].status = "released"
        => ~PeriodsOverlap(chart[a], chart[b])

NoneSuperseded == \A d \in Charts : chart[d].status # "superseded"

ChartsQuiet ==
    \A d \in Charts : \/ chart'[d] = chart[d]
                      \/ chart'[d].status \notin LOCKED_STATUSES
                      \/ chart[d].status \in LOCKED_STATUSES /\ chart'[d].status = "obsolete"

LEMMA ChartRowKinds ==
    ASSUME OpcBase, NEW x \in AnyWorker, OpcAct(x), OpcFresh(x)
    PROVE  ChartsQuiet \/ PublishChart(x)
<1> chart \in [Charts -> Rows] /\ opcCall \in [AnyWorker -> OpcCalls]
  BY DEF OpcBase, OpcTyped
<1>1. ASSUME NEW kind \in MoveKinds, NEW d \in Charts, OpcMove(x, kind, d) PROVE ChartsQuiet
  <2> DEFINE target == Moves[kind]
  <2>1. target \in TRANSITIONS[chart[d].status] /\ chart' = [chart EXCEPT ![d].status = target]
    BY <1>1 DEF OpcMove
  <2>2. chart[d].status \in Statuses
    BY DEF Rows
  <2>3. \/ target \notin LOCKED_STATUSES
        \/ chart[d].status \in LOCKED_STATUSES /\ target = "obsolete"
    BY <2>1, <2>2, MovesAre DEF LOCKED_STATUSES
  <2> HIDE DEF target
  <2>4. chart'[d].status = target /\ \A o \in Charts \ {d} : chart'[o] = chart[o]
    BY <2>1 DEF Rows
  <2> QED
    BY <2>3, <2>4 DEF ChartsQuiet
<1>2. Absent.status \notin LOCKED_STATUSES /\ [Absent EXCEPT !.status = "draft"].status \notin LOCKED_STATUSES
  BY DEF Absent, LOCKED_STATUSES
<1>3. ASSUME NEW d \in Charts, NEW n \in Charts, OpcClone(x, d, n) PROVE ChartsQuiet
  <2>1. chart' = [chart EXCEPT ![n] = [Absent EXCEPT !.status = "draft"]]
    BY <1>3 DEF OpcClone
  <2> QED
    BY <1>2, <2>1 DEF ChartsQuiet
<1>4. ASSUME NEW d \in Charts, NEW from, NEW to, CreateChart(x, d, from, to) PROVE ChartsQuiet
  <2>1. chart' = [chart EXCEPT ![d] = [status |-> "draft", from |-> from, to |-> to]]
    BY <1>4 DEF CreateChart
  <2>2. [status |-> "draft", from |-> from, to |-> to].status \notin LOCKED_STATUSES
    BY DEF LOCKED_STATUSES
  <2> QED
    BY <2>1, <2>2 DEF ChartsQuiet
<1>5. ASSUME NEW d \in Charts, DestroyChart(x, d) PROVE ChartsQuiet
  <2>1. chart' = [chart EXCEPT ![d] = Absent]
    BY <1>5 DEF DestroyChart
  <2> QED
    BY <1>2, <2>1 DEF ChartsQuiet
<1>6. CASE SaveChartPatch(x)
  <2>1. chart' = [chart EXCEPT ![opcCall[x].doc] = opcCall[x].copy] /\ OpcAt(x, "edit") /\ opcCall[x].kind = "patch"
    BY <1>6 DEF SaveChartPatch
  <2>2. /\ opcCall[x].copy.status = chart[opcCall[x].doc].status
        /\ chart[opcCall[x].doc].status \in LOCKED_STATUSES => opcCall[x].copy = chart[opcCall[x].doc]
    BY <2>1 DEF OpcFresh, FreshChart
  <2>3. ChartsQuiet
    BY <2>1, <2>2 DEF ChartsQuiet
  <2> QED
    BY <2>3
<1>7. ASSUME chart' = chart PROVE ChartsQuiet
  BY <1>7 DEF ChartsQuiet
<1>8. ASSUME NEW kind \in ReleaseKinds, NEW d \in Charts, NEW day \in Days \cup {None}, OpcValidate(x, kind, d, day)
      PROVE  ChartsQuiet
  BY <1>7, <1>8 DEF OpcValidate
<1>9. ASSUME NEW c \in OpcCalls, OpcEdits(x, c) PROVE ChartsQuiet
  BY <1>7, <1>9 DEF OpcEdits
<1>10. SaveNode(x) \/ SaveEdge(x) => ChartsQuiet
  BY <1>7 DEF SaveNode, SaveEdge
<1> QED
  BY <1>1, <1>3, <1>4, <1>5, <1>6, <1>8, <1>9, <1>10 DEF OpcAct

LEMMA ChartRowsStaySound ==
    ASSUME OpcBase, ChartsStarted, ChartsApart, NoneSuperseded,
           NEW x \in AnyWorker, OpcAct(x), OpcFresh(x), ChartClear(x)
    PROVE  ChartsStarted' /\ ChartsApart' /\ NoneSuperseded'
<1> chart \in [Charts -> Rows]
  BY DEF OpcBase, OpcTyped
<1> DEFINE Goal == ChartsStarted' /\ ChartsApart' /\ NoneSuperseded'
<1>1. ASSUME ChartsQuiet PROVE Goal
  <2>1. \A d \in Charts : chart'[d].status \in {"released", "superseded"} => chart'[d] = chart[d]
    BY <1>1 DEF ChartsQuiet, LOCKED_STATUSES
  <2> QED
    BY <2>1 DEF ChartsStarted, ChartsApart, NoneSuperseded
<1>2. ASSUME PublishChart(x) PROVE Goal
  <2>1. ASSUME chart' = chart PROVE Goal
    BY <2>1 DEF ChartsStarted, ChartsApart, NoneSuperseded
  <2>2. ASSUME chart' # chart PROVE Goal
    <3>1. PICK d \in Charts : d = opcCall[x].doc /\ OpcAt(x, "ready")
      BY <1>2, ChartPublished DEF ReadyChart
    <3>2. PICK row \in Rows : row = NewChart(x)
      BY <1>2, <2>2, ChartPublished
    <3>3. PICK cur \in SUBSET (Charts \ {d}) :
                   /\ \A c \in cur : /\ ChartOf[c] = ChartOf[d]
                                     /\ chart[c].status = "released" /\ chart[c].to = None
                                     /\ chart[c].from # None /\ chart[c].from < row.from
                   /\ row.from \in Days /\ ValidPeriod(row)
                   /\ chart'[d] = [row EXCEPT !.status = "released"]
                   /\ \A o \in Charts \ ({d} \cup cur) : chart'[o] = chart[o]
      BY <1>2, <2>2, <3>1, <3>2, ChartPublished
    <3>4. \A o \in Charts \ {d} : ChartOf[o] = ChartOf[d] /\ chart[o].status = "released" => ~PeriodsOverlap(row, chart[o])
      BY <3>1, <3>2 DEF ChartClear
    <3>5. ASSUME NEW c \in cur PROVE FALSE
      <4>1. /\ ~PeriodsOverlap(row, chart[c]) /\ chart[c].to = None
            /\ chart[c].from \in Days \cup {None} /\ chart[c].from < row.from
            /\ row.to \in Days \cup {None} /\ row.from # None
        BY <3>3, <3>4, <3>5 DEF Rows, Days, None
      <4>2. row.to # None => row.from <= row.to
        BY <3>3, <4>1 DEF ValidPeriod
      <4>3. row.from \in Int /\ row.to \in Int /\ chart[c].from \in Int
        BY <3>3, <4>1, MaxDayAssumption DEF Days, None
      <4> QED
        BY <4>1, <4>2, <4>3 DEF PeriodsOverlap
    <3>6. \A o \in Charts \ {d} : chart'[o] = chart[o]
      BY <3>3, <3>5
    <3>7. chart'[d].status = "released" /\ chart'[d].from = row.from /\ chart'[d].to = row.to /\ row.from # None
      BY <3>3 DEF Rows, Days, None
    <3>8. \A o \in Charts \ {d} : ChartOf[o] = ChartOf[d] /\ chart[o].status = "released"
                                   => ~PeriodsOverlap(chart'[d], chart[o])
      BY <3>4, <3>7 DEF PeriodsOverlap
    <3>9. ChartsStarted' /\ NoneSuperseded'
      BY <3>6, <3>7 DEF ChartsStarted, NoneSuperseded
    <3>10. ASSUME NEW a \in Charts, NEW b \in Charts, a # b, ChartOf[a] = ChartOf[b],
                  chart'[a].status = "released", chart'[b].status = "released"
           PROVE  ~PeriodsOverlap(chart'[a], chart'[b])
      <4>1. CASE a = d
        BY <3>6, <3>8, <3>10, <4>1
      <4>2. CASE b = d
        BY <3>6, <3>8, <3>10, <4>2, OverlapSymmetric
      <4>3. CASE a # d /\ b # d
        BY <3>6, <3>10, <4>3 DEF ChartsApart
      <4> QED
        BY <4>1, <4>2, <4>3
    <3> QED
      BY <3>9, <3>10 DEF ChartsApart
  <2> QED
    BY <2>1, <2>2
<1> QED
  BY <1>1, <1>2, ChartRowKinds

LEMMA SameGraph ==
    ASSUME NEW d, NodesOf(d)' = NodesOf(d), EdgesOf(d)' = EdgesOf(d)
    PROVE  GraphErrors(d)' <=> GraphErrors(d)
<1>1. Follows(d)' = Follows(d)
  BY DEF Follows
<1> QED
  BY <1>1 DEF GraphErrors, Cyclic

\* The thread that steps: an update it has read is fresh, a release it has
\* validated is clear and its chart a graph.
LEMMA OwnChartCallSound ==
    ASSUME OpcBase, NEW x \in AnyWorker, OpcAct(x)
    PROVE  /\ OpcFresh(x)'
           /\ ChartsStarted => ChartClear(x)'
           /\ \A o \in Charts : OpcAt(x, "ready")' /\ opcCall'[x].doc = o => ~GraphErrors(o)'
<1> opcCall \in [AnyWorker -> OpcCalls] /\ chart \in [Charts -> Rows]
  BY DEF OpcBase, OpcTyped
<1> DEFINE Goal == /\ OpcFresh(x)'
                   /\ ChartsStarted => ChartClear(x)'
                   /\ \A o \in Charts : OpcAt(x, "ready")' /\ opcCall'[x].doc = o => ~GraphErrors(o)'
<1>1. ASSUME opcCall'[x].step = "idle" PROVE Goal
  BY <1>1 DEF OpcFresh, ChartClear, OpcAt
<1>2. ASSUME NEW c \in OpcCalls, OpcEdits(x, c), opcCall'[x] = c PROVE Goal
  <2>1. c.step = "edit" /\ FreshChart(c) /\ UNCHANGED <<chart, place>>
    BY <1>2 DEF OpcEdits
  <2>2. OpcFresh(x)'
    BY <1>2, <2>1 DEF OpcFresh, FreshChart
  <2>3. ~OpcAt(x, "ready")'
    BY <1>2, <2>1 DEF OpcAt
  <2> QED
    BY <2>2, <2>3 DEF ChartClear
<1>3. ASSUME NEW kind \in ReleaseKinds, NEW d \in Charts, NEW day \in Days \cup {None}, OpcValidate(x, kind, d, day)
      PROVE  Goal
  <2>1. /\ opcCall'[x].step = "ready" /\ opcCall'[x].doc = d /\ NewChart(x)' = Dated(chart[d], day)
        /\ UNCHANGED <<chart, place, edges>>
    BY <1>3, ChartValidated
  <2>2. NoReleasedChartOverlap(d, Dated(chart[d], day)) /\ ~GraphErrors(d)
    BY <1>3 DEF OpcValidate
  <2>3. ASSUME ChartsStarted PROVE ChartClear(x)'
    BY <2>1, <2>2, <2>3 DEF ChartClear, NoReleasedChartOverlap, ChartsStarted
  <2>4. ASSUME NEW o \in Charts, opcCall'[x].doc = o PROVE ~GraphErrors(o)'
    <3>1. NodesOf(d)' = NodesOf(d) /\ EdgesOf(d)' = EdgesOf(d)
      BY <2>1 DEF NodesOf, EdgesOf
    <3> QED
      BY <2>1, <2>2, <2>4, <3>1, SameGraph
  <2>5. OpcFresh(x)'
    BY <2>1 DEF OpcFresh, OpcAt
  <2> QED
    BY <2>3, <2>4, <2>5
<1> QED
  BY <1>1, <1>2, <1>3, OpcCallIsOwn

-----------------------------------------------------------------------------------
(* Graphs when updates do not race *)

\* A chart whose graph was checked: it was released, or is about to be.
Settled(d) == chart[d].status \in LOCKED_STATUSES \/ \E w \in AnyWorker : OpcAt(w, "ready") /\ opcCall[w].doc = d

LEMMA GraphStays ==
    ASSUME OpcBase, OpcUndisturbed, NEW x \in AnyWorker, OpcAct(x), OpcFresh(x),
           NEW d \in Charts, Settled(d), ~GraphErrors(d), ~DestroyChart(x, d)
    PROVE  ~GraphErrors(d)'
<1> /\ chart \in [Charts -> Rows] /\ place \in [Nodes -> Charts \cup {NoDoc}]
    /\ edges \subseteq EdgeRows /\ opcCall \in [AnyWorker -> OpcCalls] /\ d # NoDoc
  BY ChartOfAssumption DEF OpcBase, OpcTyped
<1>1. ASSUME NodesOf(d)' = NodesOf(d), EdgesOf(d)' = EdgesOf(d) PROVE ~GraphErrors(d)'
  BY <1>1, SameGraph
<1>2. ASSUME UNCHANGED <<place, edges>> PROVE ~GraphErrors(d)'
  BY <1>1, <1>2 DEF NodesOf, EdgesOf
<1>3. ChartExists(d)
  BY DEF Settled, ChartExists, OpcBase, OpcKnows, ReadyChart, LOCKED_STATUSES
<1>4. \A e \in EdgesOf(d) : e.source \in NodesOf(d) /\ e.target \in NodesOf(d)
  BY DEF GraphErrors
<1>5. ASSUME NEW a \in Charts, NEW n \in Charts, OpcClone(x, a, n) PROVE ~GraphErrors(d)'
  <2>1. n # d
    BY <1>3, <1>5 DEF OpcClone
  <2>2. PICK copies \in [NodesOf(a) -> NodesOf(NoDoc)] :
        /\ place' = [m \in Nodes |-> IF \E o \in NodesOf(a) : copies[o] = m THEN n ELSE place[m]]
        /\ edges' = edges \cup {[diagram |-> n, source |-> copies[e.source],
                                 target |-> copies[e.target]] : e \in EdgesOf(a)}
    BY <1>5 DEF OpcClone
  <2>3. ASSUME NEW m \in Nodes PROVE place'[m] = d <=> place[m] = d
    <3>1. ASSUME NEW o \in NodesOf(a), copies[o] = m PROVE place[m] = NoDoc
      <4>1. copies[o] \in NodesOf(NoDoc)
        BY <3>1
      <4> QED
        BY <3>1, <4>1 DEF NodesOf
    <3> QED
      BY <2>1, <2>2, <3>1
  <2>4. NodesOf(d)' = NodesOf(d)
    BY <2>3 DEF NodesOf
  <2>5. EdgesOf(d)' = EdgesOf(d)
    BY <2>1, <2>2 DEF EdgesOf
  <2> QED
    BY <1>1, <2>4, <2>5
<1>6. ASSUME NEW o \in Charts, DestroyChart(x, o) PROVE ~GraphErrors(d)'
  <2>1. /\ o # d
        /\ place' = [n \in Nodes |-> IF place[n] = o THEN NoDoc ELSE place[n]]
        /\ edges' = {e \in edges : e.diagram # o /\ {e.source, e.target} \cap NodesOf(o) = {}}
    BY <1>6 DEF DestroyChart
  <2>2. NodesOf(d)' = NodesOf(d)
    BY <2>1 DEF NodesOf
  <2>3. NodesOf(o) \cap NodesOf(d) = {}
    BY <2>1 DEF NodesOf
  <2>4. EdgesOf(d)' = EdgesOf(d)
    <3>1. ASSUME NEW e \in EdgesOf(d) PROVE e \in edges'
      <4>1. e.source \notin NodesOf(o) /\ e.target \notin NodesOf(o) /\ e \in edges /\ e.diagram = d
        BY <1>4, <2>3 DEF EdgesOf
      <4> QED
        BY <2>1, <4>1
    <3> QED
      BY <2>1, <3>1 DEF EdgesOf
  <2> QED
    BY <1>1, <2>2, <2>4
<1>7. ASSUME OpcAt(x, "edit"), opcCall[x].kind \in {"node", "edge"}
      PROVE  chart[d].status \in LOCKED_STATUSES
  <2>1. Serial /\ x \in Workers
    BY <1>7 DEF OpcUndisturbed, OpcBase, OpcKnows, OpcAt
  <2>2. ASSUME NEW w \in AnyWorker, OpcAt(w, "ready") PROVE FALSE
    <3>1. w \in Workers
      BY <2>2 DEF OpcBase, OpcKnows, OpcAt
    <3>2. w = x
      BY <2>1, <3>1 DEF Serial
    <3> QED
      BY <1>7, <2>2, <3>2 DEF OpcAt
  <2> QED
    BY <2>2 DEF Settled
<1>8. ASSUME SaveNode(x) PROVE ~GraphErrors(d)'
  <2> DEFINE n == opcCall[x].node o == opcCall[x].doc
  <2>1. /\ OpcAt(x, "edit") /\ opcCall[x].kind \in {"node", "move node"}
        /\ place' = [place EXCEPT ![n] = IF o = NoDoc \/ ChartExists(o) THEN o ELSE @]
        /\ edges' = IF o = NoDoc THEN {e \in edges : n \notin {e.source, e.target}} ELSE edges
    BY <1>8 DEF SaveNode
  <2>2. opcCall[x].kind = "node"
    BY <2>1 DEF OpcUndisturbed, OpcBase, OpcKnows, OpcAt
  <2>3. chart[d].status \in LOCKED_STATUSES
    BY <1>7, <2>1, <2>2
  <2>4. /\ n \in Nodes /\ place[n] # NoDoc => chart[place[n]].status \notin LOCKED_STATUSES
        /\ o # NoDoc => place[n] = NoDoc /\ chart[o].status \notin LOCKED_STATUSES
    BY <2>1, <2>2 DEF OpcFresh, FreshChart
  <2> HIDE DEF n, o
  <2>5. (n \in Nodes => place[n] # d) /\ o # d
    BY <2>3, <2>4
  <2>6. NodesOf(d)' = NodesOf(d)
    <3>1. ASSUME NEW m \in Nodes PROVE place'[m] = d <=> place[m] = d
      BY <2>1, <2>5
    <3> QED
      BY <3>1 DEF NodesOf
  <2>7. n \notin NodesOf(d)
    BY <2>5 DEF NodesOf
  <2>8. EdgesOf(d)' = EdgesOf(d)
    <3>1. ASSUME NEW e \in EdgesOf(d) PROVE e \in edges'
      <4>1. e.source # n /\ e.target # n /\ e \in edges
        BY <1>4, <2>7 DEF EdgesOf
      <4> QED
        BY <2>1, <4>1
    <3>2. edges' \subseteq edges
      BY <2>1
    <3> QED
      BY <3>1, <3>2 DEF EdgesOf
  <2> QED
    BY <1>1, <2>6, <2>8
<1>9. ASSUME SaveEdge(x) PROVE ~GraphErrors(d)'
  <2> DEFINE removes == opcCall[x].removes adds == opcCall[x].adds
  <2>1. /\ OpcAt(x, "edit") /\ opcCall[x].kind \in {"edge", "move edge"} /\ place' = place
        /\ edges' \subseteq edges \cup adds /\ edges \ removes \subseteq edges'
    BY <1>9 DEF SaveEdge
  <2>2. opcCall[x].kind = "edge"
    BY <2>1 DEF OpcUndisturbed, OpcBase, OpcKnows, OpcAt
  <2>3. chart[d].status \in LOCKED_STATUSES
    BY <1>7, <2>1, <2>2
  <2>4. \A e \in adds \cup removes : e.diagram # d
    BY <2>1, <2>2, <2>3 DEF OpcFresh, FreshChart
  <2> HIDE DEF removes, adds
  <2>5. EdgesOf(d)' = EdgesOf(d)
    BY <2>1, <2>4 DEF EdgesOf
  <2>6. NodesOf(d)' = NodesOf(d)
    BY <2>1 DEF NodesOf
  <2> QED
    BY <1>1, <2>5, <2>6
<1>10. ASSUME NEW kind, NEW o, NEW day, NEW c,
              OpcMove(x, kind, o) \/ OpcValidate(x, kind, o, day) \/ CreateChart(x, o, day, c) \/ OpcEdits(x, c)
       PROVE  ~GraphErrors(d)'
  BY <1>2, <1>10 DEF OpcMove, OpcValidate, CreateChart, OpcEdits
<1>11. PublishChart(x) \/ SaveChartPatch(x) => ~GraphErrors(d)'
  BY <1>2 DEF PublishChart, SaveChartPatch
<1> QED
  BY <1>5, <1>6, <1>8, <1>9, <1>10, <1>11 DEF OpcAct

LEMMA SettledBefore ==
    ASSUME OpcBase, NEW x \in AnyWorker, OpcAct(x), OpcFresh(x),
           NEW d \in Charts, chart'[d].status \in LOCKED_STATUSES
    PROVE  Settled(d) /\ ~DestroyChart(x, d)
<1> chart \in [Charts -> Rows]
  BY DEF OpcBase, OpcTyped
<1>1. ~DestroyChart(x, d)
  BY DEF DestroyChart, Absent, LOCKED_STATUSES
<1>2. CASE ChartsQuiet
  BY <1>1, <1>2 DEF ChartsQuiet, Settled
<1>3. CASE PublishChart(x)
  <2>1. CASE chart' = chart
    BY <1>1, <2>1 DEF Settled
  <2>2. CASE chart' # chart
    <3>1. PICK cur \in SUBSET (Charts \ {opcCall[x].doc}) :
            /\ \A c \in cur : /\ ChartOf[c] = ChartOf[opcCall[x].doc] /\ ChartFree(c)
                              /\ chart[c].status = "released" /\ chart[c].to = None
                              /\ chart[c].from # None /\ chart[c].from < NewChart(x).from
                              /\ chart'[c] = Superseded(chart[c], NewChart(x).from)
            /\ NewChart(x) \in Rows /\ NewChart(x).from \in Days /\ ValidPeriod(NewChart(x))
            /\ chart'[opcCall[x].doc] = [NewChart(x) EXCEPT !.status = "released"]
            /\ \A o \in Charts \ ({opcCall[x].doc} \cup cur) : chart'[o] = chart[o]
            /\ chart' \in [Charts -> Rows]
      BY <1>3, <2>2, ChartPublished
    <3>2. OpcAt(x, "ready")
      BY <1>3, ChartPublished
    <3> QED
      BY <1>1, <3>1, <3>2 DEF Settled, LOCKED_STATUSES
  <2> QED
    BY <2>1, <2>2
<1> QED
  BY <1>2, <1>3, ChartRowKinds

-----------------------------------------------------------------------------------
(* The invariant *)

ChartsSound == ChartsStarted /\ ChartsApart /\ NoneSuperseded /\ \A w \in AnyWorker : ChartClear(w)
Graphs ==
    \A d \in Charts :
        /\ chart[d].status \in LOCKED_STATUSES => ~GraphErrors(d)
        /\ \A w \in AnyWorker : OpcAt(w, "ready") /\ opcCall[w].doc = d => ~GraphErrors(d)

OpcInv ==
    /\ OpcBase
    /\ Serial \/ OpcUndisturbed => \A w \in AnyWorker : OpcFresh(w)
    /\ Serial => ChartsSound
    /\ OpcUndisturbed => Graphs

LEMMA OpcInvByCharts ==
    ASSUME OpcInv, NEW x \in AnyWorker, OpcStep(x)
    PROVE  OpcInv'
<1>1. OpcBase /\ OpcAct(x) /\ deployment' = deployment
  BY OpcCases DEF OpcInv, OpcBase, OpcStep, itemVars
<1>2. OpcBase' /\ x \in Workers /\ \A v \in AnyWorker \ {x} : opcCall'[v] = opcCall[v] /\ OpcKnows(v)
  BY <1>1, OpcBaseNext, OpcServed, OpcCallIsOwn DEF OpcBase
<1>3. ASSUME Serial, NEW v \in AnyWorker \ {x} PROVE opcCall[v].step = "idle"
  BY <1>2, <1>3 DEF Serial, OpcKnows
<1>4. ASSUME Serial \/ OpcUndisturbed, NEW v \in AnyWorker PROVE OpcFresh(v)'
  <2>1. CASE v = x
    BY <1>1, <2>1, OwnChartCallSound
  <2>2. CASE v # x
    <3>1. ASSUME OpcAt(v, "edit"), opcCall[v].kind \in {"patch", "node", "edge"} PROVE FALSE
      <4>1. v \in Workers /\ opcCall[v].kind \in deployment.opcKinds
        BY <1>2, <2>2, <3>1 DEF OpcKnows, OpcAt
      <4>2. Serial
        BY <1>4, <3>1, <4>1 DEF OpcUndisturbed
      <4> QED
        BY <1>3, <2>2, <3>1, <4>2 DEF OpcAt
    <3> QED
      BY <1>2, <2>2, <3>1 DEF OpcFresh, FreshChart, OpcAt
  <2> QED
    BY <2>1, <2>2
<1>5. ASSUME Serial PROVE ChartsSound'
  <2>1. ChartsStarted' /\ ChartsApart' /\ NoneSuperseded'
    BY <1>1, <1>5, ChartRowsStaySound DEF OpcInv, ChartsSound
  <2>2. ChartClear(x)'
    BY <1>1, <1>5, OwnChartCallSound DEF OpcInv, ChartsSound
  <2>3. \A v \in AnyWorker \ {x} : ChartClear(v)'
    BY <1>2, <1>3, <1>5 DEF ChartClear, OpcAt
  <2> QED
    BY <2>1, <2>2, <2>3 DEF ChartsSound
<1>6. ASSUME OpcUndisturbed PROVE Graphs'
  <2>1. OpcFresh(x) /\ \A d \in Charts : Settled(d) => ~GraphErrors(d)
    BY <1>6 DEF OpcInv, Graphs, Settled
  <2>2. ASSUME NEW d \in Charts, chart'[d].status \in LOCKED_STATUSES PROVE ~GraphErrors(d)'
    BY <1>1, <1>6, <2>1, <2>2, SettledBefore, GraphStays
  <2>3. ASSUME NEW d \in Charts, OpcAt(x, "ready")' /\ opcCall'[x].doc = d PROVE ~GraphErrors(d)'
    BY <1>1, <2>3, OwnChartCallSound
  <2>4. ASSUME NEW d \in Charts, NEW v \in AnyWorker \ {x}, OpcAt(v, "ready")' /\ opcCall'[v].doc = d
        PROVE  ~GraphErrors(d)'
    <3>1. OpcAt(v, "ready") /\ opcCall[v].doc = d
      BY <1>2, <2>4 DEF OpcAt
    <3>2. Settled(d) /\ ~DestroyChart(x, d)
      BY <3>1 DEF Settled, DestroyChart, ChartFree
    <3> QED
      BY <1>1, <1>6, <2>1, <3>2, GraphStays
  <2> QED
    BY <2>2, <2>3, <2>4 DEF Graphs
<1> QED
  BY <1>1, <1>2, <1>4, <1>5, <1>6 DEF OpcInv, Serial, OpcUndisturbed, Workers

LEMMA OpcInvStays ==
    ASSUME OpcInv, UNCHANGED <<opcVars, deployment>>
    PROVE  OpcInv'
<1> USE DEF opcVars
<1>1. OpcBase'
  BY DEF OpcInv, OpcBase, OpcTyped, OpcLocks, OpcKnows, ReadyChart, NewChart, OpcAt, Workers
<1>2. \A w \in AnyWorker : (OpcFresh(w) => OpcFresh(w)') /\ (ChartClear(w) => ChartClear(w)')
  BY DEF OpcFresh, FreshChart, ChartClear, NewChart, OpcAt
<1>3. \A d \in Charts : GraphErrors(d)' <=> GraphErrors(d)
  BY SameGraph DEF NodesOf, EdgesOf
<1>4. ChartsSound => ChartsSound'
  BY <1>2 DEF ChartsSound, ChartsStarted, ChartsApart, NoneSuperseded
<1>5. Graphs => Graphs'
  BY <1>3 DEF Graphs, OpcAt
<1> QED
  BY <1>1, <1>2, <1>4, <1>5 DEF OpcInv, Serial, OpcUndisturbed, Workers

LEMMA OpcInvNext == ASSUME OpcInv, ItemTypeOK, [Next]_vars PROVE OpcInv'
<1>1. ASSUME NEW w \in AnyWorker, ItemStep(w) PROVE OpcInv'
  <2>1. deployment' = deployment
    BY <1>1, ItemStepCases, CallEffects
  <2> QED
    BY <1>1, <2>1, OpcInvStays DEF ItemStep
<1>2. ASSUME NEW w \in AnyWorker, BomStep(w) PROVE OpcInv'
  BY <1>2, OpcInvStays DEF BomStep, itemVars
<1>3. ASSUME UNCHANGED vars PROVE OpcInv'
  BY <1>3, OpcInvStays DEF vars, itemVars
<1> QED
  BY <1>1, <1>2, <1>3, OpcInvByCharts DEF Next

LEMMA OpcInvInit == Init => OpcInv
<1> SUFFICES ASSUME NEW d \in Deployments, OpcInit(d) PROVE OpcInv
  BY DEF Init
<1>1. \A o \in Charts : chart[o].status \notin LOCKED_STATUSES
  BY OpcDeploymentsAssumption DEF OpcInit, Unreleased
<1>2. \A w \in AnyWorker : opcCall[w].step = "idle"
  BY DEF OpcInit, IdleOpcCall
<1>3. chart \in [Charts -> Rows]
  BY OpcDeploymentsAssumption DEF OpcInit, Unreleased
<1>4. OpcTyped
  BY <1>3, OpcDeploymentsAssumption, IdleOpcTyped DEF OpcInit, OpcTyped
<1>5. OpcBase
  BY <1>2, <1>4 DEF OpcBase, OpcLocks, OpcKnows, OpcAt
<1>6. ChartsSound
  BY <1>1, <1>2 DEF ChartsSound, ChartsStarted, ChartsApart, NoneSuperseded, ChartClear, OpcAt, LOCKED_STATUSES
<1>7. Graphs /\ \A w \in AnyWorker : OpcFresh(w)
  BY <1>1, <1>2 DEF Graphs, OpcFresh, OpcAt
<1> QED
  BY <1>5, <1>6, <1>7 DEF OpcInv

-----------------------------------------------------------------------------------
(* Item revisions, BOMs and charts together *)

LEMMA EverythingAlways == Spec => [](CheckedInv /\ OpcInv)
<1>1. CheckedInv /\ OpcInv /\ [Next]_vars => OpcInv'
  BY OpcInvNext DEF CheckedInv, BomInv, BomBase
<1> QED
  BY <1>1, OpcInvInit, CheckedAlways, PTL DEF Spec

\* The rows of every table are of its type, whatever the threads do.
THEOREM TypeCorrect == Spec => []TypeOK
<1>1. CheckedInv /\ OpcInv => TypeOK
  BY DEF CheckedInv, BomInv, BomBase, BomTyped, OpcInv, OpcBase, OpcTyped, TypeOK
<1> QED
  BY <1>1, EverythingAlways, PTL

\* Served with BOMs and charts, item revisions go through what ItemRelease
\* allows them by themselves: deletions that references refuse included.
THEOREM RefinesItemRelease == Spec => ItemSpec
<1>1. Init => \E d \in Deployments : ItemInit(d)
  BY DEF Init
<1> QED
  BY <1>1, ItemSteps, PTL DEF Spec, ItemSpec

\* The released revisions of an item implement OfficialRevision: a day changes
\* hands only from a revision to the one that supersedes it.
THEOREM ItemsAreOfficial == Spec => ImplementsOfficial
BY RefinesItemRelease, OfficialRevisions

\* Of the documents of one item, one BOM or, where one thread serves, one item
\* revision's charts, at most one is in force on any day; with one thread no
\* chart is superseded.
THEOREM PeriodsAreDisjoint == Spec => []PeriodsDisjoint
<1>1. CheckedInv /\ OpcInv => ReleasedChartsDisjoint
  BY DEF OpcInv, ChartsSound, ChartsApart, ReleasedChartsDisjoint
<1>2. CheckedInv /\ OpcInv => NoChartSuperseded
  BY DEF OpcInv, ChartsSound, NoneSuperseded, NoChartSuperseded
<1> QED
  BY <1>1, <1>2, EverythingAlways, RefinesItemRelease, ReleasesAreDisjoint, BomsDisjoint, PTL
     DEF PeriodsDisjoint

\* A chart that was ever released is drawn on its own nodes without a circle.
LEMMA GraphsSound == Spec => []ReleasedGraphSound
<1>1. CheckedInv /\ OpcInv => ReleasedGraphSound
  BY DEF OpcInv, Graphs, ReleasedGraphSound
<1> QED
  BY <1>1, EverythingAlways, PTL

\* What was released rests on what was released: an item's default revision,
\* the components of a BOM; and a released chart is a graph.
THEOREM ReleasedIsSound == Spec => []ReleasedSound
BY TypeCorrect, RefinesItemRelease, DefaultsWereReleased, BomComponents, GraphsSound, PTL
   DEF ReleasedSound

\* Nothing released is taken back, nor its period moved, nor a BOM's lines changed.
THEOREM ReleasedIsKept == Spec => ReleasedStays
BY RefinesItemRelease, ReleasesStay, BomLinesStay DEF ReleasedStays

\* What a release checked before it wrote holds at the write: the item is active,
\* the BOM's parent approved, and, with one thread, no BOM circular.
THEOREM ReleasesAreChecked == Spec => ReleaseChecked
BY RefinesItemRelease, ReleasesNeedActiveItem, BomsForApprovedParents, BomsCloseNoCircle
   DEF ReleaseChecked

=============================================================================
