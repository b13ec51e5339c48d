--------------------------- MODULE ReportApprovalProofs ---------------------------
(***************************************************************************)
(* Proofs about ReportApproval for every set of threads and every bound:   *)
(* its type, who signed a final report, when a final approval is for good, *)
(* and what commits over one TaskActual row leave.                         *)
(***************************************************************************)
EXTENDS ReportApproval, TLAPS, WellFoundedInduction

-----------------------------------------------------------------------------
(* Type correctness *)

LEMMA Blank ==
    /\ NoReport \in Rows
    /\ NotStarted \in Actuals
    /\ Idle \in Requests
<1>1. NoReport \in Rows
  BY PercentsAssumption DEF NoReport, Rows, ReportStatuses
<1>2. NotStarted \in Actuals
  BY PercentsAssumption, BoundsAssumption DEF NotStarted, Actuals, NoTime
<1> QED
  BY <1>1, <1>2, BoundsAssumption DEF Idle, Requests, Steps, NoVersion

\* Signing a row leaves a row.
LEMMA SignedType ==
    ASSUME NEW row \in Rows, NEW who \in Staff
    PROVE  ReviewOf(row, who) \in Rows /\ FinalOf(row, who) \in Rows
BY DEF ReviewOf, FinalOf, Rows, ReportStatuses

LEMMA FirstFinalType ==
    ASSUME NEW p PROVE FirstFinal(p) \in 0..MaxReports
<1>1. CASE \E r \in Reports : IsFirst(r, p)
  <2>1. FirstFinal(p) \in Reports
    BY <1>1 DEF FirstFinal
  <2> QED
    BY <2>1, BoundsAssumption DEF Reports
<1>2. CASE ~\E r \in Reports : IsFirst(r, p)
  BY <1>2, BoundsAssumption DEF FirstFinal, NoTime
<1> QED
  BY <1>1, <1>2

\* A commit leaves a well-formed TaskActual row.
LEMMA CommittedType ==
    ASSUME NEW act \in Actuals, NEW p \in Percents
    PROVE  Committed(act, p) \in Actuals
<1>1. FirstFinal(1) \in 0..MaxReports /\ FirstFinal(100) \in 0..MaxReports
  BY FirstFinalType
<1> QED
  BY <1>1, Blank DEF Committed, Actuals

LEMMA HoldType ==
    ASSUME TypeOK, NEW c \in Clients, NEW s \in Steps, NEW r \in Reports,
           NEW row \in Rows, Hold(c, s, r, row)
    PROVE  req' \in [Clients -> Requests]
<1>1. r \in 0..MaxReports
  BY BoundsAssumption DEF Reports
<1>2. [Idle EXCEPT !.step = s, !.r = r, !.row = row, !.v = exec] \in Requests
  BY <1>1, Blank DEF Requests, TypeOK
<1> QED
  BY <1>2 DEF Hold, TypeOK

LEMMA DoneType ==
    ASSUME TypeOK, NEW c \in Clients, Done(c)
    PROVE  req' \in [Clients -> Requests]
BY Blank DEF Done, TypeOK

LEMMA TypeInit == Init => TypeOK
<1> SUFFICES ASSUME Init PROVE TypeOK
  OBVIOUS
<1>1. OpenGate \in Gates
  BY GatesAssumption
<1>2. exec \in 0..MaxVersions /\ made \in 0..MaxReports
  BY BoundsAssumption DEF Init, NoVersion
<1> QED
  BY <1>1, <1>2, Blank DEF Init, TypeOK

LEMMA TypeNext == TypeOK /\ [Next]_vars => TypeOK'
<1> SUFFICES ASSUME TypeOK, [Next]_vars PROVE TypeOK'
  OBVIOUS
<1> USE Blank DEF TypeOK
<1>1. ASSUME NEW c \in Clients, NEW p \in Percents, Create(c, p) PROVE TypeOK'
  <2>1. made' \in Reports /\ made' \in 0..MaxReports
    BY <1>1, BoundsAssumption DEF Create, Reports
  <2>2. [NoReport EXCEPT !.status = "pending", !.progress = p] \in Rows
    BY DEF Rows, NoReport, ReportStatuses
  <2>3. report' \in [Reports -> Rows]
    BY <1>1, <2>2 DEF Create
  <2> QED
    BY <1>1, <2>1, <2>3 DEF Create
<1>2. ASSUME NEW c \in Clients, NEW r \in Reports, NEW who \in Staff,
             \/ ApproveBypass(c, r, who)
             \/ ApproveReview(c, r, who)
             \/ ApproveFinal(c, r, who)
      PROVE  TypeOK'
  <2>1. /\ ReviewOf(report[r], who) \in Rows
        /\ FinalOf(report[r], who) \in Rows
        /\ FinalOf(ReviewOf(report[r], who), who) \in Rows
    BY SignedType
  <2>2. PICK row \in Rows : Hold(c, "approve", r, row)
    BY <1>2, <2>1 DEF ApproveBypass, ApproveReview, ApproveFinal
  <2>3. req' \in [Clients -> Requests]
    BY <2>2, HoldType DEF Steps
  <2> QED
    BY <1>2, <2>3 DEF ApproveBypass, ApproveReview, ApproveFinal, others
<1>3. ASSUME NEW c \in Clients, NEW r \in Reports, NEW p \in Percents, EditRead(c, r, p)
      PROVE  TypeOK'
  <2>1. [report[r] EXCEPT !.progress = p] \in Rows
    BY DEF Rows
  <2>2. req' \in [Clients -> Requests]
    BY <1>3, <2>1, HoldType DEF EditRead, Steps
  <2> QED
    BY <1>3, <2>2 DEF EditRead, others
<1>4. ASSUME NEW c \in Clients, NEW r \in Reports, RejectRead(c, r) PROVE TypeOK'
  <2>1. [report[r] EXCEPT !.status = "rejected"] \in Rows
    BY DEF Rows, ReportStatuses
  <2>2. req' \in [Clients -> Requests]
    BY <1>4, <2>1, HoldType DEF RejectRead, Steps
  <2> QED
    BY <1>4, <2>2 DEF RejectRead, others
<1>5. ASSUME NEW c \in Clients, NEW r \in Reports, Delete(c, r) PROVE TypeOK'
  BY <1>5 DEF Delete, others
<1>6. ASSUME NEW c \in Clients, ApproveSave(c) PROVE TypeOK'
  <2>1. report' \in [Reports -> Rows]
    BY <1>6 DEF ApproveSave, Requests
  <2>2. req' \in [Clients -> Requests]
    <3>1. CASE req[c].row.status = "final_approved"
      <4>1. req' = [req EXCEPT ![c].step = "saved"]
        BY <1>6, <3>1 DEF ApproveSave
      <4>2. [req[c] EXCEPT !.step = "saved"] \in Requests
        BY DEF Requests, Steps
      <4> QED
        BY <4>1, <4>2
    <3>2. CASE req[c].row.status # "final_approved"
      BY <1>6, <3>2, DoneType DEF ApproveSave
    <3> QED
      BY <3>1, <3>2
  <2> QED
    BY <1>6, <2>1, <2>2 DEF ApproveSave, others
<1>7. ASSUME NEW c \in Clients, ReportSave(c) PROVE TypeOK'
  <2>1. report' \in [Reports -> Rows]
    BY <1>7 DEF ReportSave, Requests
  <2>2. req' \in [Clients -> Requests]
    BY <1>7, DoneType DEF ReportSave
  <2> QED
    BY <1>7, <2>1, <2>2 DEF ReportSave, others
<1>8. ASSUME NEW c \in Clients, CommitRead(c) PROVE TypeOK'
  <2>1. req[c].v \in Versions
    BY <1>8, BoundsAssumption DEF CommitRead, NoVersion, Versions, Requests
  <2>2. actual[req[c].v] \in Actuals
    BY <2>1
  <2>3. req' \in [Clients -> Requests]
    BY <1>8, <2>2, ZenonT(30) DEF CommitRead, Requests, Steps
  <2> QED
    BY <1>8, <2>3 DEF CommitRead, others
<1>9. ASSUME NEW c \in Clients, CommitRefused(c) PROVE TypeOK'
  <2>1. req' \in [Clients -> Requests]
    BY <1>9, DoneType DEF CommitRefused
  <2> QED
    BY <1>9, <2>1 DEF CommitRefused, others
<1>10. ASSUME NEW c \in Clients, CommitSave(c) PROVE TypeOK'
  <2>1. Committed(req[c].act, req[c].row.progress) \in Actuals
    BY CommittedType DEF Requests, Rows
  <2>2. actual' \in [Versions -> Actuals]
    BY <1>10, <2>1 DEF CommitSave
  <2>3. req' \in [Clients -> Requests]
    BY <1>10, DoneType DEF CommitSave
  <2> QED
    BY <1>10, <2>2, <2>3 DEF CommitSave, others
<1>11. ASSUME NEW c \in Clients, Crash(c) PROVE TypeOK'
  <2>1. req' \in [Clients -> Requests]
    BY <1>11, DoneType DEF Crash
  <2> QED
    BY <1>11, <2>1 DEF Crash, others
<1>12. ASSUME NEW c \in Clients, Elsewhere(c) PROVE TypeOK'
  <2>1. ASSUME NEW g \in Gates, GateMoves(c, g) PROVE TypeOK'
    BY <2>1 DEF GateMoves
  <2>2. ASSUME NEW v \in 0..MaxVersions, Promote(c, v) PROVE TypeOK'
    BY <2>2 DEF Promote
  <2>3. ASSUME SetBypass(c) PROVE TypeOK'
    BY <2>3 DEF SetBypass
  <2>4. ASSUME NEW s \in Scopes, SetScope(c, s) PROVE TypeOK'
    BY <2>4 DEF SetScope
  <2> QED
    BY <1>12, <2>1, <2>2, <2>3, <2>4 DEF Elsewhere
<1>13. ASSUME UNCHANGED vars PROVE TypeOK'
  BY <1>13 DEF vars
<1> QED
  BY <1>1, <1>2, <1>3, <1>4, <1>5, <1>6, <1>7, <1>8, <1>9, <1>10, <1>11, <1>12, <1>13
     DEF Next, Receive, Serve, Commit

\* The rows, and the copies of them that threads hold, keep their type.
THEOREM TypeCorrect == Spec => []TypeOK
<1>1. Init => TypeOK
  BY TypeInit
<1>2. TypeOK /\ [Next]_vars => TypeOK'
  BY TypeNext
<1> QED
  BY <1>1, <1>2, PTL DEF Spec

-----------------------------------------------------------------------------
(* Who signed a final report *)

\* What the signatures on a row say of its status, stored or in memory.
SignedRow(row) ==
    /\ row.status = "reviewer_approved" => row.reviewer \in Reviewers
    /\ row.status = "final_approved" =>
          \/ row.reviewer \in Reviewers /\ row.final \in Planners
          \/ row.reviewer = row.final /\ row.final # Nobody

SignedInv ==
    /\ TypeOK
    /\ \A r \in Reports : SignedRow(report[r])
    /\ \A c \in Clients : SignedRow(req[c].row)

LEMMA BlankSigned == SignedRow(NoReport) /\ SignedRow(Idle.row)
BY DEF SignedRow, NoReport, Idle

LEMMA HoldSigned ==
    ASSUME SignedInv, NEW c \in Clients, NEW s, NEW r, NEW row, SignedRow(row),
           Hold(c, s, r, row)
    PROVE  \A d \in Clients : SignedRow(req'[d].row)
<1>1. req'[c].row = row
  BY DEF Hold, SignedInv, TypeOK, Requests, Idle
<1>2. \A d \in Clients \ {c} : req'[d] = req[d]
  BY DEF Hold, SignedInv, TypeOK
<1> QED
  BY <1>1, <1>2 DEF SignedInv

LEMMA DoneSigned ==
    ASSUME SignedInv, NEW c \in Clients, Done(c)
    PROVE  \A d \in Clients : SignedRow(req'[d].row)
<1>1. \A d \in Clients : req'[d] \in {Idle, req[d]}
  BY DEF Done, SignedInv, TypeOK
<1> QED
  BY <1>1, BlankSigned DEF SignedInv

\* Each way of approval signs as it should.
LEMMA ApproveSigned ==
    ASSUME SignedInv, NEW c \in Clients, NEW r \in Reports, NEW who \in Staff,
           \/ ApproveBypass(c, r, who)
           \/ ApproveReview(c, r, who)
           \/ ApproveFinal(c, r, who)
    PROVE  \A d \in Clients : SignedRow(req'[d].row)
<1> DEFINE reviewed == ReviewOf(report[r], who)
<1>1. report[r] \in Rows /\ reviewed \in Rows
  BY SignedType DEF SignedInv, TypeOK
<1>2. /\ reviewed.status = "reviewer_approved" /\ reviewed.reviewer = who
      /\ FinalOf(reviewed, who).reviewer = who /\ FinalOf(reviewed, who).final = who
      /\ FinalOf(reviewed, who).status = "final_approved"
  BY <1>1 DEF ReviewOf, FinalOf, Rows
<1>3. SignedRow(FinalOf(reviewed, who))
  BY <1>2 DEF SignedRow, Staff, Nobody
<1>4. CASE ApproveBypass(c, r, who)
  BY <1>3, <1>4, HoldSigned DEF ApproveBypass
<1>5. CASE ApproveReview(c, r, who)
  <2>1. SignedRow(reviewed)
    BY <1>2, <1>5 DEF ApproveReview, MaySign, SignedRow
  <2>2. PICK row \in {reviewed, FinalOf(reviewed, who)} : Hold(c, "approve", r, row)
    BY <1>5 DEF ApproveReview
  <2> QED
    BY <1>3, <2>1, <2>2, HoldSigned
<1>6. CASE ApproveFinal(c, r, who)
  <2>1. report[r].reviewer \in Reviewers /\ who \in Planners
    BY <1>6 DEF ApproveFinal, MaySign, SignedInv, SignedRow
  <2>2. FinalOf(report[r], who).reviewer \in Reviewers
        /\ FinalOf(report[r], who).final \in Planners
        /\ FinalOf(report[r], who).status = "final_approved"
    BY <1>1, <2>1 DEF FinalOf, Rows
  <2>3. SignedRow(FinalOf(report[r], who))
    BY <2>2 DEF SignedRow
  <2> QED
    BY <1>6, <2>3, HoldSigned DEF ApproveFinal
<1> QED
  BY <1>4, <1>5, <1>6

LEMMA SignedNext == SignedInv /\ [Next]_vars => SignedInv'
<1> SUFFICES ASSUME SignedInv, [Next]_vars PROVE SignedInv'
  OBVIOUS
<1>type. TypeOK /\ TypeOK'
  BY TypeNext DEF SignedInv
<1> DEFINE Stored == \A r \in Reports : SignedRow(report[r])
           Held == \A c \in Clients : SignedRow(req[c].row)
<1>inv. Stored /\ Held
  BY DEF SignedInv
<1>1. ASSUME NEW c \in Clients, NEW p \in Percents, Create(c, p) PROVE Stored' /\ Held'
  <2>1. \A r \in Reports : report'[r] = report[r]
                           \/ report'[r] = [NoReport EXCEPT !.status = "pending", !.progress = p]
    BY <1>1, <1>type DEF Create, TypeOK
  <2>2. SignedRow([NoReport EXCEPT !.status = "pending", !.progress = p])
    BY DEF SignedRow, NoReport
  <2> QED
    BY <1>1, <1>inv, <2>1, <2>2 DEF Create
<1>2. ASSUME NEW c \in Clients, NEW r \in Reports, Receive(c)
      PROVE  Stored' /\ Held'
  <2>1. PICK s \in Reports :
            \/ \E who \in Staff : \/ ApproveBypass(c, s, who)
                                  \/ ApproveReview(c, s, who)
                                  \/ ApproveFinal(c, s, who)
            \/ \E p \in Percents : EditRead(c, s, p)
            \/ RejectRead(c, s)
            \/ Delete(c, s)
    BY <1>2 DEF Receive
  <2>2. CASE \E who \in Staff : \/ ApproveBypass(c, s, who)
                                \/ ApproveReview(c, s, who)
                                \/ ApproveFinal(c, s, who)
    BY <1>inv, <2>2, ApproveSigned DEF ApproveBypass, ApproveReview, ApproveFinal
  <2>3. ASSUME NEW p \in Percents, EditRead(c, s, p) PROVE Stored' /\ Held'
    <3>1. SignedRow([report[s] EXCEPT !.progress = p])
      BY <1>type, <2>3 DEF EditRead, Editable, SignedRow, TypeOK, Rows
    <3> QED
      BY <1>inv, <2>3, <3>1, HoldSigned DEF EditRead
  <2>4. CASE RejectRead(c, s)
    <3>1. SignedRow([report[s] EXCEPT !.status = "rejected"])
      BY <1>type DEF SignedRow, TypeOK, Rows
    <3> QED
      BY <1>inv, <2>4, <3>1, HoldSigned DEF RejectRead
  <2>5. CASE Delete(c, s)
    <3>1. \A q \in Reports : report'[q] \in {report[q], NoReport}
      BY <1>type, <2>5 DEF Delete, TypeOK
    <3> QED
      BY <1>inv, <2>5, <3>1, BlankSigned DEF Delete
  <2> QED
    BY <2>1, <2>2, <2>3, <2>4, <2>5
<1>3. ASSUME NEW c \in Clients, ApproveSave(c) PROVE Stored' /\ Held'
  <2>1. \A r \in Reports : report'[r] \in {report[r], req[c].row}
    BY <1>3, <1>type DEF ApproveSave, TypeOK
  <2>2. Held'
    <3>1. CASE req' = [req EXCEPT ![c].step = "saved"]
      <4>1. \A d \in Clients : req'[d].row = req[d].row
        BY <1>type, <3>1 DEF TypeOK, Requests
      <4> QED
        BY <1>inv, <4>1
    <3>2. CASE Done(c)
      BY <3>2, DoneSigned
    <3> QED
      BY <1>3, <3>1, <3>2 DEF ApproveSave
  <2> QED
    BY <1>inv, <2>1, <2>2
<1>4. ASSUME NEW c \in Clients, ReportSave(c) PROVE Stored' /\ Held'
  <2>1. \A r \in Reports : report'[r] \in {report[r], req[c].row}
    BY <1>4, <1>type DEF ReportSave, TypeOK
  <2>2. Held'
    BY <1>4, DoneSigned DEF ReportSave
  <2> QED
    BY <1>inv, <2>1, <2>2
<1>5. ASSUME NEW c \in Clients, Commit(c) PROVE Stored' /\ Held'
  <2>1. CASE CommitRead(c)
    <3>1. \A d \in Clients : req'[d].row = req[d].row
      BY <1>type, <2>1 DEF CommitRead, TypeOK, Requests
    <3> QED
      BY <1>inv, <2>1, <3>1 DEF CommitRead
  <2>2. CASE CommitRefused(c) \/ CommitSave(c)
    BY <1>inv, <2>2, DoneSigned DEF CommitRefused, CommitSave
  <2> QED
    BY <1>5, <2>1, <2>2 DEF Commit
<1>6. ASSUME NEW c \in Clients, Crash(c) PROVE Stored' /\ Held'
  BY <1>6, <1>inv, DoneSigned DEF Crash
<1>7. ASSUME NEW c \in Clients, Elsewhere(c) PROVE Stored' /\ Held'
  BY <1>7, <1>inv DEF Elsewhere, GateMoves, Promote, SetBypass, SetScope
<1>8. ASSUME UNCHANGED vars PROVE Stored' /\ Held'
  BY <1>8, <1>inv DEF vars
<1>9. Stored' /\ Held'
  BY <1>1, <1>2, <1>3, <1>4, <1>5, <1>6, <1>7, <1>8 DEF Next, Serve, Receive
<1> QED
  BY <1>type, <1>9 DEF SignedInv

\* Whatever requests overlap, and whoever dies between two of its steps, a
\* final report carries the signatures that approve_report asks for.
THEOREM FinalIsSigned == Spec => []SignedByRole
<1>1. Init => SignedInv
  BY TypeInit, BlankSigned DEF Init, SignedInv
<1>2. SignedInv => SignedByRole
  BY DEF SignedInv, SignedRow, SignedByRole, Final
<1> QED
  BY <1>1, <1>2, SignedNext, PTL DEF Spec

\* FinalSound: approve_report, edits, rejections, deaths and changes of scope in any
\* order leave well-formed reports, of which the final ones are signed.
THEOREM FinalIsSound == Spec => []FinalSound
<1>1. TypeOK /\ SignedByRole => FinalSound
  BY DEF FinalSound
<1> QED
  BY <1>1, TypeCorrect, FinalIsSigned, PTL

-----------------------------------------------------------------------------
(* Requests in flight *)

\* What a request in flight says of its report when n reports have been created.
Underway(q, n) ==
    /\ q.step # "idle" => q.r \in 1..n
    /\ q.step = "idle" => q = Idle
    /\ q.step \in {"saved", "commit"} => q.row.status = "final_approved"
    /\ q.step = "commit" => q.v \in Versions

FlightInv ==
    /\ TypeOK
    /\ \A r \in Reports : r > made => report[r].status = "absent"
    /\ \A c \in Clients : Underway(req[c], made)

LEMMA IdleUnderway == ASSUME NEW n PROVE Underway(Idle, n)
BY DEF Underway, Idle

LEMMA FlightInit == Init => FlightInv
BY TypeInit, IdleUnderway DEF Init, FlightInv, NoReport

\* Only the request of one thread moves, to a place it may be in.
LEMMA OneMoves ==
    ASSUME FlightInv, NEW c \in Clients, NEW q,
           req' = [req EXCEPT ![c] = q], Underway(q, made), UNCHANGED made
    PROVE  \A d \in Clients : Underway(req'[d], made')
<1>1. \A d \in Clients : req'[d] = req[d] \/ req'[d] = q
  BY DEF FlightInv, TypeOK
<1> QED
  BY <1>1 DEF FlightInv

LEMMA ReceiveFlight ==
    ASSUME FlightInv, TypeOK', NEW c \in Clients, Receive(c)
    PROVE  FlightInv'
<1> USE DEF FlightInv, TypeOK
<1>hold. ASSUME NEW s \in {"approve", "edit", "reject"}, NEW r \in Reports, NEW row,
                Hold(c, s, r, row), report[r].status # "absent",
                UNCHANGED <<report, made>>
         PROVE  FlightInv'
  <2> DEFINE q == [Idle EXCEPT !.step = s, !.r = r, !.row = row, !.v = exec]
  <2>1. r \in 1..made
    BY <1>hold DEF Reports
  <2>2. q.step = s /\ q.r = r
    BY DEF Idle
  <2>3. Underway(q, made)
    BY <2>1, <2>2 DEF Underway
  <2>4. req' = [req EXCEPT ![c] = q]
    BY <1>hold DEF Hold
  <2> HIDE DEF q
  <2> QED
    BY <1>hold, <2>3, <2>4, OneMoves
<1>1. PICK r \in Reports :
          \/ \E who \in Staff : \/ ApproveBypass(c, r, who)
                                \/ ApproveReview(c, r, who)
                                \/ ApproveFinal(c, r, who)
          \/ \E p \in Percents : EditRead(c, r, p)
          \/ RejectRead(c, r)
          \/ Delete(c, r)
  BY DEF Receive
<1>2. ASSUME NEW who \in Staff,
             \/ ApproveBypass(c, r, who)
             \/ ApproveReview(c, r, who)
             \/ ApproveFinal(c, r, who)
      PROVE  FlightInv'
  <2>1. PICK row : Hold(c, "approve", r, row)
    BY <1>2 DEF ApproveBypass, ApproveReview, ApproveFinal
  <2>2. report[r].status # "absent" /\ UNCHANGED <<report, made>>
    BY <1>2 DEF ApproveBypass, ApproveReview, ApproveFinal, others
  <2> QED
    BY <1>hold, <2>1, <2>2
<1>3. ASSUME NEW p \in Percents, EditRead(c, r, p) PROVE FlightInv'
  <2>1. report[r].status # "absent" /\ UNCHANGED <<report, made>>
    BY <1>3 DEF EditRead, Editable, others
  <2>2. Hold(c, "edit", r, [report[r] EXCEPT !.progress = p])
    BY <1>3 DEF EditRead
  <2> QED
    BY <1>hold, <2>1, <2>2
<1>4. CASE RejectRead(c, r)
  <2>1. report[r].status # "absent" /\ UNCHANGED <<report, made>>
    BY <1>4 DEF RejectRead, Rejectable, others
  <2>2. Hold(c, "reject", r, [report[r] EXCEPT !.status = "rejected"])
    BY <1>4 DEF RejectRead
  <2> QED
    BY <1>hold, <2>1, <2>2
<1>5. CASE Delete(c, r)
  <2>1. \A q \in Reports : q > made' => report'[q].status = "absent"
    BY <1>5 DEF Delete, others, NoReport
  <2> QED
    BY <1>5, <2>1 DEF Delete, others
<1> QED
  BY <1>1, <1>2, <1>3, <1>4, <1>5

LEMMA FlightNext == FlightInv /\ [Next]_vars => FlightInv'
<1> SUFFICES ASSUME FlightInv, [Next]_vars PROVE FlightInv'
  OBVIOUS
<1>type. TypeOK /\ TypeOK'
  BY TypeNext DEF FlightInv
<1> USE DEF FlightInv, TypeOK
<1>done. ASSUME NEW c \in Clients, Done(c), UNCHANGED <<report, made>> PROVE FlightInv'
  BY <1>type, <1>done, IdleUnderway, OneMoves DEF Done
<1>1. ASSUME NEW c \in Clients, NEW p \in Percents, Create(c, p) PROVE FlightInv'
  <2>1. \A r \in Reports : r > made' => report'[r].status = "absent"
    BY <1>1, <1>type DEF Create, Reports
  <2>2. \A d \in Clients : Underway(req'[d], made')
    <3>1. made' = made + 1 /\ req' = req /\ made \in Nat
      BY <1>1, <1>type, BoundsAssumption DEF Create
    <3> QED
      BY <3>1 DEF Underway
  <2> QED
    BY <1>type, <2>1, <2>2
<1>2. ASSUME NEW c \in Clients, Receive(c) PROVE FlightInv'
  BY <1>2, <1>type, ReceiveFlight
<1>3. ASSUME NEW c \in Clients, ApproveSave(c) PROVE FlightInv'
  <2>1. req[c].r \in 1..made /\ made' = made
    BY <1>3 DEF ApproveSave, IsAt, Underway, others
  <2>2. \A r \in Reports : r > made' => report'[r].status = "absent"
    BY <1>3, <1>type, <2>1 DEF ApproveSave, Reports
  <2>3. CASE req[c].row.status = "final_approved"
    <3> DEFINE q == [req[c] EXCEPT !.step = "saved"]
    <3>1. q.step = "saved" /\ q.r = req[c].r /\ q.row = req[c].row
      BY <1>type DEF Requests
    <3>2. Underway(q, made)
      BY <2>1, <2>3, <3>1 DEF Underway
    <3>3. req' = [req EXCEPT ![c] = q]
      BY <1>3, <1>type, <2>3 DEF ApproveSave
    <3> HIDE DEF q
    <3> QED
      BY <1>type, <2>1, <2>2, <3>2, <3>3, OneMoves
  <2>4. CASE req[c].row.status # "final_approved"
    BY <1>3, <1>type, <2>1, <2>2, <2>4, IdleUnderway, OneMoves DEF ApproveSave, Done
  <2> QED
    BY <2>3, <2>4
<1>4. ASSUME NEW c \in Clients, ReportSave(c) PROVE FlightInv'
  <2>1. req[c].r \in 1..made /\ made' = made
    BY <1>4 DEF ReportSave, IsAt, Underway, others
  <2>2. \A r \in Reports : r > made' => report'[r].status = "absent"
    BY <1>4, <1>type, <2>1 DEF ReportSave, Reports
  <2> QED
    BY <1>4, <1>type, <2>1, <2>2, IdleUnderway, OneMoves DEF ReportSave, Done
<1>5. ASSUME NEW c \in Clients, CommitRead(c) PROVE FlightInv'
  <2> DEFINE q == [req[c] EXCEPT !.step = "commit", !.act = actual[req[c].v]]
  <2>1. q.step = "commit" /\ q.r = req[c].r /\ q.row = req[c].row /\ q.v = req[c].v
    BY <1>type DEF Requests
  <2>2. req[c].v \in Versions
    BY <1>5, <1>type, BoundsAssumption DEF CommitRead, NoVersion, Versions, Requests
  <2>3. Underway(q, made)
    BY <1>5, <2>1, <2>2 DEF CommitRead, IsAt, Underway
  <2>4. req' = [req EXCEPT ![c] = q] /\ UNCHANGED <<report, made>>
    BY <1>5, <1>type DEF CommitRead, others
  <2> HIDE DEF q
  <2> QED
    BY <1>type, <2>3, <2>4, OneMoves
<1>6. ASSUME NEW c \in Clients, CommitRefused(c) \/ CommitSave(c) \/ Crash(c) PROVE FlightInv'
  BY <1>6, <1>done DEF CommitRefused, CommitSave, Crash, others
<1>7. ASSUME NEW c \in Clients, Elsewhere(c) PROVE FlightInv'
  BY <1>7, <1>type DEF Elsewhere, GateMoves, Promote, SetBypass, SetScope
<1>8. ASSUME UNCHANGED vars PROVE FlightInv'
  BY <1>8, <1>type DEF vars
<1> QED
  BY <1>1, <1>2, <1>3, <1>4, <1>5, <1>6, <1>7, <1>8 DEF Next, Serve, Commit

-----------------------------------------------------------------------------
(* A final approval is for good *)

LEMMA FinalStays ==
    ASSUME FlightInv, Next, NEW r \in Reports, Final(r), Undisputed(r)
    PROVE  report'[r].status = "absent" \/ (Final(r) /\ Undisputed(r))'
<1> USE DEF FlightInv, TypeOK
<1>type. TypeOK'
  BY TypeNext
<1>old. r \in 1..made /\ made \in 0..MaxReports
  BY DEF Final, Reports
\* A request that is no longer able to save an older copy of r.
<1> DEFINE Harmless(q) ==
        q.r = r => /\ q.step \notin {"edit", "reject"}
                   /\ q.step = "approve" => q.row.status = "final_approved"
<1>before. \A c \in Clients : Harmless(req[c])
  BY DEF Undisputed, IsAt
<1>after. ASSUME \A c \in Clients : Harmless(req'[c]), report'[r].status = "final_approved"
          PROVE  (Final(r) /\ Undisputed(r))'
  BY <1>after DEF Final, Undisputed, IsAt
<1>move. ASSUME NEW c \in Clients, NEW q, req' = [req EXCEPT ![c] = q], Harmless(q),
                report'[r].status = "final_approved"
         PROVE  (Final(r) /\ Undisputed(r))'
  <2>1. \A d \in Clients : req'[d] = req[d] \/ req'[d] = q
    BY <1>move
  <2> HIDE DEF Harmless
  <2>2. \A d \in Clients : Harmless(req'[d])
    BY <1>before, <1>move, <2>1
  <2> QED
    BY <1>after, <1>move, <2>2
<1>idle. Harmless(Idle)
  BY DEF Idle
<1>1. ASSUME NEW c \in Clients, NEW p \in Percents, Create(c, p)
      PROVE  (Final(r) /\ Undisputed(r))'
  <2>1. report'[r] = report[r]
    BY <1>1, <1>old DEF Create
  <2> QED
    BY <1>1, <1>before, <1>after, <2>1 DEF Create, Final
<1>hold. ASSUME NEW c \in Clients, NEW s \in Steps, NEW t \in Reports \ {r}, NEW row,
                Hold(c, s, t, row), UNCHANGED report
         PROVE  (Final(r) /\ Undisputed(r))'
  <2> DEFINE q == [Idle EXCEPT !.step = s, !.r = t, !.row = row, !.v = exec]
  <2>1. q.r = t
    BY DEF Idle
  <2>2. Harmless(q)
    BY <2>1
  <2>3. req' = [req EXCEPT ![c] = q]
    BY <1>hold DEF Hold
  <2> HIDE DEF q, Harmless
  <2> QED
    BY <1>hold, <1>move, <2>2, <2>3 DEF Final
<1>2. ASSUME NEW c \in Clients, Receive(c)
      PROVE  report'[r].status = "absent" \/ (Final(r) /\ Undisputed(r))'
  <2>1. PICK t \in Reports :
            \/ \E who \in Staff : \/ ApproveBypass(c, t, who)
                                  \/ ApproveReview(c, t, who)
                                  \/ ApproveFinal(c, t, who)
            \/ \E p \in Percents : EditRead(c, t, p)
            \/ RejectRead(c, t)
            \/ Delete(c, t)
    BY <1>2 DEF Receive
  <2>2. CASE Delete(c, t)
    <3>1. report'[r] \in {report[r], NoReport} /\ req' = req
      BY <2>2 DEF Delete
    <3> QED
      BY <1>before, <1>after, <3>1 DEF NoReport, Final
  <2>3. CASE ~Delete(c, t)
    <3>1. t # r
      BY <2>1, <2>3 DEF ApproveBypass, ApproveReview, ApproveFinal, EditRead, Editable,
         RejectRead, Rejectable, Final
    <3>2. UNCHANGED report /\ \E s \in Steps : \E row : Hold(c, s, t, row)
      BY <2>1, <2>3 DEF ApproveBypass, ApproveReview, ApproveFinal, EditRead, RejectRead, Steps
    <3> QED
      BY <1>hold, <3>1, <3>2
  <2> QED
    BY <2>2, <2>3
<1>3. ASSUME NEW c \in Clients, ApproveSave(c) PROVE (Final(r) /\ Undisputed(r))'
  <2>1. report'[r].status = "final_approved"
    BY <1>3, <1>before DEF ApproveSave, IsAt, Final
  <2>2. CASE req' = [req EXCEPT ![c].step = "saved"]
    <3> DEFINE q == [req[c] EXCEPT !.step = "saved"]
    <3>1. Harmless(q)
      BY DEF Requests
    <3>2. req' = [req EXCEPT ![c] = q]
      BY <2>2
    <3> HIDE DEF q, Harmless
    <3> QED
      BY <1>move, <2>1, <3>1, <3>2
  <2>3. CASE Done(c)
    BY <1>idle, <1>move, <2>1, <2>3 DEF Done
  <2> QED
    BY <1>3, <2>2, <2>3 DEF ApproveSave
<1>4. ASSUME NEW c \in Clients, ReportSave(c) PROVE (Final(r) /\ Undisputed(r))'
  <2>1. req[c].r # r
    BY <1>4, <1>before DEF ReportSave, IsAt
  <2>2. report'[r].status = "final_approved"
    BY <1>4, <2>1 DEF ReportSave, Final
  <2> QED
    BY <1>4, <1>idle, <1>move, <2>2 DEF ReportSave, Done
<1>5. ASSUME NEW c \in Clients, CommitRead(c) PROVE (Final(r) /\ Undisputed(r))'
  <2> DEFINE q == [req[c] EXCEPT !.step = "commit", !.act = actual[req[c].v]]
  <2>1. Harmless(q)
    BY DEF Requests
  <2>2. req' = [req EXCEPT ![c] = q] /\ UNCHANGED report
    BY <1>5 DEF CommitRead
  <2> HIDE DEF q, Harmless
  <2> QED
    BY <1>move, <2>1, <2>2 DEF Final
<1>6. ASSUME NEW c \in Clients, CommitRefused(c) \/ CommitSave(c) \/ Crash(c)
      PROVE  (Final(r) /\ Undisputed(r))'
  <2>1. Done(c) /\ UNCHANGED report
    BY <1>6 DEF CommitRefused, CommitSave, Crash
  <2> QED
    BY <1>idle, <1>move, <2>1 DEF Done, Final
<1>7. ASSUME NEW c \in Clients, Elsewhere(c) PROVE (Final(r) /\ Undisputed(r))'
  <2>1. UNCHANGED <<report, req>>
    BY <1>7 DEF Elsewhere, GateMoves, Promote, SetBypass, SetScope
  <2> QED
    BY <1>before, <1>after, <2>1 DEF Final
<1> HIDE DEF Harmless
<1> QED
  BY <1>1, <1>2, <1>3, <1>4, <1>5, <1>6, <1>7 DEF Next, Serve, Commit

\* FinalKept: whatever requests overlap or die half way, once those that were reading
\* a report when its final approval was saved have ended, the approval is not taken
\* back by approve_report, perform_update or reject_report.
THEOREM FinalIsKept == Spec => FinalKept
<1>1. ASSUME FlightInv, [Next]_vars
      PROVE  [\A r \in Reports : Final(r) /\ Undisputed(r) =>
                 report'[r].status = "absent" \/ (Final(r) /\ Undisputed(r))']_vars
  BY <1>1, FinalStays
<1> QED
  BY <1>1, FlightInit, FlightNext, PTL DEF Spec, FinalKept

-----------------------------------------------------------------------------
(* What TaskActual shows *)

LEMMA LeastNumber ==
    ASSUME NEW T \in SUBSET Nat, T # {} PROVE \E n \in T : \A m \in T : n <= m
<1>1. IsWellFoundedOn(OpToRel(<, Nat), Nat)
  BY NatLessThanWellFounded
<1>2. PICK n \in T : \A m \in T : <<m, n>> \notin OpToRel(<, Nat)
  BY <1>1, WFMin
<1>3. \A m \in T : ~(m < n)
  BY <1>2 DEF OpToRel
<1> QED
  BY <1>3

\* Where a final report reaches p, the history has a first one that does.
LEMMA HistoryHasFirst ==
    ASSUME TypeOK, NEW p \in Nat, NEW r \in Reports, Counts(r, p)
    PROVE  FirstFinal(p) # NoTime
<1>1. {s \in Reports : Counts(s, p)} \in SUBSET Nat /\ {s \in Reports : Counts(s, p)} # {}
  BY BoundsAssumption DEF Reports
<1>2. PICK n \in {s \in Reports : Counts(s, p)} : \A m \in {s \in Reports : Counts(s, p)} : n <= m
  BY <1>1, LeastNumber
<1>3. n \in Reports /\ IsFirst(n, p)
  BY <1>2, BoundsAssumption DEF IsFirst, Reports
<1>4. FirstFinal(p) \in Reports
  BY <1>3 DEF FirstFinal
<1> QED
  BY <1>4, BoundsAssumption DEF Reports, NoTime

\* What a row of TaskActual shows agrees with itself.
Agrees(a) == (a.progress > 0 <=> a.start # NoTime) /\ (a.progress >= 100 => a.finish # NoTime)

\* Whatever the row was when it was read, a commit for a final report mends it.
LEMMA CommitMends ==
    ASSUME TypeOK, NEW act \in Actuals, NEW r \in Reports, Final(r)
    PROVE  /\ Agrees(Committed(act, report[r].progress))
           /\ Committed(act, report[r].progress).progress = report[r].progress
<1> DEFINE p == report[r].progress
<1>1. p \in Nat
  BY PercentsAssumption DEF TypeOK, Rows
<1>2. p >= 1 => FirstFinal(1) # NoTime
  BY <1>1, HistoryHasFirst DEF Counts
<1>3. p >= 100 => FirstFinal(100) # NoTime
  BY <1>1, HistoryHasFirst DEF Counts
<1> HIDE DEF p
<1>4. CASE p = 0
  <2>1. Committed(act, p) = NotStarted
    BY <1>4 DEF Committed
  <2> QED
    BY <1>4, <2>1 DEF Agrees, NotStarted, NoTime, p
<1>5. CASE p # 0
  <2>1. /\ Committed(act, p).progress = p
        /\ Committed(act, p).start = IF act.start = NoTime THEN FirstFinal(1) ELSE act.start
        /\ Committed(act, p).finish = IF act.finish = NoTime THEN FirstFinal(100) ELSE act.finish
    BY <1>5 DEF Committed
  <2>2. Agrees(Committed(act, p))
    BY <1>1, <1>2, <1>3, <1>5, <2>1 DEF Agrees
  <2> QED
    BY <2>1, <2>2 DEF p
<1> QED
  BY <1>4, <1>5

\* Only the last step of a commit writes a TaskActual row.
LEMMA WhoCommits ==
    ASSUME Next, actual' # actual PROVE \E c \in Clients : CommitSave(c)
<1>1. ASSUME NEW c \in Clients, ~CommitSave(c),
             \/ \E p \in Percents : Create(c, p)
             \/ Receive(c)
             \/ Serve(c)
             \/ Crash(c)
             \/ Elsewhere(c)
      PROVE  UNCHANGED actual
  <2>1. CASE \E p \in Percents : Create(c, p)
    BY <2>1 DEF Create
  <2>2. CASE Receive(c)
    BY <2>2 DEF Receive, ApproveBypass, ApproveReview, ApproveFinal, EditRead,
       RejectRead, Delete
  <2>3. CASE Serve(c)
    BY <1>1, <2>3 DEF Serve, ApproveSave, ReportSave, Commit, CommitRead, CommitRefused
  <2>4. CASE Crash(c)
    BY <2>4 DEF Crash
  <2>5. CASE Elsewhere(c)
    BY <2>5 DEF Elsewhere, GateMoves, Promote, SetBypass, SetScope
  <2> QED
    BY <1>1, <2>1, <2>2, <2>3, <2>4, <2>5
<1> QED
  BY <1>1 DEF Next

\* The row thread c commits, for a report that is still as it was saved.
LEMMA CommitAgrees ==
    ASSUME FlightInv, NEW c \in Clients, CommitSave(c), ~Orphaned(c), NEW v \in Versions,
           actual'[v] # actual[v]
    PROVE  /\ \E r \in Reports : Final(r) /\ report[r].progress = actual'[v].progress
           /\ Agrees(actual'[v])
<1> USE DEF FlightInv, TypeOK
<1> DEFINE r == req[c].r
<1>1. /\ r \in Reports /\ req[c].row.status = "final_approved"
      /\ report[r] = req[c].row
  BY BoundsAssumption DEF CommitSave, IsAt, Underway, Orphaned, Reports
<1>2. Final(r)
  BY <1>1 DEF Final
<1>3. req[c].act \in Actuals
  BY DEF Requests
<1>4. actual'[v] = Committed(req[c].act, report[r].progress)
  BY <1>1 DEF CommitSave
<1>5. Agrees(actual'[v]) /\ actual'[v].progress = report[r].progress
  BY <1>1, <1>2, <1>3, <1>4, CommitMends
<1> QED
  BY <1>1, <1>2, <1>5

\* CommitsAgree: for any number of approvals that overlap, whichever commit writes a
\* TaskActual row last leaves what a final report asks for, with a start and a finish
\* to match; short of a report overwritten or deleted since it was saved.
THEOREM CommitsDoAgree == Spec => CommitsAgree
<1>1. ASSUME FlightInv, [Next]_vars
      PROVE  [\A v \in Versions : actual'[v] # actual[v] =>
               \/ /\ \E r \in Reports : Final(r) /\ report[r].progress = actual'[v].progress
                  /\ actual'[v].progress > 0 <=> actual'[v].start # NoTime
                  /\ actual'[v].progress >= 100 => actual'[v].finish # NoTime
               \/ \E c \in Clients : Orphaned(c) /\ req[c].v = v]_vars
  <2> SUFFICES ASSUME Next, NEW v \in Versions, actual'[v] # actual[v],
                      ~\E c \in Clients : Orphaned(c) /\ req[c].v = v
               PROVE  /\ \E r \in Reports : Final(r) /\ report[r].progress = actual'[v].progress
                      /\ actual'[v].progress > 0 <=> actual'[v].start # NoTime
                      /\ actual'[v].progress >= 100 => actual'[v].finish # NoTime
    BY <1>1
  <2>1. PICK c \in Clients : CommitSave(c)
    BY WhoCommits
  <2>2. req[c].v = v
    BY <1>1, <2>1 DEF CommitSave, FlightInv, TypeOK
  <2>3. ~Orphaned(c)
    BY <2>2
  <2> QED
    BY <1>1, <2>1, <2>3, CommitAgrees DEF Agrees
<1> QED
  BY <1>1, FlightInit, FlightNext, PTL DEF Spec, CommitsAgree

=============================================================================
