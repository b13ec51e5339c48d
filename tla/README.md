# Verification of the project-control backend

`src/` is a Django REST backend for project planning and control: revisions of a
schedule, critical path, progress reports, contracts and payments, budgets,
resource leveling, and engineering data (items, bills of material, operation
charts, part codes).  This directory holds TLA+ specifications of it, the TLC
configurations that check them on small instances, and TLAPS proofs of their main
theorems for every value of the constants.

Run a check with `tlc -config <run>.cfg <module>.tla`; `PROJECT.json` names the
module of every run.  Check a proof with `tlapm <module>Proofs.tla`.

## 1. What every model rests on

* **Commits.** PostgreSQL runs READ COMMITTED and `KTCProject/settings.py` sets no
  `ATOMIC_REQUESTS`: outside `transaction.atomic` every statement commits alone.
  A request is therefore one action per commit.  The threads are `Clients`, and
  `req[c]` is what the thread of `c` holds in memory between two commits: the
  stage of its request and the rows it has read.
* **Whole-row saves.** `Model.save()` without `update_fields` writes every column
  as it was read; a save with `update_fields` writes those columns.  This is why
  `req[c]` keeps whole rows, and it is where most of the hazards come from.
* **Row locks.** `select_for_update` inside a transaction is one action if the
  transaction does nothing that another thread can observe before it commits, and
  a lock variable held across actions where the code validates in between (the
  locked PATCH of `RevisionSpine`).
* **Deaths.** A death (`Crash`, `Die`) drops what a thread holds and its locks.  The
  database keeps what was committed.
* **Permissions** are preconditions: a modelled request has passed them.  Where
  the role decides the outcome (who approves a report) it is modelled.
* Text, JSON layout, notifications, audit events and attachments are left out.

## 2. Inventory

| Component | State | Operations and interaction | What is hard | What makes it correct |
|---|---|---|---|---|
| Revision spine (`revision_policy.py`, revision and project views) | Project row (four official pointers, data date, lifecycle), Revision rows | create draft, approve and promote, select official, PATCH, delete, archive, run CPM; every edit of tasks asks whether the revision is open | unlocked PATCH saves stale rows; approval and promotion are two commits; check then save | official revisions are approved and live; one open revision, the working one; approved revisions are frozen; promotion follows approval |
| Critical path (`cpm.py`, `calendar.py`) | nodes and links in memory; planned dates and metrics saved | one run over a revision; reads calendars, actuals, subprojects | clock time against working time; out-of-sequence progress; leads; cycles | dates equal a textbook CPM in working hours; float keeps its promise; cycles are refused |
| Dependencies (views) | Dependency rows | create, change, delete; CPM reads them | cycle check and save are not atomic | no cycles |
| Progress reports (report views) | report rows, TaskActual rows | create, edit, submit by creation, approve in two stages, bypass, reject, delete; commit into TaskActual after the gate | approval, gate and commit are separate; rejections and edits save whole rows | final means signed; final stays final; progress only from final reports and within the gate |
| Financial plans (`financial_services.py`, plan views) | plan, milestone, transaction rows | create, PATCH, activate, delete, pay, refund; gate for reports | activation locks the plan only; updates save stale rows | one active plan; nothing overpaid; plan balanced when activated; ledger kept |
| Budget (models, budget views) | funding sources, allocation tree, consumptions, borrows, cost transactions, forecasts | create, edit, delete, submit, approve, reject, borrow, settle, spend | tree-wide sums checked without locks; two definitions of remaining capacity; parents that may be changed into a circle | no source and no allocation gives more than it has; costs paid in full, narrowest budget first; approval from the source down, once |
| Resource leveling (`cpmLeveling.py`, plan views) | plans and their projects, task metrics, daily usage | create, edit, simulate, publish, archive, delete; the engine places tasks day by day | a long simulation races a publication or an edit; hours spread over days, people and projects | one published plan per project, and it stays; results fit the plan; nobody is overloaded, links hold |
| Roles and assignments (`signals.py`) | TaskRole, Resource, Assignment rows | POST, PATCH, DELETE and bulk requests for roles, and the signals on them; leveling reads the assignments | role, resource and assignment are committed one by one; the two signals use different codes | every executor is counted by leveling |
| Item revisions (`enterprise_items/services.py`) | Item and ItemRevision rows with effective periods | review, approve, release, supersede, obsolete, PATCH, delete; status of the item | parallel releases; row locks in turn; stale saves | effective periods of released revisions do not overlap; released ones stay so |
| Bills of material (`bom_services.py`) | BOM, BOMRevision, BOMLine rows | the same life cycle, lines, clone | components and circles are checked, not locked | components were released; lines of released bills stay; no circles |
| Operation process charts (`opc`) | charts, nodes, edges | the same life cycle, nodes, edges, clone | overlap is checked before the chart to supersede is known | graphs of released charts are sound |
| Part coding (`coding_services.py`, views) | classes, schemes, templates with segments, sequences, items, identifiers, attribute values | move classes, activate, retire, clone and edit templates; create items | the number is taken in the creation's transaction; several routes to one status | numbers and codes unique; identities unique; one effective template; no gaps, no number that is tried for ever |
| Earned value, import/export, permissions, users, audit log, management reports, settings | mostly none of their own | computation, conversion, predicates | nothing interleaves | - |

How they interact: the spine decides which revision CPM may schedule and which
version's TaskActual a report is committed to; CPM reads the actuals that reports
commit and writes the dates that leveling starts from; the active financial plan
is the gate of every commit of progress.  Leveling starts from the dates of CPM and
from the assignments that the signals keep.  Bills and charts are released against
item revisions; part coding creates the items.  Cost transactions draw on budgets.
Interaction is by shared rows; signals are used by roles only.

`PROJECT.json` lists every component with its status, and the hazards with their
lines and the properties that cover them.

## 3. Modules

| Module | Models | Uses |
|---|---|---|
| `RevisionSpine` | official pointers, revisions and every request that moves them | |
| `OfficialSchedule` | what that API promises, each operation one step | refined by `RevisionSpine` |
| `ReportApproval` | life cycle of reports and the commit of progress | |
| `FinancialPlan` | plans, milestones and payments of one task | |
| `TaskDelivery` | reports whose gate is a financial plan | composes the two above |
| `WorkCalendar` | working calendars and the walks over them | |
| `CriticalPath` | one run of the CPM engine | extends `WorkCalendar` |
| `ResourceLeveling` | leveling of what CPM scheduled | extends `CriticalPath` |
| `ExecutorSync` | roles of users on tasks, and the signals that keep assignments | |
| `LevelingPlan` | plans: edit, calculate, publish | extends `ExecutorSync` |
| `Lifecycle` | statuses, transitions and periods of engineering documents | |
| `ItemRelease` | item revisions and items | extends `Lifecycle` |
| `OfficialRevision` | what releasing promises, day by day | refined by `ItemRelease` |
| `BomRelease`, `OpcRelease` | bills of material; process charts | extend `ItemRelease` |
| `EngineeringRelease` | the three together, on the same threads and rows | composes them |
| `PartClassification` | the forest of classes, and their attributes | |
| `CodingTemplate` | templates, their periods and segments | extends `PartClassification` |
| `PartNumbering` | sequences, parts, identifiers, values | extends `CodingTemplate` |
| `BudgetTree` | sources, the tree of allocations, forecasts | |
| `BudgetLedger` | approval, borrows, cost transactions | extends `BudgetTree` |
| `MC*` | constants for TLC | |
| `*Proofs` | theorems; `TaskDeliveryProofs` those of `FinancialPlan` too, `EngineeringReleaseProofs` those of `ItemRelease`, `BomRelease` and `OpcRelease`, `SchedulingProofs` those of `WorkCalendar`, `CriticalPath`, `ResourceLeveling`, `ExecutorSync` and `LevelingPlan` | |
| `RowSumsProofs` | facts about sums over the rows of a table, for plans, budgets and the demand for resources | |

`Mut...` operators are slightly wrong versions of the definition that follows
them.  No specification uses them; they serve to test that each property can
fail.

### Official schedule (`RevisionSpine`, `OfficialSchedule`)

A project has revisions numbered from 0.  The Project row names the active
baseline, the current execution and forecast revisions and the working revision
(`project.ptr`).  Creating a project makes Rev 0, official in all four roles and
still open.  `ApproveRead`, `ApproveSave`, `ApproveReadDate` and `ApprovePromote`
are the commits of the approval view; `DraftRead` and `DraftCommit` the unlocked
check of create-draft and its transaction; `Select...` the PATCH that names a
pointer: it finds the project (`SelectFind`, deleted ones are left out here), then
locks and validates the row (`SelectValidate`, `SelectRefused`) and writes it
(`SelectSave`); `PatchValidate` and `PatchSave` the generic PATCH, which does not lock;
`Destroy...`, `ArchiveProject`, `Cpm...`, `Edit...` (any change of tasks) and
`Amend...` (PATCH of a revision, which saves the whole row) the others.  The number
that such a PATCH may write is a label; here revisions are numbered as they are made.
`tasks[r]` counts live task versions: enough to see an edit and an empty revision.

`OfficialSchedule` says what a user is promised: approving is one step that locks
a revision and moves the pointers.  The refinement mapping hides a saved approval
until its promotion.

### Progress reports (`ReportApproval`)

Rows of `report` go through pending, reviewer-approved, final, rejected, absent.
`scope` (company or intra-unit) and `bypass` decide who may approve; both may
change between two requests.  Approval reads the row together with its project, and so
the version then in execution (`req[c].v`), saves the report (`ApproveSave`), validates
the gate as it is by now and reads that version's actual row (`CommitRead`,
`CommitRefused`), and writes it (`CommitSave`); rejection and edit read, then save the
whole row.  In this module gate, version in execution and settings are moved by the
rest of the system (`Elsewhere`) at any time; in `TaskDelivery` the gate is computed
from the plan.

### Financial plans (`FinancialPlan`, `TaskDelivery`)

The plans of one task.  `ActivateCheck` and `ActivateSave` are the validation and
the commit of activation.  A payment or refund locks the milestone, its plan and the task
and checks the amount (`Register`), then posts it (`Post`), and whoever writes one of these
rows meanwhile waits; taking the three locks is one step.  Deletions are single steps;
PATCHes of plans and
milestones validate what they read and save later.
Percentages become amounts by the rounding of `milestone_amount`; amounts are
cents.  Statuses `locked`, `eligible` and `overdue` differ only in the calendar
date and are one value, `"open"`.  A plan stays with its task; writes that GET
requests make to refresh statuses are left out.  In `TaskDelivery` the gate is
what the unpaid milestones of the active plan block, and one thread serves
requests of both parts.

### Critical path (`WorkCalendar`, `CriticalPath`)

Time is whole hours.  A calendar gives the working hour slots of every weekday,
and exceptions by date.  `AddWorkingHours`, `SubtractWorkingHours` and
`NextWorkingMoment` walk from day to day as the code does (the recursive functions
`AddWalk`, `SubtractWalk` and `NextWalk`): adding lands on the end of a slot,
subtracting on the start of one.  A run sorts the network
(`Sort`, in any order the query may return), or finds a cycle, then computes
early and late dates task by task, floats and criticality, and saves.  The kind of
a task (new, running, done, external) is computed from its actuals.

Abstractions: durations and remaining work are whole hours; working intervals of
one day do not overlap; every calendar works some time each week (the code gives
up after 1825 days); the network is read in one step.

### Leveling (`ResourceLeveling`, `ExecutorSync`, `LevelingPlan`)

`ResourceLeveling` continues where `CriticalPath` saved: it places the tasks, in any
order in which they become ready (the code sorts the ready ones by configurable
priorities), at the first day from which every assigned person has the hours that
the task spreads over the days.  Several projects are one network that is not
connected.  `SearchDays` stands for the code's 1000 tries.  A task that needs more of a
person on some day than the others leave, whichever of the starts is tried, is placed
without hours and without a word (`Hopeless`).

`ExecutorSync` has a request per route to a role (POST, PATCH, DELETE, bulk
assignment, deletion of a task) and the signals that follow.  Outside a transaction
the role, the pool, the resource and the assignment are commits of their own (`AddRole`,
`PoolFind`, `PoolCreate`, `EnsureResource`, `Assign`); the pool is looked for by a name
that is not unique, so two signals that find none make two, and every later one fails
after its role is saved.  A removal reads the roles, then deletes the rows with
their keys, whatever these are by then (`Hold`, `Remove`).  `LevelingPlan` adds the plans.  `Simulate...` are the
commits of a calculation, `PublishFind` and `Publish` the search for rivals and the
commit; the result of a calculation is, per project, the rules it used and the
executors it counted.

### Engineering documents (`Lifecycle`, `ItemRelease`, `BomRelease`, `OpcRelease`)

The three service modules repeat one table of transitions, which is in `Lifecycle`.  A
service locks the revision, then the item (`Lock`, `LockItem`), then a release
validates, locks the revision to supersede (`Validate`) and commits (`Release`);
`Deadlock` is the database aborting one of two that wait for each other.  A release
of a bill holds its own row and the parent's; components are read without locks.  A
chart is validated before the released one is looked for (`OpcValidate`,
`PublishChart`).  `Read...` and `Save...` are the generic PATCH and DELETE.  Days are
numbers up to `MaxDay`; quantities, texts and durations of operations are left out.

`OfficialRevision` says what the release of an item promises: on each day one
revision at most is official, and taking over from the former is one step.

### Part coding (`PartClassification`, `CodingTemplate`, `PartNumbering`)

Classes form a tree by parent, and attributes assigned to a class hold for those
below; the walk to the root is the least set closed under parents.  A class has a code,
which only its siblings may not share and which a PATCH may change, and a domain, the
first component of its stored path; scopes of sequences, codes and identities
are made of these names, and a part keeps the identity it was created with.  Templates of
the one scheme are told apart by their versions, and have a status, a switch `is_active`, a period and a set of
segments; which text a segment yields is abstracted to what it is made of (number,
class, domain, value).  `Reserve`, `Check` and `Insert` are the creation of an item in one
transaction that holds the row of the sequence from the reservation to the commit; typed,
legacy and overridden codes are the other routes.  The counter of the older code scheme
is a field its clients may set (`ReadScheme`, `SaveScheme`).  Codes are records of what they
were built from, `Folded` when case is ignored.

### Budgets (`BudgetTree`, `BudgetLedger`)

Sources, a tree of allocations scoped to the project, a WBS node or a task, borrows
that may create the borrower (a sink), cost transactions that draw on several
allocations.  Every request validates what it read and saves later.  A cost
transaction tries allocations from the narrowest scope and, within one, the deepest
child.  `deployment.database` tells the two configured databases apart: on
PostgreSQL the query that locks the allocations joins a nullable parent, which the
database refuses, so no cost is booked; on the SQLite fallback a booking is atomic, and
so is the approval of a borrow (`CheckedAtOnce`), but for the statuses of lender and
borrower, which are those loaded with the borrow.  PATCHes may move an allocation to another
scope and a request for money to another task.  A row that a pending call is to make
has its number set aside (`Room`, `Taken`), and a cost that rounds to nothing is left out.
A deployment starts from rows as earlier requests left them (`Consistent`).

### Deployments

The modules of leveling, engineering, coding and budgets start from one of several
*deployments*: threads, the kinds of requests each serves, and the rows they find.
`Spec` chooses one at the start and TLC visits all.  Each deployment is small, and
together they make every action fire; a property that needs a condition on the
requests (`Serial`, `Apart`, `Undisturbed`) names it, so that the condition is
checked by the deployments that meet it and visibly not claimed for the others.

## 4. What the runs check

| Run | Threads | Question |
|---|---|---|
| `spine_patch` | 2, with deaths | Do official pointers stay on approved, marked revisions when unlocked PATCHes save stale rows? |
| `spine_serial` | 1, with deaths | With every kind of request: is an official revision ever deleted or a deleted project revived; and does all of it implement `OfficialSchedule`? |
| `spine_progress` | 2, fair | Is there ever a second open revision; does everybody get the row; is a saved approval promoted? |
| `spine_amend` | 2, with deaths | Once an approval has outlived the requests that read the revision before, can any mixture of PATCHes, deletions, approvals and edits reopen the revision or change its tasks? |
| `report_overlap` | 2, fair, one may die | While payments move the gate, promotions the version in execution, and settings the rules: is a final report signed as its approval asks, does it stay final, do two commits leave one row that agrees with a report, and does an allowed approval reach the row it was meant for? |
| `financial_overlap` | 2 | Is one plan active at most, is any milestone overpaid by what happens between a payment's check and its write, any ledger row orphaned? |
| `delivery_serial` | 1, with deaths | Is progress committed only when what blocks it is paid; do activated plans add up; do paid terms stay? |
| `schedule` | - | On all small networks: textbook dates, honoured links, safe float, reported cycles; then, leveled: nobody overloaded, links honoured, no delay without a reason. |
| `engineering` | 1 or 2, fair | Do released items, bills and charts stay as released, with disjoint periods, released components and sound graphs; are all releases answered; does an item implement `OfficialRevision`? |
| `coding` | 1 or 2, fair, with deaths | While classes are moved, renamed and created under a code in use elsewhere: are numbers, codes, identities and identifiers unique, does one template apply, are numbers spent only on parts, and does every request end? |
| `budget` | 1 or 2, fair | Does no source and no allocation give more than it has; is every cost paid in full from the narrowest budget; are decisions final? |
| `leveling` | 1 or 2, with deaths | Are executors counted although role, pool, resource and assignment come one by one, does a project have one published plan, does it stay, do results fit the plan? |

Most properties the configurations name are conjunctions, so that what belongs
together is checked together.  Their parts have names and comments of their own in
the modules, and the sections below speak of the parts:

| Property | Parts |
|---|---|
| `OfficialSound` | `TypeOK`, `OfficialApproved`, `BaselineMarked` |
| `DeletedStaysOut` | `OfficialNotDeleted`, `DeletedStaysArchived` |
| `Progress` | `RequestsEnd`, `ApprovalIsPromoted` |
| `FinalSound` | `TypeOK`, `SignedByRole` |
| `LedgerSound` | `TypeOK`, `OneActivePlan`, `LedgerKept` |
| `TermsSound`; `PlanCurrent` | `ActivationBalanced`, `TermsFixedOncePaid`; `PercentWithin100`, `StatusCurrent` |
| `DatesAreTextbook` | `CpmTypeOK`, `CycleReported`, `EarlyDatesAreTextbook`, `LateDatesAreTextbook` |
| `LinksHonoured` | `DependenciesHonoured`, `RemainingWorkFits` |
| `FloatIsTrue` | `FloatIsSafe`, `FreeFloatWithinTotal`, `NoArtificialNegativeFloat` |
| `LevelingSound` | `LevelTypeOK`, `NobodyOverloaded`, `LeveledLinksHonoured`, `NeverEarlier`, `NoNeedlessDelay` |
| `PeriodsDisjoint` | `ReleasedPeriodsDisjoint`, `ReleasedBomsDisjoint`, `ReleasedChartsDisjoint`, `NoChartSuperseded` |
| `ReleasedSound` | `TypeOK`, `DefaultWasReleased`, `ComponentsWereReleased`, `ReleasedGraphSound` |
| `ReleasedStays` | `ReleasedIsForever`, `ReleasedLinesStay` |
| `ReleaseChecked` | `ReleasedUnderActiveItem`, `ReleasedForApprovedParent`, `ReleaseClosesNoCircle` |
| `PartsUnique` | `TypeOK`, `NumbersUnique`, `IdentitiesUnique`, `CodesUnique`, `IdentifiersUnique`, `NextCodeFree` |
| `RulesSound`; `OutputKept` | `OneTemplateApplies`, `ClassesAcyclic`; `ActiveOutputKept`, `ReleasedValuesKept` |
| `BudgetSound` | `TypeOK`, `SourceCovered`, `WithinCapacity`, `SpentInFull`, `ApprovedFromAbove` |
| `PlansSound`; `ResultsReliable` | `TypeOK`, `OnePublishedPlan`, `BasisCurrent`; `PublishedKept`, `ExecutorsLeveled` |

**Bounds.** Two threads show every race of these models, because each is between
one stale copy and one commit; a third would add a second stale copy.  Two
revisions after Rev 0 are needed for a pointer that moves away and back
(`MaxRev = 2`); one task tells an empty revision from another.  One report that is
approved by two threads, edited, rejected and deleted meanwhile has two commits over one
row of actuals, and a version that leaves execution and comes back has what was read before
it left.  Three tasks have every shape of a diamond's
half, a chain and a cycle of length one to three; durations 0, 1 and 3 against
days of two working hours make milestones, work within a day and over a break;
lags -1, 0, 1 and all four link types; execution mixes two calendars, a worked
exception and a day off.  Percentages 0, 50, 100 meet the thresholds of the terms
exactly, below and above.  Leveling adds four teams of a full-time and a half-time
person on a short and a long task.

Engineering has two revisions of one item, each of which may be the parent or a
component of two bills, one with two revisions; two charts with two nodes make a
circle; two days make periods that touch, overlap or are apart.  Coding has three
classes (a parent, its child and a stranger), two attributes and values, three parts:
two that compete and one that came before.  Budgets have up to three allocations in
a chain or side by side and amounts up to 3: one unit short and one to spare.
Leveling plans: two plans that share one, both or none of two projects, and two
users who may have each other's code.

**Fairness.** `RevisionSpine!FairSpec` gives each thread strong fairness of its
own steps: the database queues the waiters for a row lock, so a thread is not
passed over for ever.  `ReportApproval!FairSpec` asks weak fairness, since
approval waits for nothing.  `EngineeringRelease` and `PartNumbering` ask strong
fairness of every thread's continuing request, again because of row locks;
`BudgetLedger`, which waits for none, weak fairness.  None assumes that clients send requests.  A
dead thread finishes nothing, and the code has no recovery that would: in the fair runs
nobody dies, but for a thread of `report_overlap` (`Mortal`) of which `FinalIsCommitted` says
nothing, and in `PartNumbering`, where a death is a rollback and so an end of the request.

**Deadlock** is not checked: every system may be idle with its bounds used up,
and a CPM run ends.  That threads do not wait for each other for ever is
`RequestsEnd`.

## 5. Races that the code allows

These properties are checked for requests that do not overlap (one thread),
because the code does not keep them otherwise and no document says that it does:

* `OfficialNotDeleted`: a check followed by a save in another statement.
* `ActivationBalanced`, `PercentWithin100`, `TermsFixedOncePaid`: milestones are
  not locked by activation and by each other's creation.

Others are claimed for any number of threads, in a form that names the requests which are
under way when they begin to hold:

* `ApprovalPermanent`: a PATCH of a revision saves the whole row, so one that read it
  before its approval makes it open again.  What is claimed is that this is the only way:
  an approval is `Sealed` once those PATCHes have ended, and then stays.  `RevisionFrozen`
  asks besides that the edits of tasks have ended that found the revision open
  (`Frozen`): they are still written after the approval.
* `FinalKept`: a rejection or an edit that read a report before its final approval saves
  over it, and so does a first signature.  A final approval stays once they have ended
  (`Undisputed`).
* `CommitsAgree` leaves out a commit whose report was overwritten or deleted after it was
  saved (`Orphaned`): its progress arrives although no final report shows it.
* `FinalIsCommitted` is about the version that was in execution when the approval was
  read, since the project is loaded with the report.  A promotion before the commit leaves the
  progress with the former version.

The engineering, budget, coding and leveling parts name in each property which requests
must not overlap:

* `ReleasedPeriodsDisjoint`, `ReleasedIsForever`, `DefaultWasReleased` hold for any
  number of releases at once, but not next to a PATCH or a deletion, whose stale save
  puts the old status back.  `ReleasedBomsDisjoint`, `ReleasedLinesStay` and
  `ComponentsWereReleased` likewise; besides, a line may be moved by PATCH into a
  released bill (`bom_services.py:53` asks only about the bill it leaves), and a
  bill may get another parent.  `ReleaseClosesNoCircle` and `ReleasedChartsDisjoint`
  need releases that do not overlap.  Nodes and edges may be moved into a released
  chart, and a chart of any status may be deleted.
* `SourceCovered`, `ApprovedFromAbove`, `DecidedOnce`: two requests each find room,
  or each find the budget undecided.  `WithinCapacity` holds for costs and approvals that
  overlap on SQLite, and otherwise for requests that do not.  It leaves out what section 6
  describes and a borrow that is withdrawn (`Withdrawn`: a PATCH or DELETE of an approved
  one does not ask what the borrower did with the money).  Two approvals at once of one
  borrow without destination make two sinks: the borrow keeps the second, and costs
  already drawn from the first have no money behind them.  `WithinCapacity` leaves out
  sinks, and them alone, when requests overlap.
* `OneTemplateApplies` is not kept by a PATCH of `is_active` or one that overlaps an
  activation; `ClassesAcyclic`, `IdentifiersUnique`, `ActiveOutputKept`,
  `ReleasedValuesKept` need requests that do not overlap; `CodesUnique` regardless of
  case too (the unique constraint minds case).  `IdentitiesUnique` holds for any
  creations that take numbers from one sequence, which makes them wait.
* `OnePublishedPlan`: two publications that overlap archive each other's rivals only
  as they were before, and both plans stay published.  `PublishedKept`: a
  calculation, edit or deletion that began before a publication may undo it.
  `BasisCurrent`: an edit during a calculation leaves results of other projects.
  Two calculations at once are kept apart by the unique constraint.
* `ExecutorsCounted` claims an assignment for every executor if no process dies between the
  role and its assignment, removals overlap neither each other nor changes of roles
  (a removal deletes by key what was changed meanwhile, and its signal what was assigned
  again), and no employee code is the id of another user.  It does so while there is one
  pool at most, and claims that there is, unless two threads make the first executors of all
  at once: then there are two pools, and every signal from then on fails with the role saved.
* `NumbersUnique` claims numbers of the older code scheme where no client updates the
  scheme: a PATCH may set `next_sequence` back, and even one that does not mention it saves
  the counter it loaded.  `IdentitiesUnique` is about the identities parts were created with,
  which name the class by the code it had: two classes below different parents may share a
  code, and their parts are then duplicates of each other for the program as well.
  `NextCodeFree` needs, where sequences are per class or domain, names that tell the classes
  apart and stay as they are.

Payments are modelled with their three locks taken at once.  The code locks the milestone
first and then its plan, while an activation holds the plan and goes on to write the
statuses of its milestones: each may wait for the other until the database aborts
one, which then leaves nothing behind.

Others are listed in `PROJECT.json` under `hazards` with a note.

Reports approved in another order than they were written leave the older
progress in TaskActual while the approved progress is that of the newest; a
report with the reviewer's approval is stuck when the scope becomes intra-unit; a
promotion starts the task's new version at zero progress; suspending a plan opens
its gate; refunds are not bounded by payments.  Nothing in the repository says
otherwise, so the models show these behaviours and state no property.

About CPM: float is clock time.  `FloatIsSafe` therefore speaks of late starts,
and is restricted to finish links without leads: the late finish that an SS or SF
successor, or a lead, allows is not capped by the project finish.  With different
calendars, lag runs in the successor's calendar forward and in the predecessor's
backward: `FloatIsSafe` lets lags join tasks of one calendar only (`LagsShared`), and
asks of subprojects that they do not end before they start, which nothing in the
code checks.  `LateDatesAreTextbook` is stated for one calendar and
`NoArtificialNegativeFloat` without lags.  The latter also leaves out a running task
with SS or SF successors: one that is still held up by its predecessors, while a
successor only waits for the start it has had, has negative float, and rightly.  A
last task has the break after its predecessor as float and free float.

About leveling: the start of a task is recomputed from its leveled predecessors and
forgets the early start of CPM once it has one (`cpmLeveling.py:296`), so work that
follows completed work may be placed before the data date.  Running and completed
tasks are leveled with their full duration.  With several calendars, snapping to the
next working moment can add delay.  `NobodyOverloaded` claims nothing while a task is
`Hopeless`, which is relative to what the others use: a task that would fit alone may find
all the starts it tries taken, is left where its links want it, and its hours are
missing from the usage that is stored.  About budgets: the sink of a borrow is not
counted by its source, and changing the source of an allocation leaves its children
on the old one.  About coding: the switch `generated_code_locked` is read by nothing;
renaming a class leaves identities, codes and the paths below it as they were.

## 6. Disagreements

Where the code does something else than a comment, a docstring or a test of the
repository says.  Each shows in the models as a case that a property leaves out.

* An empty CPM run returns no data date (`cpm.py:893`) and the caller stores it, so an
  active project loses the data date that `models.py:151` demands of it.
* A task after a break of the calendar is not critical, although it is on the only
  path: float is clock time (`cpm.py:742`, against `tests/test_cpm_engine.py:76`).
* The final approval of a report is committed before the financial gate is asked
  (`views.py:1519`); a refused report counts as approved progress
  (`financial_services.py:293`).
* `_allocation_remaining` does not count settled borrows (`views.py:3140`), the model
  does (`models.py:1481-1491`): what was lent and settled can be spent again.  And a child
  allocation is not checked against what its parent has spent or lent
  (`serializers.py:1072`).  `Withdrawn` names the settlement, and `WithinCapacity` leaves
  out, where requests edit allocations (`Edited`), one with children that also spent or lent.
* Segments of an active template may be deleted (`enterprise_items/views.py:331`),
  while `models.py:786` refuses other changes of its output.
* The signal that removes an executor's assignment looks for another code than the
  one that created it (`signals.py:58`, docstring at 53-56): the assignment stays, and
  takes capacity from later levelings.
* Superseding a chart is always refused (`opc/services.py:220`), although the refusal
  of a release says "Use supersede." (`NoChartSuperseded`).

## 7. What is proved

The proofs hold for every set of threads, kinds of requests, terms and bounds
that the `ASSUME`s of the module allow (null values are no rows, bounds are
numbers, statuses a request may name are not `active`, there is a rule to level
by, deployments ask for plans and rules that are declared, and start with
one pool of the signals at most, who may die is a thread, null names are no names, the revisions of a
bill that a deployment starts with have a parent, parts and the threads of budgets and
of coding are finitely many, the rows of a budget table are numbered from 1, every
calendar works some time in its week and has finitely many exceptions, a network is one of
finitely many tasks, at least one, and of finitely many links, a subproject has
both dates, and units of resources are numbers).

* `RevisionSpineProofs`.  `TypeCorrect`; then `OfficialAreApproved` and
  `BaselineIsMarked` from the inductive invariant
  `OfficialInv`, and `OfficialIsSound` from all of them; it says: type, `NumbersInv` (rows and copies name existing revisions),
  `ApprovedInv` and `MarkedInv`.  The last two say of the copies in memory what
  the property says of the row: a PATCH is harmless because the row it will save
  was validated against revisions that stay approved.  They assume that no PATCH
  of revisions (`"amend"`) is served, because that one can reopen them.
  `OneOpenRevision` assumes in addition that the working pointer is moved by
  create-draft and approval only.
  `ApprovalIsPermanent` and `ApprovedIsFrozen` assume nothing, PATCHes of revisions
  included: a revision that is `Sealed` or `Frozen` remains so in every step, because whoever reads
  it from then on holds an approved row or is refused.
  Under `Alone` (one thread) `SerialInv` says that what a request read and checked is
  still so when it writes (`Current`), and that the row that a PATCH will save is the
  one there is, but for what the PATCH is about.  From it follow `DeletedIsOut`
  and `SerialIsOfficial`, the refinement of `OfficialSchedule`:
  the save of an approval is a stutter there and its promotion the step `Approve`
  (a death in between is the step `Lock`), since the revision that the
  promotion takes up is live and approved still.
* `ReportApprovalProofs`.  `TypeCorrect`, and `FinalIsSigned` (together
  `FinalIsSound`) from `SignedInv`:
  every copy of a report in memory is signed as far as its status says.
  `FinalIsKept` for any number of threads: in every step a report that is final and
  `Undisputed` remains both, since what is read from then on is refused or already
  final.  `CommitsDoAgree` rests on `FlightInv`, which says of each request what it
  carries (`Underway`): behind a saved approval is a row that is final, and about a
  report that was created.  A commit that is not `Orphaned` thus finds its own report among
  the final ones, and takes the dates of the first of them that shows progress or completion;
  there is one by `LeastNumber`, the least number of a set, which is as
  much induction as the provers can be brought to (a least counterexample, from
  well-foundedness).
* `TaskDeliveryProofs`, first part.  `TypeCorrect`, `OneIsActive`, `LedgerIsKept` (together
  `LedgerIsSound`) and
  `NothingOverpaid`, all from `LedgerInv`: besides the properties, a milestone
  belongs to a plan that exists (`BelongsInv`), one registration at a time holds its
  milestone and the plan that belongs to (`PayInv`), an update in memory carries only a
  status that requests may name, never active (`PatchInv`), an activation holds a
  plan that exists (`ActivateInv`), and paid milestones exist (`UsedInv`).
  `NothingOverpaid` adds `RoomInv`: from the check of a payment to its posting what is about to
  be paid is still outstanding, since terms, contract and payments of a held
  milestone stay (`HeldStays`).  `SerialTermsFixed` under `Serial`.
* `TaskDeliveryProofs`, second part: plans with the reports they gate.
  `DeliveryIsFinancial` shows that progress reports only read the plan, so that what holds of
  `FinancialPlan` holds of the composition (`DeliveryIsSound`).  Under `Serial`, `SerialInv`
  says that a change of a paid milestone keeps its terms (`SettledInv`), that live rows have the
  terms and contracts that may be asked for and what has no transaction is unpaid (`LiveInv`), that
  a change of a milestone still fits when it is saved and a plan that is activated is balanced
  (`PendingInv`), and that statuses are what the payments make them (`StatusInv`).
  `PlanIsCurrent`, `ActivationIsBalanced` and `TermsAreSound` follow.  The sums of shares
  and amounts need `RowSumsProofs`.  `StatusInv` holds where no milestone with a share rounds
  to zero cents (`NoneRoundsAway`): a milestone of nothing is paid from the start in one
  request and open in another, so that `PlanCurrent` claims statuses only
  then.  `ProgressIsPaid` (`PaidBeforeProgress`) adds `DeliveryInv`: what a
  thread is about to commit is still cleared by the milestones that are paid, since its
  gate reads the same rows that payments write and nobody else is at work.
* `RowSumsProofs`.  What adding, removing or changing a row does to the sum of a column,
  that sums of numbers are numbers and keep an order between columns.  `SumFunctionOnSet` is a
  fold over a `CHOOSE`; the lemmas are by induction over the finite sets, which is a
  statement about a family of sets here (`FiniteFamily`): the provers take a set where
  they take no operator.
* `SchedulingProofs`, first part: the schedule run.  It proves all that the run `schedule`
  checks, for every network, every calendar and any resources.
  - *Walks.*  `Worked(c, x)` counts the working hours of a calendar up to moment `x`.
    Adding hours moves it up by just that many and lands on the end of a slot, subtracting
    moves it down and lands on a start, and the next working moment is
    the first at or after.  So dates may be compared by counting, and the
    textbook's dates are equal to the engine's in that sense.  A walk ends because every week
    has an hour and exceptions are finitely many (`HoursAhead`, `HoursBehind`).
    What a recursive function computes is known once some function is shown to solve
    its equation and any two that do to be equal, by induction over the hours
    and days left (a set of numbers, and so no operator to instantiate).
  - *Passes.*  `CpmInv` says that the order is one in which links point forward, and
    that every date computed so far is what `EarlyDates` or `LateDates` makes of
    those computed before (`Ordered`, `EarlyRight`, `LateRight`).  `PlanIsFeasible` follows
    from it directly.  `DatesAreTheTextbooks` and `FloatTellsTheTruth` go
    through the order forward or back (`ForthThroughOrder`, `BackThroughOrder`): with
    the set of positions for which a claim holds, the least that is missing has
    all it rests on before it.  A run that stops without an order has a task
    each of whose kind waits for another, and following those comes to
    a cycle, since tasks are finitely many.
  - *Leveling.*  `LevelInv` says what CPM left and that the tasks placed are well typed.
    `LevelRight` adds that each has dates that its leveled predecessors allow
    (`PlacedWell`, `NotEarly`), that what is used of a resource on a day is the
    demand of the tasks that found a place (`UsageRight`), and that the others
    (`Stuck`) had none; as usage only grows they have none at the end either, which
    makes them `Hopeless` and gives `NobodyOverloaded`.  `NotDelayed` is per task: where
    resources are ample the first start tried fits, and it is the start that CPM found.
* `SchedulingProofs`, second part: leveling plans.  `TypeCorrect`, of which `StepInv` also says
  who is at which step, and on a plan that has been there.  `PlanEffects` and `CallEffects`
  list what a step can do to one plan and to one thread; the four arguments below read only
  that list.  Each property starts from a condition that some requests do not overlap,
  and its invariant says what the copy in a thread's memory is then still good for:
  `OneInv` that a publication knows all rivals there are by now; `BasisInv` that
  the rows a calculation carries fit the plan as it is by now, and that a calculation
  which was overtaken finds results that make it fail (with `OneInv`:
  `PlansAreSound`); `KeepInv` that no one who may change a plan is at work on a
  published one, and `CountsInv` that the rows carried count every executor there is
  by now (together `ResultsAreReliable`).  `CountsInv` rests on `ExecutorsAreCounted`,
  which is inductive with `HeldInv` (without overlap, a removal still holds the very roles
  that it read) and `PoolInv` (where the first executors are not made by two threads, no
  signal is about to make a second pool).

* `EngineeringReleaseProofs`, in four parts.  The three
  kinds of documents share threads, so the parts about bills and charts prove each step
  of the others harmless first (`ItemSteps`: a step of `EngineeringRelease` is one of
  `ItemRelease`, or leaves the item revisions alone, and so `RefinesItemRelease`).
  Of item revisions, `LockInv` says that no two threads hold one row, and that what a
  release validated in the rows it holds is still so; `ReleaseInv` adds the rows it does
  not hold (`Clear`): the release that would move them needs the item's row, which is held.
  From these `ReleasesAreDisjoint`, `ReleasesStay`, `ReleasesNeedActiveItem`,
  `DefaultsWereReleased` and the refinement of `OfficialRevision`
  (`OfficialRevisions`): the write of the new release, which ends the old period at the
  new one's start, is a step that hands days over from one revision to the next.
  `BomInv` repeats the argument with the bill and its parent as the rows held.
  `CheckedInv` adds what nobody holds: a component that was seen released may be
  superseded or retired before the commit, but it is never a draft again.
  `OpcInv` takes the chart's graph to be as it was checked as long as updates of nodes and
  edges do not race, and one thread for what relates two charts, whose releases lock
  different rows.  `PeriodsAreDisjoint`, `ReleasedIsSound`, `ReleasedIsKept`,
  `ReleasesAreChecked` and `ItemsAreOfficial` put the parts together.

* `PartNumberingProofs`.  `TypeCorrect`: that a sequence stays within its bound rests
  on `RoomLeft`, which counts the creations under way.  `Fits` and `OneHolder` say
  that a number that is reserved is the next one still, because its sequence is held,
  and so `NumbersAreSpent`.  `PartsApart` has a part for each name: what is drawn from
  a sequence lies behind it (`SequencesApart`, and `CountsApart` for the older scheme,
  as long as no client updates the scheme), and what a creation or an update found free
  when it was validated still is (`IdentitiesApart`, `CodesApart`, `IdentifiersApart`;
  `CodesBehind` for the number to come).  `ClassInv` says that classes have the names they
  started with where nobody renames or creates any (`NamesStay`), which is when sequences per
  class tell codes apart.  `NothingNamesTwo` follows.  Of templates,
  `TemplateEffects` lists what a step writes to one row; from it `OutputInv` (without
  overlap a copy in memory agrees with the row it came from in what an active template
  protects; with `ValuesOpen` for the values of a revision: `OutputStays`) and `OneInv`
  (the templates that were looked at in an activation fit until it writes, since
  they are locked and whatever else could apply waits: `OneApplies`).  `Ancestors`
  is a least set and no recursion, so `ForestInv` needs no induction: a class moves under a
  parent that was not below it and, without overlap, is not now.  Together they are
  `RulesAreSound`.  Threads are finitely many, and a deployment starts with a forest
  and with active templates that have a first day and do not overlap.

* `BudgetLedgerProofs`.  `TypeCorrect`, `Sound`, `Decided` and `NarrowDrawnFirst`: all that
  the run checks of budgets but that requests end.
  `TypeInv` adds to the types what pending calls hold: rows of their table, not those
  that somebody else is to make, and `RoomLeft` that there is a free row for each creation
  under way, which is why a save finds one.  `Reads`, `Deletes` and `Finishes` are the three
  kinds of step (`StepIs`), and the arguments read those only.  `SpentInFull` is
  inductive with the types: the draws are taken in turn from what is free until the amount is
  reached, and what a transaction gave back counts as free.
  `Judged` is what a call found when it was read.  With one thread it still is so at
  the write (`StillJudged`), whence `TreeSound`, the sums of sources and the approvals from
  above.  `Capacity` needs the most.  It says of each allocation that it bears what it
  gives (`Bears`), and not only the property: an edit compares the amount with
  the costs and loans, or with the children, but never with both, so what it leaves is that each
  of the two fits alone, and this is what later costs and loans keep.  `QuickCalls`
  is what a pending approval still knows on SQLite when other costs and approvals commit in
  between: its lender's amount, its destination, and that an approval which came first
  gave the borrow a sink.  `NarrowDrawnFirst` compares the allocations by their depth:
  one above another is higher in the tree and has fewer above it (`Above` is the least set
  closed under parents, which needs no induction), so it is asked later, and is drawn
  on only if what is narrower gave all it had.

Attempts to prove what TLC had found true on small networks showed three properties
false on larger ones: `FloatIsSafe` with lags between calendars, `NoArtificialNegativeFloat`
with a running task that waits, and `NobodyOverloaded` with a task that others leave no place.
TLC confirmed each on an instance made for it.  In all three the code does what it
says and the property claimed too much; section 5 has the cases they now leave out.

Only model-checked: liveness under fairness (`RequestsEnd`, `Progress`, `FinalIsCommitted`),
which the provers cannot reason about.  Every other property of every run is a theorem.

## 8. Not modelled, and what is left

Every component with state and a protocol of its own has its module.  Partly
modelled: `CriticalPath` has no conflict warnings of subprojects, which are texts
stored in the child projects; dependencies appear as networks, not as handlers; of
WBS nodes, resources, pools and assignments the plain row edits are left out; of
part coding, the conversion of values to text and the preview.

Not modelled: earned value, import and export, permissions, users, audit log,
management reports, workspace lists.  They compute, convert or display, and nothing in
them interleaves; a unit test reaches what they do.

What would add most next are the conflict warnings of subprojects, which compare the
dates that a parent project found with those its child projects store, and the handlers of
dependencies, whose check for cycles and save are two statements.
