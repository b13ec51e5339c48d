--------------------------- MODULE PartNumberingProofs ---------------------------
(***************************************************************************)
(* Theorems of PartNumbering: numbers, codes and identities of parts name  *)
(* one part each, numbers are spent with their part, and what is active or *)
(* released keeps what it generates.                                       *)
(***************************************************************************)
EXTENDS PartNumbering, TLAPS, FiniteSetTheorems, WellFoundedInduction

-----------------------------------------------------------------------------
(* Numbers of a set, and the only thread *)

LEMMA LeastNumber ==
    ASSUME NEW T \in SUBSET Nat, T # {} PROVE Min(T) \in T
<1>1. IsWellFoundedOn(OpToRel(<, Nat), Nat)
  BY NatLessThanWellFounded
<1>2. PICK n \in T : \A m \in T : <<m, n>> \notin OpToRel(<, Nat)
  BY <1>1, WFMin
<1>3. \A m \in T : ~(m < n)
  BY <1>2 DEF OpToRel
<1>4. \A m \in T : n <= m
  BY <1>3
<1> QED
  BY <1>4 DEF Min

\* The greatest version is the least distance from the bound.
LEMMA GreatestVersion ==
    ASSUME NEW T \in SUBSET Templates, T # {} PROVE Max(T) \in T
<1> DEFINE D == {MaxVersion - t : t \in T}
<1>1. D \in SUBSET Nat /\ D # {}
  BY TemplateBoundsAssumption DEF Templates
<1>2. IsWellFoundedOn(OpToRel(<, Nat), Nat)
  BY NatLessThanWellFounded
<1>3. PICK n \in D : \A m \in D : <<m, n>> \notin OpToRel(<, Nat)
  BY <1>1, <1>2, WFMin
<1>4. PICK t \in T : n = MaxVersion - t
  OBVIOUS
<1>5. ASSUME NEW u \in T PROVE u <= t
  <2>1. MaxVersion - u \in D /\ MaxVersion - u \in Nat
    BY <1>1
  <2>2. ~(MaxVersion - u < n)
    BY <1>1, <1>3, <2>1 DEF OpToRel
  <2> QED
    BY <1>4, <2>2, TemplateBoundsAssumption DEF Templates
<1> QED
  BY <1>5 DEF Max

\* What "Serial" says: there is one thread.
LEMMA OneThread ==
    ASSUME deployment \in Deployments, Serial, NEW v \in Workers, NEW w \in Workers PROVE v = w
<1>1. Workers \in SUBSET AnyWorker
  BY DEF Workers, AnyWorker
<1>2. IsFiniteSet(Workers)
  BY <1>1, DeploymentsAssumption, FS_Subset
<1>3. PICK x : Workers = {x}
  BY <1>2, FS_Singleton DEF Serial
<1> QED
  BY <1>3
-----------------------------------------------------------------------------
(* The classes and templates *)

ClassCalls == [step: {"idle", "save"}, class: Classes \cup {NoClass}, copy: ClassRows]

\* Nobody changes the code of a class.
NamesStay == deployment.kinds \cap {"rename class", "create class"} = {}

\* A class that is there has its code and domain, and so will the one that is saved.
ClassInv ==
    /\ deployment \in Deployments
    /\ class \in [Classes -> ClassRows] /\ assigned \in [Classes -> [Attributes -> Roles]]
    /\ classCall \in [AnyWorker -> ClassCalls]
    /\ \A c \in Classes : Present(c) =>
         /\ class[c].code \in Names /\ class[c].domain \in Names
         /\ NamesStay => class[c].code = deployment.names[c]
    /\ \A w \in AnyWorker : classCall[w].step = "save" =>
         /\ classCall[w].class \in Classes
         /\ classCall[w].copy.exists /\ classCall[w].copy.code \in Names /\ classCall[w].copy.domain \in Names
         /\ NamesStay => classCall[w].copy.code = deployment.names[classCall[w].class]

TemplateCalls ==
    [step: {"idle", "ready", "retire", "patch", "segment"}, version: Templates \cup {NoTemplate},
     copy: TemplateRows, others: SUBSET Templates, removes: SUBSET SegmentKinds, adds: SUBSET SegmentKinds]

TemplateTyped ==
    /\ schemeOn \in BOOLEAN
    /\ template \in [Templates -> TemplateRows] /\ segments \in [Templates -> SUBSET SegmentKinds]
    /\ templateCall \in [AnyWorker -> TemplateCalls]
    /\ \A w \in AnyWorker : templateCall[w].step # "idle" => templateCall[w].version \in Templates

\* The class of a template is there, and only a template has segments.  A template
\* that is locked stays, one that is patched will have a class.
Founded ==
    /\ \A t \in Templates : TemplateExists(t) => template[t].class \in Classes /\ Present(template[t].class)
    /\ \A t \in Templates : segments[t] # {} => TemplateExists(t)
    /\ \A w \in AnyWorker :
         /\ TemplateAt(w, "ready") => TemplateExists(templateCall[w].version)
         /\ TemplateAt(w, "patch") => templateCall[w].copy.status # "absent" /\ templateCall[w].copy.class \in Classes

TreeInv == ClassInv /\ TemplateTyped /\ Founded

ClassStep(w) == ClassStarts(w, Used \cup HeldClasses) \/ SaveClass(w, HeldClasses)
TemplateStep(w) == TemplateStarts(w) \/ TemplateContinues(w)
NumberStep(w) == NumberStarts(w) \/ NumberContinues(w) \/ Crash(w)

LEMMA StepKinds ==
    ASSUME Next
    PROVE  \E w \in AnyWorker :
             \/ ClassStep(w) /\ UNCHANGED <<templateVars, part, next, numberCall>>
             \/ TemplateStep(w) /\ UNCHANGED <<classVars, part, next, numberCall>>
             \/ NumberStep(w) /\ UNCHANGED <<classVars, templateVars>>
<1>1. PICK w \in AnyWorker : Starts(w) \/ Continues(w) \/ (Crash(w) /\ UNCHANGED <<classVars, templateVars>>)
  BY DEF Next
<1>2. CASE Starts(w)
  BY <1>2 DEF Starts, ClassStep, TemplateStep, NumberStep
<1>3. CASE Continues(w)
  BY <1>3 DEF Continues, ClassStep, TemplateStep, NumberStep
<1>4. CASE Crash(w) /\ UNCHANGED <<classVars, templateVars>>
  BY <1>4 DEF NumberStep
<1> QED
  BY <1>1, <1>2, <1>3, <1>4

LEMMA TreeInit == Init => TreeInv
<1> SUFFICES ASSUME NEW d \in Deployments, ClassInit(d), TemplateInit(d), NumberInit(d) PROVE TreeInv
  BY DEF Init
<1>1. /\ DOMAIN d.tree \subseteq Classes
      /\ \A c \in DOMAIN d.tree : d.tree[c] \in DOMAIN d.tree \cup {NoClass}
      /\ d.names \in [Classes -> Names] /\ d.assigned \in [Classes -> [Attributes -> Roles]]
      /\ \A t \in DOMAIN d.templates : /\ d.templates[t] \in TemplateRows /\ d.templates[t].status # "absent"
                                       /\ d.templates[t].class \in DOMAIN d.tree
      /\ DOMAIN d.segments \subseteq DOMAIN d.templates
      /\ \A t \in DOMAIN d.segments : d.segments[t] \subseteq SegmentKinds
  BY DeploymentsAssumption
<1>2. ClassInv
  BY <1>1 DEF ClassInit, ClassInv, ClassRows, NoRow, ClassCalls, IdleClassCall, Present, NamesStay
<1>3. TemplateTyped
  BY <1>1 DEF TemplateInit, TemplateTyped, TemplateRows, AbsentTemplate, TemplateCalls, IdleTemplateCall, None, NoTemplate
<1>4. \A t \in Templates : TemplateExists(t) => t \in DOMAIN d.templates /\ template[t] = d.templates[t]
  BY DEF TemplateInit, TemplateExists, AbsentTemplate
<1>5. \A c \in DOMAIN d.tree : c \in Classes /\ Present(c)
  BY <1>1 DEF ClassInit, Present
<1>6. Founded
  BY <1>1, <1>4, <1>5 DEF TemplateInit, Founded, TemplateExists, TemplateAt, IdleTemplateCall
<1> QED
  BY <1>2, <1>3, <1>6 DEF TreeInv

LEMMA ClassTree ==
    ASSUME TreeInv, NEW w \in AnyWorker, ClassStep(w), UNCHANGED templateVars
    PROVE  TreeInv'
<1> USE DEF TreeInv
<1>1. ClassInv' /\ \A t \in Templates : TemplateExists(t) => Present(template[t].class)'
  <2>1. ASSUME NEW c \in Classes, NEW p \in Classes \cup {NoClass}, NEW code \in Names, ReadClass(w, c, p, code)
        PROVE  ClassInv'
    <3>1. class[p].domain \in Names \/ p = NoClass
      BY <2>1 DEF ReadClass, ClassInv
    <3>2. Placing(c, p, code) \in ClassCalls /\ Placing(c, p, code).class = c
          /\ Placing(c, p, code).copy.exists /\ Placing(c, p, code).copy.code = code
          /\ Placing(c, p, code).copy.domain \in Names
      BY <3>1 DEF Placing, ClassCalls, ClassRows
    <3>3. NamesStay => code = deployment.names[c]
      BY <2>1 DEF ReadClass, ClassAsked, Asked, NamesStay, ClassInv
    <3>4. classCall' = [classCall EXCEPT ![w] = Placing(c, p, code)] /\ UNCHANGED <<deployment, class, assigned>>
      BY <2>1 DEF ReadClass
    <3> QED
      BY <3>2, <3>3, <3>4 DEF ClassInv, Present, NamesStay
  <2>2. ASSUME NEW c \in Classes, NEW p \in Classes \cup {NoClass}, NEW code \in Names, ReadClass(w, c, p, code)
        PROVE  \A t \in Templates : TemplateExists(t) => Present(template[t].class)'
    BY <2>2 DEF ReadClass, Present, Founded, templateVars
  <2>3. ASSUME NEW c \in Classes, DeleteClass(w, c, Used \cup HeldClasses)
        PROVE  ClassInv' /\ \A t \in Templates : TemplateExists(t) => Present(template[t].class)'
    <3>1. ClassInv'
      BY <2>3, NoClassAssumption DEF DeleteClass, ClassInv, Present, ClassRows, NoRow, Roles, NamesStay
    <3>2. \A t \in Templates : template[t].class # c
      BY <2>3 DEF DeleteClass, Used
    <3>3. \A t \in Templates : TemplateExists(t) => Present(template[t].class)'
      BY <2>3, <3>2 DEF DeleteClass, Present, Founded, templateVars, ClassInv
    <3> QED
      BY <3>1, <3>3
  <2>4. ASSUME NEW c \in Classes, NEW a \in Attributes, NEW role \in Roles, Assign(w, c, a, role)
        PROVE  ClassInv' /\ \A t \in Templates : TemplateExists(t) => Present(template[t].class)'
    BY <2>4 DEF Assign, ClassInv, Present, Founded, templateVars, NamesStay
  <2>5. CASE SaveClass(w, HeldClasses)
    <3>1. classCall[w].step = "save" /\ classCall[w].copy \in ClassRows /\ IdleClassCall \in ClassCalls
      BY <2>5 DEF SaveClass, ClassInv, ClassCalls, IdleClassCall, NoRow, ClassRows
    <3>2. ClassInv'
      BY <2>5, <3>1 DEF SaveClass, ClassInv, Present, IdleClassCall, NamesStay
    <3>3. \A t \in Templates : TemplateExists(t) => Present(template[t].class)'
      BY <2>5, <3>1 DEF SaveClass, Present, Founded, templateVars, ClassInv
    <3> QED
      BY <3>2, <3>3
  <2> QED
    BY <2>1, <2>2, <2>3, <2>4, <2>5 DEF ClassStep, ClassStarts
<1>2. TemplateTyped'
  BY DEF TemplateTyped, templateVars
<1>3. Founded'
  BY <1>1 DEF Founded, templateVars, TemplateExists, TemplateAt
<1> QED
  BY <1>1, <1>2, <1>3
LEMMA TemplateCases ==
    ASSUME NEW w \in AnyWorker, TemplateStep(w)
    PROVE  \/ SwitchScheme(w)
           \/ \E t \in Templates :
                \/ \E day \in Days : LockTemplate(w, t, day)
                \/ ReadRetire(w, t)
                \/ Asked("patch template") /\ \E copy \in TemplateRows : ReadTemplatePatch(w, t, copy)
                \/ \E row \in TemplateRows : CreateTemplate(w, t, row)
                \/ \E s \in Templates : CloneTemplate(w, s, t)
                \/ DestroyTemplate(w, t)
                \/ \E removes \in Single(segments[t]), s \in SegmentKinds : ReadSegment(w, t, removes, {s})
                \/ \E s \in SegmentKinds : RemoveSegment(w, t, s)
           \/ ActivateTemplate(w) \/ SaveRetire(w) \/ SaveTemplatePatch(w) \/ SaveSegment(w)
BY DEF TemplateStep, TemplateStarts, TemplateContinues

\* A call is replaced, and the rows stay.
LEMMA TemplateCalled ==
    ASSUME TreeInv, UNCHANGED <<classVars, schemeOn, template, segments>>, NEW w \in AnyWorker,
           NEW k \in TemplateCalls, templateCall' = [templateCall EXCEPT ![w] = k],
           k.step # "idle" => k.version \in Templates,
           k.step = "ready" => TemplateExists(k.version),
           k.step = "patch" => k.copy.status # "absent" /\ k.copy.class \in Classes
    PROVE  TreeInv'
<1> USE DEF TreeInv
<1>1. templateCall'[w] = k /\ \A v \in AnyWorker \ {w} : templateCall'[v] = templateCall[v]
  BY DEF TemplateTyped
<1>2. ClassInv'
  BY DEF ClassInv, classVars, Present, NamesStay
<1>3. TemplateTyped'
  BY <1>1 DEF TemplateTyped
<1>4. Founded'
  BY <1>1 DEF Founded, classVars, Present, TemplateExists, TemplateAt
<1> QED
  BY <1>2, <1>3, <1>4

LEMMA IdleTemplateTyped == IdleTemplateCall \in TemplateCalls /\ IdleTemplateCall.step = "idle"
BY DEF IdleTemplateCall, TemplateCalls, AbsentTemplate, TemplateRows, None, NoTemplate

\* A row is written by a call that ends, or by one that is a single step.
LEMMA TemplateWritten ==
    ASSUME TreeInv, UNCHANGED classVars, NEW w \in AnyWorker, NEW t \in Templates,
           TemplateFinish(w) \/ UNCHANGED templateCall,
           NEW row \in TemplateRows, template' = [template EXCEPT ![t] = row],
           NEW kinds \in SUBSET SegmentKinds, segments' = [segments EXCEPT ![t] = kinds],
           schemeOn' = schemeOn,
           row.status # "absent" => row.class \in Classes /\ Present(row.class),
           row.status = "absent" => kinds = {} /\ (TemplateFree(t) \/ ~TemplateExists(t))
    PROVE  TreeInv'
<1> USE DEF TreeInv
<1>1. \A v \in AnyWorker : templateCall'[v] = templateCall[v] \/ templateCall'[v] = IdleTemplateCall
  BY DEF TemplateFinish, TemplateTyped
<1>2. ClassInv'
  BY DEF ClassInv, classVars, Present, NamesStay
<1>3. templateCall' \in [AnyWorker -> TemplateCalls]
  BY IdleTemplateTyped DEF TemplateFinish, TemplateTyped
<1>4. TemplateTyped'
  BY <1>1, <1>3, IdleTemplateTyped DEF TemplateTyped
<1>5. ASSUME NEW v \in AnyWorker, TemplateAt(v, "ready")' PROVE TemplateExists(templateCall[v].version)'
  <2>1. templateCall'[v] = templateCall[v] /\ TemplateAt(v, "ready") /\ templateCall[v].version \in Templates
    BY <1>1, <1>5, IdleTemplateTyped DEF TemplateAt, TemplateTyped
  <2>2. TemplateExists(templateCall[v].version)
    BY <2>1 DEF Founded
  <2>3. row.status = "absent" => templateCall[v].version # t
    BY <2>1, <2>2 DEF TemplateFree, HeldTemplates, Activating
  <2> QED
    BY <2>1, <2>2, <2>3 DEF TemplateExists, TemplateTyped
<1>6. Founded'
  BY <1>1, <1>5, IdleTemplateTyped DEF Founded, classVars, Present, TemplateExists, TemplateAt, TemplateTyped
<1> QED
  BY <1>2, <1>4, <1>6

LEMMA TemplateTree ==
    ASSUME TreeInv, NEW w \in AnyWorker, TemplateStep(w), UNCHANGED classVars
    PROVE  TreeInv'
<1> USE DEF TreeInv
<1> DEFINE Same(t) == [template EXCEPT ![t] = template[t]] = template /\ [segments EXCEPT ![t] = segments[t]] = segments
                      /\ template[t] \in TemplateRows /\ segments[t] \in SUBSET SegmentKinds
<1>0. \A t \in Templates : Same(t)
  BY DEF TemplateTyped
<1>1. CASE SwitchScheme(w)
  BY <1>1 DEF SwitchScheme, ClassInv, NamesStay, TemplateTyped, Founded, classVars, Present, TemplateExists, TemplateAt
<1>2. ASSUME NEW t \in Templates, NEW day \in Days, LockTemplate(w, t, day) PROVE TreeInv'
  <2> DEFINE row == [template[t] EXCEPT !.from = IF @ = None THEN day ELSE @]
             k == [IdleTemplateCall EXCEPT !.step = "ready", !.version = t, !.copy = row, !.others = Effectual(row.class) \ {t}]
  <2>1. row \in TemplateRows
    BY DEF TemplateTyped, TemplateRows
  <2>2. k \in TemplateCalls /\ k.step = "ready" /\ k.version = t
    BY <2>1, IdleTemplateTyped DEF TemplateCalls, Effectual, IdleTemplateCall
  <2>3. templateCall' = [templateCall EXCEPT ![w] = k] /\ TemplateExists(t) /\ UNCHANGED <<schemeOn, template, segments>>
    BY <1>2 DEF LockTemplate
  <2> HIDE DEF k
  <2> QED
    BY <2>2, <2>3, TemplateCalled
<1>3. ASSUME NEW t \in Templates, NEW kind, NEW step \in {"retire", "patch"}, NEW copy \in TemplateRows,
             ReadTemplate(w, kind, step, t, copy),
             step = "patch" => copy.status # "absent" /\ copy.class \in Classes
      PROVE  TreeInv'
  <2> DEFINE k == [IdleTemplateCall EXCEPT !.step = step, !.version = t, !.copy = copy]
  <2>1. k \in TemplateCalls /\ k.step = step /\ k.version = t /\ k.copy = copy
    BY IdleTemplateTyped DEF TemplateCalls, IdleTemplateCall
  <2>2. templateCall' = [templateCall EXCEPT ![w] = k] /\ UNCHANGED <<schemeOn, template, segments>>
    BY <1>3 DEF ReadTemplate
  <2> HIDE DEF k
  <2> QED
    BY <1>3, <2>1, <2>2, TemplateCalled
<1>4. ASSUME NEW t \in Templates, ReadRetire(w, t) PROVE TreeInv'
  BY <1>0, <1>3, <1>4 DEF ReadRetire
<1>5. ASSUME NEW t \in Templates, NEW copy \in TemplateRows, ReadTemplatePatch(w, t, copy) PROVE TreeInv'
  BY <1>3, <1>5 DEF ReadTemplatePatch, ReadTemplate, TemplateExists
<1>6. ASSUME NEW t \in Templates, NEW removes \in SUBSET SegmentKinds, NEW s \in SegmentKinds, ReadSegment(w, t, removes, {s})
      PROVE  TreeInv'
  <2> DEFINE k == [IdleTemplateCall EXCEPT !.step = "segment", !.version = t, !.removes = removes, !.adds = {s}]
  <2>1. k \in TemplateCalls /\ k.step = "segment" /\ k.version = t
    BY IdleTemplateTyped DEF TemplateCalls, IdleTemplateCall
  <2>2. templateCall' = [templateCall EXCEPT ![w] = k] /\ UNCHANGED <<schemeOn, template, segments>>
    BY <1>6 DEF ReadSegment
  <2> HIDE DEF k
  <2> QED
    BY <2>1, <2>2, TemplateCalled
<1>7. ASSUME NEW t \in Templates, NEW row \in TemplateRows, CreateTemplate(w, t, row) PROVE TreeInv'
  <2>1. /\ row.status = "draft" /\ row.class \in Classes /\ Present(row.class)
        /\ template' = [template EXCEPT ![t] = row] /\ segments' = [segments EXCEPT ![t] = {}]
        /\ UNCHANGED <<schemeOn, templateCall>>
    BY <1>7 DEF CreateTemplate
  <2>2. {} \in SUBSET SegmentKinds
    OBVIOUS
  <2> QED
    BY <2>1, <2>2, TemplateWritten
<1>8. ASSUME NEW t \in Templates, NEW s \in Templates, CloneTemplate(w, s, t) PROVE TreeInv'
  <2> DEFINE row == [AbsentTemplate EXCEPT !.status = "draft", !.on = TRUE, !.class = template[s].class]
  <2>1. template[s].class \in Classes /\ Present(template[s].class)
    BY <1>8 DEF CloneTemplate, Founded
  <2>2. row \in TemplateRows /\ row.status = "draft" /\ row.class = template[s].class
    BY <2>1 DEF AbsentTemplate, TemplateRows
  <2>3. template' = [template EXCEPT ![t] = row] /\ segments' = [segments EXCEPT ![t] = segments[s]]
        /\ UNCHANGED <<schemeOn, templateCall>>
    BY <1>8 DEF CloneTemplate
  <2> HIDE DEF row
  <2> QED
    BY <1>0, <2>1, <2>2, <2>3, TemplateWritten
<1>9. ASSUME NEW t \in Templates, DestroyTemplate(w, t) PROVE TreeInv'
  <2>1. AbsentTemplate \in TemplateRows /\ AbsentTemplate.status = "absent"
    BY DEF AbsentTemplate, TemplateRows
  <2> QED
    BY <1>9, <2>1, TemplateWritten DEF DestroyTemplate
<1>10. ASSUME NEW t \in Templates, NEW s \in SegmentKinds, RemoveSegment(w, t, s) PROVE TreeInv'
  <2>1. template' = [template EXCEPT ![t] = template[t]] /\ TemplateExists(t)
        /\ segments' = [segments EXCEPT ![t] = segments[t] \ {s}] /\ UNCHANGED <<schemeOn, templateCall>>
    BY <1>0, <1>10 DEF RemoveSegment
  <2>2. template[t].class \in Classes /\ Present(template[t].class) /\ template[t].status # "absent"
    BY <2>1 DEF Founded, TemplateExists
  <2>3. segments[t] \ {s} \in SUBSET SegmentKinds
    BY <1>0
  <2> QED
    BY <1>0, <2>1, <2>2, <2>3, TemplateWritten
<1>11. CASE ActivateTemplate(w)
  <2> DEFINE t == templateCall[w].version
             row == [template[t] EXCEPT !.status = "active", !.from = templateCall[w].copy.from]
  <2>1. t \in Templates /\ templateCall[w].copy \in TemplateRows /\ TemplateExists(t)
    BY <1>11 DEF ActivateTemplate, TemplateTyped, TemplateCalls, TemplateAt, Founded
  <2>2. row \in TemplateRows /\ row.status = "active" /\ row.class = template[t].class
    BY <2>1 DEF TemplateTyped, TemplateRows
  <2>3. template[t].class \in Classes /\ Present(template[t].class)
    BY <2>1 DEF Founded
  <2>4. template' = [template EXCEPT ![t] = row] /\ segments' = [segments EXCEPT ![t] = segments[t]]
        /\ TemplateFinish(w) /\ schemeOn' = schemeOn
    BY <1>0, <1>11, <2>1 DEF ActivateTemplate
  <2>5. PICK s \in Templates : s = t
    BY <2>1
  <2>6. PICK r \in TemplateRows : r = row
    BY <2>2
  <2> HIDE DEF t, row
  <2> QED
    BY <1>0, <2>2, <2>3, <2>4, <2>5, <2>6, TemplateWritten
<1>12. ASSUME NEW t \in Templates, NEW row \in TemplateRows, t = templateCall[w].version,
              row.class \in Classes, Present(row.class), row.status # "absent",
              TemplateFinish(w), UNCHANGED <<schemeOn, segments>>,
              template' = template \/ template' = [template EXCEPT ![t] = row]
       PROVE  TreeInv'
  <2>1. CASE template' = [template EXCEPT ![t] = row]
    <3>1. segments' = [segments EXCEPT ![t] = segments[t]] /\ segments[t] \in SUBSET SegmentKinds
      BY <1>0, <1>12
    <3> QED
      BY <1>12, <2>1, <3>1, TemplateWritten
  <2>2. CASE template' = template
    BY <1>12, <2>2, IdleTemplateTyped, TemplateCalled DEF TemplateFinish
  <2> QED
    BY <1>12, <2>1, <2>2
<1>13. CASE SaveRetire(w)
  <2> DEFINE t == templateCall[w].version
             row == [template[t] EXCEPT !.status = "retired", !.on = FALSE]
  <2>1. t \in Templates
    BY <1>13 DEF SaveRetire, TemplateTyped, TemplateAt
  <2>2. row \in TemplateRows /\ row.status = "retired" /\ row.class = template[t].class
    BY <2>1, ZenonT(30) DEF TemplateTyped, TemplateRows
  <2>3. CASE TemplateExists(t)
    <3>1. template[t].class \in Classes /\ Present(template[t].class)
      BY <2>1, <2>3 DEF Founded
    <3>2. template' = template \/ template' = [template EXCEPT ![t] = row]
      BY <1>13 DEF SaveRetire
    <3>3. TemplateFinish(w) /\ UNCHANGED <<schemeOn, segments>>
      BY <1>13 DEF SaveRetire
    <3>4. PICK s \in Templates : s = t
      BY <2>1
    <3>5. PICK r \in TemplateRows : r = row
      BY <2>2
    <3> HIDE DEF row
    <3> QED
      BY <1>12, <2>2, <3>1, <3>2, <3>3, <3>4, <3>5
  <2>4. CASE ~TemplateExists(t)
    BY <1>13, <2>4, IdleTemplateTyped, TemplateCalled DEF SaveRetire, TemplateFinish
  <2> QED
    BY <2>3, <2>4
<1>14. CASE SaveTemplatePatch(w)
  <2>1. /\ templateCall[w].version \in Templates /\ templateCall[w].copy \in TemplateRows
        /\ templateCall[w].copy.status # "absent" /\ templateCall[w].copy.class \in Classes
    BY <1>14 DEF SaveTemplatePatch, TemplateTyped, TemplateAt, TemplateCalls, Founded
  <2>2. CASE Present(templateCall[w].copy.class)
    BY <1>12, <1>14, <2>1, <2>2 DEF SaveTemplatePatch
  <2>3. CASE ~Present(templateCall[w].copy.class)
    BY <1>14, <2>3, IdleTemplateTyped, TemplateCalled DEF SaveTemplatePatch, TemplateFinish
  <2> QED
    BY <2>2, <2>3
<1>15. CASE SaveSegment(w)
  <2> DEFINE t == templateCall[w].version
  <2>1. t \in Templates /\ templateCall[w].adds \in SUBSET SegmentKinds
    BY <1>15 DEF SaveSegment, TemplateTyped, TemplateAt, TemplateCalls
  <2>2. PICK s \in Templates : s = t
    BY <2>1
  <2>3. CASE TemplateExists(t)
    <3>1. template[s].class \in Classes /\ Present(template[s].class) /\ template[s].status # "absent"
      BY <2>2, <2>3 DEF Founded, TemplateExists
    <3>2. PICK kinds \in SUBSET SegmentKinds : kinds = (segments[s] \ templateCall[w].removes) \cup templateCall[w].adds
      BY <1>0, <2>1
    <3>3. segments' = [segments EXCEPT ![s] = kinds] /\ template' = template /\ schemeOn' = schemeOn /\ TemplateFinish(w)
      BY <1>15, <2>2, <2>3, <3>2 DEF SaveSegment
    <3>4. template' = [template EXCEPT ![s] = template[s]] /\ template[s] \in TemplateRows
      BY <1>0, <3>3
    <3> QED
      BY <3>1, <3>3, <3>4, TemplateWritten
  <2>4. CASE ~TemplateExists(t)
    BY <1>15, <2>4, IdleTemplateTyped, TemplateCalled DEF SaveSegment, TemplateFinish
  <2> QED
    BY <2>3, <2>4
<1>16. \A t \in Templates : \A removes \in Single(segments[t]) : removes \in SUBSET SegmentKinds
  BY <1>0 DEF Single
<1> HIDE DEF TreeInv
<1> QED
  BY TemplateCases, <1>1, <1>2, <1>4, <1>5, <1>6, <1>7, <1>8, <1>9, <1>10, <1>11, <1>13, <1>14, <1>15, <1>16
-----------------------------------------------------------------------------
(* Parts and what the threads hold *)

CreateSteps == {"normalize", "reserve", "check", "insert"}
Creating == {v \in AnyWorker : numberCall[v].step \in CreateSteps}
Ordinary == Scopes \ {"none", "legacy"}

NumberCalls ==
    [step: CreateSteps \cup {"idle", "scheme", "rename", "value", "identifier"}, part: Parts \cup {0},
     draft: PartRows, generated: BOOLEAN, number: 0..MaxNumber + 1]

NumberTyped ==
    /\ part \in [Parts -> PartRows] /\ next \in [Scopes -> 1..MaxNumber + 1]
    /\ numberCall \in [AnyWorker -> NumberCalls]
    /\ \A w \in AnyWorker : numberCall[w].step \in {"rename", "value", "identifier"} =>
         numberCall[w].part \in Parts
    /\ \A w \in AnyWorker : numberCall[w].step = "scheme" => numberCall[w].number \in 1..MaxNumber + 1

\* What a creation has by now: a number that is generated is the next one.
Fits(k) ==
    /\ k.step \in CreateSteps => k.draft.exists
    /\ k.step = "normalize" => k.draft.class \in Classes /\ k.draft.scope = "none"
    /\ k.step = "reserve" => k.generated /\ k.draft.scope \in Ordinary
    /\ k.step \in {"check", "insert"} =>
         IF k.generated
         THEN /\ k.draft.scope \in Ordinary
              /\ k.draft.number = next[k.draft.scope] /\ k.draft.code.number = k.draft.number
         ELSE k.draft.scope = "none" \/ (k.draft.scope = "legacy" /\ k.draft.identity.class = NoName)

\* Nobody else has reserved a number of the same sequence.
Holding(w) == numberCall[w].step \in {"check", "insert"} /\ numberCall[w].generated
OneHolder ==
    \A v, w \in AnyWorker : v # w /\ Holding(v) /\ Holding(w) =>
        numberCall[v].draft.scope # numberCall[w].draft.scope

\* There is a row and a number left for everyone who creates a part.
RoomLeft ==
    /\ Cardinality(Existing) + Cardinality(Creating) <= Cardinality(Parts)
    /\ \A s \in Scopes \ {"legacy"} : next[s] + Cardinality(Creating) <= MaxNumber + 1

NumberBase == NumberTyped /\ (\A w \in AnyWorker : Fits(numberCall[w])) /\ OneHolder /\ RoomLeft

-----------------------------------------------------------------------------
(* Types of rows *)

LEMMA PayloadType == \A f : f \in Payloads <=> \E S \in SUBSET Attributes : f \in [S -> Values]
BY DEF Payloads

LEMMA NoPayloadTyped == NoPayload \in Payloads
<1>1. NoPayload \in [{} -> Values]
  BY DEF NoPayload
<1> QED
  BY <1>1, PayloadType

LEMMA TypedCodes == \A n \in 0..MaxNumber, lower \in BOOLEAN : TypedCode(n, lower) \in Codes
BY NoPayloadTyped DEF TypedCode, Codes

LEMMA NoIdentityTyped == NoIdentity \in Identities
BY NoPayloadTyped DEF NoIdentity, Identities

LEMMA NoPartTyped == NoPart \in PartRows /\ ~NoPart.exists /\ NoPart.scope = "none"
<1>1. 0 \in 0..MaxNumber /\ {} \in SUBSET Identifiers /\ "none" \in Scopes /\ FALSE \in BOOLEAN
  BY PartBoundsAssumption DEF Scopes
<1>2. TypedCode(0, FALSE) \in Codes
  BY <1>1, TypedCodes, Zenon
<1> HIDE DEF Codes, TypedCode
<1> QED
  BY <1>1, <1>2, NoPayloadTyped, NoIdentityTyped DEF NoPart, PartRows

LEMMA IdleNumberTyped ==
    /\ IdleNumberCall \in NumberCalls /\ IdleNumberCall.step = "idle"
    /\ IdleNumberCall.draft = NoPart /\ ~IdleNumberCall.generated
<1>1. 0 \in 0..MaxNumber + 1
  BY PartBoundsAssumption
<1> HIDE DEF PartRows
<1> QED
  BY <1>1, NoPartTyped DEF IdleNumberCall, NumberCalls, CreateSteps

LEMMA NumberInitial == Init => NumberBase
<1> SUFFICES ASSUME NEW d \in Deployments, ClassInit(d), NumberInit(d) PROVE NumberBase
  BY DEF Init
<1>1. /\ \A p \in Parts : part[p] = NoPart
      /\ \A s \in Scopes : next[s] = 1
      /\ \A w \in AnyWorker : numberCall[w] = IdleNumberCall
  BY DEF NumberInit
<1>2. 1 \in 1..MaxNumber + 1
  BY PartBoundsAssumption
<1> HIDE DEF PartRows, NumberCalls, Scopes
<1>3. part \in [Parts -> PartRows] /\ next \in [Scopes -> 1..MaxNumber + 1] /\ numberCall \in [AnyWorker -> NumberCalls]
  BY <1>2, NoPartTyped, IdleNumberTyped DEF NumberInit
<1>4. NumberTyped
  BY <1>1, <1>3, IdleNumberTyped DEF NumberTyped
<1>5. \A w \in AnyWorker : Fits(numberCall[w])
  BY <1>1, IdleNumberTyped DEF Fits, CreateSteps
<1>6. OneHolder
  BY <1>1, IdleNumberTyped DEF OneHolder, Holding
<1>7. Existing = {} /\ Creating = {}
  BY <1>1, IdleNumberTyped, NoPartTyped DEF Existing, Creating, CreateSteps
<1>8. Cardinality(Parts) \in Nat
  BY PartBoundsAssumption, FS_CardinalityType
<1>9. RoomLeft
  BY <1>1, <1>7, <1>8, FS_EmptySet, PartBoundsAssumption DEF RoomLeft
<1> QED
  BY <1>4, <1>5, <1>6, <1>9 DEF NumberBase
-----------------------------------------------------------------------------
(* What a step does to the parts, and to the thread that takes it *)

Core(row) == <<row.exists, row.class, row.identity, row.scope, row.number, row.overridden>>

Inserts(w, new) ==
    LET draft == numberCall[w].draft IN
    /\ NumberAt(w, "insert") /\ new \in Parts \ Existing
    /\ \A p \in Existing : part[p].code # draft.code
    /\ part' = [part EXCEPT ![new] = draft]
    /\ next' = IF numberCall[w].generated THEN [next EXCEPT ![draft.scope] = draft.number + 1] ELSE next
    /\ NumberFinish(w)

\* One part is written: its code by a renaming, its values by a change that was
\* validated, or a value, an identifier or the release of its revision.
Edits(w, p, row) ==
    /\ p \in Existing /\ Core(row) = Core(part[p])
    /\ part' = [part EXCEPT ![p] = row] /\ next' = next
    /\ \/ NumberFinish(w) /\ ~NumberAt(w, "idle")
       \/ numberCall' = numberCall /\ NumberAt(w, "idle") /\ w \in Workers
    /\ \/ row.code = part[p].code
       \/ /\ NumberAt(w, "rename") /\ p = numberCall[w].part /\ row.code = numberCall[w].draft.code
          /\ \A o \in Existing \ {p} : part[o].code # row.code
    /\ \/ row.identifiers \subseteq part[p].identifiers
       \/ /\ NumberAt(w, "identifier")
          /\ row.identifiers = part[p].identifiers \cup numberCall[w].draft.identifiers
    /\ \/ \A a \in DOMAIN row.values : a \in DOMAIN part[p].values /\ row.values[a] = part[p].values[a]
       \/ NumberAt(w, "value") /\ p = numberCall[w].part

Deletes(w, p) ==
    /\ NumberServes(w, "delete part") /\ p \in Existing
    /\ part' = [part EXCEPT ![p] = NoPart] /\ UNCHANGED <<next, numberCall>>

Ends(w) == ~NumberAt(w, "idle") /\ NumberFinish(w) /\ UNCHANGED <<part, next>>

\* A call goes on.
GoesOn(w, k) == numberCall' = [numberCall EXCEPT ![w] = k] /\ UNCHANGED <<part, next>>

OnlyGenerated ==
    deployment.kinds \subseteq {"generate", "override", "crash", "move class", "rename class", "create class",
                               "activate", "retire", "release", "delete part"}

\* POST of a part, with or without a template to code it.
Requests(w, k) ==
    /\ GoesOn(w, k) /\ Room /\ NumberAt(w, "idle") /\ w \in Workers
    /\ k.draft.exists /\ k.draft.scope = "none"
    /\ \/ k.step = "normalize" /\ k.draft.class \in Classes
       \/ k.step = "check" /\ ~k.generated
    /\ OnlyGenerated => k.step = "normalize" /\ k.generated

\* An update was validated.
Reads(w, k) ==
    /\ GoesOn(w, k) /\ NumberAt(w, "idle") /\ w \in Workers /\ k.part \in Existing
    /\ \/ k.step = "rename" /\ ~CodeTaken(k.draft.code, Existing \ {k.part}) /\ Asked("rename")
       \/ k.step = "value" /\ ~part[k.part].released
       \/ k.step = "identifier" /\ \A id \in k.draft.identifiers : Owner(id) = {}

\* A creation was found in order.
Passes(w) ==
    LET draft == numberCall[w].draft IN
    /\ NumberAt(w, "check")
    /\ ~CodeTaken(draft.code, Existing)
    /\ draft.overridden \/ \A p \in Existing : ~SameIdentity(part[p], draft)
    /\ \A id \in draft.identifiers : Owner(id) = {}
    /\ numberCall' = [numberCall EXCEPT ![w].step = "insert"] /\ UNCHANGED <<part, next>>

LEMMA RequestEffect ==
    ASSUME NumberBase, NEW w \in AnyWorker, NEW draft \in PartRows, NEW kind, Request(w, kind, draft),
           draft.exists, draft.scope = "none", kind # "plain" => draft.class \in Classes,
           kind \in {"generate", "manual", "plain"}
    PROVE  \E k \in NumberCalls : Requests(w, k)
<1> DEFINE k == [IdleNumberCall EXCEPT !.step = IF kind = "plain" THEN "check" ELSE "normalize", !.draft = draft,
                                !.generated = (kind = "generate")]
<1>1. k \in NumberCalls /\ k.draft = draft /\ k.step = (IF kind = "plain" THEN "check" ELSE "normalize")
      /\ k.generated = (kind = "generate")
  <2> HIDE DEF PartRows
  <2> QED
    BY IdleNumberTyped DEF NumberCalls, IdleNumberCall, CreateSteps
<1>2. numberCall' = [numberCall EXCEPT ![w] = k] /\ UNCHANGED <<part, next>> /\ Room /\ NumberServes(w, kind)
  BY DEF Request
<1> HIDE DEF k
<1>3. OnlyGenerated => kind = "generate"
  BY <1>2 DEF NumberServes, Asked, OnlyGenerated
<1>4. Requests(w, k)
  BY <1>1, <1>2, <1>3, IdleNumberTyped DEF Requests, GoesOn, NumberServes, NumberAt
<1> QED
  BY <1>1, <1>4

\* The four ways in which a part is asked for.
LEMMA CreateEffect ==
    ASSUME TreeInv, NumberBase, deployment \in Deployments, NEW w \in AnyWorker,
           NEW c \in Classes, NEW payload \in deployment.payloads, NEW n \in 0..MaxNumber, NEW lower \in BOOLEAN,
           NEW ids \in SUBSET Identifiers, NEW override \in BOOLEAN, NEW kind,
           ControlledCreate(w, kind, c, payload, n, lower, ids, override)
    PROVE  \E k \in NumberCalls : Requests(w, k)
<1> DEFINE identity == [NoIdentity EXCEPT !.class = class[c].code]
           draft == [NoPart EXCEPT !.exists = TRUE, !.class = c, !.identity = identity, !.values = payload,
         !.code = TypedCode(n, lower), !.identifiers = ids, !.overridden = override]
<1>0. identity \in Identities
  BY NoPayloadTyped DEF Identities, NoIdentity, TreeInv, ClassInv, ClassRows
<1>1. payload \in Payloads
  BY DeploymentsAssumption
<1>2. TypedCode(n, lower) \in Codes /\ TypedCode(n, lower).number = n
  BY TypedCodes DEF TypedCode
<1> HIDE DEF Codes, TypedCode
<1> HIDE DEF identity
<1>3. draft \in PartRows /\ draft.exists /\ draft.scope = "none" /\ draft.class = c /\ draft.code = TypedCode(n, lower)
      /\ draft.identifiers = ids
  BY <1>0, <1>1, <1>2, NoPartTyped DEF NoPart, PartRows
<1>4. Request(w, kind, draft) /\ kind \in {"generate", "manual"}
  BY DEF ControlledCreate, identity, NoPart
<1> HIDE DEF draft
<1> QED
  BY <1>2, <1>3, <1>4, RequestEffect

LEMMA PlainEffect ==
    ASSUME NumberBase, NEW w \in AnyWorker, NEW n \in 0..MaxNumber, NEW lower \in BOOLEAN, PlainCreate(w, n, lower)
    PROVE  \E k \in NumberCalls : Requests(w, k)
<1> DEFINE draft == [NoPart EXCEPT !.exists = TRUE, !.code = TypedCode(n, lower)]
<1>1. TypedCode(n, lower) \in Codes
  BY TypedCodes
<1> HIDE DEF Codes, TypedCode
<1>2. draft \in PartRows /\ draft.exists /\ draft.scope = "none"
  BY <1>1, NoPartTyped DEF NoPart, PartRows
<1>3. Request(w, "plain", draft)
  BY DEF PlainCreate
<1>4. PICK kind \in {"plain"} : kind = "plain"
  OBVIOUS
<1> HIDE DEF draft
<1> QED
  BY <1>2, <1>3, <1>4, RequestEffect
-----------------------------------------------------------------------------
(* Templates give a code and the scope of its number *)

ApartBy ==
    CASE deployment.scope = "GLOBAL" -> SegmentKinds
      [] deployment.scope = "DOMAIN" -> {"domain"}
      [] OTHER -> {"class"}
Apart ==
    /\ deployment.scope \notin {"GLOBAL", "DOMAIN"} =>
         /\ NamesStay
         /\ \A c, d \in Classes : deployment.names[c] = deployment.names[d] => c = d
    /\ \A t \in Templates : "number" \in segments[t] => segments[t] \cap ApartBy # {}

\* The code tells in which scope its number was taken.
Tells(row) ==
    CASE deployment.scope = "GLOBAL" -> row.scope = "all"
      [] deployment.scope = "DOMAIN" -> row.code.domain = row.scope
      [] OTHER -> row.scope \in Classes /\ row.code.class = deployment.names[row.scope]

LEMMA ResolvedIs ==
    ASSUME NEW c, NEW day, Resolved(c, day) # NoTemplate
    PROVE  Resolved(c, day) \in Effectual(c)
<1> DEFINE fits == {t \in Effectual(c) : Applies(template[t], day)}
<1>1. fits # {} /\ Resolved(c, day) = Max(fits)
  BY DEF Resolved
<1>2. fits \in SUBSET Templates
  BY DEF Effectual
<1>3. Max(fits) \in fits
  BY <1>1, <1>2, GreatestVersion
<1> QED
  BY <1>1, <1>3

LEMMA ScopeIsOrdinary ==
    ASSUME TreeInv, NEW c \in Classes, Present(c) PROVE ScopeOf(c) \in Ordinary
<1>1. class[c].domain \in Names
  BY DEF TreeInv, ClassInv
<1> QED
  BY <1>1, ScopesAssumption DEF ScopeOf, Ordinary, Scopes

LEMMA CodeOfTemplate ==
    ASSUME TreeInv, NEW c \in Classes, NEW t \in Effectual(c), NEW payload \in Payloads,
           segments[t] \cap Attributes \subseteq DOMAIN payload
    PROVE  /\ t \in Templates /\ template[t].class = c /\ Present(c)
           /\ CodeFrom(t, payload) \in Codes /\ CodeFrom(t, payload).number = 0
           /\ CodeFrom(t, payload).class = IF "class" \in segments[t] THEN class[c].code ELSE NoName
           /\ CodeFrom(t, payload).domain = IF "domain" \in segments[t] THEN class[c].domain ELSE NoName
<1>1. t \in Templates /\ template[t].class = c /\ TemplateExists(t)
  BY DEF Effectual, TemplateExists
<1>2. Present(c) /\ class[c].code \in Names /\ class[c].domain \in Names
  BY <1>1 DEF TreeInv, Founded, ClassInv
<1>3. PICK S \in SUBSET Attributes : payload \in [S -> Values]
  BY PayloadType
<1>4. \A v \in Values : Encoded(v) \in Values
  BY DeploymentsAssumption DEF Encoded, TreeInv, ClassInv
<1> DEFINE T == segments[t] \cap Attributes
           bears == [a \in T |-> Encoded(payload[a])]
<1>5. bears \in [T -> Values]
  BY <1>3, <1>4
<1>6. bears \in Payloads
  BY <1>5, PayloadType
<1>7. CodeFrom(t, payload) =
        [class |-> IF "class" \in segments[t] THEN class[c].code ELSE NoName,
         domain |-> IF "domain" \in segments[t] THEN class[c].domain ELSE NoName,
         bears |-> bears, number |-> 0, lower |-> FALSE]
  BY <1>1 DEF CodeFrom
<1> HIDE DEF bears
<1> QED
  BY <1>1, <1>2, <1>6, <1>7, PartBoundsAssumption DEF Codes

LEMMA CodeTells ==
    ASSUME TreeInv, Apart, NEW c \in Classes, NEW t \in Effectual(c), "number" \in segments[t],
           NEW payload \in Payloads, segments[t] \cap Attributes \subseteq DOMAIN payload,
           NEW row, row.scope = ScopeOf(c), row.code = CodeFrom(t, payload)
    PROVE  Tells(row)
<1>1. t \in Templates /\ segments[t] \cap ApartBy # {}
  BY CodeOfTemplate DEF Apart
<1>2. /\ row.code.class = IF "class" \in segments[t] THEN class[c].code ELSE NoName
      /\ row.code.domain = IF "domain" \in segments[t] THEN class[c].domain ELSE NoName
      /\ NamesStay => class[c].code = deployment.names[c]
  BY CodeOfTemplate DEF TreeInv, ClassInv
<1>3. CASE deployment.scope = "GLOBAL"
  BY <1>3 DEF Tells, ScopeOf
<1>4. CASE deployment.scope = "DOMAIN"
  BY <1>1, <1>2, <1>4 DEF Tells, ScopeOf, ApartBy
<1>5. CASE deployment.scope \notin {"GLOBAL", "DOMAIN"}
  BY <1>1, <1>2, <1>5 DEF Tells, ScopeOf, Apart, ApartBy
<1> QED
  BY <1>3, <1>4, <1>5

\* What validation and coding make of a request.
Normalizes(w, k) ==
    LET call == numberCall[w] IN
    /\ NumberAt(w, "normalize") /\ k.draft.exists
    /\ k.draft.identifiers = call.draft.identifiers
    /\ \/ k.step = "check" /\ ~k.generated /\ ~call.generated
          /\ k.draft.scope = "none" /\ k.draft.code = call.draft.code
       \/ k.step = "check" /\ ~k.generated /\ k.draft.scope = "none" /\ k.draft.code.number = 0
       \/ /\ k.step = "reserve" /\ k.generated /\ k.draft.scope \in Ordinary
          /\ Apart => Tells(k.draft)

LEMMA NormalizeEffect ==
    ASSUME TreeInv, NumberBase, NEW w \in AnyWorker, NEW day \in Days, Normalize(w, day)
    PROVE  \E k \in NumberCalls : /\ GoesOn(w, k)
                                  /\ k = IdleNumberCall \/ Normalizes(w, k)
<1> DEFINE call == numberCall[w]
           draft == call.draft
           t == Resolved(draft.class, day)
           numbered == "number" \in segments[t]
           keys == Keys(draft.class)
           complete == keys \subseteq DOMAIN draft.values /\ DOMAIN draft.values \subseteq Effective(draft.class)
           coded == /\ t # NoTemplate /\ TemplateValid(t)
                    /\ segments[t] \cap Attributes \subseteq DOMAIN draft.values
           attributes == [a \in keys |-> draft.values[a]]
           identity == [draft.identity EXCEPT !.attributes = attributes]
           identified == [draft EXCEPT !.identity = identity]
           manual == [call EXCEPT !.step = "check", !.draft = identified]
           bare == [identified EXCEPT !.code = CodeFrom(t, draft.values),
                                      !.scope = IF numbered THEN ScopeOf(draft.class) ELSE "none"]
           template_ == [call EXCEPT !.step = IF numbered THEN "reserve" ELSE "check", !.generated = numbered, !.draft = bare]
<1>1. /\ NumberAt(w, "normalize") /\ UNCHANGED <<part, next>>
      /\ numberCall' = [numberCall EXCEPT ![w] =
           IF ~complete THEN IdleNumberCall ELSE IF ~call.generated THEN manual
           ELSE IF ~coded THEN IdleNumberCall ELSE template_]
  <2>1. draft \in PartRows /\ draft.identity \in Identities
    BY DEF NumberBase, NumberTyped, NumberCalls, PartRows
  <2>2. identified = [draft EXCEPT !.identity.attributes = attributes]
    BY <2>1 DEF PartRows
  <2> HIDE DEF identified, identity, attributes
  <2> QED
    BY <2>2 DEF Normalize, attributes
<1>2. call \in NumberCalls /\ draft \in PartRows /\ draft.identity \in Identities /\ draft.values \in Payloads /\ draft.class \in Classes
      /\ draft.exists /\ draft.scope = "none"
  BY <1>1 DEF NumberBase, NumberTyped, NumberCalls, PartRows, Fits, NumberAt, CreateSteps
<1>3. ASSUME complete PROVE identified \in PartRows /\ identified.exists /\ identified.scope = "none"
                            /\ identified.code = draft.code /\ identified.identifiers = draft.identifiers
  <2>1. PICK S \in SUBSET Attributes : draft.values \in [S -> Values]
    BY <1>2, PayloadType
  <2>2. attributes \in [keys -> Values] /\ keys \in SUBSET Attributes
    BY <1>3, <2>1 DEF Keys
  <2>3. attributes \in Payloads
    BY <2>2, PayloadType
  <2> HIDE DEF attributes
  <2>4. identity \in Identities
    BY <1>2, <2>3 DEF Identities
  <2> HIDE DEF identity
  <2> QED
    BY <1>2, <2>4 DEF PartRows
<1>4. CASE ~complete \/ (call.generated /\ ~coded)
  <2>1. GoesOn(w, IdleNumberCall)
    BY <1>1, <1>4 DEF GoesOn
  <2> QED
    BY <2>1, IdleNumberTyped
<1>5. CASE complete /\ ~call.generated
  <2> HIDE DEF identified, complete
  <2>1. manual \in NumberCalls /\ manual.step = "check" /\ manual.draft = identified /\ ~manual.generated
    BY <1>2, <1>3, <1>5 DEF NumberCalls, CreateSteps
  <2>2. numberCall' = [numberCall EXCEPT ![w] = manual]
    BY <1>1, <1>5
  <2> HIDE DEF manual
  <2> QED
    BY <1>1, <1>2, <1>3, <1>5, <2>1, <2>2 DEF GoesOn, Normalizes
<1>6. CASE complete /\ call.generated /\ coded
  <2>1. t \in Effectual(draft.class)
    BY <1>6, ResolvedIs
  <2>2. CodeFrom(t, draft.values) \in Codes /\ CodeFrom(t, draft.values).number = 0 /\ Present(draft.class)
    BY <1>2, <1>6, <2>1, CodeOfTemplate
  <2>3. ScopeOf(draft.class) \in Ordinary /\ "none" \in Scopes
    BY <1>2, <2>2, ScopeIsOrdinary DEF Scopes
  <2>4. bare \in PartRows /\ bare.exists /\ bare.code = CodeFrom(t, draft.values)
        /\ bare.scope = (IF numbered THEN ScopeOf(draft.class) ELSE "none") /\ bare.identifiers = draft.identifiers
    <3> HIDE DEF identified, complete, numbered, t
    <3> QED
      BY <1>3, <1>6, <2>2, <2>3 DEF PartRows, Ordinary
  <2>5. numbered /\ Apart => Tells(bare)
    <3> HIDE DEF bare
    <3> QED
      BY <1>2, <1>6, <2>1, <2>4, CodeTells
  <2>6. template_ \in NumberCalls /\ template_.step = (IF numbered THEN "reserve" ELSE "check")
        /\ template_.generated = numbered /\ template_.draft = bare
    <3> HIDE DEF bare, numbered
    <3>1. numbered \in BOOLEAN
      BY DEF numbered
    <3> QED
      BY <1>2, <2>4, <3>1 DEF NumberCalls, CreateSteps
  <2>7. numberCall' = [numberCall EXCEPT ![w] = template_]
    BY <1>1, <1>6
  <2> HIDE DEF template_, bare, numbered, t
  <2> QED
    BY <1>1, <1>2, <2>2, <2>3, <2>4, <2>5, <2>6, <2>7 DEF GoesOn, Normalizes
<1> QED
  BY <1>4, <1>5, <1>6
-----------------------------------------------------------------------------
(* The other steps *)

LEMMA ReadEffect ==
    ASSUME NumberBase, NEW w \in AnyWorker, NEW kind, NEW p \in Parts, NEW draft \in PartRows,
           NEW step \in {"rename", "value", "identifier"}, ReadPart(w, kind, step, p, draft),
           step = "rename" => ~CodeTaken(draft.code, Existing \ {p}) /\ Asked("rename"),
           step = "value" => ~part[p].released,
           step = "identifier" => \A id \in draft.identifiers : Owner(id) = {}
    PROVE  \E k \in NumberCalls : Reads(w, k)
<1> DEFINE k == [IdleNumberCall EXCEPT !.step = step, !.part = p, !.draft = draft]
<1>1. k \in NumberCalls /\ k.step = step /\ k.part = p /\ k.draft = draft
  <2> HIDE DEF PartRows
  <2> QED
    BY IdleNumberTyped DEF NumberCalls, IdleNumberCall, CreateSteps
<1>2. GoesOn(w, k) /\ NumberAt(w, "idle") /\ w \in Workers /\ p \in Existing
  BY IdleNumberTyped DEF ReadPart, GoesOn, NumberServes, NumberAt, Existing
<1> HIDE DEF k
<1> QED
  BY <1>1, <1>2 DEF Reads

LEMMA Validated ==
    ASSUME NumberBase, NEW w \in AnyWorker, NEW p \in Parts,
           \/ \E n \in 1..MaxNumber, lower \in BOOLEAN : ReadRename(w, p, n, lower)
           \/ \E a \in Attributes, v \in Values : ReadValue(w, p, a, v)
           \/ \E id \in Identifiers : ReadIdentifier(w, p, id)
    PROVE  \E k \in NumberCalls : Reads(w, k)
<1>0. part[p] \in PartRows
  BY DEF NumberBase, NumberTyped
<1>1. ASSUME NEW n \in 1..MaxNumber, NEW lower \in BOOLEAN, ReadRename(w, p, n, lower)
      PROVE  \E k \in NumberCalls : Reads(w, k)
  <2> DEFINE draft == [part[p] EXCEPT !.code = TypedCode(n, lower)]
  <2>1. TypedCode(n, lower) \in Codes
    BY TypedCodes, PartBoundsAssumption
  <2> HIDE DEF Codes, TypedCode
  <2>2. draft \in PartRows /\ draft.code = TypedCode(n, lower)
    BY <1>0, <2>1 DEF PartRows
  <2>3. ReadPart(w, "rename", "rename", p, draft) /\ ~CodeTaken(draft.code, Existing \ {p}) /\ Asked("rename")
    BY <1>1, <2>2 DEF ReadRename, ReadPart, NumberServes
  <2> HIDE DEF draft
  <2> QED
    BY <2>2, <2>3, ReadEffect
<1>2. ASSUME NEW a \in Attributes, NEW v \in Values, ReadValue(w, p, a, v)
      PROVE  \E k \in NumberCalls : Reads(w, k)
  <2> DEFINE old == part[p].values
             values == [b \in DOMAIN old \cup {a} |-> IF b = a THEN v ELSE old[b]]
             draft == [part[p] EXCEPT !.values = values]
  <2>1. PICK S \in SUBSET Attributes : old \in [S -> Values]
    BY <1>0, PayloadType DEF PartRows
  <2>2. values \in [S \cup {a} -> Values] /\ S \cup {a} \in SUBSET Attributes
    BY <2>1
  <2>3. values \in Payloads
    BY <2>2, PayloadType
  <2>4. ReadPart(w, "value", "value", p, draft) /\ ~part[p].released
    BY <1>2 DEF ReadValue
  <2> HIDE DEF values
  <2>5. draft \in PartRows
    BY <1>0, <2>3 DEF PartRows
  <2> HIDE DEF draft
  <2> QED
    BY <2>4, <2>5, ReadEffect
<1>3. ASSUME NEW id \in Identifiers, ReadIdentifier(w, p, id)
      PROVE  \E k \in NumberCalls : Reads(w, k)
  <2> DEFINE draft == [NoPart EXCEPT !.identifiers = {id}]
  <2>1. draft \in PartRows /\ draft.identifiers = {id}
    BY NoPartTyped DEF PartRows, NoPart
  <2>2. ReadPart(w, "identifier", "identifier", p, draft) /\ Owner(id) = {}
    BY <1>3 DEF ReadIdentifier
  <2> HIDE DEF draft
  <2> QED
    BY <2>1, <2>2, ReadEffect
<1> QED
  BY <1>1, <1>2, <1>3

\* A part is written in place.
LEMMA EditEffect ==
    ASSUME NumberBase, NEW w \in AnyWorker, NEW p \in Existing, NEW row \in PartRows,
           part' = [part EXCEPT ![p] = row], next' = next, Core(row) = Core(part[p]),
           \/ NumberFinish(w) /\ ~NumberAt(w, "idle")
           \/ numberCall' = numberCall /\ NumberAt(w, "idle") /\ w \in Workers,
           \/ row.code = part[p].code
           \/ /\ NumberAt(w, "rename") /\ p = numberCall[w].part /\ row.code = numberCall[w].draft.code
              /\ \A o \in Existing \ {p} : part[o].code # row.code,
           \/ row.identifiers \subseteq part[p].identifiers
           \/ /\ NumberAt(w, "identifier")
              /\ row.identifiers = part[p].identifiers \cup numberCall[w].draft.identifiers,
           \/ \A a \in DOMAIN row.values : a \in DOMAIN part[p].values /\ row.values[a] = part[p].values[a]
           \/ NumberAt(w, "value") /\ p = numberCall[w].part
    PROVE  \E q \in Parts, r \in PartRows : Edits(w, q, r)
<1>1. p \in Parts
  BY DEF Existing
<1>2. Edits(w, p, row)
  BY DEF Edits
<1> QED
  BY <1>1, <1>2

LEMMA SaveEffects ==
    ASSUME NumberBase, NEW w \in AnyWorker, SaveRename(w) \/ SaveValue(w) \/ SaveIdentifier(w)
    PROVE  Ends(w) \/ \E q \in Parts, r \in PartRows : Edits(w, q, r)
<1> DEFINE call == numberCall[w]
           p == call.part
<1>1. call \in NumberCalls /\ call.draft \in PartRows /\ p \in Parts /\ part[p] \in PartRows
      /\ NumberFinish(w) /\ next' = next /\ ~NumberAt(w, "idle")
  BY DEF NumberBase, NumberTyped, NumberCalls, SaveRename, SaveValue, SaveIdentifier, NumberAt
<1>2. CASE part' = part
  BY <1>1, <1>2 DEF Ends
<1>3. CASE SaveRename(w) /\ part' # part
  <2> DEFINE row == [part[p] EXCEPT !.code = call.draft.code]
  <2>1. row \in PartRows /\ row.code = call.draft.code /\ Core(row) = Core(part[p])
        /\ row.identifiers = part[p].identifiers /\ row.values = part[p].values
    BY <1>1 DEF PartRows, Core
  <2>2. part' = [part EXCEPT ![p] = row] /\ p \in Existing /\ NumberAt(w, "rename")
        /\ \A o \in Existing \ {p} : part[o].code # call.draft.code
    BY <1>1, <1>3 DEF SaveRename, Existing
  <2> HIDE DEF row
  <2> QED
    BY <1>1, <2>1, <2>2, EditEffect
<1>4. CASE SaveValue(w) /\ part' # part
  <2> DEFINE row == [part[p] EXCEPT !.values = call.draft.values]
  <2>1. row \in PartRows /\ row.code = part[p].code /\ Core(row) = Core(part[p])
        /\ row.identifiers = part[p].identifiers
    BY <1>1 DEF PartRows, Core
  <2>2. part' = [part EXCEPT ![p] = row] /\ p \in Existing /\ NumberAt(w, "value")
    BY <1>1, <1>4 DEF SaveValue, Existing
  <2> HIDE DEF row
  <2> QED
    BY <1>1, <2>1, <2>2, EditEffect
<1>5. CASE SaveIdentifier(w) /\ part' # part
  <2> DEFINE row == [part[p] EXCEPT !.identifiers = part[p].identifiers \cup call.draft.identifiers]
  <2>1. row \in PartRows /\ row.code = part[p].code /\ Core(row) = Core(part[p]) /\ row.values = part[p].values
        /\ row.identifiers = part[p].identifiers \cup call.draft.identifiers
    BY <1>1 DEF PartRows, Core
  <2>2. part' = [part EXCEPT ![p] = row] /\ p \in Existing /\ NumberAt(w, "identifier")
    BY <1>1, <1>5 DEF SaveIdentifier, Existing
  <2> HIDE DEF row
  <2> QED
    BY <1>1, <2>1, <2>2, EditEffect
<1> QED
  BY <1>2, <1>3, <1>4, <1>5

LEMMA EditsAtOnce ==
    ASSUME NumberBase, NEW w \in AnyWorker, NEW p \in Parts,
           \/ ReleaseRevision(w, p)
           \/ \E a \in Attributes : RemoveValue(w, p, a)
           \/ \E id \in Identifiers : RemoveIdentifier(w, p, id)
    PROVE  \E q \in Parts, r \in PartRows : Edits(w, q, r)
<1>1. /\ part[p] \in PartRows /\ p \in Existing /\ UNCHANGED <<next, numberCall>>
      /\ NumberAt(w, "idle") /\ w \in Workers
  BY IdleNumberTyped DEF NumberBase, NumberTyped, ReleaseRevision, RemoveValue, RemoveIdentifier, Existing, NumberServes, NumberAt
<1>2. CASE ReleaseRevision(w, p)
  <2> DEFINE row == [part[p] EXCEPT !.released = TRUE]
  <2>1. row \in PartRows /\ row.code = part[p].code /\ Core(row) = Core(part[p]) /\ row.values = part[p].values
        /\ row.identifiers = part[p].identifiers
    BY <1>1 DEF PartRows, Core
  <2>2. part' = [part EXCEPT ![p] = row]
    BY <1>2 DEF ReleaseRevision
  <2> HIDE DEF row
  <2> QED
    BY <1>1, <2>1, <2>2, EditEffect
<1>3. ASSUME NEW a \in Attributes, RemoveValue(w, p, a) PROVE \E q \in Parts, r \in PartRows : Edits(w, q, r)
  <2> DEFINE old == part[p].values
             values == [b \in DOMAIN old \ {a} |-> old[b]]
             row == [part[p] EXCEPT !.values = values]
  <2>1. PICK S \in SUBSET Attributes : old \in [S -> Values]
    BY <1>1, PayloadType DEF PartRows
  <2>2. values \in [S \ {a} -> Values] /\ S \ {a} \in SUBSET Attributes
        /\ \A b \in DOMAIN values : b \in DOMAIN old /\ values[b] = old[b]
    BY <2>1
  <2>3. values \in Payloads
    BY <2>2, PayloadType
  <2>4. part' = [part EXCEPT ![p] = row]
    BY <1>3 DEF RemoveValue
  <2> HIDE DEF values
  <2>5. row \in PartRows /\ row.code = part[p].code /\ Core(row) = Core(part[p]) /\ row.values = values
        /\ row.identifiers = part[p].identifiers
    BY <1>1, <2>3 DEF PartRows, Core
  <2> HIDE DEF row
  <2> QED
    BY <1>1, <2>2, <2>4, <2>5, EditEffect
<1>4. ASSUME NEW id \in Identifiers, RemoveIdentifier(w, p, id) PROVE \E q \in Parts, r \in PartRows : Edits(w, q, r)
  <2> DEFINE row == [part[p] EXCEPT !.identifiers = part[p].identifiers \ {id}]
  <2>1. row \in PartRows /\ row.code = part[p].code /\ Core(row) = Core(part[p]) /\ row.values = part[p].values
        /\ row.identifiers = part[p].identifiers \ {id}
    BY <1>1 DEF PartRows, Core
  <2>2. part' = [part EXCEPT ![p] = row]
    BY <1>4 DEF RemoveIdentifier
  <2> HIDE DEF row
  <2> QED
    BY <1>1, <2>1, <2>2, EditEffect
<1> QED
  BY <1>2, <1>3, <1>4
LEMMA CheckEffect ==
    ASSUME NEW w \in AnyWorker, Check(w)
    PROVE  Ends(w) \/ Passes(w)
<1> DEFINE draft == numberCall[w].draft
           duplicate == \E p \in Existing : SameIdentity(part[p], draft)
           refused == \/ CodeTaken(draft.code, Existing)
                      \/ duplicate /\ ~draft.overridden
                      \/ \E id \in draft.identifiers : Owner(id) # {}
<1>1. NumberAt(w, "check") /\ UNCHANGED <<part, next>>
  BY DEF Check
<1>2. numberCall' = [numberCall EXCEPT ![w] = IF refused THEN IdleNumberCall ELSE [@ EXCEPT !.step = "insert"]]
  BY DEF Check
<1>3. CASE refused
  BY <1>1, <1>2, <1>3 DEF Ends, NumberFinish, NumberAt
<1>4. CASE ~refused
  <2>1. numberCall' = [numberCall EXCEPT ![w].step = "insert"]
    BY <1>2, <1>4
  <2> QED
    BY <1>1, <1>4, <2>1 DEF Passes
<1> QED
  BY <1>3, <1>4

\* There is a row for the part that is inserted.
LEMMA InsertEffect ==
    ASSUME NumberBase, NEW w \in AnyWorker, Insert(w)
    PROVE  Ends(w) \/ \E new \in Parts : Inserts(w, new)
<1> DEFINE call == numberCall[w]
           draft == call.draft
           accepted == /\ \A p \in Existing : part[p].code # draft.code
                       /\ draft.class # NoClass => Present(draft.class)
           new == Min(Parts \ Existing)
<1>1. CASE ~accepted
  <2>1. part' = part /\ next' = next /\ NumberFinish(w) /\ ~NumberAt(w, "idle")
    BY <1>1 DEF Insert, NumberAt
  <2> QED
    BY <2>1 DEF Ends
<1>2. CASE accepted
  <2>1. w \in Creating
    BY DEF Insert, NumberAt, Creating, CreateSteps
  <2>2. IsFiniteSet(Creating) /\ IsFiniteSet(Existing)
    BY DeploymentsAssumption, PartBoundsAssumption, FS_Subset DEF Creating, Existing
  <2>3. Cardinality(Creating) \in Nat /\ Cardinality(Creating) # 0 /\ Cardinality(Existing) \in Nat
    BY <2>1, <2>2, FS_CardinalityType, FS_EmptySet
  <2>4. Existing # Parts
    BY <2>3 DEF NumberBase, RoomLeft
  <2>5. Parts \ Existing \in SUBSET Nat /\ Parts \ Existing # {}
    BY <2>4, PartBoundsAssumption DEF Existing
  <2>6. new \in Parts \ Existing
    BY <2>5, LeastNumber
  <2>7. part' = [part EXCEPT ![new] = draft] /\ NumberFinish(w) /\ NumberAt(w, "insert")
        /\ next' = IF call.generated THEN [next EXCEPT ![draft.scope] = draft.number + 1] ELSE next
    BY <1>2 DEF Insert
  <2> HIDE DEF new
  <2>8. Inserts(w, new)
    BY <1>2, <2>6, <2>7 DEF Inserts
  <2> QED
    BY <2>6, <2>8
<1> QED
  BY <1>1, <1>2

\* What one step of a thread does to the parts.
NumberEffect(w) ==
    \/ Ends(w) \/ Passes(w) \/ Reserve(w) \/ GenerateCode(w) \/ SaveScheme(w)
    \/ \E n \in 1..MaxNumber + 1 : ReadScheme(w, n)
    \/ \E k \in NumberCalls : Requests(w, k) \/ Reads(w, k) \/ (GoesOn(w, k) /\ Normalizes(w, k))
    \/ \E new \in Parts : Inserts(w, new) \/ Deletes(w, new)
    \/ \E p \in Parts, row \in PartRows : Edits(w, p, row)

LEMMA NumberCases ==
    ASSUME TreeInv, NumberBase, NEW w \in AnyWorker, NumberStep(w)
    PROVE  NumberEffect(w)
<1> USE DEF NumberEffect
<1>a. deployment \in Deployments
  BY DEF TreeInv, ClassInv
<1>b. 0 \in 0..MaxNumber /\ {} \in SUBSET Identifiers /\ FALSE \in BOOLEAN /\ TRUE \in BOOLEAN
  BY PartBoundsAssumption
<1>c. \A ids \in Single(Identifiers) : ids \in SUBSET Identifiers
  BY DEF Single
<1>d. \A n \in 1..MaxNumber : n \in 0..MaxNumber
  BY PartBoundsAssumption
<1>e. \A p \in Existing : p \in Parts
  BY DEF Existing
<1>1. ASSUME NEW c \in Classes, NEW payload \in deployment.payloads, NEW ids \in Single(Identifiers),
             ControlledCreate(w, "generate", c, payload, 0, FALSE, ids, FALSE) PROVE NumberEffect(w)
  BY <1>1, <1>a, <1>b, <1>c, CreateEffect
<1>2. ASSUME NEW c \in Classes, NEW payload \in deployment.payloads,
             ControlledCreate(w, "generate", c, payload, 0, FALSE, {}, TRUE) PROVE NumberEffect(w)
  BY <1>2, <1>a, <1>b, CreateEffect
<1>3. ASSUME NEW n \in 1..MaxNumber, NEW lower \in BOOLEAN, PlainCreate(w, n, lower) PROVE NumberEffect(w)
  BY <1>3, <1>d, PlainEffect
<1>4. ASSUME NEW n \in 1..MaxNumber, NEW lower \in BOOLEAN, NEW c \in Classes, NEW payload \in deployment.payloads,
             ControlledCreate(w, "manual", c, payload, n, lower, {}, FALSE) PROVE NumberEffect(w)
  BY <1>4, <1>a, <1>b, <1>d, CreateEffect
<1>5. ASSUME NEW n \in 1..MaxNumber, NEW lower \in BOOLEAN, NEW p \in Existing, ReadRename(w, p, n, lower) PROVE NumberEffect(w)
  BY <1>5, <1>e, Validated
<1>6. ASSUME NEW p \in Existing, ReleaseRevision(w, p) PROVE NumberEffect(w)
  BY <1>6, <1>e, EditsAtOnce
<1>7. ASSUME NEW p \in Existing, DeletePart(w, p) PROVE NumberEffect(w)
  BY <1>7, <1>e DEF DeletePart, Deletes
<1>8. ASSUME NEW p \in Existing, NEW a \in Attributes, RemoveValue(w, p, a) PROVE NumberEffect(w)
  BY <1>8, <1>e, EditsAtOnce
<1>9. ASSUME NEW p \in Existing, NEW a \in Attributes, NEW v \in Values, ReadValue(w, p, a, v) PROVE NumberEffect(w)
  BY <1>9, <1>e, Validated
<1>10. ASSUME NEW p \in Existing, NEW id \in Identifiers, ReadIdentifier(w, p, id) PROVE NumberEffect(w)
  BY <1>10, <1>e, Validated
<1>11. ASSUME NEW p \in Existing, NEW id \in Identifiers, RemoveIdentifier(w, p, id) PROVE NumberEffect(w)
  BY <1>11, <1>e, EditsAtOnce
<1>12. ASSUME NEW day \in Days, Normalize(w, day) PROVE NumberEffect(w)
  <2>1. PICK k \in NumberCalls : GoesOn(w, k) /\ (k = IdleNumberCall \/ Normalizes(w, k))
    BY <1>12, NormalizeEffect
  <2>2. CASE k = IdleNumberCall
    BY <1>12, <2>1, <2>2 DEF GoesOn, Ends, NumberFinish, Normalize, NumberAt
  <2> QED
    BY <2>1, <2>2
<1>13. CASE Check(w)
  BY <1>13, CheckEffect
<1>14. CASE Insert(w)
  BY <1>14, InsertEffect
<1>15. CASE SaveRename(w) \/ SaveValue(w) \/ SaveIdentifier(w)
  BY <1>15, SaveEffects
<1>16. CASE Crash(w)
  BY <1>16 DEF Crash, Ends, NumberAt
<1>f. Reserve(w) \/ GenerateCode(w) \/ (\E n \in 1..MaxNumber + 1 : ReadScheme(w, n)) \/ SaveScheme(w) => NumberEffect(w)
  OBVIOUS
<1>17. CASE NumberStarts(w)
  <2> HIDE DEF NumberEffect
  <2> QED
    BY <1>1, <1>2, <1>3, <1>4, <1>5, <1>6, <1>7, <1>8, <1>9, <1>10, <1>11, <1>17, <1>f DEF NumberStarts
<1>18. CASE NumberContinues(w)
  <2> HIDE DEF NumberEffect
  <2> QED
    BY <1>12, <1>13, <1>14, <1>15, <1>18, <1>f DEF NumberContinues
<1> QED
  BY <1>16, <1>17, <1>18 DEF NumberStep
-----------------------------------------------------------------------------
(* NumberBase is inductive *)

LEMMA Counted ==
    ASSUME NumberTyped
    PROVE  /\ IsFiniteSet(Creating) /\ Cardinality(Creating) \in Nat
           /\ IsFiniteSet(Existing) /\ Cardinality(Existing) \in Nat /\ Cardinality(Parts) \in Nat
           /\ \A s \in Scopes : next[s] \in Nat
<1>1. IsFiniteSet(Creating) /\ IsFiniteSet(Existing)
  BY DeploymentsAssumption, PartBoundsAssumption, FS_Subset DEF Creating, Existing
<1>2. \A s \in Scopes : next[s] \in Nat
  BY PartBoundsAssumption DEF NumberTyped
<1> QED
  BY <1>1, <1>2, FS_CardinalityType, PartBoundsAssumption

\* A step that begins nothing leaves no less room.
LEMMA RoomStays ==
    ASSUME NumberBase, NumberTyped', NEW E \in SUBSET Existing, Existing' = E,
           NEW C \in SUBSET Creating, Creating' = C,
           \A s \in Scopes \ {"legacy"} : next'[s] = next[s]
    PROVE  RoomLeft'
<1>1. Cardinality(E) <= Cardinality(Existing) /\ Cardinality(C) <= Cardinality(Creating)
      /\ Cardinality(E) \in Nat /\ Cardinality(C) \in Nat
  BY Counted, FS_Subset, FS_CardinalityType DEF NumberBase
<1>2. Cardinality(Existing) + Cardinality(Creating) <= Cardinality(Parts)
      /\ \A s \in Scopes \ {"legacy"} : next[s] + Cardinality(Creating) <= MaxNumber + 1
  BY DEF NumberBase, RoomLeft
<1>3. Cardinality(E) + Cardinality(C) <= Cardinality(Parts)
  BY <1>1, <1>2, Counted DEF NumberBase
<1>4. \A s \in Scopes \ {"legacy"} : next'[s] + Cardinality(C) <= MaxNumber + 1
  BY <1>1, <1>2, Counted, PartBoundsAssumption DEF NumberBase
<1> QED
  BY <1>3, <1>4 DEF RoomLeft

\* A step that begins a creation found room for it.
LEMMA RoomFound ==
    ASSUME NumberBase, Room, Existing' = Existing, NEW w \in AnyWorker, numberCall[w].step = "idle",
           Creating' = Creating \cup {w}, \A s \in Scopes \ {"legacy"} : next'[s] = next[s]
    PROVE  RoomLeft'
<1> DEFINE begun == {v \in AnyWorker : numberCall[v] # IdleNumberCall}
<1>1. /\ Cardinality(Existing) + Cardinality(begun) < Cardinality(Parts)
      /\ \A s \in Scopes : next[s] + Cardinality(begun) <= MaxNumber
  BY DEF Room
<1>2. IsFiniteSet(begun)
  BY DeploymentsAssumption, FS_Subset
<1>3. Creating \in SUBSET begun
  BY IdleNumberTyped DEF Creating, CreateSteps
<1>4. Cardinality(Creating) <= Cardinality(begun) /\ Cardinality(begun) \in Nat
  BY <1>2, <1>3, FS_Subset, FS_CardinalityType
<1>5. Cardinality(Creating \cup {w}) <= Cardinality(Creating) + 1 /\ Cardinality(Creating \cup {w}) \in Nat
  <2>1. IsFiniteSet(Creating) /\ Cardinality(Creating) \in Nat
    BY Counted DEF NumberBase
  <2>2. /\ IsFiniteSet(Creating \cup {w})
        /\ Cardinality(Creating \cup {w}) =
             IF w \in Creating THEN Cardinality(Creating) ELSE Cardinality(Creating) + 1
    BY <2>1, FS_AddElement
  <2> QED
    BY <2>1, <2>2
<1> HIDE DEF begun
<1>6. Cardinality(Existing) + Cardinality(Creating \cup {w}) <= Cardinality(Parts)
  BY <1>1, <1>4, <1>5, Counted DEF NumberBase
<1>7. \A s \in Scopes \ {"legacy"} : next[s] + Cardinality(Creating \cup {w}) <= MaxNumber + 1
  BY <1>1, <1>4, <1>5, Counted, PartBoundsAssumption DEF NumberBase
<1> QED
  BY <1>6, <1>7 DEF RoomLeft

\* A call is replaced.
LEMMA CallBase ==
    ASSUME NumberBase, NEW w \in AnyWorker, NEW k \in NumberCalls, UNCHANGED part,
           numberCall' = [numberCall EXCEPT ![w] = k],
           next' \in [Scopes -> 1..MaxNumber + 1], \A s \in Scopes \ {"legacy"} : next'[s] = next[s],
           k.step \in {"rename", "value", "identifier"} => k.part \in Parts,
           k.step = "scheme" => k.number \in 1..MaxNumber + 1,
           Fits(k), k.step \in CreateSteps => w \in Creating \/ (Room /\ numberCall[w].step = "idle"),
           k.step \in {"check", "insert"} /\ k.generated =>
             \A v \in AnyWorker \ {w} : Holding(v) => numberCall[v].draft.scope # k.draft.scope
    PROVE  NumberBase'
<1>1. numberCall'[w] = k /\ \A v \in AnyWorker \ {w} : numberCall'[v] = numberCall[v]
  BY DEF NumberBase, NumberTyped
<1>2. NumberTyped'
  BY <1>1 DEF NumberBase, NumberTyped
<1>3. ASSUME NEW v \in AnyWorker PROVE Fits(numberCall[v])'
  <2>1. \A s \in Ordinary : next'[s] = next[s]
    BY DEF Ordinary
  <2>2. numberCall'[v] = k \/ numberCall'[v] = numberCall[v]
    BY <1>1
  <2> HIDE DEF Ordinary, CreateSteps
  <2> QED
    BY <1>1, <2>1, <2>2 DEF NumberBase, Fits
<1>4. OneHolder'
  BY <1>1 DEF NumberBase, OneHolder, Holding
<1>5. Existing' = Existing
  BY DEF Existing
<1>6. CASE k.step \in CreateSteps /\ w \notin Creating
  <2>1. Creating' = Creating \cup {w}
    BY <1>1, <1>6 DEF Creating
  <2>2. Room /\ numberCall[w].step = "idle"
    BY <1>6
  <2>3. RoomLeft'
    BY <1>5, <2>1, <2>2, RoomFound
  <2> QED
    BY <1>2, <1>3, <1>4, <2>3 DEF NumberBase
<1>7. CASE k.step \notin CreateSteps \/ w \in Creating
  <2>1. PICK C \in SUBSET Creating : C = Creating'
    BY <1>1, <1>7 DEF Creating
  <2>2. Existing \in SUBSET Existing
    OBVIOUS
  <2>3. RoomLeft'
    BY <1>2, <1>5, <2>1, <2>2, RoomStays
  <2> QED
    BY <1>2, <1>3, <1>4, <2>3 DEF NumberBase
<1> QED
  BY <1>6, <1>7
LEMMA EndsBase ==
    ASSUME NumberBase, NEW w \in AnyWorker, UNCHANGED part, NumberFinish(w),
           next' \in [Scopes -> 1..MaxNumber + 1], \A s \in Scopes \ {"legacy"} : next'[s] = next[s]
    PROVE  NumberBase'
<1>1. Fits(IdleNumberCall) /\ IdleNumberCall.step \notin CreateSteps
  BY IdleNumberTyped DEF Fits, CreateSteps
<1>2. numberCall' = [numberCall EXCEPT ![w] = IdleNumberCall]
  BY DEF NumberFinish
<1> QED
  BY <1>1, <1>2, IdleNumberTyped, CallBase

LEMMA GoesOnBase ==
    ASSUME NumberBase, NEW w \in AnyWorker, NEW k \in NumberCalls,
           Requests(w, k) \/ Reads(w, k) \/ (GoesOn(w, k) /\ Normalizes(w, k))
    PROVE  NumberBase'
<1>1. /\ numberCall' = [numberCall EXCEPT ![w] = k] /\ UNCHANGED <<part, next>>
      /\ next' \in [Scopes -> 1..MaxNumber + 1]
  BY DEF Requests, Reads, GoesOn, NumberBase, NumberTyped
<1>2. k.step \in {"rename", "value", "identifier"} => k.part \in Parts
  BY DEF Requests, Reads, Normalizes, Existing
<1>3. Fits(k)
  BY DEF Requests, Reads, Normalizes, Fits, CreateSteps
<1>4. k.step \in CreateSteps => w \in Creating \/ (Room /\ numberCall[w].step = "idle")
  BY DEF Requests, Reads, Normalizes, NumberAt, Creating, CreateSteps
<1>5. ~(k.step \in {"check", "insert"} /\ k.generated) /\ k.step # "scheme"
  BY DEF Requests, Reads, Normalizes
<1> QED
  BY <1>1, <1>2, <1>3, <1>4, <1>5, CallBase

LEMMA ReserveBase ==
    ASSUME NumberBase, NEW w \in AnyWorker, Reserve(w) PROVE NumberBase'
<1> DEFINE call == numberCall[w]
           s == call.draft.scope
           draft == [call.draft EXCEPT !.number = next[s], !.code = [call.draft.code EXCEPT !.number = next[s]]]
           k == [call EXCEPT !.step = "check", !.draft = draft]
<1>1. call \in NumberCalls /\ call.draft \in PartRows /\ call.draft.code \in Codes /\ call.step = "reserve"
      /\ call.generated /\ s \in Ordinary /\ s # "legacy" /\ s \in Scopes /\ call.draft.exists
  BY DEF NumberBase, NumberTyped, NumberCalls, Reserve, NumberAt, Fits, Ordinary, PartRows, CreateSteps
<1>2. next[s] \in 0..MaxNumber
  <2>1. w \in Creating
    BY <1>1 DEF Creating, CreateSteps
  <2>2. Cardinality(Creating) # 0
    BY <2>1, Counted, FS_EmptySet DEF NumberBase
  <2>3. next[s] + Cardinality(Creating) <= MaxNumber + 1
    BY <1>1 DEF NumberBase, RoomLeft
  <2> QED
    BY <1>1, <2>2, <2>3, Counted, PartBoundsAssumption DEF NumberBase
<1>3. draft \in PartRows /\ draft.number = next[s] /\ draft.code.number = next[s] /\ draft.scope = s /\ draft.exists
      /\ draft.class = call.draft.class
  <2>1. [call.draft.code EXCEPT !.number = next[s]] \in Codes /\ [call.draft.code EXCEPT !.number = next[s]].number = next[s]
    BY <1>1, <1>2 DEF Codes
  <2> HIDE DEF Codes
  <2> QED
    BY <1>1, <1>2, <2>1 DEF PartRows
<1>4. numberCall' = [numberCall EXCEPT ![w] = k] /\ UNCHANGED <<part, next>>
  <2> DEFINE a == [call EXCEPT !.step = "check"]
             b == [a EXCEPT !.draft.number = next[s]]
             d == [b EXCEPT !.draft.code.number = next[s]]
             f == [numberCall EXCEPT ![w].step = "check"]
             g == [f EXCEPT ![w].draft.number = next[s]]
             h == [g EXCEPT ![w].draft.code.number = next[s]]
  <2>1. numberCall' = h /\ UNCHANGED <<part, next>>
    BY DEF Reserve
  <2>2. f = [numberCall EXCEPT ![w] = a]
    OBVIOUS
  <2>3. g = [numberCall EXCEPT ![w] = b]
    <3> HIDE DEF f, a
    <3>1. f[w] = a
      BY <2>2 DEF NumberBase, NumberTyped
    <3> QED
      BY <2>2, <3>1
  <2>4. h = [numberCall EXCEPT ![w] = d]
    <3> HIDE DEF g, b
    <3>1. g[w] = b
      BY <2>3 DEF NumberBase, NumberTyped
    <3> QED
      BY <2>3, <3>1
  <2>5. d = k
    BY <1>1 DEF NumberCalls, PartRows, Codes
  <2> QED
    BY <2>1, <2>4, <2>5
<1> HIDE DEF draft
<1>5. k \in NumberCalls /\ k.step = "check" /\ k.generated /\ k.draft = draft
  <2> HIDE DEF PartRows
  <2> QED
    BY <1>1, <1>3 DEF NumberCalls, CreateSteps
<1> HIDE DEF k
<1>6. Fits(k)
  BY <1>1, <1>3, <1>5 DEF Fits
<1>7. \A v \in AnyWorker \ {w} : Holding(v) => numberCall[v].draft.scope # k.draft.scope
  BY <1>3, <1>5 DEF Reserve, ScopeFree, Holding
<1>8. w \in Creating
  BY <1>1 DEF Creating, CreateSteps
<1> QED
  BY <1>4, <1>5, <1>6, <1>7, <1>8, CallBase DEF NumberBase, NumberTyped

LEMMA PassesBase ==
    ASSUME NumberBase, NEW w \in AnyWorker, Passes(w) PROVE NumberBase'
<1> DEFINE k == [numberCall[w] EXCEPT !.step = "insert"]
<1>1. numberCall[w] \in NumberCalls /\ numberCall[w].step = "check" /\ Fits(numberCall[w])
  BY DEF NumberBase, NumberTyped, Passes, NumberAt
<1>2. k \in NumberCalls /\ k.step = "insert" /\ k.generated = numberCall[w].generated /\ k.draft = numberCall[w].draft
  <2> HIDE DEF PartRows
  <2> QED
    BY <1>1 DEF NumberCalls, CreateSteps
<1>3. numberCall' = [numberCall EXCEPT ![w] = k] /\ UNCHANGED <<part, next>>
  BY DEF Passes
<1> HIDE DEF k
<1>4. Fits(k)
  BY <1>1, <1>2 DEF Fits, CreateSteps
<1>5. w \in Creating
  BY <1>1 DEF Creating, CreateSteps
<1>6. k.generated => \A v \in AnyWorker \ {w} : Holding(v) => numberCall[v].draft.scope # k.draft.scope
  BY <1>1, <1>2 DEF NumberBase, OneHolder, Holding
<1> QED
  BY <1>2, <1>3, <1>4, <1>5, <1>6, CallBase DEF NumberBase, NumberTyped

LEMMA CounterBase ==
    ASSUME NumberBase, NEW w \in AnyWorker,
           GenerateCode(w) \/ (\E n \in 1..MaxNumber + 1 : ReadScheme(w, n)) \/ SaveScheme(w)
    PROVE  NumberBase'
<1>0. "legacy" \in Scopes
  BY DEF Scopes
<1>1. CASE GenerateCode(w)
  <2> DEFINE n == next["legacy"]
             k == [IdleNumberCall EXCEPT !.step = "check", !.draft = LegacyDraft(n)]
  <2>1. n + Cardinality({v \in AnyWorker : numberCall[v] # IdleNumberCall}) <= MaxNumber /\ Room
    BY <1>0, <1>1 DEF GenerateCode, Room
  <2>2. Cardinality({v \in AnyWorker : numberCall[v] # IdleNumberCall}) \in Nat
    BY DeploymentsAssumption, FS_Subset, FS_CardinalityType
  <2>3. n \in 0..MaxNumber /\ n + 1 \in 1..MaxNumber + 1
    BY <1>0, <2>1, <2>2, Counted, PartBoundsAssumption DEF NumberBase
  <2>4. LegacyDraft(n) \in PartRows /\ LegacyDraft(n).exists /\ LegacyDraft(n).scope = "legacy"
        /\ LegacyDraft(n).identity.class = NoName
    <3>1. TypedCode(n, FALSE) \in Codes
      BY <2>3, TypedCodes, Zenon
    <3> HIDE DEF n, Codes, TypedCode
    <3> QED
      BY <1>0, <2>3, <3>1, NoPartTyped DEF LegacyDraft, PartRows, NoPart, NoIdentity
  <2>5. k \in NumberCalls /\ k.step = "check" /\ ~k.generated /\ k.draft = LegacyDraft(n)
    <3> HIDE DEF PartRows, LegacyDraft, n
    <3> QED
      BY <2>4, IdleNumberTyped DEF NumberCalls, IdleNumberCall, CreateSteps
  <2>6. /\ numberCall' = [numberCall EXCEPT ![w] = k] /\ UNCHANGED part
        /\ next' = [next EXCEPT !["legacy"] = n + 1] /\ numberCall[w].step = "idle"
    BY <1>1, IdleNumberTyped DEF GenerateCode, NumberServes
  <2> HIDE DEF k, n
  <2>7. next' \in [Scopes -> 1..MaxNumber + 1] /\ \A s \in Scopes \ {"legacy"} : next'[s] = next[s]
    BY <2>3, <2>6 DEF NumberBase, NumberTyped
  <2>8. Fits(k)
    BY <2>4, <2>5 DEF Fits
  <2> QED
    BY <2>1, <2>5, <2>6, <2>7, <2>8, CallBase
<1>2. ASSUME NEW n \in 1..MaxNumber + 1, ReadScheme(w, n) PROVE NumberBase'
  <2> DEFINE k == [IdleNumberCall EXCEPT !.step = "scheme", !.number = n]
  <2>1. n \in 0..MaxNumber + 1
    BY PartBoundsAssumption
  <2>2. k \in NumberCalls /\ k.step = "scheme" /\ k.number = n
    <3> HIDE DEF PartRows
    <3> QED
      BY <2>1, IdleNumberTyped DEF NumberCalls, IdleNumberCall, CreateSteps
  <2>3. numberCall' = [numberCall EXCEPT ![w] = k] /\ UNCHANGED <<part, next>>
    BY <1>2 DEF ReadScheme
  <2> HIDE DEF k
  <2>4. Fits(k)
    BY <2>2 DEF Fits, CreateSteps
  <2>5. k.number \in 1..MaxNumber + 1
    BY <2>2
  <2> QED
    BY <2>2, <2>3, <2>4, <2>5, CallBase DEF NumberBase, NumberTyped, CreateSteps
<1>3. CASE SaveScheme(w)
  <2>1. numberCall[w].number \in 1..MaxNumber + 1
    BY <1>3 DEF NumberBase, NumberTyped, SaveScheme, NumberAt
  <2>2. next' \in [Scopes -> 1..MaxNumber + 1] /\ \A s \in Scopes \ {"legacy"} : next'[s] = next[s]
    BY <1>3, <2>1 DEF SaveScheme, NumberBase, NumberTyped
  <2> QED
    BY <1>3, <2>2, EndsBase DEF SaveScheme
<1> QED
  BY <1>1, <1>2, <1>3
LEMMA InsertBase ==
    ASSUME NumberBase, NEW w \in AnyWorker, NEW new \in Parts, Inserts(w, new) PROVE NumberBase'
<1> DEFINE call == numberCall[w]
           draft == call.draft
<1>1. call \in NumberCalls /\ draft \in PartRows /\ draft.exists /\ Fits(call) /\ new \notin Existing
      /\ call.step = "insert"
  BY DEF NumberBase, NumberTyped, NumberCalls, Inserts, NumberAt, Fits, CreateSteps
<1>2. /\ numberCall'[w] = IdleNumberCall /\ numberCall' \in [AnyWorker -> NumberCalls]
      /\ \A v \in AnyWorker \ {w} : numberCall'[v] = numberCall[v]
  BY IdleNumberTyped DEF Inserts, NumberFinish, NumberBase, NumberTyped
<1>3. part' \in [Parts -> PartRows] /\ part'[new] = draft /\ \A p \in Parts \ {new} : part'[p] = part[p]
  BY <1>1 DEF Inserts, NumberBase, NumberTyped
<1>4. Existing' = Existing \cup {new}
  BY <1>1, <1>3 DEF Existing
<1>5. Creating' = Creating \ {w} /\ w \in Creating
  BY <1>1, <1>2, IdleNumberTyped DEF Creating, CreateSteps
<1>6. Cardinality(Creating') = Cardinality(Creating) - 1 /\ Cardinality(Existing') = Cardinality(Existing) + 1
  BY <1>1, <1>4, <1>5, Counted, FS_AddElement, FS_RemoveElement DEF NumberBase
<1>7. ASSUME call.generated
      PROVE  /\ draft.scope \in Ordinary /\ draft.scope \in Scopes \ {"legacy"}
             /\ next'[draft.scope] = next[draft.scope] + 1
             /\ \A s \in Scopes \ {draft.scope} : next'[s] = next[s]
             /\ next' \in [Scopes -> 1..MaxNumber + 1]
  <2>1. draft.scope \in Ordinary /\ draft.scope \in Scopes \ {"legacy"} /\ draft.number = next[draft.scope]
    BY <1>1, <1>7 DEF Fits, Ordinary
  <2>2. next[draft.scope] + Cardinality(Creating) <= MaxNumber + 1
    BY <2>1 DEF NumberBase, RoomLeft
  <2>3. Cardinality(Creating) # 0 /\ Cardinality(Creating) \in Nat
    BY <1>5, Counted, FS_EmptySet DEF NumberBase
  <2>4. next[draft.scope] \in 1..MaxNumber + 1
    BY <2>1 DEF NumberBase, NumberTyped
  <2>5. next[draft.scope] + 1 \in 1..MaxNumber + 1
    BY <2>2, <2>3, <2>4, PartBoundsAssumption
  <2>6. next' = [next EXCEPT ![draft.scope] = next[draft.scope] + 1]
    BY <1>7, <2>1 DEF Inserts
  <2> QED
    BY <2>1, <2>5, <2>6 DEF NumberBase, NumberTyped
<1>8. ~call.generated => next' = next
  BY DEF Inserts
<1>9. NumberTyped'
  BY <1>2, <1>3, <1>7, <1>8, IdleNumberTyped DEF NumberBase, NumberTyped
<1>10. ASSUME NEW v \in AnyWorker PROVE Fits(numberCall[v])'
  <2>1. CASE v = w
    BY <1>2, <2>1, IdleNumberTyped DEF Fits, CreateSteps
  <2>2. CASE v # w
    <3>1. numberCall'[v] = numberCall[v] /\ Fits(numberCall[v])
      BY <1>2, <2>2 DEF NumberBase
    <3>2. CASE ~call.generated
      BY <1>8, <3>1, <3>2 DEF Fits
    <3>3. CASE call.generated /\ ~Holding(v)
      BY <3>1, <3>3 DEF Fits, Holding
    <3>4. CASE call.generated /\ Holding(v)
      <4>1. numberCall[v].draft.scope # draft.scope /\ numberCall[v].draft.scope \in Scopes
        BY <1>1, <2>2, <3>1, <3>4 DEF NumberBase, OneHolder, Holding, Fits, Ordinary
      <4>2. next'[numberCall[v].draft.scope] = next[numberCall[v].draft.scope]
        BY <1>7, <3>4, <4>1
      <4> QED
        BY <3>1, <4>2 DEF Fits
    <3> QED
      BY <3>2, <3>3, <3>4
  <2> QED
    BY <2>1, <2>2
<1>11. OneHolder'
  BY <1>2, IdleNumberTyped DEF NumberBase, OneHolder, Holding
<1>12. RoomLeft'
  <2>1. Cardinality(Existing)' + Cardinality(Creating)' <= Cardinality(Parts)
    BY <1>6, Counted DEF NumberBase, RoomLeft
  <2>2. ASSUME NEW s \in Scopes \ {"legacy"} PROVE next'[s] + Cardinality(Creating)' <= MaxNumber + 1
    <3>1. next'[s] = next[s] \/ next'[s] = next[s] + 1
      BY <1>7, <1>8
    <3>2. next[s] + Cardinality(Creating) <= MaxNumber + 1
      BY DEF NumberBase, RoomLeft
    <3> QED
      BY <1>6, <3>1, <3>2, Counted, PartBoundsAssumption DEF NumberBase
  <2> QED
    BY <2>1, <2>2 DEF RoomLeft
<1> QED
  BY <1>9, <1>10, <1>11, <1>12 DEF NumberBase

\* A part that is there is written, or deleted.
LEMMA WriteBase ==
    ASSUME NumberBase, NEW w \in AnyWorker, NEW p \in Parts, NEW row \in PartRows,
           Edits(w, p, row) \/ (Deletes(w, p) /\ row = NoPart)
    PROVE  NumberBase'
<1>1. part' = [part EXCEPT ![p] = row] /\ next' = next /\ p \in Existing
  BY DEF Edits, Deletes
<1>2. numberCall' = numberCall \/ numberCall' = [numberCall EXCEPT ![w] = IdleNumberCall]
  BY DEF Edits, Deletes, NumberFinish
<1>3. \A v \in AnyWorker : numberCall'[v] = numberCall[v] \/ numberCall'[v] = IdleNumberCall
  BY <1>2 DEF NumberBase, NumberTyped
<1>4. NumberTyped'
  BY <1>1, <1>2, <1>3, IdleNumberTyped DEF NumberBase, NumberTyped
<1>5. ASSUME NEW v \in AnyWorker PROVE Fits(numberCall[v])'
  BY <1>1, <1>3, IdleNumberTyped DEF NumberBase, Fits, CreateSteps
<1>6. OneHolder'
  BY <1>3, IdleNumberTyped DEF NumberBase, OneHolder, Holding
<1>7. PICK E \in SUBSET Existing : E = Existing'
  BY <1>1 DEF Existing, NumberBase, NumberTyped
<1>8. PICK C \in SUBSET Creating : C = Creating'
  BY <1>3, IdleNumberTyped DEF Creating, CreateSteps
<1>9. RoomLeft'
  BY <1>1, <1>4, <1>7, <1>8, RoomStays
<1> QED
  BY <1>4, <1>5, <1>6, <1>9 DEF NumberBase

LEMMA NumberBaseStep ==
    ASSUME TreeInv, NumberBase, NEW w \in AnyWorker, NumberStep(w) PROVE NumberBase'
<1>1. CASE Ends(w)
  BY <1>1, EndsBase DEF Ends, NumberBase, NumberTyped
<1>2. ASSUME NEW k \in NumberCalls, Requests(w, k) \/ Reads(w, k) \/ (GoesOn(w, k) /\ Normalizes(w, k))
      PROVE  NumberBase'
  BY <1>2, GoesOnBase
<1>3. ASSUME NEW new \in Parts, Inserts(w, new) \/ Deletes(w, new) PROVE NumberBase'
  BY <1>3, InsertBase, WriteBase, NoPartTyped
<1>4. ASSUME NEW p \in Parts, NEW row \in PartRows, Edits(w, p, row) PROVE NumberBase'
  BY <1>4, WriteBase
<1>5. CASE Passes(w)
  BY <1>5, PassesBase
<1>6. CASE Reserve(w)
  BY <1>6, ReserveBase
<1>7. CASE GenerateCode(w) \/ (\E n \in 1..MaxNumber + 1 : ReadScheme(w, n)) \/ SaveScheme(w)
  BY <1>7, CounterBase
<1> QED
  BY NumberCases, <1>1, <1>2, <1>3, <1>4, <1>5, <1>6, <1>7 DEF NumberEffect

LEMMA BaseStutters ==
    ASSUME TreeInv, NumberBase, UNCHANGED vars PROVE TreeInv' /\ NumberBase'
<1>1. TreeInv'
  BY DEF vars, classVars, templateVars, TreeInv, ClassInv, NamesStay, TemplateTyped, Founded, Present, TemplateExists, TemplateAt
<1>2. NumberBase'
  <2>1. Existing' = Existing /\ Creating' = Creating
    BY DEF vars, Existing, Creating
  <2> QED
    BY <2>1 DEF vars, NumberBase, NumberTyped, Fits, OneHolder, Holding, RoomLeft
<1> QED
  BY <1>1, <1>2

LEMMA BaseNext == TreeInv /\ NumberBase /\ [Next]_vars => TreeInv' /\ NumberBase'
<1> SUFFICES ASSUME TreeInv, NumberBase, [Next]_vars PROVE TreeInv' /\ NumberBase'
  OBVIOUS
<1>1. CASE UNCHANGED vars
  BY <1>1, BaseStutters
<1>2. ASSUME NEW w \in AnyWorker, ClassStep(w), UNCHANGED <<templateVars, part, next, numberCall>>
      PROVE  TreeInv' /\ NumberBase'
  <2>1. NumberBase'
    <3>1. Existing' = Existing /\ Creating' = Creating
      BY <1>2 DEF Existing, Creating
    <3> QED
      BY <1>2, <3>1 DEF NumberBase, NumberTyped, Fits, OneHolder, Holding, RoomLeft
  <2> QED
    BY <1>2, <2>1, ClassTree
<1>3. ASSUME NEW w \in AnyWorker, TemplateStep(w), UNCHANGED <<classVars, part, next, numberCall>>
      PROVE  TreeInv' /\ NumberBase'
  <2>1. NumberBase'
    <3>1. Existing' = Existing /\ Creating' = Creating
      BY <1>3 DEF Existing, Creating
    <3> QED
      BY <1>3, <3>1 DEF NumberBase, NumberTyped, Fits, OneHolder, Holding, RoomLeft
  <2> QED
    BY <1>3, <2>1, TemplateTree
<1>4. ASSUME NEW w \in AnyWorker, NumberStep(w), UNCHANGED <<classVars, templateVars>>
      PROVE  TreeInv' /\ NumberBase'
  <2>1. TreeInv'
    BY <1>4 DEF classVars, templateVars, TreeInv, ClassInv, NamesStay, TemplateTyped, Founded, Present, TemplateExists, TemplateAt
  <2> QED
    BY <1>4, <2>1, NumberBaseStep
<1> QED
  BY <1>1, <1>2, <1>3, <1>4, StepKinds

LEMMA BaseAlways == Spec => [](TreeInv /\ NumberBase)
BY TreeInit, NumberInitial, BaseNext, PTL DEF Spec

\* Rows and the drafts of parts keep their type; sequences stay within the bound.
THEOREM TypeCorrect == Spec => []TypeOK
<1>1. TreeInv /\ NumberBase => TypeOK
  BY DEF TreeInv, ClassInv, TemplateTyped, NumberBase, NumberTyped, NumberCalls, TypeOK
<1> QED
  BY <1>1, BaseAlways, PTL

-----------------------------------------------------------------------------
(* What changes in a step *)

\* How the thread came to what it is doing now.
LEMMA CallChanges ==
    ASSUME NumberBase, NEW w \in AnyWorker, NumberEffect(w)
    PROVE  /\ \A v \in AnyWorker \ {w} : numberCall'[v] = numberCall[v]
           /\ NumberAt(w, "idle") => w \in Workers
           /\ numberCall'[w].step = "insert" => Passes(w)
           /\ numberCall'[w].step \in {"rename", "value", "identifier"} => Reads(w, numberCall'[w])
           /\ numberCall'[w].step = "scheme" => \E n : ReadScheme(w, n)
           /\ numberCall'[w].step = "normalize" => Requests(w, numberCall'[w])
           /\ numberCall'[w].step = "reserve" => Normalizes(w, numberCall'[w])
           /\ numberCall'[w].step = "check" =>
                \/ Reserve(w) \/ GenerateCode(w)
                \/ Requests(w, numberCall'[w]) \/ Normalizes(w, numberCall'[w])
<1> DEFINE Goal ==
           /\ \A v \in AnyWorker \ {w} : numberCall'[v] = numberCall[v]
           /\ NumberAt(w, "idle") => w \in Workers
           /\ numberCall'[w].step = "insert" => Passes(w)
           /\ numberCall'[w].step \in {"rename", "value", "identifier"} => Reads(w, numberCall'[w])
           /\ numberCall'[w].step = "scheme" => \E n : ReadScheme(w, n)
           /\ numberCall'[w].step = "normalize" => Requests(w, numberCall'[w])
           /\ numberCall'[w].step = "reserve" => Normalizes(w, numberCall'[w])
           /\ numberCall'[w].step = "check" =>
                \/ Reserve(w) \/ GenerateCode(w)
                \/ Requests(w, numberCall'[w]) \/ Normalizes(w, numberCall'[w])
<1>0. numberCall \in [AnyWorker -> NumberCalls]
  BY DEF NumberBase, NumberTyped
<1>1. ASSUME NEW k \in NumberCalls, numberCall' = [numberCall EXCEPT ![w] = k],
             NumberAt(w, "idle") => w \in Workers,
             \/ Requests(w, k) \/ Reads(w, k) \/ Normalizes(w, k) \/ k = IdleNumberCall
             \/ (\E n : ReadScheme(w, n)) /\ k.step = "scheme"
             \/ GenerateCode(w) /\ k.step = "check"
      PROVE  Goal
  <2>1. numberCall'[w] = k
    BY <1>0, <1>1
  <2> QED
    BY <1>0, <1>1, <2>1, IdleNumberTyped DEF Requests, Reads, Normalizes
<1>2. ASSUME NEW k \in NumberCalls, Requests(w, k) \/ Reads(w, k) \/ (GoesOn(w, k) /\ Normalizes(w, k)) PROVE Goal
  BY <1>1, <1>2 DEF Requests, Reads, Normalizes, GoesOn, NumberAt
<1>3. CASE NumberFinish(w) /\ ~NumberAt(w, "idle")
  BY <1>1, <1>3, IdleNumberTyped DEF NumberFinish
<1>4. CASE Ends(w) \/ SaveScheme(w) \/ \E new \in Parts : Inserts(w, new)
  BY <1>3, <1>4 DEF Ends, SaveScheme, Inserts, NumberAt
<1>5. CASE numberCall' = numberCall /\ NumberAt(w, "idle") /\ w \in Workers
  BY <1>5 DEF NumberAt
<1>6. ASSUME NEW p \in Parts, NEW row \in PartRows, Edits(w, p, row) PROVE Goal
  BY <1>3, <1>5, <1>6 DEF Edits
<1>7. ASSUME NEW p \in Parts, Deletes(w, p) PROVE Goal
  BY <1>5, <1>7, IdleNumberTyped DEF Deletes, NumberServes, NumberAt
<1>8. CASE Passes(w)
  <2>1. numberCall'[w].step = "insert" /\ \A v \in AnyWorker \ {w} : numberCall'[v] = numberCall[v]
    BY <1>0, <1>8 DEF Passes, NumberCalls
  <2> QED
    BY <1>8, <2>1 DEF Passes, NumberAt
<1>9. CASE Reserve(w)
  <2>1. numberCall'[w].step = "check" /\ \A v \in AnyWorker \ {w} : numberCall'[v] = numberCall[v]
    BY <1>0, <1>9 DEF Reserve, NumberCalls
  <2> QED
    BY <1>9, <2>1 DEF Reserve, NumberAt
<1>10. CASE GenerateCode(w)
  <2>1. numberCall'[w].step = "check" /\ \A v \in AnyWorker \ {w} : numberCall'[v] = numberCall[v]
    BY <1>0, <1>10 DEF GenerateCode, NumberCalls
  <2> QED
    BY <1>10, <2>1 DEF GenerateCode, NumberServes
<1>11. ASSUME NEW n \in 1..MaxNumber + 1, ReadScheme(w, n) PROVE Goal
  <2>1. numberCall'[w].step = "scheme" /\ \A v \in AnyWorker \ {w} : numberCall'[v] = numberCall[v]
    BY <1>0, <1>11 DEF ReadScheme, NumberCalls
  <2> QED
    BY <1>11, <2>1 DEF ReadScheme, NumberServes
<1> QED
  BY <1>2, <1>4, <1>6, <1>7, <1>8, <1>9, <1>10, <1>11 DEF NumberEffect

\* How a part, or a sequence, came to be what it is now.
LEMMA PartsChange ==
    ASSUME NumberBase, NEW w \in AnyWorker, NumberEffect(w)
    PROVE  \/ UNCHANGED <<part, next>>
           \/ part' = part /\ (GenerateCode(w) \/ SaveScheme(w))
           \/ numberCall'[w].step = "idle" /\ \E new \in Parts : Inserts(w, new) \/ Deletes(w, new)
           \/ numberCall'[w].step = "idle" /\ \E p \in Parts, row \in PartRows : Edits(w, p, row)
<1>0. numberCall \in [AnyWorker -> NumberCalls]
  BY DEF NumberBase, NumberTyped
<1>1. NumberFinish(w) => numberCall'[w].step = "idle"
  BY <1>0, IdleNumberTyped DEF NumberFinish
<1>2. numberCall' = numberCall /\ NumberAt(w, "idle") => numberCall'[w].step = "idle"
  BY DEF NumberAt
<1>3. NumberServes(w, "delete part") => NumberAt(w, "idle")
  BY IdleNumberTyped DEF NumberServes, NumberAt
<1> QED
  BY <1>1, <1>2, <1>3 DEF NumberEffect, Ends, Passes, Reserve, GenerateCode, ReadScheme, SaveScheme, Requests, Reads, GoesOn,
     Inserts, Deletes, Edits

\* A number of a template's sequence is spent in the step that inserts its part:
\* the thread that reserved it holds the sequence, so nobody has moved it.
THEOREM NumbersAreSpent == Spec => NumberWithItem
<1> DEFINE Spent == \A s \in Scopes \ {"legacy"} : next'[s] # next[s] =>
        /\ next'[s] = next[s] + 1
        /\ \E p \in Parts : ~part[p].exists /\ part'[p].scope = s /\ part'[p].number = next[s]
<1>1. ASSUME TreeInv, NumberBase, [Next]_vars PROVE [Spent]_<<next, part>>
  <2>1. ASSUME NEW w \in AnyWorker, NumberEffect(w) PROVE Spent
    <3>1. part \in [Parts -> PartRows] /\ next \in [Scopes -> 1..MaxNumber + 1]
      BY <1>1 DEF NumberBase, NumberTyped
    <3>2. CASE GenerateCode(w) \/ SaveScheme(w)
      BY <3>1, <3>2 DEF GenerateCode, SaveScheme
    <3>3. ASSUME NEW new \in Parts, Inserts(w, new) PROVE Spent
      <4>1. numberCall[w].generated => numberCall[w].draft.number = next[numberCall[w].draft.scope]
            /\ numberCall[w].draft.scope \in Scopes
        BY <1>1, <3>3 DEF NumberBase, Fits, Inserts, NumberAt, Ordinary
      <4>2. part'[new] = numberCall[w].draft /\ ~part[new].exists
        BY <3>1, <3>3 DEF Inserts, Existing
      <4> QED
        BY <3>1, <3>3, <4>1, <4>2 DEF Inserts
    <3> QED
      BY <1>1, <2>1, <3>2, <3>3, PartsChange DEF Deletes, Edits
  <2>2. UNCHANGED vars => UNCHANGED <<next, part>>
    BY DEF vars
  <2> QED
    BY <1>1, <2>1, <2>2, StepKinds, NumberCases
<1> QED
  BY <1>1, BaseAlways, PTL DEF Spec, NumberWithItem

-----------------------------------------------------------------------------
(* Nothing names two parts: what each name needs *)

\* Only a worker has a call, and only of a kind that is asked for.
Busy ==
    \A v \in AnyWorker :
        /\ ~NumberAt(v, "idle") => v \in Workers
        /\ NumberAt(v, "scheme") => Asked("scheme")
        /\ NumberAt(v, "rename") => Asked("rename")

Drawn(v) == numberCall[v].draft

\* Numbers of the templates' sequences lie behind them.
SequencesApart ==
    /\ \A p \in Existing : part[p].scope \in Ordinary => part[p].number < next[part[p].scope]
    /\ \A p, q \in Existing :
         p # q /\ part[p].scope \in Ordinary /\ part[p].scope = part[q].scope => part[p].number # part[q].number

\* So do those of the older code scheme, where no client sets it back.
Counting(v) == numberCall[v].step \in {"check", "insert"} /\ Drawn(v).scope = "legacy"
CountsApart ==
    "scheme" \notin deployment.kinds =>
        /\ \A p \in Existing : part[p].scope = "legacy" => part[p].number < next["legacy"]
        /\ \A v \in AnyWorker : Counting(v) => Drawn(v).number < next["legacy"]
        /\ \A p, q \in Existing :
             p # q /\ part[p].scope = "legacy" /\ part[q].scope = "legacy" => part[p].number # part[q].number
        /\ \A p \in Existing, v \in AnyWorker :
             Counting(v) /\ part[p].scope = "legacy" => part[p].number # Drawn(v).number
        /\ \A v, w \in AnyWorker : v # w /\ Counting(v) /\ Counting(w) => Drawn(v).number # Drawn(w).number

\* A creation that saw no duplicate still has none when it inserts.
Comparable(a, b) == Serial \/ (a.scope = b.scope /\ a.scope # "none")
IdentitiesApart ==
    /\ IdentitiesUnique
    /\ \A v \in AnyWorker, p \in Existing :
         NumberAt(v, "insert") /\ SameIdentity(part[p], Drawn(v)) /\ Comparable(part[p], Drawn(v))
           => part[p].overridden \/ Drawn(v).overridden

CodesApart ==
    /\ CodesUnique
    /\ Serial => \A v \in AnyWorker :
         /\ NumberAt(v, "insert") => ~CodeTaken(Drawn(v).code, Existing)
         /\ NumberAt(v, "rename") => ~CodeTaken(Drawn(v).code, Existing \ {numberCall[v].part})

IdentifiersApart ==
    Serial =>
        /\ \A p, q \in Existing : p # q => part[p].identifiers \cap part[q].identifiers = {}
        /\ \A v \in AnyWorker : numberCall[v].step \in {"insert", "identifier"} =>
             \A id \in Drawn(v).identifiers : Owner(id) = {}

\* A code that was generated has the number of its part, or none.
Coded(row) ==
    IF row.scope = "none" THEN row.code.number = 0
    ELSE row.scope \in Ordinary /\ row.code.number = row.number /\ Tells(row)
CodesBehind ==
    OnlyGenerated =>
        /\ \A v \in AnyWorker : ~TemplateAt(v, "segment")
        /\ Apart =>
             /\ \A p \in Existing : Coded(part[p])
             /\ \A v \in AnyWorker :
                  /\ NumberAt(v, "normalize") => numberCall[v].generated
                  /\ NumberAt(v, "reserve") => Tells(Drawn(v))
                  /\ numberCall[v].step \in {"check", "insert"} => Coded(Drawn(v))

PartsApart ==
    Busy /\ SequencesApart /\ CountsApart /\ IdentitiesApart /\ CodesApart /\ IdentifiersApart /\ CodesBehind

LEMMA BusyStep ==
    ASSUME NumberBase, Busy, NEW w \in AnyWorker, NumberEffect(w), UNCHANGED deployment PROVE Busy'
<1>1. (\E n : ReadScheme(w, n)) => Asked("scheme")
  BY DEF ReadScheme, NumberServes
<1>2. \A k : Reads(w, k) /\ k.step = "rename" => Asked("rename")
  BY DEF Reads
<1>3. Workers' = Workers /\ \A kind : Asked(kind)' <=> Asked(kind)
  BY DEF Workers, Asked
<1> HIDE DEF Workers, Asked
<1>4. ASSUME NEW v \in AnyWorker
      PROVE  /\ ~NumberAt(v, "idle")' => v \in Workers
             /\ NumberAt(v, "scheme")' => Asked("scheme")
             /\ NumberAt(v, "rename")' => Asked("rename")
  BY <1>1, <1>2, CallChanges DEF Busy, NumberAt
<1> QED
  BY <1>3, <1>4 DEF Busy

\* Without overlap everybody else is idle, before the step and after it.
LEMMA Alone ==
    ASSUME TreeInv, NumberBase, Busy, Serial, NEW w \in AnyWorker, NumberEffect(w)
    PROVE  \A v \in AnyWorker \ {w} : numberCall[v].step = "idle" /\ numberCall'[v].step = "idle"
<1>1. w \in Workers
  BY CallChanges DEF Busy
<1>2. deployment \in Deployments
  BY DEF TreeInv, ClassInv
<1>3. \A v \in AnyWorker : ~NumberAt(v, "idle") => v = w
  BY <1>1, <1>2, OneThread DEF Busy
<1> QED
  BY <1>3, CallChanges DEF NumberAt

\* A step inserts one part, or leaves of every part what it was created with.
Kept == Existing' \subseteq Existing /\ \A p \in Existing' : Core(part'[p]) = Core(part[p])

LEMMA RowsChange ==
    ASSUME NumberBase, NEW w \in AnyWorker, NumberEffect(w)
    PROVE  \/ Kept
           \/ \E new \in Parts \ Existing :
                /\ Inserts(w, new) /\ Existing' = Existing \cup {new}
                /\ part'[new] = Drawn(w) /\ \A p \in Existing : part'[p] = part[p]
<1>1. CASE UNCHANGED part
  BY <1>1 DEF Kept, Existing
<1>2. ASSUME NEW p \in Parts, NEW row \in PartRows, Edits(w, p, row) PROVE Kept
  <2>1. part' = [part EXCEPT ![p] = row] /\ Core(row) = Core(part[p]) /\ p \in Existing
    BY <1>2 DEF Edits
  <2>2. part \in [Parts -> PartRows]
    BY DEF NumberBase, NumberTyped
  <2>3. \A q \in Parts : Core(part'[q]) = Core(part[q])
    BY <2>1, <2>2
  <2>4. \A q \in Parts : part'[q].exists = part[q].exists
    BY <2>3 DEF Core
  <2> QED
    BY <2>3, <2>4 DEF Kept, Existing
<1>3. ASSUME NEW p \in Parts, Deletes(w, p) PROVE Kept
  <2>1. part' = [part EXCEPT ![p] = NoPart] /\ part \in [Parts -> PartRows]
    BY <1>3 DEF Deletes, NumberBase, NumberTyped
  <2>2. part'[p] = NoPart /\ \A q \in Parts \ {p} : part'[q] = part[q]
    BY <2>1
  <2> QED
    BY <2>2, NoPartTyped DEF Kept, Existing
<1>4. ASSUME NEW new \in Parts, Inserts(w, new)
      PROVE  /\ new \in Parts \ Existing /\ Existing' = Existing \cup {new}
             /\ part'[new] = Drawn(w) /\ \A p \in Existing : part'[p] = part[p]
  <2>1. part' = [part EXCEPT ![new] = Drawn(w)] /\ part \in [Parts -> PartRows] /\ Drawn(w).exists /\ new \in Parts \ Existing
    BY <1>4 DEF Inserts, NumberBase, NumberTyped, Fits, CreateSteps, Drawn, NumberAt
  <2>2. part'[new] = Drawn(w) /\ \A q \in Parts \ {new} : part'[q] = part[q]
    BY <2>1
  <2> QED
    BY <2>1, <2>2 DEF Existing
<1> QED
  BY <1>1, <1>2, <1>3, <1>4, PartsChange

\* What happens to the sequences: only the older scheme moves without a part.
LEMMA NextChanges ==
    ASSUME NumberBase, NEW w \in AnyWorker, NumberEffect(w)
    PROVE  /\ \/ \A s \in Ordinary : next'[s] = next[s]
              \/ /\ numberCall[w].generated /\ Drawn(w).scope \in Ordinary /\ \E new \in Parts : Inserts(w, new)
                 /\ next' = [next EXCEPT ![Drawn(w).scope] = @ + 1]
           /\ next'["legacy"] = next["legacy"] \/ GenerateCode(w) \/ SaveScheme(w)
           /\ (\E new \in Parts : Inserts(w, new)) /\ ~numberCall[w].generated => next' = next
<1>1. next \in [Scopes -> 1..MaxNumber + 1] /\ "legacy" \in Scopes
  BY DEF NumberBase, NumberTyped, Scopes
<1>2. CASE GenerateCode(w) \/ SaveScheme(w)
  BY <1>1, <1>2 DEF GenerateCode, SaveScheme, Ordinary, Inserts, NumberServes, NumberAt, IdleNumberCall
<1>3. ASSUME NEW new \in Parts, Inserts(w, new), numberCall[w].generated
      PROVE  /\ Drawn(w).scope \in Ordinary
             /\ next' = [next EXCEPT ![Drawn(w).scope] = @ + 1] /\ next'["legacy"] = next["legacy"]
  <2>1. Fits(numberCall[w]) /\ numberCall[w].step = "insert"
    BY <1>3 DEF NumberBase, Inserts, NumberAt
  <2>2. Drawn(w).number = next[Drawn(w).scope] /\ Drawn(w).scope \in Ordinary
    BY <1>3, <2>1 DEF Fits, Drawn
  <2> QED
    BY <1>1, <1>3, <2>2 DEF Inserts, Drawn, Ordinary
<1>4. ASSUME NEW new \in Parts, Inserts(w, new), ~numberCall[w].generated PROVE next' = next
  BY <1>4 DEF Inserts
<1> QED
  BY <1>2, <1>3, <1>4, PartsChange DEF Deletes, Edits

LEMMA CoreSays ==
    ASSUME NEW a, NEW b, Core(a) = Core(b)
    PROVE  /\ a.exists = b.exists /\ a.class = b.class /\ a.identity = b.identity
           /\ a.scope = b.scope /\ a.number = b.number /\ a.overridden = b.overridden
BY DEF Core

LEMMA SequencesStep ==
    ASSUME NumberBase, SequencesApart, NEW w \in AnyWorker, NumberEffect(w) PROVE SequencesApart'
<1>1. \A s \in Ordinary : next[s] \in Nat
  BY PartBoundsAssumption DEF NumberBase, NumberTyped, Ordinary
<1>2. \A p \in Existing : part[p].number \in Nat
  BY PartBoundsAssumption DEF NumberBase, NumberTyped, PartRows, Existing
<1>3. next \in [Scopes -> 1..MaxNumber + 1]
  BY DEF NumberBase, NumberTyped
<1>4. \A s \in Ordinary : next'[s] >= next[s]
  BY <1>1, <1>3, NextChanges DEF Ordinary
<1>5. \A s \in Ordinary : next'[s] \in Nat
  BY <1>1, <1>3, NextChanges DEF Ordinary
<1>6. CASE Kept
  <2>1. \A p \in Existing' : p \in Existing /\ part'[p].scope = part[p].scope /\ part'[p].number = part[p].number
    BY <1>6, CoreSays DEF Kept
  <2>2. \A p \in Existing' : part'[p].scope \in Ordinary => part'[p].number < next'[part'[p].scope]
    BY <1>1, <1>2, <1>4, <1>5, <2>1 DEF SequencesApart
  <2> QED
    BY <2>1, <2>2 DEF SequencesApart
<1>7. ASSUME NEW new \in Parts \ Existing, Inserts(w, new), Existing' = Existing \cup {new},
             part'[new] = Drawn(w), \A p \in Existing : part'[p] = part[p]
      PROVE  SequencesApart'
  <2>1. Fits(numberCall[w]) /\ numberCall[w].step = "insert"
    BY <1>7 DEF NumberBase, Inserts, NumberAt
  <2>2. CASE ~numberCall[w].generated
    <3>1. Drawn(w).scope \notin Ordinary
      BY <2>1, <2>2 DEF Fits, Drawn, Ordinary
    <3> QED
      BY <1>1, <1>2, <1>4, <1>5, <1>7, <3>1 DEF SequencesApart
  <2>3. CASE numberCall[w].generated
    <3>1. Drawn(w).scope \in Ordinary /\ Drawn(w).number = next[Drawn(w).scope]
      BY <2>1, <2>3 DEF Fits, Drawn
    <3>2. next' = [next EXCEPT ![Drawn(w).scope] = Drawn(w).number + 1]
      BY <1>7, <2>3 DEF Inserts, Drawn
    <3>3. next'[Drawn(w).scope] = Drawn(w).number + 1 /\ Drawn(w).number \in Nat
      BY <1>1, <1>3, <3>1, <3>2 DEF Ordinary
    <3>4. \A p \in Existing : part[p].scope = Drawn(w).scope => part[p].number < Drawn(w).number
      BY <3>1 DEF SequencesApart
    <3>5. \A p \in Existing' : part'[p].scope \in Ordinary => part'[p].number < next'[part'[p].scope]
      BY <1>1, <1>2, <1>4, <1>5, <1>7, <3>3 DEF SequencesApart
    <3>6. \A p \in Existing : part[p].scope = Drawn(w).scope => part[p].number # Drawn(w).number
      BY <1>2, <3>3, <3>4
    <3> QED
      BY <1>7, <3>5, <3>6 DEF SequencesApart
  <2> QED
    BY <2>2, <2>3
<1> QED
  BY <1>6, <1>7, RowsChange

LEMMA IdentitiesStep ==
    ASSUME TreeInv, NumberBase, Busy, IdentitiesApart, NEW w \in AnyWorker, NumberEffect(w), UNCHANGED deployment
    PROVE  IdentitiesApart'
<1>0. Serial' = Serial
  BY DEF Serial, Workers
<1>1. \A a, b : SameIdentity(a, b) <=> SameIdentity(b, a)
  BY DEF SameIdentity
<1>2. \A a, b : Comparable(a, b)' <=> Comparable(a, b)
  BY <1>0 DEF Comparable
<1>3. \A a, b : Comparable(a, b) <=> Comparable(b, a)
  BY DEF Comparable
<1>4. \A p, q \in Existing : p # q /\ SameIdentity(part[p], part[q]) /\ Comparable(part[p], part[q])
        => part[p].overridden \/ part[q].overridden
  BY DEF IdentitiesApart, IdentitiesUnique, Comparable
<1>5. ASSUME \A p, q \in Existing' : p # q /\ SameIdentity(part'[p], part'[q]) /\ Comparable(part'[p], part'[q])
        => part'[p].overridden \/ part'[q].overridden
      PROVE IdentitiesUnique'
  BY <1>0, <1>5 DEF IdentitiesUnique, Comparable, SameIdentity
<1>6. ASSUME NEW v \in AnyWorker, numberCall'[v].step = "insert", Kept
      PROVE  \A p \in Existing' :
               SameIdentity(part'[p], numberCall'[v].draft) /\ Comparable(part'[p], numberCall'[v].draft)
                 => part'[p].overridden \/ numberCall'[v].draft.overridden
  <2>1. \A p \in Existing' : p \in Existing /\ part'[p].class = part[p].class /\ part'[p].identity = part[p].identity
          /\ part'[p].scope = part[p].scope /\ part'[p].overridden = part[p].overridden
    BY <1>6, CoreSays DEF Kept
  <2>2. \A p \in Existing' : \A b : /\ SameIdentity(part'[p], b) <=> SameIdentity(part[p], b)
                                    /\ Comparable(part'[p], b) <=> Comparable(part[p], b)
    BY <2>1 DEF SameIdentity, Comparable
  <2>3. CASE v # w
    <3>1. numberCall'[v] = numberCall[v] /\ NumberAt(v, "insert")
      BY <1>6, <2>3, CallChanges DEF NumberAt
    <3> QED
      BY <2>1, <2>2, <3>1 DEF IdentitiesApart, Drawn
  <2>4. CASE v = w
    <3>1. Passes(w)
      BY <1>6, <2>4, CallChanges
    <3>2. numberCall'[w].draft = Drawn(w)
      BY <3>1 DEF Passes, NumberBase, NumberTyped, NumberCalls, Drawn
    <3>3. Drawn(w).overridden \/ \A p \in Existing : ~SameIdentity(part[p], Drawn(w))
      BY <3>1 DEF Passes, Drawn
    <3> QED
      BY <2>1, <2>2, <2>4, <3>2, <3>3
  <2> QED
    BY <2>3, <2>4
<1>7. CASE Kept
  <2>1. \A p \in Existing' : p \in Existing /\ part'[p].class = part[p].class /\ part'[p].identity = part[p].identity
          /\ part'[p].scope = part[p].scope /\ part'[p].overridden = part[p].overridden
    BY <1>7, CoreSays DEF Kept
  <2>2. \A p, q \in Existing' : /\ SameIdentity(part'[p], part'[q]) <=> SameIdentity(part[p], part[q])
                                /\ Comparable(part'[p], part'[q]) <=> Comparable(part[p], part[q])
    BY <2>1 DEF SameIdentity, Comparable
  <2>3. IdentitiesUnique'
    BY <1>4, <1>5, <2>1, <2>2
  <2> QED
    BY <1>0, <1>2, <1>6, <1>7, <2>3 DEF IdentitiesApart, NumberAt, Drawn, Comparable, SameIdentity
<1>8. ASSUME NEW new \in Parts \ Existing, Inserts(w, new), Existing' = Existing \cup {new},
             part'[new] = Drawn(w), \A p \in Existing : part'[p] = part[p]
      PROVE  IdentitiesApart'
  <2>1. Fits(numberCall[w]) /\ NumberAt(w, "insert")
    BY <1>8 DEF NumberBase, Inserts
  <2>2. \A p \in Existing : SameIdentity(part[p], Drawn(w)) /\ Comparable(part[p], Drawn(w))
          => part[p].overridden \/ Drawn(w).overridden
    BY <2>1 DEF IdentitiesApart
  <2>3. IdentitiesUnique'
    BY <1>1, <1>3, <1>4, <1>5, <1>8, <2>2
  <2>4. numberCall'[w].step = "idle"
    BY <1>8, IdleNumberTyped DEF Inserts, NumberFinish, NumberBase, NumberTyped
  <2>5. ASSUME NEW v \in AnyWorker, numberCall'[v].step = "insert"
        PROVE  /\ v # w /\ numberCall'[v] = numberCall[v] /\ NumberAt(v, "insert")
               /\ ~(SameIdentity(Drawn(w), Drawn(v)) /\ Comparable(Drawn(w), Drawn(v)))
    <3>1. v # w /\ numberCall'[v] = numberCall[v] /\ NumberAt(v, "insert")
      BY <2>4, <2>5, CallChanges DEF NumberAt
    <3>2. ~Serial
      BY <3>1, Alone DEF NumberAt
    <3>3. Fits(numberCall[v]) /\ numberCall[v].step = "insert" /\ numberCall[w].step = "insert"
      BY <2>1, <3>1 DEF NumberBase, NumberAt
    <3>4. CASE SameIdentity(Drawn(w), Drawn(v)) /\ Drawn(w).scope = Drawn(v).scope /\ Drawn(w).scope # "none"
      <4>1. Drawn(w).identity.class # NoName /\ Drawn(v).identity.class # NoName
        BY <3>4 DEF SameIdentity
      <4>2. numberCall[w].generated /\ numberCall[v].generated
        BY <2>1, <3>3, <3>4, <4>1 DEF Fits, Drawn
      <4> QED
        BY <3>1, <3>3, <3>4, <4>2 DEF NumberBase, OneHolder, Holding, Drawn
    <3> QED
      BY <3>1, <3>2, <3>4 DEF Comparable
  <2>6. ASSUME NEW v \in AnyWorker, NEW p \in Existing', numberCall'[v].step = "insert",
               SameIdentity(part'[p], numberCall'[v].draft), Comparable(part'[p], numberCall'[v].draft)
        PROVE  part'[p].overridden \/ numberCall'[v].draft.overridden
    BY <1>8, <2>5, <2>6 DEF IdentitiesApart, Drawn
  <2> QED
    BY <1>2, <2>3, <2>6 DEF IdentitiesApart, NumberAt, Drawn, Comparable, SameIdentity, Serial, Workers
<1> QED
  BY <1>7, <1>8, RowsChange

\* Who counts in the step before: a thread that goes on, or the one that has just
\* drawn the next number.
LEMMA CountingWas ==
    ASSUME NumberBase, NEW w \in AnyWorker, NumberEffect(w), NEW v \in AnyWorker, Counting(v)'
    PROVE  \/ Counting(v) /\ Drawn(v)' = Drawn(v)
           \/ v = w /\ GenerateCode(w) /\ Drawn(v)'.number = next["legacy"]
<1>0. numberCall \in [AnyWorker -> NumberCalls]
  BY DEF NumberBase, NumberTyped
<1>1. CASE v # w
  BY <1>1, CallChanges DEF Counting, Drawn
<1>2. CASE v = w /\ numberCall'[w].step = "insert"
  <2>1. Passes(w)
    BY <1>2, CallChanges
  <2>2. Drawn(w)' = Drawn(w) /\ numberCall[w].step = "check"
    BY <1>0, <2>1 DEF Passes, NumberCalls, Drawn, NumberAt
  <2> QED
    BY <1>2, <2>2 DEF Counting
<1>3. CASE v = w /\ numberCall'[w].step = "check"
  <2>1. numberCall'[w].draft.scope = "legacy"
    BY <1>3 DEF Counting, Drawn
  <2>2. ~Requests(w, numberCall'[w]) /\ ~Normalizes(w, numberCall'[w])
    BY <1>3, <2>1 DEF Requests, Normalizes, Ordinary
  <2>3. ~Reserve(w)
    <3>1. ASSUME Reserve(w) PROVE numberCall'[w].draft.scope = numberCall[w].draft.scope
      BY <1>0, <3>1 DEF Reserve, NumberCalls, PartRows
    <3>2. ASSUME Reserve(w) PROVE numberCall[w].draft.scope # "legacy"
      BY <3>2 DEF Reserve, NumberAt, NumberBase, Fits, Ordinary
    <3> QED
      BY <2>1, <3>1, <3>2
  <2>4. GenerateCode(w)
    BY <1>3, <2>2, <2>3, CallChanges
  <2>5. numberCall'[w].draft = LegacyDraft(next["legacy"])
    BY <1>0, <2>4 DEF GenerateCode, IdleNumberCall
  <2>6. LegacyDraft(next["legacy"]).number = next["legacy"]
    BY DEF LegacyDraft, NoPart
  <2> QED
    BY <1>3, <2>4, <2>5, <2>6 DEF Drawn
<1> QED
  BY <1>1, <1>2, <1>3 DEF Counting

LEMMA CountsStep ==
    ASSUME TreeInv, NumberBase, Busy, CountsApart, NEW w \in AnyWorker, NumberEffect(w), UNCHANGED deployment
    PROVE  CountsApart'
<1>0. SUFFICES ASSUME "scheme" \notin deployment.kinds PROVE CountsApart'
  BY DEF CountsApart
<1>1. next \in [Scopes -> 1..MaxNumber + 1] /\ "legacy" \in Scopes /\ next["legacy"] \in Nat
  BY PartBoundsAssumption DEF NumberBase, NumberTyped, Scopes
<1>2. /\ \A p \in Existing : part[p].number \in Nat
      /\ \A v \in AnyWorker : Drawn(v).number \in Nat
  BY PartBoundsAssumption DEF NumberBase, NumberTyped, NumberCalls, PartRows, Existing, Drawn
<1>3. ~SaveScheme(w)
  BY <1>0 DEF SaveScheme, Busy, Asked
<1>4. \/ next'["legacy"] = next["legacy"] /\ ~GenerateCode(w)
      \/ GenerateCode(w) /\ next'["legacy"] = next["legacy"] + 1
  <2>1. GenerateCode(w) => next'["legacy"] = next["legacy"] + 1
    BY <1>1 DEF GenerateCode
  <2> QED
    BY <1>3, <2>1, NextChanges
<1>5. next'["legacy"] \in Nat /\ next'["legacy"] >= next["legacy"]
  BY <1>1, <1>4
<1>6. \A v \in AnyWorker : Counting(v)' =>
        \/ Counting(v) /\ Drawn(v)' = Drawn(v)
        \/ v = w /\ GenerateCode(w) /\ Drawn(v)'.number = next["legacy"]
  BY CountingWas
<1>7. \A v \in AnyWorker : Counting(v)' => Drawn(v)'.number < next'["legacy"]
  BY <1>0, <1>1, <1>2, <1>4, <1>5, <1>6 DEF CountsApart
<1>8. ASSUME NEW v \in AnyWorker, NEW u \in AnyWorker, v # u, Counting(v)', Counting(u)'
      PROVE  Drawn(v)'.number # Drawn(u)'.number
  <2>1. \A x \in AnyWorker : Counting(x) => Drawn(x).number # next["legacy"]
    BY <1>0, <1>1, <1>2 DEF CountsApart
  <2> QED
    BY <1>0, <1>6, <1>8, <2>1 DEF CountsApart
<1>9. CASE Kept
  <2>1. \A p \in Existing' : p \in Existing /\ part'[p].scope = part[p].scope /\ part'[p].number = part[p].number
    BY <1>9, CoreSays DEF Kept
  <2>2. \A p \in Existing' : part'[p].scope = "legacy" => part'[p].number < next["legacy"]
    BY <1>0, <2>1 DEF CountsApart
  <2>3. \A p \in Existing' : part'[p].scope = "legacy" => part'[p].number < next'["legacy"] /\ part'[p].number # next["legacy"]
    BY <1>1, <1>2, <1>5, <2>1, <2>2
  <2>4. \A p \in Existing', v \in AnyWorker : Counting(v)' /\ part'[p].scope = "legacy" => part'[p].number # Drawn(v)'.number
    BY <1>0, <1>6, <2>1, <2>3 DEF CountsApart
  <2>5. \A p, q \in Existing' : p # q /\ part'[p].scope = "legacy" /\ part'[q].scope = "legacy" => part'[p].number # part'[q].number
    BY <1>0, <2>1 DEF CountsApart
  <2> QED
    BY <1>7, <1>8, <2>3, <2>4, <2>5 DEF CountsApart
<1>10. ASSUME NEW new \in Parts \ Existing, Inserts(w, new), Existing' = Existing \cup {new},
              part'[new] = Drawn(w), \A p \in Existing : part'[p] = part[p]
       PROVE  CountsApart'
  <2>1. numberCall[w].step = "insert" /\ ~GenerateCode(w)
    BY <1>10, IdleNumberTyped DEF Inserts, NumberAt, GenerateCode, NumberServes
  <2>2. Drawn(w).scope = "legacy" => Counting(w)
    BY <2>1 DEF Counting
  <2>3. \A p \in Existing' : part'[p].scope = "legacy" => part'[p].number < next["legacy"]
    BY <1>0, <1>10, <2>2 DEF CountsApart
  <2>4. \A p \in Existing' : part'[p].scope = "legacy" => part'[p].number < next'["legacy"]
    BY <1>4, <2>1, <2>3
  <2>5. ~Counting(w)'
    BY <1>10, IdleNumberTyped DEF Inserts, NumberFinish, NumberBase, NumberTyped, Counting
  <2>6. \A v \in AnyWorker : Counting(v)' => v # w /\ Counting(v) /\ Drawn(v)' = Drawn(v)
    BY <1>6, <2>1, <2>5
  <2>7. \A p \in Existing', v \in AnyWorker : Counting(v)' /\ part'[p].scope = "legacy" => part'[p].number # Drawn(v)'.number
    BY <1>0, <1>10, <2>2, <2>6 DEF CountsApart
  <2>8. \A p \in Existing : Drawn(w).scope = "legacy" /\ part[p].scope = "legacy" => part[p].number # Drawn(w).number
    BY <1>0, <2>2 DEF CountsApart
  <2>9. \A p, q \in Existing' : p # q /\ part'[p].scope = "legacy" /\ part'[q].scope = "legacy" => part'[p].number # part'[q].number
    BY <1>0, <1>10, <2>8 DEF CountsApart
  <2> QED
    BY <1>7, <1>8, <2>4, <2>7, <2>9 DEF CountsApart
<1> QED
  BY <1>9, <1>10, RowsChange

LEMMA IdentifiersStep ==
    ASSUME TreeInv, NumberBase, Busy, IdentifiersApart, NEW w \in AnyWorker, NumberEffect(w), UNCHANGED deployment
    PROVE  IdentifiersApart'
<1>0. SUFFICES ASSUME Serial PROVE IdentifiersApart'
  BY DEF IdentifiersApart, Serial, Workers
<1>1. part \in [Parts -> PartRows] /\ numberCall \in [AnyWorker -> NumberCalls]
  BY DEF NumberBase, NumberTyped
<1>2. \A v \in AnyWorker : numberCall'[v].step \in {"insert", "identifier"} =>
        v = w /\ (Passes(w) \/ (Reads(w, numberCall'[w]) /\ numberCall'[w].step = "identifier"))
  BY <1>0, Alone, CallChanges
<1>3. CASE UNCHANGED part
  <2>1. Existing' = Existing
    BY <1>3 DEF Existing
  <2>2. \A v \in AnyWorker : numberCall'[v].step \in {"insert", "identifier"} =>
          \A id \in numberCall'[v].draft.identifiers : Owner(id) = {}
    <3>1. Passes(w) => \A id \in numberCall'[w].draft.identifiers : Owner(id) = {}
      BY <1>1 DEF Passes, NumberCalls
    <3>2. Reads(w, numberCall'[w]) /\ numberCall'[w].step = "identifier" =>
            \A id \in numberCall'[w].draft.identifiers : Owner(id) = {}
      BY DEF Reads
    <3> QED
      BY <1>2, <3>1, <3>2
  <2> QED
    BY <1>0, <1>3, <2>1, <2>2 DEF IdentifiersApart, Drawn, Owner
<1>4. ASSUME numberCall'[w].step = "idle",
             \A p, q \in Existing' : p # q => part'[p].identifiers \cap part'[q].identifiers = {}
      PROVE  IdentifiersApart'
  BY <1>0, <1>2, <1>4 DEF IdentifiersApart, Drawn
<1>5. ASSUME NEW new \in Parts, Inserts(w, new), numberCall'[w].step = "idle" PROVE IdentifiersApart'
  <2>1. NumberAt(w, "insert") /\ part' = [part EXCEPT ![new] = Drawn(w)] /\ new \notin Existing
    BY <1>5 DEF Inserts, Drawn
  <2>2. \A id \in Drawn(w).identifiers : Owner(id) = {}
    BY <1>0, <2>1 DEF IdentifiersApart, NumberAt
  <2>3. \A p \in Existing : part[p].identifiers \cap Drawn(w).identifiers = {}
    BY <2>2 DEF Owner
  <2>4. part'[new] = Drawn(w) /\ \A p \in Parts \ {new} : part'[p] = part[p]
    BY <1>1, <2>1
  <2>5. \A p \in Existing' : p = new \/ (p # new /\ p \in Existing)
    BY <2>4 DEF Existing
  <2>6. \A p \in Existing : p \in Parts \ {new}
    BY <2>1 DEF Existing
  <2> QED
    BY <1>0, <1>4, <1>5, <2>3, <2>4, <2>5, <2>6 DEF IdentifiersApart
<1>6. ASSUME NEW p \in Parts, Deletes(w, p), numberCall'[w].step = "idle" PROVE IdentifiersApart'
  <2>1. part'[p] = NoPart /\ \A q \in Parts \ {p} : part'[q] = part[q]
    BY <1>1, <1>6 DEF Deletes
  <2>2. \A q \in Existing' : q \in Existing /\ part'[q] = part[q]
    BY <2>1, NoPartTyped DEF Existing
  <2> QED
    BY <1>0, <1>4, <1>6, <2>2 DEF IdentifiersApart
<1>7. ASSUME NEW p \in Parts, NEW row \in PartRows, Edits(w, p, row), numberCall'[w].step = "idle"
      PROVE  IdentifiersApart'
  <2>1. part'[p] = row /\ \A q \in Parts \ {p} : part'[q] = part[q]
    BY <1>1, <1>7 DEF Edits
  <2>2. p \in Existing /\ row.exists = part[p].exists
    BY <1>7, CoreSays DEF Edits
  <2>3. Existing' = Existing
    BY <2>1, <2>2 DEF Existing
  <2>4. \A q \in Existing \ {p} : row.identifiers \cap part[q].identifiers = {}
    <3>1. CASE row.identifiers \subseteq part[p].identifiers
      BY <1>0, <2>2, <3>1 DEF IdentifiersApart
    <3>2. CASE NumberAt(w, "identifier") /\ row.identifiers = part[p].identifiers \cup Drawn(w).identifiers
      <4>1. \A id \in Drawn(w).identifiers : Owner(id) = {}
        BY <1>0, <3>2 DEF IdentifiersApart, NumberAt
      <4>2. \A q \in Existing : part[q].identifiers \cap Drawn(w).identifiers = {}
        BY <4>1 DEF Owner
      <4> QED
        BY <1>0, <2>2, <3>2, <4>2 DEF IdentifiersApart
    <3> QED
      BY <1>7, <3>1, <3>2 DEF Edits, Drawn
  <2>5. \A q \in Existing \ {p} : part'[q] = part[q]
    BY <2>1 DEF Existing
  <2> QED
    BY <1>0, <1>4, <1>7, <2>1, <2>3, <2>4, <2>5 DEF IdentifiersApart
<1> QED
  BY <1>3, <1>5, <1>6, <1>7, PartsChange

\* One part has a new code that nobody else has.
LEMMA CodeGiven ==
    ASSUME CodesUnique, UNCHANGED deployment, NEW p \in Parts, NEW code,
           \A o \in Existing \ {p} : part[o].code # code,
           Serial => ~CodeTaken(code, Existing \ {p}),
           p \in Existing' => part'[p].code = code,
           \A q \in Existing' \ {p} : q \in Existing /\ part'[q].code = part[q].code
    PROVE  CodesUnique'
<1>0. Serial' = Serial
  BY DEF Serial, Workers
<1>1. ASSUME NEW q \in Existing', NEW r \in Existing', q # r
      PROVE  part'[q].code # part'[r].code /\ (Serial => Folded(part'[q].code) # Folded(part'[r].code))
  <2> HIDE DEF Serial
  <2>1. CASE q # p /\ r # p
    BY <1>1, <2>1 DEF CodesUnique
  <2>2. CASE q = p
    BY <1>1, <2>2 DEF CodeTaken
  <2>3. CASE r = p
    BY <1>1, <2>3 DEF CodeTaken
  <2> QED
    BY <2>1, <2>2, <2>3
<1> QED
  BY <1>0, <1>1 DEF CodesUnique, Folded

LEMMA CodesStep ==
    ASSUME TreeInv, NumberBase, Busy, CodesApart, NEW w \in AnyWorker, NumberEffect(w), UNCHANGED deployment
    PROVE  CodesApart'
<1>0. Serial' = Serial
  BY DEF Serial, Workers
<1>1. part \in [Parts -> PartRows] /\ numberCall \in [AnyWorker -> NumberCalls]
  BY DEF NumberBase, NumberTyped
<1>2. Serial => \A v \in AnyWorker :
        /\ numberCall'[v].step = "insert" => v = w /\ Passes(w)
        /\ numberCall'[v].step = "rename" => v = w /\ Reads(w, numberCall'[w])
  BY Alone, CallChanges
<1>3. CASE UNCHANGED part
  <2>1. Existing' = Existing
    BY <1>3 DEF Existing
  <2>2. Passes(w) => ~CodeTaken(numberCall'[w].draft.code, Existing)
    BY <1>1 DEF Passes, NumberCalls
  <2>3. Reads(w, numberCall'[w]) /\ numberCall'[w].step = "rename" =>
          ~CodeTaken(numberCall'[w].draft.code, Existing \ {numberCall'[w].part})
    BY DEF Reads
  <2>4. CodesUnique'
    BY <1>0, <1>3, <2>1 DEF CodesApart, CodesUnique, Folded
  <2>5. Serial => \A v \in AnyWorker :
          /\ numberCall'[v].step = "insert" => ~CodeTaken(numberCall'[v].draft.code, Existing)
          /\ numberCall'[v].step = "rename" => ~CodeTaken(numberCall'[v].draft.code, Existing \ {numberCall'[v].part})
    BY <1>2, <2>2, <2>3
  <2> QED
    BY <1>0, <1>3, <2>1, <2>4, <2>5 DEF CodesApart, NumberAt, Drawn, CodeTaken, Folded
<1>4. ASSUME numberCall'[w].step = "idle", CodesUnique' PROVE CodesApart'
  BY <1>0, <1>2, <1>4 DEF CodesApart, NumberAt
<1>5. ASSUME NEW new \in Parts, Inserts(w, new), numberCall'[w].step = "idle" PROVE CodesApart'
  <2>1. /\ NumberAt(w, "insert") /\ part' = [part EXCEPT ![new] = Drawn(w)] /\ new \notin Existing
        /\ \A p \in Existing : part[p].code # Drawn(w).code
    BY <1>5 DEF Inserts, Drawn
  <2>2. Serial => ~CodeTaken(Drawn(w).code, Existing)
    BY <2>1 DEF CodesApart
  <2>3. part'[new] = Drawn(w) /\ \A p \in Parts \ {new} : part'[p] = part[p]
    BY <1>1, <2>1
  <2>4. \A q \in Existing' \ {new} : q \in Existing /\ part'[q].code = part[q].code
    BY <2>3 DEF Existing
  <2>5. Existing \ {new} = Existing
    BY <2>1
  <2>6. CodesUnique'
    BY <2>1, <2>2, <2>3, <2>4, <2>5, CodeGiven DEF CodesApart
  <2> QED
    BY <1>4, <1>5, <2>6
<1>6. ASSUME NEW p \in Parts, Deletes(w, p), numberCall'[w].step = "idle" PROVE CodesApart'
  <2>1. part'[p] = NoPart /\ \A q \in Parts \ {p} : part'[q] = part[q]
    BY <1>1, <1>6 DEF Deletes
  <2>2. \A q \in Existing' : q \in Existing /\ part'[q] = part[q]
    BY <2>1, NoPartTyped DEF Existing
  <2>3. CodesUnique'
    BY <1>0, <2>2 DEF CodesApart, CodesUnique, Folded
  <2> QED
    BY <1>4, <1>6, <2>3
<1>7. ASSUME NEW p \in Parts, NEW row \in PartRows, Edits(w, p, row), numberCall'[w].step = "idle"
      PROVE  CodesApart'
  <2>1. part'[p] = row /\ \A q \in Parts \ {p} : part'[q] = part[q]
    BY <1>1, <1>7 DEF Edits
  <2>2. p \in Existing /\ row.exists = part[p].exists
    BY <1>7, CoreSays DEF Edits
  <2>3. \A q \in Existing' \ {p} : q \in Existing /\ part'[q].code = part[q].code
    BY <2>1 DEF Existing
  <2>4. CASE row.code = part[p].code
    <3>1. \A o \in Existing \ {p} : part[o].code # row.code
      BY <2>2, <2>4 DEF CodesApart, CodesUnique
    <3>2. Serial => ~CodeTaken(row.code, Existing \ {p})
      BY <2>2, <2>4 DEF CodesApart, CodesUnique, CodeTaken
    <3>3. CodesUnique'
      BY <2>1, <2>3, <3>1, <3>2, CodeGiven DEF CodesApart
    <3> QED
      BY <1>4, <1>7, <3>3
  <2>5. CASE /\ NumberAt(w, "rename") /\ p = numberCall[w].part /\ row.code = Drawn(w).code
             /\ \A o \in Existing \ {p} : part[o].code # row.code
    <3>1. Serial => ~CodeTaken(row.code, Existing \ {p})
      BY <2>5 DEF CodesApart
    <3>2. CodesUnique'
      BY <2>1, <2>3, <2>5, <3>1, CodeGiven DEF CodesApart
    <3> QED
      BY <1>4, <1>7, <3>2
  <2> QED
    BY <1>7, <2>4, <2>5 DEF Edits, Drawn
<1> QED
  BY <1>3, <1>5, <1>6, <1>7, PartsChange

\* Where codes are only generated, templates keep their segments.
LEMMA SegmentsKept ==
    ASSUME TreeInv, CodesBehind, OnlyGenerated, NEW w \in AnyWorker, TemplateStep(w), UNCHANGED deployment
    PROVE  segments' = segments /\ \A v \in AnyWorker : ~TemplateAt(v, "segment")'
<1>1. \A kind \in {"create template", "clone template", "destroy template", "segment", "remove segment", "scheme active"} :
        ~Asked(kind)
  BY DEF OnlyGenerated, Asked
<1>2. ~TemplateAt(w, "segment") /\ \A v \in AnyWorker : templateCall[v].step # "segment"
  BY DEF CodesBehind, TemplateAt
<1>3. templateCall \in [AnyWorker -> TemplateCalls]
  BY DEF TreeInv, TemplateTyped
<1>4. TemplateFinish(w) => \A v \in AnyWorker : templateCall'[v].step # "segment"
  BY <1>2, <1>3, IdleTemplateTyped DEF TemplateFinish
<1>5. CASE ActivateTemplate(w) \/ SaveRetire(w) \/ SaveTemplatePatch(w)
  BY <1>4, <1>5 DEF ActivateTemplate, SaveRetire, SaveTemplatePatch, TemplateAt
<1>6. ASSUME NEW k, k.step # "segment", templateCall' = [templateCall EXCEPT ![w] = k]
      PROVE  \A v \in AnyWorker : templateCall'[v].step # "segment"
  BY <1>2, <1>3, <1>6
<1>7. ASSUME NEW t \in Templates, NEW day \in Days, LockTemplate(w, t, day)
      PROVE  segments' = segments /\ \A v \in AnyWorker : templateCall'[v].step # "segment"
  <2> DEFINE row == [template[t] EXCEPT !.from = IF @ = None THEN day ELSE @]
             others == Effectual(row.class) \ {t}
             k == [IdleTemplateCall EXCEPT !.step = "ready", !.version = t, !.copy = row, !.others = others]
  <2>1. templateCall' = [templateCall EXCEPT ![w] = k] /\ segments' = segments
    BY <1>7 DEF LockTemplate
  <2> HIDE DEF row, others
  <2>2. k.step # "segment"
    BY DEF IdleTemplateCall
  <2> HIDE DEF k
  <2> QED
    BY <1>6, <2>1, <2>2
<1>8. ASSUME NEW t \in Templates, NEW copy, NEW kind, NEW step \in {"retire", "patch"}, ReadTemplate(w, kind, step, t, copy)
      PROVE  segments' = segments /\ \A v \in AnyWorker : templateCall'[v].step # "segment"
  BY <1>6, <1>8 DEF ReadTemplate, IdleTemplateCall
<1>9. ASSUME NEW t \in Templates, ReadRetire(w, t) \/ \E copy \in TemplateRows : ReadTemplatePatch(w, t, copy)
      PROVE  segments' = segments /\ \A v \in AnyWorker : templateCall'[v].step # "segment"
  BY <1>8, <1>9 DEF ReadRetire, ReadTemplatePatch
<1>10. ~SwitchScheme(w) /\ ~SaveSegment(w)
  BY <1>1, <1>2 DEF SwitchScheme, SaveSegment, TemplateServes
<1>11. ASSUME NEW t \in Templates
       PROVE  /\ \A row \in TemplateRows : ~CreateTemplate(w, t, row)
              /\ \A s \in Templates : ~CloneTemplate(w, s, t)
              /\ ~DestroyTemplate(w, t)
              /\ \A s \in SegmentKinds : ~RemoveSegment(w, t, s)
  BY <1>1 DEF CreateTemplate, CloneTemplate, DestroyTemplate, RemoveSegment, TemplateServes
<1>12. ASSUME NEW t \in Templates, NEW removes, NEW adds PROVE ~ReadSegment(w, t, removes, adds)
  BY <1>1 DEF ReadSegment, TemplateServes
<1> QED
  BY <1>5, <1>7, <1>9, <1>10, <1>11, <1>12, TemplateCases DEF TemplateAt

LEMMA CodesStay ==
    ASSUME NumberBase, Busy, CodesBehind, NEW w \in AnyWorker, NumberEffect(w), UNCHANGED <<classVars, templateVars>>
    PROVE  CodesBehind'
<1>1. (OnlyGenerated' <=> OnlyGenerated) /\ (Apart' <=> Apart) /\ \A v \in AnyWorker : TemplateAt(v, "segment")' <=> TemplateAt(v, "segment")
  BY DEF OnlyGenerated, Apart, ApartBy, NamesStay, TemplateAt, classVars, templateVars
<1>2. deployment' = deployment
  BY DEF classVars
<1>3. \A row : (Tells(row)' <=> Tells(row)) /\ (Coded(row)' <=> Coded(row))
  BY <1>2 DEF Tells, Coded
<1>4. SUFFICES ASSUME OnlyGenerated, Apart
      PROVE  /\ \A p \in Existing' : Coded(part'[p])
             /\ \A v \in AnyWorker :
                  /\ numberCall'[v].step = "normalize" => numberCall'[v].generated
                  /\ numberCall'[v].step = "reserve" => Tells(numberCall'[v].draft)
                  /\ numberCall'[v].step \in {"check", "insert"} => Coded(numberCall'[v].draft)
  BY <1>1, <1>2 DEF CodesBehind, NumberAt, Drawn, Tells, Coded
<1>5. part \in [Parts -> PartRows] /\ numberCall \in [AnyWorker -> NumberCalls]
  BY DEF NumberBase, NumberTyped
<1>6. ~Asked("legacy") /\ ~Asked("rename")
  BY <1>4 DEF OnlyGenerated, Asked
<1>7. /\ \A p \in Existing : Coded(part[p])
      /\ \A v \in AnyWorker :
           /\ numberCall[v].step = "normalize" => numberCall[v].generated
           /\ numberCall[v].step = "reserve" => Tells(numberCall[v].draft)
           /\ numberCall[v].step \in {"check", "insert"} => Coded(numberCall[v].draft)
  BY <1>4 DEF CodesBehind, NumberAt, Drawn
<1>8. \A p \in Existing' : Coded(part'[p])
  <2>1. ASSUME NEW new \in Parts, Inserts(w, new) PROVE \A p \in Existing' : Coded(part'[p])
    <3>1. part'[new] = numberCall[w].draft /\ \A p \in Parts \ {new} : part'[p] = part[p]
      BY <1>5, <2>1 DEF Inserts
    <3>2. Coded(numberCall[w].draft)
      BY <1>7, <2>1 DEF Inserts, NumberAt
    <3> QED
      BY <1>7, <3>1, <3>2 DEF Existing
  <2>2. ASSUME NEW p \in Parts, Deletes(w, p) PROVE \A q \in Existing' : Coded(part'[q])
    <3>1. part'[p] = NoPart /\ \A q \in Parts \ {p} : part'[q] = part[q]
      BY <1>5, <2>2 DEF Deletes
    <3> QED
      BY <1>7, <3>1, NoPartTyped DEF Existing
  <2>3. ASSUME NEW p \in Parts, NEW row \in PartRows, Edits(w, p, row) PROVE \A q \in Existing' : Coded(part'[q])
    <3>1. part'[p] = row /\ \A q \in Parts \ {p} : part'[q] = part[q]
      BY <1>5, <2>3 DEF Edits
    <3>2. row.code = part[p].code /\ p \in Existing /\ Core(row) = Core(part[p])
      BY <1>6, <2>3 DEF Edits, Busy
    <3>3. Coded(row)
      BY <1>7, <3>2, CoreSays DEF Coded, Tells
    <3> QED
      BY <1>7, <3>1, <3>3 DEF Existing
  <2>4. CASE UNCHANGED part
    BY <1>7, <2>4 DEF Existing
  <2> QED
    BY <2>1, <2>2, <2>3, <2>4, PartsChange
<1>9. ASSUME NEW k, Requests(w, k) PROVE k.step = "normalize" /\ k.generated
  BY <1>4, <1>9 DEF Requests
<1>10. ASSUME NEW k, Normalizes(w, k) PROVE (k.step = "reserve" => Tells(k.draft)) /\ (k.step = "check" => Coded(k.draft))
  BY <1>4, <1>7, <1>10 DEF Normalizes, Coded, NumberAt
<1>11. ASSUME Reserve(w) PROVE Coded(numberCall'[w].draft)
  <2>1. Fits(numberCall[w]) /\ numberCall[w].step = "reserve" /\ numberCall[w] \in NumberCalls
    BY <1>5, <1>11 DEF NumberBase, Reserve, NumberAt
  <2>2. Tells(numberCall[w].draft) /\ numberCall[w].draft.scope \in Ordinary
    BY <1>7, <2>1 DEF Fits
  <2>3. PICK n : n = next[numberCall[w].draft.scope]
    OBVIOUS
  <2>4. PICK draft \in PartRows : draft = numberCall[w].draft
    BY <2>1 DEF NumberCalls
  <2>5. numberCall'[w].draft = [draft EXCEPT !.number = n, !.code.number = n]
    BY <1>5, <1>11, <2>1, <2>3, <2>4 DEF Reserve, NumberCalls
  <2>6. /\ numberCall'[w].draft.scope = draft.scope /\ numberCall'[w].draft.number = n
        /\ numberCall'[w].draft.code = [draft.code EXCEPT !.number = n]
    BY <2>5 DEF PartRows
  <2>7. [draft.code EXCEPT !.number = n].number = n /\ [draft.code EXCEPT !.number = n].class = draft.code.class
        /\ [draft.code EXCEPT !.number = n].domain = draft.code.domain
    BY DEF PartRows, Codes
  <2> QED
    BY <2>2, <2>4, <2>6, <2>7 DEF Coded, Tells, Ordinary
<1>12. ASSUME Passes(w) PROVE Coded(numberCall'[w].draft)
  <2>1. numberCall'[w].draft = numberCall[w].draft
    BY <1>5, <1>12 DEF Passes, NumberCalls
  <2> QED
    BY <1>7, <1>12, <2>1 DEF Passes, NumberAt
<1>13. ~GenerateCode(w)
  BY <1>6 DEF GenerateCode, NumberServes
<1>14. ASSUME NEW v \in AnyWorker
       PROVE  /\ numberCall'[v].step = "normalize" => numberCall'[v].generated
              /\ numberCall'[v].step = "reserve" => Tells(numberCall'[v].draft)
              /\ numberCall'[v].step \in {"check", "insert"} => Coded(numberCall'[v].draft)
  <2>1. CASE v # w
    BY <1>7, <2>1, CallChanges
  <2>2. CASE v = w
    BY <1>9, <1>10, <1>11, <1>12, <1>13, <2>2, CallChanges
  <2> QED
    BY <2>1, <2>2
<1> QED
  BY <1>8, <1>14

LEMMA ApartInitial == Init => PartsApart
<1> SUFFICES ASSUME NEW d \in Deployments, ClassInit(d), TemplateInit(d), NumberInit(d) PROVE PartsApart
  BY DEF Init
<1>1. /\ \A p \in Parts : part[p] = NoPart
      /\ \A w \in AnyWorker : numberCall[w] = IdleNumberCall /\ templateCall[w] = IdleTemplateCall
  BY DEF NumberInit, TemplateInit
<1>2. Existing = {} /\ \A v \in AnyWorker : numberCall[v].step = "idle" /\ templateCall[v].step = "idle"
  BY <1>1, NoPartTyped, IdleNumberTyped, IdleTemplateTyped DEF Existing
<1>3. Busy /\ SequencesApart
  BY <1>2 DEF Busy, SequencesApart, NumberAt
<1>4. CountsApart /\ IdentitiesApart
  BY <1>2 DEF CountsApart, IdentitiesApart, IdentitiesUnique, NumberAt, Counting
<1>5. CodesApart /\ IdentifiersApart
  BY <1>2 DEF CodesApart, CodesUnique, IdentifiersApart, NumberAt
<1>6. CodesBehind
  BY <1>2 DEF CodesBehind, NumberAt, TemplateAt
<1> QED
  BY <1>3, <1>4, <1>5, <1>6 DEF PartsApart

\* A step that touches no part leaves what is said about parts.
LEMMA ApartUntouched ==
    ASSUME PartsApart, UNCHANGED <<deployment, part, next, numberCall>>
    PROVE  Busy' /\ SequencesApart' /\ CountsApart' /\ IdentitiesApart' /\ CodesApart' /\ IdentifiersApart'
<1>1. Existing' = Existing /\ (Serial' <=> Serial) /\ Workers' = Workers
  BY DEF Existing, Serial, Workers
<1>2. /\ \A v \in AnyWorker : (Counting(v)' <=> Counting(v)) /\ Drawn(v)' = Drawn(v)
      /\ \A v \in AnyWorker : \A step : NumberAt(v, step)' <=> NumberAt(v, step)
  BY DEF Counting, Drawn, NumberAt
<1>3. Busy' /\ SequencesApart'
  BY <1>1 DEF PartsApart, Busy, SequencesApart, NumberAt, Asked
<1>4. CountsApart'
  BY <1>1, <1>2 DEF PartsApart, CountsApart, Drawn
<1>5. IdentitiesApart'
  BY <1>1 DEF PartsApart, IdentitiesApart, IdentitiesUnique, SameIdentity, Comparable, NumberAt, Drawn
<1>6. CodesApart'
  BY <1>1 DEF PartsApart, CodesApart, CodesUnique, CodeTaken, Folded, NumberAt, Drawn
<1>7. IdentifiersApart'
  BY <1>1 DEF PartsApart, IdentifiersApart, Owner, Drawn
<1> QED
  BY <1>3, <1>4, <1>5, <1>6, <1>7

LEMMA CodesUntouched ==
    ASSUME CodesBehind, UNCHANGED <<deployment, part, next, numberCall>>,
           OnlyGenerated => segments' = segments /\ \A v \in AnyWorker : ~TemplateAt(v, "segment")'
    PROVE  CodesBehind'
<1>1. Existing' = Existing /\ (OnlyGenerated' <=> OnlyGenerated)
  BY DEF Existing, OnlyGenerated
<1>2. OnlyGenerated => (Apart' <=> Apart)
  BY DEF Apart, ApartBy, NamesStay
<1> QED
  BY <1>1, <1>2 DEF CodesBehind, Coded, Tells, NumberAt, Drawn, TemplateAt

LEMMA ClassKeeps ==
    ASSUME NEW w \in AnyWorker, ClassStep(w) PROVE UNCHANGED deployment
BY DEF ClassStep, ClassStarts, ReadClass, DeleteClass, Assign, SaveClass

LEMMA ApartNext ==
    TreeInv /\ NumberBase /\ PartsApart /\ [Next]_vars => PartsApart'
<1> SUFFICES ASSUME TreeInv, NumberBase, PartsApart, [Next]_vars PROVE PartsApart'
  OBVIOUS
<1>1. CASE UNCHANGED vars
  <2>1. UNCHANGED <<deployment, part, next, numberCall, segments, templateCall>>
    BY <1>1 DEF vars, classVars, templateVars
  <2>2. CodesBehind'
    BY <2>1, CodesUntouched DEF PartsApart, CodesBehind, TemplateAt
  <2> QED
    BY <2>1, <2>2, ApartUntouched DEF PartsApart
<1>2. ASSUME NEW w \in AnyWorker, ClassStep(w), UNCHANGED <<templateVars, part, next, numberCall>> PROVE PartsApart'
  <2>1. UNCHANGED <<deployment, part, next, numberCall, segments, templateCall>>
    BY <1>2, ClassKeeps DEF templateVars
  <2>2. CodesBehind'
    BY <2>1, CodesUntouched DEF PartsApart, CodesBehind, TemplateAt
  <2> QED
    BY <2>1, <2>2, ApartUntouched DEF PartsApart
<1>3. ASSUME NEW w \in AnyWorker, TemplateStep(w), UNCHANGED <<classVars, part, next, numberCall>> PROVE PartsApart'
  <2>1. UNCHANGED <<deployment, part, next, numberCall>>
    BY <1>3 DEF classVars
  <2>2. CodesBehind'
    BY <1>3, <2>1, SegmentsKept, CodesUntouched DEF PartsApart
  <2> QED
    BY <2>1, <2>2, ApartUntouched DEF PartsApart
<1>4. ASSUME NEW w \in AnyWorker, NumberStep(w), UNCHANGED <<classVars, templateVars>> PROVE PartsApart'
  <2>1. NumberEffect(w) /\ UNCHANGED deployment
    BY <1>4, NumberCases DEF classVars
  <2> QED
    BY <1>4, <2>1, BusyStep, SequencesStep, CountsStep, IdentitiesStep, CodesStep, IdentifiersStep, CodesStay DEF PartsApart
<1> QED
  BY <1>1, <1>2, <1>3, <1>4, StepKinds

LEMMA ApartAlways == Spec => [](TreeInv /\ NumberBase /\ PartsApart)
<1>1. Init => TreeInv /\ NumberBase /\ PartsApart
  BY TreeInit, NumberInitial, ApartInitial
<1>2. TreeInv /\ NumberBase /\ PartsApart /\ [Next]_vars => (TreeInv /\ NumberBase /\ PartsApart)'
  BY BaseNext, ApartNext
<1> QED
  BY <1>1, <1>2, PTL DEF Spec

\* What the invariants say of the numbers, codes and identifiers of parts.
LEMMA NumbersFollow ==
    ASSUME NumberBase, SequencesApart, CountsApart PROVE NumbersUnique
<1> DEFINE Counted_(s) == s \in Ordinary \/ (s = "legacy" /\ "scheme" \notin deployment.kinds)
<1>1. \A p \in Existing : part[p].number \in Nat
  BY PartBoundsAssumption DEF NumberBase, NumberTyped, PartRows, Existing
<1>2. \A p, q \in Existing : p # q => ~(/\ part[p].scope = part[q].scope /\ Counted_(part[p].scope)
                                        /\ part[p].number = part[q].number)
  BY DEF SequencesApart, CountsApart
<1>3. ASSUME NEW p \in Existing, NEW v \in AnyWorker, NumberAt(v, "insert"),
             part[p].scope = Drawn(v).scope, Counted_(part[p].scope), part[p].number = Drawn(v).number
      PROVE  FALSE
  <2>1. CASE part[p].scope = "legacy" /\ "scheme" \notin deployment.kinds
    BY <1>3, <2>1 DEF CountsApart, Counting, NumberAt
  <2>2. CASE part[p].scope \in Ordinary
    <3>1. Fits(numberCall[v]) /\ numberCall[v].step = "insert"
      BY <1>3 DEF NumberBase, NumberAt
    <3>2. Drawn(v).number = next[Drawn(v).scope]
      BY <1>3, <2>2, <3>1 DEF Fits, Drawn, Ordinary
    <3>3. part[p].number < next[part[p].scope]
      BY <2>2 DEF SequencesApart
    <3> QED
      BY <1>1, <1>3, <3>2, <3>3
  <2> QED
    BY <1>3, <2>1, <2>2
<1>4. \A s \in Scopes \ (IF "scheme" \in deployment.kinds THEN {"none", "legacy"} ELSE {"none"}) : Counted_(s)
  BY DEF Ordinary
<1> HIDE DEF Counted_
<1> QED
  BY <1>2, <1>3, <1>4 DEF NumbersUnique, NumberAt, Drawn

LEMMA OneOwner ==
    ASSUME IdentifiersApart PROVE IdentifiersUnique
<1> SUFFICES ASSUME Serial, NEW id \in Identifiers PROVE Cardinality(Owner(id)) <= 1
  BY DEF IdentifiersUnique
<1>1. \A p, q \in Owner(id) : p = q
  BY DEF IdentifiersApart, Owner
<1>2. CASE Owner(id) = {}
  BY <1>2, FS_EmptySet
<1>3. CASE Owner(id) # {}
  <2>1. PICK p : Owner(id) = {p}
    BY <1>1, <1>3
  <2> QED
    BY <2>1, FS_Singleton
<1> QED
  BY <1>2, <1>3

LEMMA CodeToCome ==
    ASSUME TreeInv, NumberBase, SequencesApart, CodesBehind PROVE NextCodeFree
<1> SUFFICES ASSUME OnlyGenerated, Apart, NEW t \in Templates, "number" \in segments[t], NEW p \in Existing,
                    part[p].code.number = next[ScopeOf(template[t].class)], NEW payload,
                    part[p].code.class = CodeFrom(t, payload).class,
                    part[p].code.domain = CodeFrom(t, payload).domain
             PROVE  FALSE
  BY DEF NextCodeFree, OnlyGenerated, Apart, ApartBy, NamesStay
<1> DEFINE c == template[t].class
           s == ScopeOf(c)
<1>1. c \in Classes /\ Present(c)
  BY DEF TreeInv, Founded
<1>2. s \in Ordinary
  BY <1>1, ScopeIsOrdinary
<1>3. next[s] \in Nat /\ next[s] >= 1
  BY <1>2, PartBoundsAssumption DEF NumberBase, NumberTyped, Ordinary
<1>4. Coded(part[p])
  BY DEF CodesBehind
<1>5. part[p].scope # "none"
  BY <1>3, <1>4 DEF Coded
<1>6. part[p].scope = s
  <2>1. /\ CodeFrom(t, payload).class = IF "class" \in segments[t] THEN class[c].code ELSE NoName
        /\ CodeFrom(t, payload).domain = IF "domain" \in segments[t] THEN class[c].domain ELSE NoName
        /\ NamesStay => class[c].code = deployment.names[c]
    BY <1>1 DEF CodeFrom, TreeInv, ClassInv
  <2>2. segments[t] \cap ApartBy # {} /\ Tells(part[p])
    BY <1>4, <1>5 DEF Apart, Coded
  <2>3. CASE deployment.scope = "GLOBAL"
    BY <2>2, <2>3 DEF Tells, ScopeOf
  <2>4. CASE deployment.scope = "DOMAIN"
    BY <2>1, <2>2, <2>4 DEF Tells, ScopeOf, ApartBy
  <2>5. CASE deployment.scope \notin {"GLOBAL", "DOMAIN"}
    BY <1>1, <2>1, <2>2, <2>5 DEF Tells, ScopeOf, Apart, ApartBy
  <2> QED
    BY <2>3, <2>4, <2>5
<1>7. part[p].number < next[s] /\ part[p].code.number = part[p].number
  BY <1>2, <1>4, <1>5, <1>6 DEF SequencesApart, Coded
<1> QED
  BY <1>3, <1>7, PartBoundsAssumption DEF NumberBase, NumberTyped, PartRows, Existing

\* No number, identity, code or identifier names two parts, and where codes are
\* generated apart the next number's code is free.
THEOREM NothingNamesTwo == Spec => []PartsUnique
<1>1. TreeInv /\ NumberBase => TypeOK
  BY DEF TreeInv, ClassInv, TemplateTyped, NumberBase, NumberTyped, NumberCalls, TypeOK
<1>2. TreeInv /\ NumberBase /\ PartsApart => PartsUnique
  BY <1>1, NumbersFollow, OneOwner, CodeToCome DEF PartsApart, PartsUnique, IdentitiesApart, CodesApart
<1> QED
  BY <1>2, ApartAlways, PTL

-----------------------------------------------------------------------------
(* What a step does to the templates *)

\* A call begins: a template is locked for its activation, or a row is loaded.
Loads(w, k) ==
    LET t == k.version IN
    /\ w \in Workers /\ TemplateAt(w, "idle") /\ UNCHANGED <<template, segments>>
    /\ templateCall' = [templateCall EXCEPT ![w] = k]
    /\ t \in Templates /\ TemplateExists(t)
    /\ \/ /\ k.step = "ready" /\ SchemeFree
          /\ k.copy.class = template[t].class /\ k.copy.to = template[t].to /\ k.copy.from # None
          /\ template[t].from # None => k.copy.from = template[t].from
          /\ k.others = Effectual(template[t].class) \ {t}
          /\ \A o \in k.others : ~TemplatesOverlap(k.copy, template[o])
       \/ k.step = "retire"
       \/ /\ k.step = "patch" /\ Asked("patch template") /\ k.copy.status = template[t].status
          /\ Asked("switch") \/ k.copy.on = template[t].on
          /\ template[t].status = "active" => Protected(k.copy) = Protected(template[t])
       \/ k.step = "segment" /\ template[t].status # "active"

\* The row of a template and its segments are written, by a call that ends or by
\* one that is a single step.
Writes(w, t, row, kinds) ==
    /\ template' = [template EXCEPT ![t] = row] /\ segments' = [segments EXCEPT ![t] = kinds]
    /\ \/ TemplateFinish(w) /\ ~TemplateAt(w, "idle")
       \/ templateCall' = templateCall /\ TemplateAt(w, "idle") /\ w \in Workers
    /\ \/ row = template[t] /\ kinds \subseteq segments[t]
       \/ row = template[t] /\ TemplateAt(w, "segment") /\ t = templateCall[w].version
       \/ /\ TemplateAt(w, "ready") /\ t = templateCall[w].version /\ kinds = segments[t]
          /\ row = [template[t] EXCEPT !.status = "active", !.from = templateCall[w].copy.from]
       \/ /\ TemplateAt(w, "patch") /\ t = templateCall[w].version
          /\ row = templateCall[w].copy /\ kinds = segments[t]
       \/ row.status \in {"retired", "absent"} /\ TemplateFree(t)
       \/ row.status = "draft" /\ SchemeFree /\ ~TemplateExists(t)

TemplateEffect(w) ==
    \/ UNCHANGED <<template, segments, templateCall>>
    \/ \E k \in TemplateCalls : Loads(w, k)
    \/ \E t \in Templates, row \in TemplateRows, kinds \in SUBSET SegmentKinds : Writes(w, t, row, kinds)

LEMMA DaysAreSome == \A day \in Days : day # None
BY TemplateBoundsAssumption DEF Days, None

LEMMA LoadEffect ==
    ASSUME TreeInv, NEW w \in AnyWorker, NEW t \in Templates,
           \/ \E day \in Days : LockTemplate(w, t, day)
           \/ ReadRetire(w, t)
           \/ Asked("patch template") /\ \E copy \in TemplateRows : ReadTemplatePatch(w, t, copy)
           \/ \E removes \in SUBSET SegmentKinds, s \in SegmentKinds : ReadSegment(w, t, removes, {s})
    PROVE  \E k \in TemplateCalls : Loads(w, k)
<1>0. template[t] \in TemplateRows
  BY DEF TreeInv, TemplateTyped
<1>1. ASSUME NEW day \in Days, LockTemplate(w, t, day) PROVE \E k \in TemplateCalls : Loads(w, k)
  <2> DEFINE row == [template[t] EXCEPT !.from = IF @ = None THEN day ELSE @]
             others == Effectual(row.class) \ {t}
             k == [IdleTemplateCall EXCEPT !.step = "ready", !.version = t, !.copy = row, !.others = others]
  <2>1. /\ TemplateServes(w, "activate") /\ TemplateExists(t) /\ SchemeFree
        /\ \A o \in others : ~TemplatesOverlap(row, template[o])
        /\ templateCall' = [templateCall EXCEPT ![w] = k] /\ UNCHANGED <<template, segments>>
    BY <1>1 DEF LockTemplate
  <2>2. /\ row \in TemplateRows /\ row.class = template[t].class /\ row.to = template[t].to /\ row.from # None
        /\ template[t].from # None => row.from = template[t].from
    <3>1. day # None /\ day \in Days
      BY DaysAreSome
    <3>2. PICK from \in Days \cup {None} :
            from = (IF template[t].from = None THEN day ELSE template[t].from) /\ from # None
      BY <1>0, <3>1 DEF TemplateRows
    <3>3. row = [template[t] EXCEPT !.from = from]
      BY <3>2
    <3> HIDE DEF row
    <3>4. row \in TemplateRows /\ row.class = template[t].class /\ row.to = template[t].to /\ row.from = from
      BY <1>0, <3>2, <3>3 DEF TemplateRows
    <3> QED
      BY <3>2, <3>4
  <2>3. others = Effectual(template[t].class) \ {t} /\ others \in SUBSET Templates
    BY <2>2 DEF Effectual
  <2> HIDE DEF row, others
  <2>4. k \in TemplateCalls /\ k.step = "ready" /\ k.version = t /\ k.copy = row /\ k.others = others
    BY <2>2, <2>3, IdleTemplateTyped DEF TemplateCalls, IdleTemplateCall
  <2> HIDE DEF k
  <2>5. Loads(w, k)
    BY <2>1, <2>2, <2>3, <2>4, IdleTemplateTyped DEF Loads, TemplateServes, TemplateAt
  <2> QED
    BY <2>4, <2>5
<1>2. ASSUME NEW kind, NEW step \in {"retire", "patch"}, NEW copy \in TemplateRows, ReadTemplate(w, kind, step, t, copy),
             step = "patch" => /\ Asked("patch template") /\ copy.status = template[t].status
                               /\ Asked("switch") \/ copy.on = template[t].on
                               /\ template[t].status = "active" => Protected(copy) = Protected(template[t])
      PROVE  \E k \in TemplateCalls : Loads(w, k)
  <2> DEFINE k == [IdleTemplateCall EXCEPT !.step = step, !.version = t, !.copy = copy]
  <2>1. k \in TemplateCalls /\ k.step = step /\ k.version = t /\ k.copy = copy
    BY IdleTemplateTyped DEF TemplateCalls, IdleTemplateCall
  <2>2. templateCall' = [templateCall EXCEPT ![w] = k] /\ UNCHANGED <<template, segments>> /\ TemplateExists(t)
        /\ w \in Workers /\ TemplateAt(w, "idle")
    BY <1>2, IdleTemplateTyped DEF ReadTemplate, TemplateServes, TemplateAt
  <2> HIDE DEF k
  <2>3. Loads(w, k)
    BY <1>2, <2>1, <2>2 DEF Loads
  <2> QED
    BY <2>1, <2>3
<1>3. ReadRetire(w, t) => \E k \in TemplateCalls : Loads(w, k)
  BY <1>0, <1>2 DEF ReadRetire
<1>4. ASSUME NEW copy \in TemplateRows, ReadTemplatePatch(w, t, copy), Asked("patch template")
      PROVE  \E k \in TemplateCalls : Loads(w, k)
  BY <1>2, <1>4 DEF ReadTemplatePatch
<1>5. ASSUME NEW removes \in SUBSET SegmentKinds, NEW s \in SegmentKinds, ReadSegment(w, t, removes, {s})
      PROVE  \E k \in TemplateCalls : Loads(w, k)
  <2> DEFINE k == [IdleTemplateCall EXCEPT !.step = "segment", !.version = t, !.removes = removes, !.adds = {s}]
  <2>1. k \in TemplateCalls /\ k.step = "segment" /\ k.version = t
    BY IdleTemplateTyped DEF TemplateCalls, IdleTemplateCall
  <2>2. templateCall' = [templateCall EXCEPT ![w] = k] /\ UNCHANGED <<template, segments>> /\ TemplateExists(t)
        /\ w \in Workers /\ TemplateAt(w, "idle") /\ template[t].status # "active"
    BY <1>5, IdleTemplateTyped DEF ReadSegment, TemplateServes, TemplateAt
  <2> HIDE DEF k
  <2>3. Loads(w, k)
    BY <2>1, <2>2 DEF Loads
  <2> QED
    BY <2>1, <2>3
<1> QED
  BY <1>1, <1>3, <1>4, <1>5

LEMMA WriteEffect ==
    ASSUME TreeInv, NEW w \in AnyWorker,
           \/ \E t \in Templates : \/ \E row \in TemplateRows : CreateTemplate(w, t, row)
                                   \/ \E s \in Templates : CloneTemplate(w, s, t)
                                   \/ DestroyTemplate(w, t)
                                   \/ \E s \in SegmentKinds : RemoveSegment(w, t, s)
           \/ ActivateTemplate(w) \/ SaveRetire(w) \/ SaveTemplatePatch(w) \/ SaveSegment(w)
    PROVE  \E t \in Templates, row \in TemplateRows, kinds \in SUBSET SegmentKinds : Writes(w, t, row, kinds)
<1> DEFINE Goal == \E t \in Templates, row \in TemplateRows, kinds \in SUBSET SegmentKinds : Writes(w, t, row, kinds)
           Same(t) == [template EXCEPT ![t] = template[t]] = template /\ [segments EXCEPT ![t] = segments[t]] = segments
                      /\ template[t] \in TemplateRows /\ segments[t] \in SUBSET SegmentKinds
<1>0. \A t \in Templates : Same(t)
  BY DEF TreeInv, TemplateTyped
<1>a. \A kind : TemplateServes(w, kind) => w \in Workers /\ TemplateAt(w, "idle")
  BY IdleTemplateTyped DEF TemplateServes, TemplateAt
<1>b. AbsentTemplate \in TemplateRows /\ AbsentTemplate.status = "absent"
  BY DEF AbsentTemplate, TemplateRows
<1>1. ASSUME NEW t \in Templates, NEW row \in TemplateRows, NEW kinds \in SUBSET SegmentKinds,
             TemplateServes(w, "create template") \/ TemplateServes(w, "clone template"),
             ~TemplateExists(t), SchemeFree, row.status = "draft", row.class \in Classes,
             template' = [template EXCEPT ![t] = row], segments' = [segments EXCEPT ![t] = kinds],
             templateCall' = templateCall
      PROVE  Goal
  <2>1. Writes(w, t, row, kinds)
    BY <1>1, <1>a DEF Writes
  <2> QED
    BY <2>1
<1>2. ASSUME NEW t \in Templates, NEW row \in TemplateRows, CreateTemplate(w, t, row) PROVE Goal
  <2>1. {} \in SUBSET SegmentKinds
    OBVIOUS
  <2> QED
    BY <1>1, <1>2, <2>1 DEF CreateTemplate
<1>3. ASSUME NEW t \in Templates, NEW s \in Templates, CloneTemplate(w, s, t) PROVE Goal
  <2> DEFINE row == [AbsentTemplate EXCEPT !.status = "draft", !.on = TRUE, !.class = template[s].class]
  <2>1. template[s].class \in Classes
    BY <1>3 DEF CloneTemplate, TreeInv, Founded
  <2>2. row \in TemplateRows /\ row.status = "draft" /\ row.class \in Classes
    BY <2>1 DEF AbsentTemplate, TemplateRows
  <2>3. template' = [template EXCEPT ![t] = row]
    BY <1>3 DEF CloneTemplate
  <2> HIDE DEF row
  <2> QED
    BY <1>0, <1>1, <1>3, <2>2, <2>3 DEF CloneTemplate
<1>4. ASSUME NEW t \in Templates, DestroyTemplate(w, t) PROVE Goal
  <2>1. {} \in SUBSET SegmentKinds
    OBVIOUS
  <2>2. Writes(w, t, AbsentTemplate, {})
    BY <1>4, <1>a, <1>b DEF Writes, DestroyTemplate
  <2> QED
    BY <1>b, <2>1, <2>2
<1>5. ASSUME NEW t \in Templates, NEW s \in SegmentKinds, RemoveSegment(w, t, s) PROVE Goal
  <2>1. PICK kinds \in SUBSET SegmentKinds : kinds = segments[t] \ {s}
    BY <1>0
  <2>2. Writes(w, t, template[t], kinds)
    BY <1>0, <1>5, <1>a, <2>1 DEF Writes, RemoveSegment
  <2> QED
    BY <1>0, <2>2
<1>6. ASSUME NEW t \in Templates, NEW row \in TemplateRows, TemplateFinish(w), ~TemplateAt(w, "idle"),
             segments' = segments, template' = [template EXCEPT ![t] = row],
             \/ row = template[t]
             \/ /\ TemplateAt(w, "ready") /\ t = templateCall[w].version
                /\ row = [template[t] EXCEPT !.status = "active", !.from = templateCall[w].copy.from]
             \/ /\ TemplateAt(w, "patch") /\ t = templateCall[w].version
                /\ row = templateCall[w].copy
             \/ row.status = "retired" /\ TemplateFree(t)
      PROVE  Goal
  <2>1. Writes(w, t, row, segments[t])
    BY <1>0, <1>6 DEF Writes
  <2> QED
    BY <1>0, <2>1
<1>7. CASE TemplateFinish(w) /\ ~TemplateAt(w, "idle") /\ UNCHANGED <<template, segments>>
  <2>1. templateCall[w].version \in Templates
    BY <1>7 DEF TreeInv, TemplateTyped, TemplateAt
  <2> QED
    BY <1>0, <1>6, <1>7, <2>1
<1>8. CASE ActivateTemplate(w)
  <2>1. /\ templateCall[w].version \in Templates /\ templateCall[w].copy \in TemplateRows
        /\ template[templateCall[w].version] \in TemplateRows
    BY <1>8 DEF ActivateTemplate, TreeInv, TemplateTyped, TemplateAt, TemplateCalls
  <2>2. PICK t \in Templates : t = templateCall[w].version
    BY <2>1
  <2>3. PICK row \in TemplateRows : row = [template[t] EXCEPT !.status = "active", !.from = templateCall[w].copy.from]
    BY <2>1, <2>2 DEF TemplateRows
  <2>4. template' = [template EXCEPT ![t] = row] /\ TemplateFinish(w) /\ segments' = segments /\ TemplateAt(w, "ready")
    BY <1>8, <2>2, <2>3 DEF ActivateTemplate
  <2>5. ~TemplateAt(w, "idle")
    BY <2>4 DEF TemplateAt
  <2> QED
    BY <1>6, <2>2, <2>3, <2>4, <2>5
<1>9. CASE SaveRetire(w)
  <2>1. templateCall[w].version \in Templates /\ template[templateCall[w].version] \in TemplateRows /\ ~TemplateAt(w, "idle")
    BY <1>9 DEF SaveRetire, TreeInv, TemplateTyped, TemplateAt
  <2>2. PICK t \in Templates : t = templateCall[w].version
    BY <2>1
  <2>3. PICK row \in TemplateRows : row = [template[t] EXCEPT !.status = "retired", !.on = FALSE]
    BY <2>1, <2>2 DEF TemplateRows
  <2>4. row.status = "retired"
    BY <2>1, <2>2, <2>3 DEF TemplateRows
  <2>5. /\ template' = template \/ template' = [template EXCEPT ![t] = row]
        /\ TemplateFinish(w) /\ segments' = segments /\ TemplateFree(t)
    BY <1>9, <2>2, <2>3 DEF SaveRetire
  <2> QED
    BY <1>6, <1>7, <2>1, <2>4, <2>5
<1>10. CASE SaveTemplatePatch(w)
  <2>1. templateCall[w].version \in Templates /\ templateCall[w].copy \in TemplateRows /\ ~TemplateAt(w, "idle")
    BY <1>10 DEF SaveTemplatePatch, TreeInv, TemplateTyped, TemplateAt, TemplateCalls
  <2>2. /\ template' = template \/ template' = [template EXCEPT ![templateCall[w].version] = templateCall[w].copy]
        /\ TemplateFinish(w) /\ segments' = segments /\ TemplateAt(w, "patch")
    BY <1>10 DEF SaveTemplatePatch
  <2> QED
    BY <1>6, <1>7, <2>1, <2>2
<1>11. CASE SaveSegment(w)
  <2>1. templateCall[w].version \in Templates /\ templateCall[w].adds \in SUBSET SegmentKinds /\ ~TemplateAt(w, "idle")
    BY <1>11 DEF SaveSegment, TreeInv, TemplateTyped, TemplateAt, TemplateCalls
  <2>2. PICK t \in Templates : t = templateCall[w].version
    BY <2>1
  <2>3. PICK kinds \in SUBSET SegmentKinds : kinds = (segments[t] \ templateCall[w].removes) \cup templateCall[w].adds
    BY <1>0, <2>1
  <2>4. /\ segments' = segments \/ segments' = [segments EXCEPT ![t] = kinds]
        /\ TemplateFinish(w) /\ template' = template /\ TemplateAt(w, "segment")
    BY <1>11, <2>2, <2>3 DEF SaveSegment
  <2>5. segments' = [segments EXCEPT ![t] = kinds] => Writes(w, t, template[t], kinds)
    BY <1>0, <2>1, <2>2, <2>4 DEF Writes
  <2> QED
    BY <1>0, <1>7, <2>1, <2>4, <2>5
<1> QED
  BY <1>2, <1>3, <1>4, <1>5, <1>8, <1>9, <1>10, <1>11

LEMMA TemplateEffects ==
    ASSUME TreeInv, NEW w \in AnyWorker, TemplateStep(w) PROVE TemplateEffect(w)
<1>1. \A t \in Templates : \A removes \in Single(segments[t]) : removes \in SUBSET SegmentKinds
  BY DEF Single, TreeInv, TemplateTyped
<1>2. SwitchScheme(w) => UNCHANGED <<template, segments, templateCall>>
  BY DEF SwitchScheme
<1> QED
  BY <1>1, <1>2, TemplateCases, LoadEffect, WriteEffect DEF TemplateEffect
-----------------------------------------------------------------------------
(* What is active or released stays as it was *)

\* Only a worker has a call, and what is active has a first day.
Dated ==
    /\ \A t \in Templates : template[t].status = "active" => template[t].from # None
    /\ \A v \in AnyWorker :
         /\ ~TemplateAt(v, "idle") => v \in Workers
         /\ TemplateAt(v, "ready") => templateCall[v].copy.from # None
         /\ TemplateAt(v, "patch") /\ templateCall[v].copy.status = "active" => templateCall[v].copy.from # None

\* Without overlap, what a call read of its template is still so.
Current(k) ==
    /\ k.step = "ready" /\ template[k.version].status = "active" => k.copy.from = template[k.version].from
    /\ k.step = "patch" =>
         /\ k.copy.status = template[k.version].status
         /\ k.copy.status = "active" => Protected(k.copy) = Protected(template[k.version])
    /\ k.step = "segment" => template[k.version].status # "active"

OutputInv == Dated /\ (Serial => \A v \in AnyWorker : Current(templateCall[v]))

\* What changes, step by step: the calls of others stay.
LEMMA TemplateChanges ==
    ASSUME TreeInv, NEW w \in AnyWorker, TemplateEffect(w)
    PROVE  /\ \A v \in AnyWorker \ {w} : templateCall'[v] = templateCall[v]
           /\ \/ UNCHANGED <<template, segments, templateCall>>
              \/ Loads(w, templateCall'[w])
              \/ \E t \in Templates, row \in TemplateRows, kinds \in SUBSET SegmentKinds :
                   /\ Writes(w, t, row, kinds) /\ template'[t] = row /\ segments'[t] = kinds
                   /\ \A u \in Templates \ {t} : template'[u] = template[u] /\ segments'[u] = segments[u]
                   /\ templateCall'[w].step = "idle"
<1>1. templateCall \in [AnyWorker -> TemplateCalls] /\ template \in [Templates -> TemplateRows]
      /\ segments \in [Templates -> SUBSET SegmentKinds]
  BY DEF TreeInv, TemplateTyped
<1>2. ASSUME NEW k \in TemplateCalls, Loads(w, k)
      PROVE  templateCall'[w] = k /\ \A v \in AnyWorker \ {w} : templateCall'[v] = templateCall[v]
  <2>1. templateCall' = [templateCall EXCEPT ![w] = k]
    BY <1>2 DEF Loads
  <2> QED
    BY <1>1, <2>1
<1>3. ASSUME NEW t \in Templates, NEW row \in TemplateRows, NEW kinds \in SUBSET SegmentKinds, Writes(w, t, row, kinds)
      PROVE  /\ template'[t] = row /\ segments'[t] = kinds /\ templateCall'[w].step = "idle"
             /\ \A u \in Templates \ {t} : template'[u] = template[u] /\ segments'[u] = segments[u]
             /\ \A v \in AnyWorker \ {w} : templateCall'[v] = templateCall[v]
  <2>1. template' = [template EXCEPT ![t] = row] /\ segments' = [segments EXCEPT ![t] = kinds]
    BY <1>3 DEF Writes
  <2>2. \/ templateCall' = [templateCall EXCEPT ![w] = IdleTemplateCall]
        \/ templateCall' = templateCall /\ templateCall[w].step = "idle"
    BY <1>3 DEF Writes, TemplateFinish, TemplateAt
  <2>3. template'[t] = row /\ segments'[t] = kinds
        /\ \A u \in Templates \ {t} : template'[u] = template[u] /\ segments'[u] = segments[u]
    BY <1>1, <2>1
  <2>4. templateCall'[w].step = "idle" /\ \A v \in AnyWorker \ {w} : templateCall'[v] = templateCall[v]
    BY <1>1, <2>2, IdleTemplateTyped
  <2> QED
    BY <2>3, <2>4
<1>4. CASE UNCHANGED <<template, segments, templateCall>>
  BY <1>4
<1>5. CASE \E k \in TemplateCalls : Loads(w, k)
  BY <1>5, <1>2
<1>6. CASE \E t \in Templates, row \in TemplateRows, kinds \in SUBSET SegmentKinds : Writes(w, t, row, kinds)
  <2>1. PICK t \in Templates, row \in TemplateRows, kinds \in SUBSET SegmentKinds : Writes(w, t, row, kinds)
    BY <1>6
  <2> QED
    BY <2>1, <1>3
<1> QED
  BY <1>4, <1>5, <1>6 DEF TemplateEffect

LEMMA OutputInitial == Init => OutputInv
<1> SUFFICES ASSUME NEW d \in Deployments, TemplateInit(d) PROVE OutputInv
  BY DEF Init
<1>1. \A t \in DOMAIN d.templates : d.templates[t].status = "active" => d.templates[t].from # None
  BY DeploymentsAssumption
<1>2. \A t \in Templates : template[t].status = "active" => template[t].from # None
  BY <1>1 DEF TemplateInit, AbsentTemplate
<1>3. \A v \in AnyWorker : templateCall[v].step = "idle"
  BY DEF TemplateInit, IdleTemplateCall
<1> QED
  BY <1>2, <1>3 DEF OutputInv, Dated, Current, TemplateAt

LEMMA DatedStep ==
    ASSUME TreeInv, Dated, NEW w \in AnyWorker, TemplateEffect(w), UNCHANGED deployment PROVE Dated'
<1>1. Workers' = Workers
  BY DEF Workers
<1> HIDE DEF Workers
<1>2. CASE UNCHANGED <<template, segments, templateCall>>
  BY <1>1, <1>2 DEF Dated, TemplateAt
<1>3. CASE Loads(w, templateCall'[w])
  <2>1. w \in Workers /\ template' = template
    BY <1>3 DEF Loads
  <2>2. /\ TemplateAt(w, "ready")' => templateCall'[w].copy.from # None
        /\ TemplateAt(w, "patch")' /\ templateCall'[w].copy.status = "active" => templateCall'[w].copy.from # None
    BY <1>3 DEF Loads, TemplateAt, Dated, Protected
  <2> QED
    BY <1>1, <2>1, <2>2, TemplateChanges DEF Dated, TemplateAt
<1>4. ASSUME NEW t \in Templates, NEW row \in TemplateRows, NEW kinds \in SUBSET SegmentKinds, Writes(w, t, row, kinds)
      PROVE  row.status = "active" => row.from # None
  <2>1. template[t] \in TemplateRows
    BY DEF TreeInv, TemplateTyped
  <2>2. template[t].status = "active" => template[t].from # None
    BY DEF Dated
  <2>3. CASE row = template[t]
    BY <2>2, <2>3
  <2>4. CASE TemplateAt(w, "ready") /\ row = [template[t] EXCEPT !.status = "active", !.from = templateCall[w].copy.from]
    <3>1. row.from = templateCall[w].copy.from
      BY <2>1, <2>4 DEF TemplateRows
    <3> QED
      BY <2>4, <3>1 DEF Dated
  <2>5. CASE TemplateAt(w, "patch") /\ row = templateCall[w].copy
    BY <2>5 DEF Dated
  <2>6. CASE row.status \in {"retired", "absent", "draft"}
    BY <2>6
  <2> QED
    BY <1>4, <2>3, <2>4, <2>5, <2>6 DEF Writes
<1>5. CASE \E t \in Templates, row \in TemplateRows, kinds \in SUBSET SegmentKinds :
             /\ Writes(w, t, row, kinds) /\ template'[t] = row /\ segments'[t] = kinds
             /\ \A u \in Templates \ {t} : template'[u] = template[u] /\ segments'[u] = segments[u]
             /\ templateCall'[w].step = "idle"
  <2>1. \A u \in Templates : template'[u].status = "active" => template'[u].from # None
    BY <1>4, <1>5 DEF Dated
  <2> QED
    BY <1>1, <1>5, <2>1, TemplateChanges DEF Dated, TemplateAt
<1> QED
  BY <1>2, <1>3, <1>5, TemplateChanges
\* Without overlap everybody else is idle, before the step and after it.
LEMMA TemplateAlone ==
    ASSUME TreeInv, Dated, Serial, NEW w \in Workers,
           \A v \in AnyWorker \ {w} : templateCall'[v] = templateCall[v]
    PROVE  \A v \in AnyWorker \ {w} : templateCall[v].step = "idle" /\ templateCall'[v].step = "idle"
<1>1. deployment \in Deployments
  BY DEF TreeInv, ClassInv
<1> QED
  BY <1>1, OneThread DEF Dated, TemplateAt

LEMMA WriterWorks ==
    ASSUME Dated, NEW w \in AnyWorker, NEW t, NEW row, NEW kinds, Writes(w, t, row, kinds) PROVE w \in Workers
BY DEF Writes, Dated

LEMMA CurrentStep ==
    ASSUME TreeInv, OutputInv, Serial, NEW w \in AnyWorker, TemplateEffect(w), NEW v \in AnyWorker
    PROVE  Current(templateCall[v])'
<1>1. CASE UNCHANGED <<template, segments, templateCall>>
  BY <1>1 DEF OutputInv, Current
<1>2. CASE Loads(w, templateCall'[w])
  <2>1. w \in Workers /\ template' = template
    BY <1>2 DEF Loads
  <2>2. CASE v = w
    BY <1>2, <2>1, <2>2 DEF Loads, Current, Protected, OutputInv, Dated
  <2>3. CASE v # w
    BY <2>1, <2>3, TemplateAlone, TemplateChanges DEF OutputInv, Current
  <2> QED
    BY <2>2, <2>3
<1>3. CASE \E t \in Templates, row \in TemplateRows, kinds \in SUBSET SegmentKinds :
             /\ Writes(w, t, row, kinds) /\ template'[t] = row /\ segments'[t] = kinds
             /\ \A u \in Templates \ {t} : template'[u] = template[u] /\ segments'[u] = segments[u]
             /\ templateCall'[w].step = "idle"
  <2>1. w \in Workers
    BY <1>3, WriterWorks DEF OutputInv
  <2>2. templateCall'[v].step = "idle"
    BY <1>3, <2>1, TemplateAlone, TemplateChanges DEF OutputInv
  <2> QED
    BY <2>2 DEF Current
<1> QED
  BY <1>1, <1>2, <1>3, TemplateChanges

\* Without overlap the revision of a value that was validated is open still.
ValuesOpen == Serial => \A v \in AnyWorker : NumberAt(v, "value") => ~part[numberCall[v].part].released

LEMMA ValuesOpenStep ==
    ASSUME TreeInv, NumberBase, PartsApart, ValuesOpen, NEW w \in AnyWorker, NumberEffect(w), UNCHANGED deployment
    PROVE  ValuesOpen'
<1>1. Serial' <=> Serial
  BY DEF Serial, Workers
<1>2. ASSUME Serial, NEW v \in AnyWorker, NumberAt(v, "value")' PROVE ~part'[numberCall'[v].part].released
  <2>1. v = w
    BY <1>2, Alone DEF PartsApart, NumberAt
  <2>2. Reads(w, numberCall'[w]) /\ numberCall'[w].step = "value"
    BY <1>2, <2>1, CallChanges DEF NumberAt
  <2> QED
    BY <2>1, <2>2 DEF Reads, GoesOn
<1> QED
  BY <1>1, <1>2 DEF ValuesOpen

LEMMA OutputNext ==
    ASSUME TreeInv, NumberBase, PartsApart, OutputInv, ValuesOpen, [Next]_vars PROVE OutputInv' /\ ValuesOpen'
<1>1. ASSUME UNCHANGED <<templateVars, deployment>> PROVE OutputInv'
  BY <1>1 DEF OutputInv, Dated, Current, Serial, Workers, TemplateAt, templateVars, Protected
<1>2. ASSUME UNCHANGED <<part, numberCall, deployment>> PROVE ValuesOpen'
  BY <1>2 DEF ValuesOpen, Serial, Workers, NumberAt
<1>3. CASE UNCHANGED vars
  BY <1>1, <1>2, <1>3 DEF vars, classVars
<1>4. ASSUME NEW w \in AnyWorker, ClassStep(w), UNCHANGED <<templateVars, part, next, numberCall>>
      PROVE  OutputInv' /\ ValuesOpen'
  BY <1>1, <1>2, <1>4, ClassKeeps
<1>5. ASSUME NEW w \in AnyWorker, TemplateStep(w), UNCHANGED <<classVars, part, next, numberCall>>
      PROVE  OutputInv' /\ ValuesOpen'
  <2>1. UNCHANGED deployment
    BY <1>5 DEF classVars
  <2>2. Dated' /\ (Serial => \A v \in AnyWorker : Current(templateCall[v])')
    BY <1>5, <2>1, TemplateEffects, DatedStep, CurrentStep DEF OutputInv
  <2>3. Serial' <=> Serial
    BY <2>1 DEF Serial, Workers
  <2>4. OutputInv'
    BY <2>2, <2>3 DEF OutputInv
  <2> QED
    BY <1>2, <1>5, <2>1, <2>4
<1>6. ASSUME NEW w \in AnyWorker, NumberStep(w), UNCHANGED <<classVars, templateVars>>
      PROVE  OutputInv' /\ ValuesOpen'
  <2>1. UNCHANGED deployment
    BY <1>6 DEF classVars
  <2> QED
    BY <1>1, <1>6, <2>1, NumberCases, ValuesOpenStep
<1> QED
  BY <1>3, <1>4, <1>5, <1>6, StepKinds

LEMMA OutputAlways == Spec => [](TreeInv /\ NumberBase /\ PartsApart /\ OutputInv /\ ValuesOpen)
<1>1. Init => OutputInv /\ ValuesOpen
  <2>1. Init => \A v \in AnyWorker : numberCall[v].step = "idle"
    BY DEF Init, NumberInit, IdleNumberCall
  <2> QED
    BY <2>1, OutputInitial DEF ValuesOpen, NumberAt
<1>2. TreeInv /\ NumberBase /\ PartsApart /\ OutputInv /\ ValuesOpen /\ [Next]_vars => (OutputInv /\ ValuesOpen)'
  BY OutputNext
<1> QED
  BY <1>1, <1>2, ApartAlways, PTL DEF Spec

\* One thread: an active template keeps its class and days, and gains no segment.
LEMMA ActiveKept ==
    ASSUME TreeInv, OutputInv, Serial, NEW w \in AnyWorker, TemplateEffect(w), NEW t \in Templates,
           template[t].status = "active", template'[t].status = "active"
    PROVE  Protected(template'[t]) = Protected(template[t]) /\ segments'[t] \subseteq segments[t]
<1>1. CASE template' = template /\ segments' = segments
  BY <1>1
<1>2. ASSUME NEW row \in TemplateRows, NEW kinds \in SUBSET SegmentKinds,
             Writes(w, t, row, kinds), template'[t] = row, segments'[t] = kinds
      PROVE  Protected(row) = Protected(template[t]) /\ kinds \subseteq segments[t]
  <2>1. Current(templateCall[w]) /\ template[t] \in TemplateRows
    BY DEF OutputInv, TreeInv, TemplateTyped
  <2>2. CASE row = template[t] /\ kinds \subseteq segments[t]
    BY <2>2
  <2>3. CASE TemplateAt(w, "segment") /\ t = templateCall[w].version
    BY <2>1, <2>3 DEF Current, TemplateAt
  <2>4. CASE /\ TemplateAt(w, "ready") /\ t = templateCall[w].version /\ kinds = segments[t]
             /\ row = [template[t] EXCEPT !.status = "active", !.from = templateCall[w].copy.from]
    <3>1. templateCall[w].copy.from = template[t].from
      BY <2>1, <2>4 DEF Current, TemplateAt
    <3>2. row.class = template[t].class /\ row.from = template[t].from /\ row.to = template[t].to
      BY <2>1, <2>4, <3>1 DEF TemplateRows
    <3> QED
      BY <2>4, <3>2 DEF Protected
  <2>5. CASE /\ TemplateAt(w, "patch") /\ t = templateCall[w].version
             /\ row = templateCall[w].copy /\ kinds = segments[t]
    BY <2>1, <2>5 DEF Current, TemplateAt
  <2>6. CASE row.status \in {"retired", "absent", "draft"}
    BY <1>2, <2>6
  <2> QED
    BY <1>2, <2>2, <2>3, <2>4, <2>5, <2>6 DEF Writes
<1>3. CASE Loads(w, templateCall'[w])
  BY <1>1, <1>3 DEF Loads
<1>4. CASE \E u \in Templates, row \in TemplateRows, kinds \in SUBSET SegmentKinds :
             /\ Writes(w, u, row, kinds) /\ template'[u] = row /\ segments'[u] = kinds
             /\ \A s \in Templates \ {u} : template'[s] = template[s] /\ segments'[s] = segments[s]
  BY <1>2, <1>4
<1> QED
  BY <1>1, <1>3, <1>4, TemplateChanges

\* One thread: a step that leaves a released part its row leaves it its values.
LEMMA ValuesKept ==
    ASSUME TreeInv, NumberBase, ValuesOpen, Serial, NEW w \in AnyWorker, NumberEffect(w), NEW p \in Existing,
           part[p].released, NEW a \in DOMAIN part'[p].values
    PROVE  a \in DOMAIN part[p].values /\ part'[p].values[a] = part[p].values[a]
<1>1. part \in [Parts -> PartRows] /\ p \in Parts
  BY DEF NumberBase, NumberTyped, Existing
<1>2. CASE UNCHANGED part
  BY <1>2
<1>3. ASSUME NEW q \in Parts, NEW row \in PartRows, Edits(w, q, row)
      PROVE  a \in DOMAIN part[p].values /\ part'[p].values[a] = part[p].values[a]
  <2>1. part' = [part EXCEPT ![q] = row]
    BY <1>3 DEF Edits
  <2>2. CASE q # p
    BY <1>1, <2>1, <2>2
  <2>3. CASE q = p
    <3>1. part'[p] = row
      BY <1>1, <2>1, <2>3
    <3>2. ~(NumberAt(w, "value") /\ q = numberCall[w].part)
      BY <2>3 DEF ValuesOpen
    <3> QED
      BY <1>3, <2>3, <3>1, <3>2 DEF Edits
  <2> QED
    BY <2>2, <2>3
<1>4. ASSUME NEW q \in Parts, Deletes(w, q)
      PROVE  a \in DOMAIN part[p].values /\ part'[p].values[a] = part[p].values[a]
  <2>1. part' = [part EXCEPT ![q] = NoPart]
    BY <1>4 DEF Deletes
  <2>2. DOMAIN NoPart.values = {}
    BY DEF NoPart, NoPayload
  <2>3. part'[p] = IF p = q THEN NoPart ELSE part[p]
    BY <1>1, <2>1
  <2> QED
    BY <2>2, <2>3
<1>5. ASSUME NEW new \in Parts, Inserts(w, new)
      PROVE  a \in DOMAIN part[p].values /\ part'[p].values[a] = part[p].values[a]
  BY <1>1, <1>5 DEF Inserts
<1> QED
  BY <1>2, <1>3, <1>4, <1>5, PartsChange

\* Requests that do not overlap leave an active template what it generates, but for
\* segments that are deleted, and the values of a released revision.
THEOREM OutputStays == Spec => OutputKept
<1> DEFINE Active == Serial => \A t \in Templates : template[t].status = "active" /\ template'[t].status = "active" =>
               Protected(template'[t]) = Protected(template[t]) /\ segments'[t] \subseteq segments[t]
           Released == Serial => \A p \in Existing : part[p].released =>
               \A a \in DOMAIN part'[p].values :
                   a \in DOMAIN part[p].values /\ part'[p].values[a] = part[p].values[a]
           Inv == TreeInv /\ NumberBase /\ PartsApart /\ OutputInv /\ ValuesOpen
<1>1. ASSUME Inv, Next PROVE Active /\ Released
  <2>1. PICK w \in AnyWorker :
             \/ ClassStep(w) /\ UNCHANGED <<templateVars, part, next, numberCall>>
             \/ TemplateStep(w) /\ UNCHANGED <<classVars, part, next, numberCall>>
             \/ NumberStep(w) /\ UNCHANGED <<classVars, templateVars>>
    BY <1>1, StepKinds
  <2>2. CASE UNCHANGED <<templateVars, part, next, numberCall>>
    BY <2>2 DEF templateVars
  <2>3. CASE TemplateStep(w) /\ UNCHANGED <<classVars, part, next, numberCall>>
    BY <1>1, <2>3, TemplateEffects, ActiveKept
  <2>4. CASE NumberStep(w) /\ UNCHANGED <<classVars, templateVars>>
    <3>1. NumberEffect(w)
      BY <1>1, <2>4, NumberCases
    <3> QED
      BY <1>1, <2>4, <3>1, ValuesKept DEF templateVars
  <2> QED
    BY <2>1, <2>2, <2>3, <2>4
<1>2. ASSUME Inv, [Next]_vars PROVE [Active]_<<template, segments>> /\ [Released]_part
  BY <1>1, <1>2 DEF vars, templateVars
<1> QED
  BY <1>2, OutputAlways, PTL DEF Spec, OutputKept, ActiveOutputKept, ReleasedValuesKept
-----------------------------------------------------------------------------
(* One template applies to a class on a day *)

LEMMA OverlapIsMutual ==
    ASSUME NEW a \in TemplateRows, NEW b \in TemplateRows, a.from # None, b.from # None
    PROVE  TemplatesOverlap(a, b) <=> TemplatesOverlap(b, a)
BY DEF TemplatesOverlap

LEMMA OnOneDay ==
    ASSUME NEW a \in TemplateRows, NEW b \in TemplateRows, a.from # None, b.from # None,
           NEW day \in Days, Applies(a, day), Applies(b, day)
    PROVE  TemplatesOverlap(a, b)
<1>1. /\ day \in Nat /\ a.from \in Nat /\ b.from \in Nat /\ a.to \in Nat /\ b.to \in Nat
  BY TemplateBoundsAssumption DEF TemplateRows, Days, None
<1>2. /\ a.from <= day /\ (a.to = None \/ day <= a.to)
      /\ b.from <= day /\ (b.to = None \/ day <= b.to)
  BY DEF Applies
<1> QED
  BY <1>1, <1>2 DEF TemplatesOverlap

EffectualAt(row) == row.status = "active" /\ row.on

\* Nothing switches a template on but its activation, and nobody patches one
\* while another request is served.
Checked == ~Asked("switch") /\ (Asked("patch template") => Serial)

\* No two templates of a class that may apply overlap; the one being activated
\* will not either, because its scheme is locked and what was looked at can only
\* be retired.
Alternating ==
    \A t \in Templates : \A u \in Templates \ {t} :
        EffectualAt(template[t]) /\ EffectualAt(template[u]) /\ template[t].class = template[u].class =>
            ~TemplatesOverlap(template[t], template[u])
Fitting(k) ==
    /\ k.copy.class = template[k.version].class /\ k.copy.to = template[k.version].to
    /\ \A o \in Templates \ {k.version} :
         EffectualAt(template[o]) /\ template[o].class = k.copy.class => ~TemplatesOverlap(k.copy, template[o])
OneInv ==
    Checked =>
        /\ Alternating
        /\ \A v \in AnyWorker :
             /\ TemplateAt(v, "ready") =>
                  Fitting(templateCall[v]) /\ \A w \in AnyWorker : TemplateAt(w, "ready") => w = v
             /\ TemplateAt(v, "patch") =>
                  /\ Asked("patch template")
                  /\ templateCall[v].copy.on = template[templateCall[v].version].on

LEMMA OneInitial == Init => OneInv
<1> SUFFICES ASSUME NEW d \in Deployments, TemplateInit(d) PROVE OneInv
  BY DEF Init
<1>1. \A t \in Templates : template[t] = IF t \in DOMAIN d.templates THEN d.templates[t] ELSE AbsentTemplate
  BY DEF TemplateInit
<1>2. \A t \in Templates : EffectualAt(template[t]) => t \in DOMAIN d.templates /\ template[t] = d.templates[t]
  BY <1>1 DEF EffectualAt, AbsentTemplate
<1>3. \A t \in DOMAIN d.templates : \A u \in DOMAIN d.templates \ {t} :
           EffectualAt(d.templates[t]) /\ EffectualAt(d.templates[u]) /\ d.templates[t].class = d.templates[u].class
           => ~TemplatesOverlap(d.templates[t], d.templates[u])
  BY DeploymentsAssumption DEF EffectualAt
<1>4. Alternating
  BY <1>2, <1>3 DEF Alternating
<1>5. \A v \in AnyWorker : templateCall[v].step = "idle"
  BY DEF TemplateInit, IdleTemplateCall
<1> QED
  BY <1>4, <1>5 DEF OneInv, TemplateAt

\* A row that may apply after a step either did, with the same class and days, or
\* is the one that was activated.
LEMMA EffectualWas ==
    ASSUME TreeInv, OutputInv, OneInv, Checked, NEW w \in AnyWorker,
           NEW t \in Templates, NEW row \in TemplateRows, NEW kinds \in SUBSET SegmentKinds,
           Writes(w, t, row, kinds), EffectualAt(row)
    PROVE  \/ EffectualAt(template[t]) /\ Protected(row) = Protected(template[t])
           \/ /\ TemplateAt(w, "ready") /\ t = templateCall[w].version
              /\ Protected(row) = Protected(templateCall[w].copy)
<1>1. template[t] \in TemplateRows /\ templateCall[w].copy \in TemplateRows
  BY DEF TreeInv, TemplateTyped, TemplateCalls
<1>2. CASE row = template[t]
  BY <1>2
<1>3. CASE /\ TemplateAt(w, "ready") /\ t = templateCall[w].version
           /\ row = [template[t] EXCEPT !.status = "active", !.from = templateCall[w].copy.from]
  <2>1. /\ row.class = template[t].class /\ row.to = template[t].to /\ row.from = templateCall[w].copy.from
    BY <1>1, <1>3 DEF TemplateRows
  <2>2. Fitting(templateCall[w])
    BY <1>3 DEF OneInv
  <2> QED
    BY <1>3, <2>1, <2>2 DEF Protected, Fitting
<1>4. CASE TemplateAt(w, "patch") /\ t = templateCall[w].version /\ row = templateCall[w].copy
  <2>1. Serial /\ row.on = template[t].on
    BY <1>4 DEF OneInv, Checked
  <2>2. Current(templateCall[w])
    BY <2>1 DEF OutputInv
  <2> QED
    BY <1>4, <2>1, <2>2 DEF Current, TemplateAt, EffectualAt
<1>5. CASE row.status \in {"retired", "absent", "draft"}
  BY <1>5 DEF EffectualAt
<1> QED
  BY <1>2, <1>3, <1>4, <1>5 DEF Writes

LEMMA OverlapOfDays ==
    ASSUME NEW a, NEW b, NEW c, NEW d, Protected(a) = Protected(c), Protected(b) = Protected(d)
    PROVE  TemplatesOverlap(a, b) <=> TemplatesOverlap(c, d)
BY DEF Protected, TemplatesOverlap

LEMMA AlternatingStep ==
    ASSUME TreeInv, OutputInv, OneInv, Checked, Dated', NEW w \in AnyWorker,
           NEW t \in Templates, NEW row \in TemplateRows, NEW kinds \in SUBSET SegmentKinds,
           Writes(w, t, row, kinds), template'[t] = row,
           \A u \in Templates \ {t} : template'[u] = template[u]
    PROVE  Alternating'
<1> SUFFICES ASSUME NEW u \in Templates, u # t, EffectualAt(row), EffectualAt(template[u]), row.class = template[u].class
             PROVE  ~TemplatesOverlap(row, template[u]) /\ ~TemplatesOverlap(template[u], row)
  BY DEF Alternating, OneInv
<1>1. template[u] \in TemplateRows /\ row.from # None /\ template[u].from # None
  BY DEF TreeInv, TemplateTyped, Dated, EffectualAt
<1>2. CASE EffectualAt(template[t]) /\ Protected(row) = Protected(template[t])
  <2>1. ~TemplatesOverlap(template[t], template[u])
    BY <1>2 DEF OneInv, Alternating, Protected
  <2> QED
    BY <1>1, <1>2, <2>1, OverlapOfDays, OverlapIsMutual
<1>3. CASE /\ TemplateAt(w, "ready") /\ t = templateCall[w].version
           /\ Protected(row) = Protected(templateCall[w].copy)
  <2>1. ~TemplatesOverlap(templateCall[w].copy, template[u])
    BY <1>3 DEF OneInv, Fitting, Protected
  <2> QED
    BY <1>1, <1>3, <2>1, OverlapOfDays, OverlapIsMutual
<1> QED
  BY <1>2, <1>3, EffectualWas

\* While one template is being activated, the rows that fit it stay as they are.
LEMMA FittingStep ==
    ASSUME TreeInv, OutputInv, OneInv, Checked, NEW w \in AnyWorker,
           NEW t \in Templates, NEW row \in TemplateRows, NEW kinds \in SUBSET SegmentKinds,
           Writes(w, t, row, kinds), template'[t] = row,
           \A u \in Templates \ {t} : template'[u] = template[u],
           NEW v \in AnyWorker, v # w, TemplateAt(v, "ready"), templateCall'[v] = templateCall[v]
    PROVE  Fitting(templateCall[v])'
<1>1. v \in Workers /\ w \in Workers /\ deployment \in Deployments
  BY WriterWorks DEF OutputInv, Dated, TemplateAt, TreeInv, ClassInv
<1>2. ~TemplateAt(w, "ready") /\ ~TemplateAt(w, "patch")
  BY <1>1, OneThread DEF OneInv, Checked
<1>3. Fitting(templateCall[v]) /\ templateCall[v].version \in Templates
  BY DEF OneInv, TreeInv, TemplateTyped, TemplateAt
<1>4. t # templateCall[v].version \/ row = template[t]
  <2>1. v \in Activating
    BY DEF Activating
  <2>2. ~SchemeFree /\ templateCall[v].version \in HeldTemplates
    BY <2>1 DEF SchemeFree, HeldTemplates
  <2> QED
    BY <1>2, <2>2 DEF Writes, TemplateFree
<1>5. EffectualAt(row) => EffectualAt(template[t]) /\ Protected(row) = Protected(template[t])
  BY <1>2, EffectualWas
<1>6. ASSUME NEW o \in Templates \ {templateCall[v].version}, EffectualAt(template'[o]),
             template'[o].class = templateCall[v].copy.class
      PROVE  ~TemplatesOverlap(templateCall[v].copy, template'[o])
  <2>1. EffectualAt(template[o]) /\ Protected(template'[o]) = Protected(template[o])
    BY <1>5, <1>6
  <2>2. ~TemplatesOverlap(templateCall[v].copy, template[o])
    BY <1>3, <1>6, <2>1 DEF Fitting, Protected
  <2> QED
    BY <2>1, <2>2, OverlapOfDays
<1>7. template'[templateCall[v].version] = template[templateCall[v].version]
  BY <1>3, <1>4
<1> QED
  BY <1>3, <1>6, <1>7 DEF Fitting

LEMMA OneStep ==
    ASSUME TreeInv, OutputInv, OneInv, Dated', NEW w \in AnyWorker, TemplateEffect(w), UNCHANGED deployment
    PROVE  OneInv'
<1>1. Checked' <=> Checked
  BY DEF Checked, Asked, Serial, Workers
<1>2. \A kind : Asked(kind)' <=> Asked(kind)
  BY DEF Asked
<1> HIDE DEF Asked
<1> SUFFICES ASSUME Checked PROVE OneInv'
  BY <1>1 DEF OneInv
<1>3. CASE UNCHANGED <<template, segments, templateCall>>
  BY <1>2, <1>3 DEF OneInv, Alternating, Fitting, TemplateAt
<1>4. CASE Loads(w, templateCall'[w])
  <2>1. template' = template /\ w \in Workers /\ TemplateAt(w, "idle")
    BY <1>4 DEF Loads
  <2>2. Alternating'
    BY <2>1 DEF OneInv, Alternating
  <2>3. \A v \in AnyWorker \ {w} : templateCall'[v] = templateCall[v]
    BY TemplateChanges
  <2>4. TemplateAt(w, "ready")' => Fitting(templateCall[w])' /\ \A v \in AnyWorker \ {w} : ~TemplateAt(v, "ready")
    <3>1. \A o \in Templates : o \in Effectual(template[templateCall'[w].version].class)
            <=> EffectualAt(template[o]) /\ template[o].class = template[templateCall'[w].version].class
      BY DEF Effectual, EffectualAt
    <3> QED
      BY <1>4, <2>1, <3>1 DEF Loads, Fitting, TemplateAt, SchemeFree, Activating
  <2>5. TemplateAt(w, "patch")' =>
            Asked("patch template") /\ templateCall'[w].copy.on = template[templateCall'[w].version].on
    BY <1>4 DEF Loads, TemplateAt, Checked
  <2>6. \A v \in AnyWorker \ {w} : TemplateAt(v, "ready")' <=> TemplateAt(v, "ready")
    BY <2>3 DEF TemplateAt
  <2>7. \A v \in AnyWorker \ {w} : TemplateAt(v, "ready") => Fitting(templateCall[v])'
    BY <2>1, <2>3, ZenonT(30) DEF OneInv, Fitting
  <2>8. \A v \in AnyWorker : TemplateAt(v, "ready")' =>
           Fitting(templateCall[v])' /\ \A u \in AnyWorker : TemplateAt(u, "ready")' => u = v
    BY <2>4, <2>6, <2>7 DEF OneInv
  <2>9. \A v \in AnyWorker : TemplateAt(v, "patch")' =>
           Asked("patch template") /\ templateCall'[v].copy.on = template[templateCall'[v].version].on
    BY <2>3, <2>5 DEF OneInv, TemplateAt
  <2> QED
    BY <1>2, <2>1, <2>2, <2>8, <2>9 DEF OneInv
<1>5. ASSUME NEW t \in Templates, NEW row \in TemplateRows, NEW kinds \in SUBSET SegmentKinds,
             Writes(w, t, row, kinds), template'[t] = row,
             \A u \in Templates \ {t} : template'[u] = template[u],
             templateCall'[w].step = "idle"
      PROVE  OneInv'
  <2>1. Alternating'
    BY <1>5, AlternatingStep
  <2>2. \A v \in AnyWorker \ {w} : templateCall'[v] = templateCall[v]
    BY TemplateChanges
  <2>3. \A v \in AnyWorker : ~TemplateAt(v, "idle")' => v # w /\ ~TemplateAt(v, "idle")
    BY <1>5, <2>2 DEF TemplateAt
  <2>4. ASSUME NEW v \in AnyWorker, TemplateAt(v, "ready")'
        PROVE  Fitting(templateCall[v])' /\ \A u \in AnyWorker : TemplateAt(u, "ready")' => u = v
    <3>1. v # w /\ TemplateAt(v, "ready") /\ templateCall'[v] = templateCall[v]
      BY <2>2, <2>3, <2>4 DEF TemplateAt
    <3>2. Fitting(templateCall[v])'
      BY <1>5, <3>1, FittingStep
    <3>3. \A u \in AnyWorker : TemplateAt(u, "ready")' => TemplateAt(u, "ready")
      BY <1>5, <2>2 DEF TemplateAt
    <3> QED
      BY <3>1, <3>2, <3>3 DEF OneInv
  <2>5. ASSUME NEW v \in AnyWorker, TemplateAt(v, "patch")' PROVE FALSE
    <3>1. v # w /\ TemplateAt(v, "patch")
      BY <2>2, <2>3, <2>5 DEF TemplateAt
    <3>2. Serial /\ v \in Workers /\ w \in Workers /\ deployment \in Deployments
      BY <1>5, <3>1, WriterWorks DEF OneInv, Checked, OutputInv, Dated, TemplateAt, TreeInv, ClassInv
    <3> QED
      BY <3>1, <3>2, OneThread
  <2> QED
    BY <2>1, <2>4, <2>5 DEF OneInv
<1> QED
  BY <1>3, <1>4, <1>5, TemplateChanges

LEMMA OneNext ==
    ASSUME TreeInv, OutputInv, OneInv, Dated', [Next]_vars PROVE OneInv'
<1>1. ASSUME UNCHANGED <<templateVars, deployment>> PROVE OneInv'
  BY <1>1 DEF OneInv, Checked, Asked, Alternating, Fitting, Serial, Workers, TemplateAt, templateVars
<1>2. CASE UNCHANGED vars
  BY <1>1, <1>2 DEF vars, classVars
<1>3. ASSUME NEW w \in AnyWorker, ClassStep(w), UNCHANGED <<templateVars, part, next, numberCall>> PROVE OneInv'
  BY <1>1, <1>3, ClassKeeps
<1>4. ASSUME NEW w \in AnyWorker, TemplateStep(w), UNCHANGED <<classVars, part, next, numberCall>> PROVE OneInv'
  BY <1>4, TemplateEffects, OneStep DEF classVars
<1>5. ASSUME NEW w \in AnyWorker, NumberStep(w), UNCHANGED <<classVars, templateVars>> PROVE OneInv'
  BY <1>1, <1>5 DEF classVars
<1> QED
  BY <1>2, <1>3, <1>4, <1>5, StepKinds

LEMMA OneAlways == Spec => [](TreeInv /\ OutputInv /\ OneInv)
<1>1. OutputInv => Dated
  BY DEF OutputInv
<1>2. TreeInv /\ OutputInv /\ OneInv /\ OutputInv' /\ [Next]_vars => OneInv'
  <2>1. OutputInv' => Dated'
    BY DEF OutputInv
  <2> QED
    BY <2>1, OneNext
<1> QED
  BY <1>2, OneInitial, OutputAlways, PTL DEF Spec

\* Activations of one scheme wait for each other, so a class has at most one
\* template on a day, unless is_active is switched or PATCHes overlap.
THEOREM OneApplies == Spec => []OneTemplateApplies
<1>1. TreeInv /\ OutputInv /\ OneInv => OneTemplateApplies
  <2> SUFFICES ASSUME TreeInv, OutputInv, OneInv, Checked, NEW c \in Classes, NEW day \in Days
               PROVE  Cardinality({t \in Effectual(c) : Applies(template[t], day)}) <= 1
    BY DEF OneTemplateApplies, Checked, Asked
  <2> DEFINE S == {t \in Effectual(c) : Applies(template[t], day)}
  <2>1. ASSUME NEW t \in S, NEW u \in S, t # u PROVE FALSE
    <3>1. /\ t \in Templates /\ EffectualAt(template[t]) /\ template[t].class = c /\ Applies(template[t], day)
          /\ u \in Templates /\ EffectualAt(template[u]) /\ template[u].class = c /\ Applies(template[u], day)
      BY DEF Effectual, EffectualAt
    <3>2. /\ template[t] \in TemplateRows /\ template[u] \in TemplateRows
          /\ template[t].from # None /\ template[u].from # None
      BY <3>1 DEF TreeInv, TemplateTyped, OutputInv, Dated, EffectualAt
    <3>3. TemplatesOverlap(template[t], template[u])
      BY <3>1, <3>2, OnOneDay
    <3>4. Alternating
      BY DEF OneInv
    <3> QED
      BY <2>1, <3>1, <3>3, <3>4 DEF Alternating
  <2>2. CASE S = {}
    BY <2>2, FS_EmptySet
  <2>3. CASE S # {}
    <3>1. PICK t : t \in S
      BY <2>3
    <3>2. S = {t}
      BY <2>1, <3>1
    <3>3. Cardinality({t}) = 1
      BY FS_Singleton
    <3> QED
      BY <3>2, <3>3
  <2> QED
    BY <2>2, <2>3
<1> QED
  BY <1>1, OneAlways, PTL
-----------------------------------------------------------------------------
(* The classification is a forest *)

Closed(S) == \A e \in S : class[e].parent \in S \cup {NoClass}
Upward(c, S) == Closed(S) /\ class[c].parent \in S \cup {NoClass}

LEMMA AncestorsUpward ==
    ASSUME ClassInv, NEW c \in Classes PROVE Ancestors(c) \in SUBSET Classes /\ Upward(c, Ancestors(c))
<1>1. \A e \in Classes : class[e].parent \in Classes \cup {NoClass}
  BY DEF ClassInv, ClassRows
<1> QED
  BY <1>1 DEF Ancestors, Upward, Closed

LEMMA AncestorsLeast ==
    ASSUME NEW c \in Classes, NEW S \in SUBSET Classes, Upward(c, S) PROVE Ancestors(c) \subseteq S
BY DEF Ancestors, Upward, Closed

\* Who is above a class that is above c is above c.
LEMMA AncestorsOf ==
    ASSUME ClassInv, NEW c \in Classes, NEW d \in Ancestors(c) PROVE Ancestors(d) \subseteq Ancestors(c)
<1>1. d \in Classes /\ Upward(d, Ancestors(c)) /\ Ancestors(c) \in SUBSET Classes
  BY AncestorsUpward DEF Upward, Closed
<1> QED
  BY <1>1, AncestorsLeast

Forest == \A c \in Classes : c \notin Ancestors(c)

\* A class under p leads to what p leads to.
LEMMA ParentSpan ==
    ASSUME ClassInv, NEW p \in Classes
    PROVE  {p} \cup Ancestors(p) \in SUBSET Classes /\ Closed({p} \cup Ancestors(p))
BY AncestorsUpward DEF Upward, Closed

LEMMA ForestInitial == Init => Forest
<1> SUFFICES ASSUME NEW d \in Deployments, ClassInit(d), Init PROVE Forest
  BY DEF Init
<1>1. ClassInv
  BY TreeInit DEF TreeInv
<1> DEFINE R == {c \in Classes : c \in Ancestors(c)}
<1>2. ASSUME NEW c \in R
      PROVE  c \in DOMAIN d.tree /\ d.tree[c] \in R
  <2> DEFINE p == class[c].parent
  <2>1. c \in Classes /\ c \in Ancestors(c) /\ p \in Classes \cup {NoClass}
    BY <1>1 DEF ClassInv, ClassRows
  <2>2. p # NoClass
    <3>1. ASSUME p = NoClass PROVE FALSE
      <4>1. {} \in SUBSET Classes /\ Upward(c, {})
        BY <3>1 DEF Upward, Closed
      <4>2. Ancestors(c) \subseteq {}
        BY <2>1, <4>1, AncestorsLeast
      <4> QED
        BY <2>1, <4>2
    <3> QED
      BY <3>1
  <2>3. p \in Classes /\ p \in Ancestors(c)
    BY <1>1, <2>1, <2>2, AncestorsUpward DEF Upward
  <2>4. Ancestors(c) \subseteq {p} \cup Ancestors(p)
    <3>1. Upward(c, {p} \cup Ancestors(p)) /\ {p} \cup Ancestors(p) \in SUBSET Classes
      BY <1>1, <2>3, ParentSpan DEF Upward
    <3> QED
      BY <2>1, <3>1, AncestorsLeast
  <2>5. p \in Ancestors(p)
    BY <1>1, <2>1, <2>3, <2>4, AncestorsOf
  <2>6. c \in DOMAIN d.tree /\ p = d.tree[c]
    BY <2>1, <2>2 DEF ClassInit, NoRow
  <2> QED
    BY <2>3, <2>5, <2>6
<1>3. R \in SUBSET DOMAIN d.tree
  BY <1>2
<1>4. R = {}
  BY <1>2, <1>3, DeploymentsAssumption
<1> QED
  BY <1>4 DEF Forest

\* A class moves to where it is not above already.
LEMMA MoveKeepsForest ==
    ASSUME ClassInv, ClassInv', Forest, NEW c \in Classes, NEW p \in Classes \cup {NoClass},
           p # NoClass => p # c /\ c \notin Ancestors(p),
           class'[c].parent = p, \A x \in Classes \ {c} : class'[x].parent = class[x].parent
    PROVE  Forest'
<1>1. PICK P \in SUBSET Classes :
           /\ P = (IF p = NoClass THEN {} ELSE {p} \cup Ancestors(p))
           /\ Closed(P) /\ c \notin P /\ p \in P \cup {NoClass}
  <2>1. CASE p = NoClass
    <3>1. {} \in SUBSET Classes /\ Closed({})
      BY DEF Closed
    <3> QED
      BY <2>1, <3>1
  <2>2. CASE p # NoClass
    <3>1. {p} \cup Ancestors(p) \in SUBSET Classes /\ Closed({p} \cup Ancestors(p))
      BY <2>2, ParentSpan
    <3> QED
      BY <2>2, <3>1
  <2> QED
    BY <2>1, <2>2
<1> SUFFICES ASSUME NEW x \in Classes PROVE \E S \in SUBSET Classes : Upward(x, S)' /\ x \notin S
  <2>1. \A x \in Classes : \A S \in SUBSET Classes : Upward(x, S)' => Ancestors(x)' \subseteq S
    BY DEF Ancestors, Upward, Closed
  <2> QED
    BY <2>1 DEF Forest
<1>2. Closed(P)' /\ Upward(c, P)'
  BY <1>1 DEF Closed, Upward
<1>3. CASE x = c
  BY <1>1, <1>2, <1>3
<1>4. CASE x # c
  <2>1. PICK A \in SUBSET Classes : A = Ancestors(x) /\ Upward(x, A) /\ x \notin A
    BY AncestorsUpward DEF Forest
  <2>2. CASE c \notin A
    BY <1>4, <2>1, <2>2 DEF Upward, Closed
  <2>3. CASE c \in A
    <3>1. x \notin P
      <4>1. ASSUME p \in Classes, x \in {p} \cup Ancestors(p) PROVE c \in Ancestors(p)
        BY <2>1, <2>3, <4>1, AncestorsOf
      <4> QED
        BY <1>1, <4>1
    <3>2. Upward(x, A \cup P)'
      <4>1. \A e \in A \cup P : class'[e].parent \in A \cup P \cup {NoClass}
        BY <1>1, <2>1 DEF Upward, Closed
      <4>2. class'[x].parent \in A \cup P \cup {NoClass}
        BY <1>4, <2>1 DEF Upward
      <4> QED
        BY <4>1, <4>2 DEF Upward, Closed
    <3> QED
      BY <1>1, <2>1, <3>1, <3>2
  <2> QED
    BY <2>2, <2>3
<1> QED
  BY <1>3, <1>4

\* A class without children leaves.
LEMMA DeleteKeepsForest ==
    ASSUME ClassInv, Forest, \A x \in Classes : class'[x].parent \in {class[x].parent, NoClass} PROVE Forest'
<1> SUFFICES ASSUME NEW x \in Classes PROVE Ancestors(x)' \subseteq Ancestors(x)
  BY DEF Forest
<1>1. Ancestors(x) \in SUBSET Classes /\ Upward(x, Ancestors(x))
  BY AncestorsUpward
<1>2. \A S \in SUBSET Classes : Upward(x, S) => Upward(x, S)'
  BY DEF Upward, Closed
<1>3. \A S \in SUBSET Classes : Upward(x, S)' => Ancestors(x)' \subseteq S
  BY DEF Ancestors, Upward, Closed
<1> QED
  BY <1>1, <1>2, <1>3

\* Without overlap, the parent that a class was validated for is not under it still.
Placed(k) == k.step = "save" /\ k.copy.parent # NoClass =>
                 k.copy.parent # k.class /\ k.class \notin Ancestors(k.copy.parent)
ForestInv ==
    /\ \A v \in AnyWorker : classCall[v].step # "idle" => v \in Workers
    /\ Serial => Forest /\ \A v \in AnyWorker : Placed(classCall[v])

LEMMA ForestStep ==
    ASSUME TreeInv, TreeInv', ForestInv, Serial, NEW w \in AnyWorker, ClassStep(w)
    PROVE  Forest' /\ \A v \in AnyWorker : Placed(classCall[v])'
<1>1. /\ ClassInv /\ ClassInv' /\ deployment \in Deployments
      /\ class \in [Classes -> ClassRows] /\ classCall \in [AnyWorker -> ClassCalls]
  BY DEF TreeInv, ClassInv
<1>2. CASE UNCHANGED <<class, classCall>>
  BY <1>2 DEF ForestInv, Forest, Placed, Ancestors
<1>3. ASSUME NEW c \in Classes, NEW p \in Classes \cup {NoClass}, NEW code \in Names, ReadClass(w, c, p, code)
      PROVE  Forest' /\ \A v \in AnyWorker : Placed(classCall[v])'
  <2>1. class' = class /\ \A d : Ancestors(d)' = Ancestors(d)
    BY <1>3 DEF ReadClass, Ancestors
  <2>2. /\ classCall'[w].step = "save" /\ classCall'[w].class = c /\ classCall'[w].copy.parent = p
        /\ \A v \in AnyWorker \ {w} : classCall'[v] = classCall[v]
    BY <1>1, <1>3 DEF ReadClass, Placing
  <2>3. p # c /\ (p # NoClass => c \notin Ancestors(p))
    BY <1>3 DEF ReadClass
  <2> QED
    BY <2>1, <2>2, <2>3 DEF ForestInv, Forest, Placed
<1>4. ASSUME w \in Workers, NEW v \in AnyWorker, v # w PROVE classCall[v].step = "idle"
  BY <1>1, <1>4, OneThread DEF ForestInv
<1>5. ASSUME NEW c \in Classes, DeleteClass(w, c, Used \cup HeldClasses)
      PROVE  Forest' /\ \A v \in AnyWorker : Placed(classCall[v])'
  <2>1. w \in Workers /\ classCall' = classCall /\ classCall[w].step = "idle"
    <3>1. w \in Workers /\ UNCHANGED <<deployment, classCall>> /\ classCall[w] = IdleClassCall
      BY <1>5, Zenon DEF DeleteClass
    <3> QED
      BY <3>1 DEF IdleClassCall
  <2>2. class' = [class EXCEPT ![c] = NoRow] /\ NoRow.parent = NoClass
    BY <1>5 DEF DeleteClass, NoRow
  <2>3. \A x \in Classes : class'[x].parent \in {class[x].parent, NoClass}
    BY <1>1, <2>2
  <2>4. \A v \in AnyWorker : classCall'[v].step = "idle"
    BY <1>4, <2>1
  <2> QED
    BY <1>1, <2>3, <2>4, DeleteKeepsForest DEF ForestInv, Placed
<1>6. CASE SaveClass(w, HeldClasses)
  <2>1. /\ classCall[w].step = "save" /\ w \in Workers
        /\ classCall[w].class \in Classes /\ classCall[w].copy.parent \in Classes \cup {NoClass}
    BY <1>1, <1>6 DEF SaveClass, ForestInv, ClassInv, ClassCalls, ClassRows
  <2>2. classCall' = [classCall EXCEPT ![w] = IdleClassCall] /\ IdleClassCall.step = "idle"
    BY <1>6 DEF SaveClass, IdleClassCall
  <2>3. \A v \in AnyWorker : classCall'[v].step = "idle"
    BY <1>1, <1>4, <2>1, <2>2
  <2>4. CASE class' = class
    BY <2>3, <2>4 DEF ForestInv, Forest, Placed, Ancestors
  <2>5. CASE class' = [class EXCEPT ![classCall[w].class] = classCall[w].copy]
    <3>1. /\ class'[classCall[w].class].parent = classCall[w].copy.parent
          /\ \A x \in Classes \ {classCall[w].class} : class'[x].parent = class[x].parent
      BY <1>1, <2>1, <2>5
    <3>2. Placed(classCall[w]) /\ Forest
      BY DEF ForestInv
    <3>3. Forest'
      BY <1>1, <2>1, <3>1, <3>2, MoveKeepsForest DEF Placed
    <3> QED
      BY <2>3, <3>3 DEF Placed
  <2> QED
    BY <1>6, <2>4, <2>5 DEF SaveClass
<1> QED
  BY <1>2, <1>3, <1>5, <1>6 DEF ClassStep, ClassStarts, Assign

LEMMA WorkersPlace ==
    ASSUME ClassInv, ForestInv, NEW w \in AnyWorker, ClassStep(w), NEW v \in AnyWorker, classCall'[v].step # "idle"
    PROVE  v \in Workers'
<1>1. deployment' = deployment /\ classCall \in [AnyWorker -> ClassCalls]
  BY ClassKeeps DEF ClassInv
<1>2. \/ classCall' = classCall
      \/ \E k : classCall' = [classCall EXCEPT ![w] = k] /\ (w \in Workers \/ k = IdleClassCall)
  BY DEF ClassStep, ClassStarts, ReadClass, DeleteClass, Assign, SaveClass
<1> QED
  BY <1>1, <1>2 DEF ForestInv, IdleClassCall, Workers

LEMMA ForestNext ==
    ASSUME TreeInv, TreeInv', ForestInv, [Next]_vars PROVE ForestInv'
<1>1. ASSUME UNCHANGED classVars PROVE ForestInv'
  BY <1>1 DEF classVars, ForestInv, Forest, Placed, Ancestors, Serial, Workers
<1>2. ASSUME NEW w \in AnyWorker, ClassStep(w) PROVE ForestInv'
  <2>1. Serial' <=> Serial
    BY <1>2, ClassKeeps DEF Serial, Workers
  <2>2. \A v \in AnyWorker : classCall'[v].step # "idle" => v \in Workers'
    BY <1>2, WorkersPlace DEF TreeInv
  <2>3. Serial => Forest' /\ \A v \in AnyWorker : Placed(classCall[v])'
    BY <1>2, ForestStep
  <2> QED
    BY <2>1, <2>2, <2>3 DEF ForestInv
<1>3. CASE UNCHANGED vars
  BY <1>1, <1>3 DEF vars
<1> QED
  BY <1>1, <1>2, <1>3, StepKinds

\* A class on a day has one rule, and one place in the tree: as long as moves do
\* not overlap, none closes a circle.
THEOREM RulesAreSound == Spec => []RulesSound
<1>1. Init => ForestInv
  <2>1. Init => \A v \in AnyWorker : classCall[v].step = "idle"
    BY DEF Init, ClassInit, IdleClassCall
  <2> QED
    BY <2>1, ForestInitial DEF ForestInv, Placed
<1>2. ForestInv => ClassesAcyclic
  BY DEF ForestInv, Forest, ClassesAcyclic
<1>3. TreeInv /\ TreeInv' /\ ForestInv /\ [Next]_vars => ForestInv'
  BY ForestNext
<1>4. Spec => []TreeInv
  BY BaseAlways, PTL
<1>5. Spec => []ForestInv
  BY <1>1, <1>3, <1>4, PTL DEF Spec
<1> QED
  BY <1>2, <1>5, OneApplies, PTL DEF RulesSound

=============================================================================
