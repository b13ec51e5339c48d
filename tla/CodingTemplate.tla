------------------------------ MODULE CodingTemplate ------------------------------
(***************************************************************************)
(* Coding templates of one coding scheme: which segments a generated part  *)
(* number has, for which class and on which days.  A template is a number, *)
(* its version.  Activation locks the template with its scheme and class;  *)
(* every other request writes the row as it was loaded.                    *)
(***************************************************************************)
EXTENDS PartClassification

CONSTANTS
    MaxDay,             \* bound: the last day a template may name
    MaxVersion          \* bound: versions of templates

ASSUME TemplateBoundsAssumption == MaxDay \in Nat /\ MaxVersion \in Nat

VARIABLES
    schemeOn,           \* the scheme's is_active
    template,           \* the ItemCodingTemplate rows
    segments,           \* the ItemCodingTemplateSegment rows of each
    templateCall        \* what each thread is doing

templateVars == <<schemeOn, template, segments, templateCall>>

Days == 1..MaxDay
None == 0
Templates == 1..MaxVersion
NoTemplate == 0

\* The class itself, the first component of its path, a number of the sequence, or
\* the encoded value of an attribute.
SegmentKinds == {"class", "domain", "number"} \cup Attributes

TemplateRows == [status: {"absent", "draft", "active", "retired"}, on: BOOLEAN,
                 from: Days \cup {None}, to: Days \cup {None}, class: Classes \cup {NoClass}]
AbsentTemplate == [status |-> "absent", on |-> FALSE, from |-> None, to |-> None, class |-> NoClass]

\* "ready" holds the locked rows of a validated template, "retire" and "patch" a
\* loaded row, "segment" a change of segments that was validated.
IdleTemplateCall == [step |-> "idle", version |-> NoTemplate, copy |-> AbsentTemplate, others |-> {},
                     removes |-> {}, adds |-> {}]

TemplateInit(d) ==
    /\ schemeOn = TRUE
    /\ template = [t \in Templates |-> IF t \in DOMAIN d.templates THEN d.templates[t] ELSE AbsentTemplate]
    /\ segments = [t \in Templates |-> IF t \in DOMAIN d.segments THEN d.segments[t] ELSE {}]
    /\ templateCall = [w \in AnyWorker |-> IdleTemplateCall]

TemplateExists(t) == template[t].status # "absent"
TemplateServes(w, kind) == w \in Workers /\ Asked(kind) /\ templateCall[w] = IdleTemplateCall
TemplateAt(w, step) == templateCall[w].step = step
TemplateFinish(w) == templateCall' = [templateCall EXCEPT ![w] = IdleTemplateCall]

MutActivating == {}

\* SELECT ... FOR UPDATE of the template joined with scheme and class, then of
\* the active templates of the class.
Activating == {v \in AnyWorker : TemplateAt(v, "ready")}
HeldTemplates == UNION {{templateCall[v].version} \cup templateCall[v].others : v \in Activating}
HeldClasses == {template[templateCall[v].version].class : v \in Activating}
SchemeFree == Activating = {}
TemplateFree(t) == t \notin HeldTemplates

Applies(row, day) == (row.from = None \/ row.from <= day) /\ (row.to = None \/ day <= row.to)
TemplatesOverlap(a, b) ==
    /\ b.to = None \/ a.from <= b.to
    /\ a.to = None \/ b.from = None \/ b.from <= a.to

\* The attributes that have a segment are effective for the class.
Encodable(S, c) == S \cap Attributes # {} => ~Endless(c) /\ S \cap Attributes \subseteq Effective(c)

\* validate_template
TemplateValid(t) == segments[t] # {} /\ Encodable(segments[t], template[t].class)

Effectual(c) == {t \in Templates : /\ template[t].status = "active" /\ template[t].on
                                   /\ template[t].class = c}

\* A template without a first day gets today's.  Saving it will refuse an end before it.
LockTemplate(w, t, day) ==
    LET row == [template[t] EXCEPT !.from = IF @ = None THEN day ELSE @]
        others == Effectual(row.class) \ {t}
    IN
    /\ TemplateServes(w, "activate") /\ TemplateExists(t) /\ SchemeFree
    /\ TemplateValid(t) /\ (row.to # None => row.from <= row.to)
    /\ \A o \in others : ~TemplatesOverlap(row, template[o])
    /\ templateCall' = [templateCall EXCEPT ![w] = [IdleTemplateCall EXCEPT
         !.step = "ready", !.version = t, !.copy = row, !.others = others]]
    /\ UNCHANGED <<schemeOn, template, segments>>

\* A template that is switched off stays off.
ActivateTemplate(w) ==
    LET t == templateCall[w].version IN
    /\ TemplateAt(w, "ready")
    /\ template' = [template EXCEPT ![t].status = "active", ![t].from = templateCall[w].copy.from]
    /\ TemplateFinish(w)
    /\ UNCHANGED <<schemeOn, segments>>

Protected(row) == <<row.class, row.from, row.to>>

ReadTemplate(w, kind, step, t, copy) ==
    /\ TemplateServes(w, kind) /\ TemplateExists(t)
    /\ templateCall' = [templateCall EXCEPT ![w] = [IdleTemplateCall EXCEPT
         !.step = step, !.version = t, !.copy = copy]]
    /\ UNCHANGED <<schemeOn, template, segments>>

ReadRetire(w, t) == ReadTemplate(w, "retire", "retire", t, template[t])

\* save compares the loaded row with the stored one, then only writes the
\* fields of the retirement.
SaveRetire(w) ==
    LET t == templateCall[w].version IN
    /\ TemplateAt(w, "retire") /\ TemplateFree(t)
    /\ template' = IF \/ ~TemplateExists(t)
                      \/ template[t].status = "active" /\ Protected(template[t]) # Protected(templateCall[w].copy)
                   THEN template
                   ELSE [template EXCEPT ![t].status = "retired", ![t].on = FALSE]
    /\ TemplateFinish(w)
    /\ UNCHANGED <<schemeOn, segments>>

\* PATCH of anything but the status; is_active is free in every status.
ReadTemplatePatch(w, t, copy) ==
    /\ copy.status = template[t].status
    /\ Asked("switch") \/ copy.on = template[t].on
    /\ copy.from # None /\ copy.to # None => copy.from <= copy.to
    /\ template[t].status = "active" => Protected(copy) = Protected(template[t])
    /\ copy.class \in Classes /\ Present(copy.class)
    /\ ReadTemplate(w, "patch template", "patch", t, copy)

\* A row deleted meanwhile is inserted again, without its segments.
SaveTemplatePatch(w) ==
    LET t == templateCall[w].version IN
    /\ TemplateAt(w, "patch") /\ TemplateFree(t)
    /\ template' = IF Present(templateCall[w].copy.class)
                   THEN [template EXCEPT ![t] = templateCall[w].copy] ELSE template
    /\ TemplateFinish(w)
    /\ UNCHANGED <<schemeOn, segments>>

\* POST of a template with its class, its days and is_active; its status is draft.
CreateTemplate(w, t, row) ==
    /\ TemplateServes(w, "create template") /\ ~TemplateExists(t) /\ SchemeFree
    /\ row.status = "draft" /\ row.class \in Classes /\ Present(row.class)
    /\ row.from # None /\ row.to # None => row.from <= row.to
    /\ template' = [template EXCEPT ![t] = row]
    /\ segments' = [segments EXCEPT ![t] = {}]
    /\ UNCHANGED <<schemeOn, templateCall>>

\* clone_template: the next version, with a copy of every segment.
CloneTemplate(w, s, t) ==
    /\ TemplateServes(w, "clone template") /\ TemplateExists(s) /\ SchemeFree
    /\ ~TemplateExists(t) /\ \A o \in Templates : TemplateExists(o) => o < t
    /\ template' = [template EXCEPT ![t] = [AbsentTemplate EXCEPT
                      !.status = "draft", !.on = TRUE, !.class = template[s].class]]
    /\ segments' = [segments EXCEPT ![t] = segments[s]]
    /\ UNCHANGED <<schemeOn, templateCall>>

DestroyTemplate(w, t) ==
    /\ TemplateServes(w, "destroy template") /\ TemplateExists(t) /\ TemplateFree(t)
    /\ template' = [template EXCEPT ![t] = AbsentTemplate]
    /\ segments' = [segments EXCEPT ![t] = {}]
    /\ UNCHANGED <<schemeOn, templateCall>>

MutReadSegment(w, t, removes, adds) ==
    /\ TemplateServes(w, "segment") /\ TemplateExists(t)
    /\ removes \subseteq segments[t] /\ adds \cap segments[t] = {}
    /\ Encodable(adds, template[t].class)
    /\ templateCall' = [templateCall EXCEPT ![w] = [IdleTemplateCall EXCEPT
         !.step = "segment", !.version = t, !.removes = removes, !.adds = adds]]
    /\ UNCHANGED <<schemeOn, template, segments>>

\* A segment is added, or one replaced: clean refuses it for a template that is
\* active when it is loaded (a new row has its key already).
ReadSegment(w, t, removes, adds) ==
    /\ TemplateServes(w, "segment") /\ TemplateExists(t) /\ template[t].status # "active"
    /\ removes \subseteq segments[t] /\ adds \cap segments[t] = {}
    /\ Encodable(adds, template[t].class)
    /\ templateCall' = [templateCall EXCEPT ![w] = [IdleTemplateCall EXCEPT
         !.step = "segment", !.version = t, !.removes = removes, !.adds = adds]]
    /\ UNCHANGED <<schemeOn, template, segments>>

SaveSegment(w) ==
    LET call == templateCall[w] IN
    /\ TemplateAt(w, "segment") /\ TemplateFree(call.version)
    /\ segments' = IF TemplateExists(call.version)
                   THEN [segments EXCEPT ![call.version] = (@ \ call.removes) \cup call.adds]
                   ELSE segments
    /\ TemplateFinish(w)
    /\ UNCHANGED <<schemeOn, template>>

\* DELETE of a segment, whatever the status of its template.
RemoveSegment(w, t, s) ==
    /\ TemplateServes(w, "remove segment") /\ TemplateExists(t) /\ s \in segments[t]
    /\ segments' = [segments EXCEPT ![t] = @ \ {s}]
    /\ UNCHANGED <<schemeOn, template, templateCall>>

SwitchScheme(w) ==
    /\ TemplateServes(w, "scheme active") /\ SchemeFree
    /\ schemeOn' = ~schemeOn
    /\ UNCHANGED <<template, segments, templateCall>>

Single(S) == {{}} \cup {{x} : x \in S}

TemplateStarts(w) ==
    \/ SwitchScheme(w)
    \/ \E t \in Templates :
           \/ \E day \in Days : LockTemplate(w, t, day)
           \/ ReadRetire(w, t)
           \/ Asked("patch template") /\ \E copy \in TemplateRows : ReadTemplatePatch(w, t, copy)
           \/ Asked("create template") /\ \E row \in TemplateRows : CreateTemplate(w, t, row)
           \/ \E s \in Templates : CloneTemplate(w, s, t)
           \/ DestroyTemplate(w, t)
           \/ \E removes \in Single(segments[t]), s \in SegmentKinds : ReadSegment(w, t, removes, {s})
           \/ \E s \in SegmentKinds : RemoveSegment(w, t, s)

TemplateContinues(w) ==
    ActivateTemplate(w) \/ SaveRetire(w) \/ SaveTemplatePatch(w) \/ SaveSegment(w)

=============================================================================
