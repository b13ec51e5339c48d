------------------------------- MODULE PartNumbering ------------------------------
(***************************************************************************)
(* Parts and the numbers they are created with.  A controlled creation is  *)
(* one transaction: it resolves a template, takes the row of its scope's   *)
(* sequence, looks for duplicates among the committed parts and inserts    *)
(* the part with its first revision, values and identifiers; a refusal or  *)
(* a crash gives the number back.  The older code scheme commits its       *)
(* number first.  The scope and the class of a code come from the code and *)
(* the stored path of the class, which moving or renaming a node above it  *)
(* leaves as they were; a part keeps the identity it was created with.     *)
(***************************************************************************)
EXTENDS CodingTemplate

CONSTANTS
    Parts,              \* Item rows, existing or not: numbers
    Values,             \* the values of an attribute
    Identifiers,        \* values of identifiers whose type must be unique
    MaxNumber           \* bound: the last number of a sequence

ASSUME PartBoundsAssumption == Parts \subseteq Nat /\ IsFiniteSet(Parts) /\ MaxNumber \in Nat

VARIABLES
    part,               \* the Item rows, with their first revision
    next,               \* next_sequence of each scope
    numberCall          \* what each thread is doing

vars == <<classVars, templateVars, part, next, numberCall>>

\* A class's own sequence has its id, a domain's the first component of the path;
\* "all" is the scope of a company-wide sequence, "legacy" the CodeScheme row.
Scopes == Classes \cup Names \cup {"all", "legacy", "none"}
ASSUME ScopesAssumption == (Classes \cup Names) \cap {"all", "legacy", "none"} = {}

Payloads == UNION {[S -> Values] : S \in SUBSET Attributes}
NoPayload == [a \in {} |-> 0]

\* A code is what its segments produce.  Typed codes may differ in case only.
Codes == [class: Names \cup {NoName}, domain: Names \cup {NoName}, bears: Payloads, number: 0..MaxNumber, lower: BOOLEAN]
TypedCode(n, lower) == [class |-> NoName, domain |-> NoName, bears |-> NoPayload, number |-> n, lower |-> lower]
Folded(code) == [code EXCEPT !.lower = FALSE]

\* canonicalize_for_identity names the class by the code it has then.
Identities == [class: Names \cup {NoName}, attributes: Payloads]
NoIdentity == [class |-> NoName, attributes |-> NoPayload]

PartRows == [exists: BOOLEAN, code: Codes, class: Classes \cup {NoClass}, identity: Identities,
             scope: Scopes, number: 0..MaxNumber, overridden: BOOLEAN,
             values: Payloads, released: BOOLEAN, identifiers: SUBSET Identifiers]
NoPart == [exists |-> FALSE, code |-> TypedCode(0, FALSE), class |-> NoClass, identity |-> NoIdentity,
           scope |-> "none", number |-> 0, overridden |-> FALSE,
           values |-> NoPayload, released |-> FALSE, identifiers |-> {}]

\* The new row is in draft: "normalize" of a request as it came, "reserve" of one
\* that waits for its sequence, "check" and "insert" of one with its code.
\* "rename", "value" and "identifier" are updates that were validated, "scheme"
\* that of a code scheme, with the counter it will have.
IdleNumberCall == [step |-> "idle", part |-> 0, draft |-> NoPart, generated |-> FALSE, number |-> 0]

NumberInit(d) ==
    /\ part = [p \in Parts |-> NoPart]
    /\ next = [s \in Scopes |-> 1]
    /\ numberCall = [w \in AnyWorker |-> IdleNumberCall]

Init == \E d \in Deployments : ClassInit(d) /\ TemplateInit(d) /\ NumberInit(d)

NumberServes(w, kind) == w \in Workers /\ Asked(kind) /\ numberCall[w] = IdleNumberCall
NumberAt(w, step) == numberCall[w].step = step
NumberFinish(w) == numberCall' = [numberCall EXCEPT ![w] = IdleNumberCall]
Existing == {p \in Parts : part[p].exists}

\* Bound: a creation starts only where a part and a number are left for it.
Room ==
    LET begun == Cardinality({v \in AnyWorker : numberCall[v] # IdleNumberCall}) IN
    /\ Cardinality(Existing) + begun < Cardinality(Parts)
    /\ \A s \in Scopes : next[s] + begun <= MaxNumber

Owner(id) == {p \in Existing : id \in part[p].identifiers}

\* The sequence row of a scope is held from its reservation to the commit.
ScopeFree(s) ==
    \A v \in AnyWorker : numberCall[v].step \in {"check", "insert"} /\ numberCall[v].generated
                           => numberCall[v].draft.scope # s

\* What a deployment starts with: a forest of classes, templates of theirs that have a
\* first day and do not overlap when they are active, payloads and rules over the
\* declared values.
ASSUME DeploymentsAssumption ==
    /\ IsFiniteSet(AnyWorker)
    /\ \A d \in Deployments :
        /\ DOMAIN d.tree \subseteq Classes
        /\ \A c \in DOMAIN d.tree : d.tree[c] \in DOMAIN d.tree \cup {NoClass}
        /\ \A S \in SUBSET DOMAIN d.tree : S # {} => \E c \in S : d.tree[c] \notin S
        /\ d.names \in [Classes -> Names] /\ d.assigned \in [Classes -> [Attributes -> Roles]]
        /\ d.payloads \subseteq Payloads /\ d.encoded \in [Values -> Values]
        /\ \A t \in DOMAIN d.templates :
             /\ d.templates[t] \in TemplateRows /\ d.templates[t].status # "absent"
             /\ d.templates[t].status = "active" => d.templates[t].from # None
             /\ d.templates[t].class \in DOMAIN d.tree
             /\ \A u \in DOMAIN d.templates \ {t} :
                  ~(/\ d.templates[t].status = "active" /\ d.templates[t].on
                    /\ d.templates[u].status = "active" /\ d.templates[u].on
                    /\ d.templates[t].class = d.templates[u].class
                    /\ TemplatesOverlap(d.templates[t], d.templates[u]))
        /\ DOMAIN d.segments \subseteq DOMAIN d.templates
        /\ \A t \in DOMAIN d.segments : d.segments[t] \subseteq SegmentKinds

-----------------------------------------------------------------------------
(* Controlled creation *)

Request(w, kind, draft) ==
    /\ NumberServes(w, kind) /\ Room
    /\ numberCall' = [numberCall EXCEPT ![w] =
         [IdleNumberCall EXCEPT !.step = IF kind = "plain" THEN "check" ELSE "normalize", !.draft = draft,
                                !.generated = (kind = "generate")]]
    /\ UNCHANGED <<part, next>>

\* create_item_from_code with the class as it is loaded.  A template is resolved by
\* itself, a manual or legacy scheme takes the code as it was typed.
ControlledCreate(w, kind, c, payload, number, lower, ids, override) ==
    /\ kind \in {"generate", "manual"} /\ Present(c) /\ (kind = "generate" => number = 0 /\ ~lower)
    /\ Request(w, kind, [NoPart EXCEPT
         !.exists = TRUE, !.class = c, !.identity.class = class[c].code, !.values = payload,
         !.code = TypedCode(number, lower), !.identifiers = ids, !.overridden = override])

\* POST of an item with its code.
PlainCreate(w, number, lower) ==
    Request(w, "plain", [NoPart EXCEPT !.exists = TRUE, !.code = TypedCode(number, lower)])

\* resolve_template: the newest of the templates that apply.
Resolved(c, day) ==
    LET fits == {t \in Effectual(c) : Applies(template[t], day)}
    IN IF fits = {} \/ ~schemeOn THEN NoTemplate ELSE Max(fits)

\* _sequence_scope_key
ScopeOf(c) ==
    CASE deployment.scope = "GLOBAL" -> "all"
      [] deployment.scope = "DOMAIN" -> class[c].domain
      [] OTHER -> c

\* encode_attribute: a rule may not tell two values apart.
Encoded(v) == deployment.encoded[v]

\* build_code up to the number.
CodeFrom(t, payload) ==
    [class |-> IF "class" \in segments[t] THEN class[template[t].class].code ELSE NoName,
     domain |-> IF "domain" \in segments[t] THEN class[template[t].class].domain ELSE NoName,
     bears |-> [a \in segments[t] \cap Attributes |-> Encoded(payload[a])],
     number |-> 0, lower |-> FALSE]

\* normalize_attribute_payload walks up the tree, which ends in no circle.  All
\* required attributes must be there and none that is not assigned; a segment
\* needs its attribute.  Template and segments are read without a lock.
Normalize(w, day) ==
    LET draft == numberCall[w].draft
        t == Resolved(draft.class, day)
        numbered == "number" \in segments[t]
        keys == Keys(draft.class)
        complete == keys \subseteq DOMAIN draft.values /\ DOMAIN draft.values \subseteq Effective(draft.class)
        coded == /\ t # NoTemplate /\ TemplateValid(t)
                 /\ segments[t] \cap Attributes \subseteq DOMAIN draft.values
        identified == [draft EXCEPT !.identity.attributes = [a \in keys |-> draft.values[a]]]
    IN
    /\ NumberAt(w, "normalize") /\ ~Endless(draft.class)
    /\ numberCall' = [numberCall EXCEPT ![w] =
         IF ~complete THEN IdleNumberCall
         ELSE IF ~numberCall[w].generated THEN [@ EXCEPT !.step = "check", !.draft = identified]
         ELSE IF ~coded THEN IdleNumberCall
         ELSE [@ EXCEPT !.step = IF numbered THEN "reserve" ELSE "check", !.generated = numbered,
                        !.draft = [identified EXCEPT !.code = CodeFrom(t, draft.values),
                                     !.scope = IF numbered THEN ScopeOf(draft.class) ELSE "none"]]]
    /\ UNCHANGED <<part, next>>

MutReserve(w) ==
    LET s == numberCall[w].draft.scope IN
    /\ NumberAt(w, "reserve") /\ ScopeFree(s)
    /\ numberCall' = [numberCall EXCEPT ![w].step = "check", ![w].generated = FALSE,
                        ![w].draft.number = next[s], ![w].draft.code.number = next[s]]
    /\ next' = [next EXCEPT ![s] = @ + 1]
    /\ UNCHANGED part

\* reserve_sequence: nobody else sees the new value before the commit.
Reserve(w) ==
    LET s == numberCall[w].draft.scope IN
    /\ NumberAt(w, "reserve") /\ ScopeFree(s)
    /\ numberCall' = [numberCall EXCEPT ![w].step = "check",
                        ![w].draft.number = next[s], ![w].draft.code.number = next[s]]
    /\ UNCHANGED <<part, next>>

MutCodeTaken(code, others) == \E p \in others : part[p].code = code

\* Item.clean: item_code__iexact.
CodeTaken(code, others) == \E p \in others : Folded(part[p].code) = Folded(code)
SameIdentity(a, b) == a.identity.class # NoName /\ a.identity = b.identity

\* duplicate_check and the clean methods of the rows to come: an override lets a
\* second part of the same identity pass, and nothing else.
Check(w) ==
    LET draft == numberCall[w].draft
        duplicate == \E p \in Existing : SameIdentity(part[p], draft)
        refused == \/ CodeTaken(draft.code, Existing)
                   \/ duplicate /\ ~draft.overridden
                   \/ \E id \in draft.identifiers : Owner(id) # {}
    IN
    /\ NumberAt(w, "check")
    /\ numberCall' = [numberCall EXCEPT ![w] =
         IF refused THEN IdleNumberCall ELSE [@ EXCEPT !.step = "insert"]]
    /\ UNCHANGED <<part, next>>

\* The inserts and the commit.  The unique key compares codes as they are, the
\* foreign keys wait for who holds the scheme.
Insert(w) ==
    LET call == numberCall[w]
        draft == call.draft
        accepted == /\ \A p \in Existing : part[p].code # draft.code
                    /\ draft.class # NoClass => Present(draft.class)
    IN
    /\ NumberAt(w, "insert") /\ SchemeFree
    /\ part' = IF accepted THEN [part EXCEPT ![Min(Parts \ Existing)] = draft] ELSE part
    /\ next' = IF accepted /\ call.generated THEN [next EXCEPT ![draft.scope] = draft.number + 1] ELSE next
    /\ NumberFinish(w)

\* The thread dies, the database rolls back.
Crash(w) ==
    /\ Asked("crash") /\ numberCall[w].step \in {"normalize", "reserve", "check", "insert"}
    /\ NumberFinish(w)
    /\ UNCHANGED <<part, next>>

-----------------------------------------------------------------------------
(* The older code scheme *)

\* CodeScheme.generate_code
LegacyDraft(n) == [NoPart EXCEPT !.exists = TRUE, !.code = TypedCode(n, FALSE), !.scope = "legacy", !.number = n]

\* POST of an item without a code: generate_code commits by itself, whether or
\* not the part is accepted afterwards.
GenerateCode(w) ==
    /\ NumberServes(w, "legacy") /\ Room
    /\ numberCall' = [numberCall EXCEPT ![w] = [IdleNumberCall EXCEPT
         !.step = "check", !.draft = LegacyDraft(next["legacy"])]]
    /\ next' = [next EXCEPT !["legacy"] = @ + 1]
    /\ UNCHANGED part

\* PATCH of a code scheme: the counter is the client's, or else as it was loaded.
ReadScheme(w, number) ==
    /\ NumberServes(w, "scheme")
    /\ numberCall' = [numberCall EXCEPT ![w] =
         [IdleNumberCall EXCEPT !.step = "scheme", !.number = number]]
    /\ UNCHANGED <<part, next>>

SaveScheme(w) ==
    /\ NumberAt(w, "scheme")
    /\ next' = [next EXCEPT !["legacy"] = numberCall[w].number]
    /\ NumberFinish(w)
    /\ UNCHANGED part

-----------------------------------------------------------------------------
(* Parts, their values and identifiers *)

ReadPart(w, kind, step, p, draft) ==
    /\ NumberServes(w, kind) /\ part[p].exists
    /\ numberCall' = [numberCall EXCEPT ![w] = [IdleNumberCall EXCEPT
         !.step = step, !.part = p, !.draft = draft]]
    /\ UNCHANGED <<part, next>>

\* PATCH of the code; generated_code_locked is read by nothing.
ReadRename(w, p, number, lower) ==
    /\ ~CodeTaken(TypedCode(number, lower), Existing \ {p})
    /\ ReadPart(w, "rename", "rename", p, [part[p] EXCEPT !.code = TypedCode(number, lower)])

SaveRename(w) ==
    LET p == numberCall[w].part code == numberCall[w].draft.code IN
    /\ NumberAt(w, "rename")
    /\ part' = IF part[p].exists /\ \A o \in Existing \ {p} : part[o].code # code
               THEN [part EXCEPT ![p].code = code] ELSE part
    /\ NumberFinish(w)
    /\ UNCHANGED next

\* A value of the revision is set: clean refuses a revision that is released.
ReadValue(w, p, a, v) ==
    /\ ~part[p].released
    /\ part[p].class # NoClass => ~Endless(part[p].class) /\ a \in Effective(part[p].class)
    /\ ReadPart(w, "value", "value", p, [part[p] EXCEPT
         !.values = [b \in DOMAIN @ \cup {a} |-> IF b = a THEN v ELSE @[b]]])

SaveValue(w) ==
    LET call == numberCall[w] IN
    /\ NumberAt(w, "value")
    /\ part' = IF part[call.part].exists THEN [part EXCEPT ![call.part].values = call.draft.values] ELSE part
    /\ NumberFinish(w)
    /\ UNCHANGED next

\* DELETE of a value, whatever the status of its revision.
RemoveValue(w, p, a) ==
    /\ NumberServes(w, "remove value") /\ part[p].exists /\ a \in DOMAIN part[p].values
    /\ part' = [part EXCEPT ![p].values = [b \in DOMAIN @ \ {a} |-> @[b]]]
    /\ UNCHANGED <<next, numberCall>>

\* The revision is released, as module ItemRelease has it.
ReleaseRevision(w, p) ==
    /\ NumberServes(w, "release") /\ part[p].exists /\ ~part[p].released
    /\ part' = [part EXCEPT ![p].released = TRUE]
    /\ UNCHANGED <<next, numberCall>>

\* A draft revision is deleted, then its item, which it protected.
DeletePart(w, p) ==
    /\ NumberServes(w, "delete part") /\ part[p].exists /\ ~part[p].released
    /\ part' = [part EXCEPT ![p] = NoPart]
    /\ UNCHANGED <<next, numberCall>>

\* ItemIdentifier.clean: one part per value, without a constraint behind it.
ReadIdentifier(w, p, id) ==
    /\ Owner(id) = {}
    /\ ReadPart(w, "identifier", "identifier", p, [NoPart EXCEPT !.identifiers = {id}])

SaveIdentifier(w) ==
    LET call == numberCall[w] IN
    /\ NumberAt(w, "identifier")
    /\ part' = IF part[call.part].exists
               THEN [part EXCEPT ![call.part].identifiers = @ \cup call.draft.identifiers] ELSE part
    /\ NumberFinish(w)
    /\ UNCHANGED next

RemoveIdentifier(w, p, id) ==
    /\ NumberServes(w, "remove identifier") /\ part[p].exists /\ id \in part[p].identifiers
    /\ part' = [part EXCEPT ![p].identifiers = @ \ {id}]
    /\ UNCHANGED <<next, numberCall>>

-----------------------------------------------------------------------------
(* Threads *)

NumberStarts(w) ==
    \/ Asked("generate") /\ \E c \in Classes, payload \in deployment.payloads, ids \in Single(Identifiers) :
         (ids # {} => Asked("identifier")) /\ ControlledCreate(w, "generate", c, payload, 0, FALSE, ids, FALSE)
    \/ Asked("override") /\ \E c \in Classes, payload \in deployment.payloads :
         ControlledCreate(w, "generate", c, payload, 0, FALSE, {}, TRUE)
    \/ \E n \in 1..MaxNumber, lower \in BOOLEAN :
         \/ PlainCreate(w, n, lower)
         \/ Asked("manual") /\ \E c \in Classes, payload \in deployment.payloads :
              ControlledCreate(w, "manual", c, payload, n, lower, {}, FALSE)
         \/ \E p \in Existing : ReadRename(w, p, n, lower)
    \/ GenerateCode(w) \/ \E n \in 1..MaxNumber + 1 : ReadScheme(w, n)
    \/ \E p \in Existing :
         \/ ReleaseRevision(w, p) \/ DeletePart(w, p)
         \/ \E a \in Attributes : RemoveValue(w, p, a) \/ \E v \in Values : ReadValue(w, p, a, v)
         \/ \E id \in Identifiers : ReadIdentifier(w, p, id) \/ RemoveIdentifier(w, p, id)

NumberContinues(w) ==
    \/ \E day \in Days : Normalize(w, day)
    \/ Reserve(w) \/ Check(w) \/ Insert(w)
    \/ SaveScheme(w) \/ SaveRename(w) \/ SaveValue(w) \/ SaveIdentifier(w)

IdleThread(w) == /\ classCall[w] = IdleClassCall /\ templateCall[w] = IdleTemplateCall
                 /\ numberCall[w] = IdleNumberCall

\* The rows that protect a class from being deleted.
Used == {template[t].class : t \in Templates} \cup {part[p].class : p \in Parts}

Starts(w) ==
    /\ IdleThread(w)
    /\ \/ ClassStarts(w, Used \cup HeldClasses) /\ UNCHANGED <<templateVars, part, next, numberCall>>
       \/ TemplateStarts(w) /\ UNCHANGED <<classVars, part, next, numberCall>>
       \/ NumberStarts(w) /\ UNCHANGED <<classVars, templateVars>>

Continues(w) ==
    \/ SaveClass(w, HeldClasses) /\ UNCHANGED <<templateVars, part, next, numberCall>>
    \/ TemplateContinues(w) /\ UNCHANGED <<classVars, part, next, numberCall>>
    \/ NumberContinues(w) /\ UNCHANGED <<classVars, templateVars>>

Next == \E w \in AnyWorker :
    Starts(w) \/ Continues(w) \/ (Crash(w) /\ UNCHANGED <<classVars, templateVars>>)

\* The server finishes what it started; row locks are granted to who waits.
Spec == Init /\ [][Next]_vars /\ \A w \in AnyWorker : SF_vars(Continues(w))

-----------------------------------------------------------------------------
(* Properties *)

TypeOK ==
    /\ class \in [Classes -> ClassRows] /\ assigned \in [Classes -> [Attributes -> Roles]]
    /\ schemeOn \in BOOLEAN
    /\ template \in [Templates -> TemplateRows] /\ segments \in [Templates -> SUBSET SegmentKinds]
    /\ \A p \in Parts : part[p] \in PartRows
    /\ next \in [Scopes -> 1..MaxNumber + 1]
    /\ \A w \in AnyWorker : numberCall[w].draft \in PartRows

\* A number of a sequence belongs to one part, and to one creation that is under
\* way.  The older code scheme's counter may be set by its clients: its numbers are
\* claimed where none of them updates it.
NumbersUnique ==
    LET drafts == {numberCall[w].draft : w \in {v \in AnyWorker : numberCall[v].step = "insert"}}
        counted == Scopes \ (IF "scheme" \in deployment.kinds THEN {"none", "legacy"} ELSE {"none"})
        Same(a, b) == a.scope = b.scope /\ a.scope \in counted /\ a.number = b.number
    IN /\ \A p, q \in Existing : p # q => ~Same(part[p], part[q])
       /\ \A p \in Existing, d \in drafts : ~Same(part[p], d)

\* A number of a template's sequence is spent in the step that makes its part and
\* never otherwise: refusals and crashes leave no gap.
NumberWithItem ==
    [][\A s \in Scopes \ {"legacy"} : next'[s] # next[s] =>
        /\ next'[s] = next[s] + 1
        /\ \E p \in Parts : ~part[p].exists /\ part'[p].scope = s /\ part'[p].number = next[s]]_<<next, part>>

\* Parts whose numbers come from one sequence were created with different
\* identities, unless the duplicate was overridden: the sequence is taken before
\* duplicates are looked for, so the second of two creations sees the first.  Parts
\* that take no number need requests that do not overlap.
IdentitiesUnique ==
    \A p, q \in Existing :
        /\ p # q /\ SameIdentity(part[p], part[q])
        /\ Serial \/ (part[p].scope = part[q].scope /\ part[p].scope # "none")
        => part[p].overridden \/ part[q].overridden

\* Codes differ, without regard to case while requests do not overlap.
CodesUnique ==
    \A p, q \in Existing : p # q =>
        /\ part[p].code # part[q].code
        /\ Serial => Folded(part[p].code) # Folded(part[q].code)

\* Where all codes are generated, and their segments tell the scopes of the
\* sequence apart, no part ever holds the code of a number to come: it would be
\* refused, give its number back and be refused again for ever.  Classes that have
\* a sequence each, found by id, need codes that differ and stay.
NextCodeFree ==
    LET ByClass == deployment.scope \notin {"GLOBAL", "DOMAIN"}
        apart == CASE deployment.scope = "GLOBAL" -> SegmentKinds
                   [] deployment.scope = "DOMAIN" -> {"domain"}
                   [] OTHER -> {"class"}
        numbered == {t \in Templates : "number" \in segments[t]}
    IN /\ deployment.kinds \subseteq {"generate", "override", "crash", "move class", "rename class", "create class",
                                      "activate", "retire", "release", "delete part"}
       /\ ByClass => /\ deployment.kinds \cap {"rename class", "create class"} = {}
                     /\ \A c, d \in Classes : deployment.names[c] = deployment.names[d] => c = d
       /\ \A t \in numbered : segments[t] \cap apart # {}
       => \A t \in numbered, p \in Existing :
            LET taken == part[p].code
                code == CodeFrom(t, [a \in Attributes |-> CHOOSE v \in Values : TRUE])
            IN taken.number = next[ScopeOf(template[t].class)] =>
                 <<taken.class, taken.domain>> # <<code.class, code.domain>>

\* At most one template applies to a class on a day: activations of one scheme
\* wait for each other.  Switching is_active back on goes past this check.
OneTemplateApplies ==
    "switch" \notin deployment.kinds /\ ("patch template" \in deployment.kinds => Serial) =>
        \A c \in Classes, day \in Days :
            Cardinality({t \in Effectual(c) : Applies(template[t], day)}) <= 1

\* "Active coding templates cannot be edited in ways that change generated
\* output": class and days stay, and segments are not added or replaced.  Only the
\* deletion of a segment is not refused.
ActiveOutputKept ==
    [][Serial => \A t \in Templates : template[t].status = "active" /\ template'[t].status = "active" =>
        Protected(template'[t]) = Protected(template[t]) /\ segments'[t] \subseteq segments[t]]_<<template, segments>>

\* The classification is a forest, as long as moves do not overlap.
ClassesAcyclic == Serial => \A c \in Classes : c \notin Ancestors(c)

\* A released revision's values are not set or changed (they can be deleted).
ReleasedValuesKept ==
    [][Serial => \A p \in Existing : part[p].released =>
        \A a \in DOMAIN part'[p].values :
            a \in DOMAIN part[p].values /\ part'[p].values[a] = part[p].values[a]]_part

\* An identifier names one part, as long as registrations do not overlap.
IdentifiersUnique == Serial => \A id \in Identifiers : Cardinality(Owner(id)) <= 1

\* Nothing names two parts: no number, identity, code or identifier, nor a number
\* to come.
PartsUnique ==
    TypeOK /\ NumbersUnique /\ IdentitiesUnique /\ CodesUnique /\ IdentifiersUnique /\ NextCodeFree

\* A class on a day has one rule for its codes, and one place in the tree.
RulesSound == OneTemplateApplies /\ ClassesAcyclic

\* What was generated or released stays as it was.
OutputKept == ActiveOutputKept /\ ReleasedValuesKept

\* Every request is answered, unless overlapping moves closed a circle that the
\* search for attributes walks for ever.
RequestsEnd ==
    \A w \in AnyWorker :
        ("move class" \in deployment.kinds => Serial) /\ numberCall[w].step # "idle"
            ~> numberCall[w].step = "idle"

=============================================================================
