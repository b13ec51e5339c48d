---------------------------- MODULE PartClassification ----------------------------
(***************************************************************************)
(* The classification tree of parts and the attributes assigned to its     *)
(* nodes.  A node has a code, which a PATCH may change and which only its  *)
(* siblings may not have.  Of its stored path only the first component is  *)
(* kept: the domain.  Its is_active is left out, nothing but its own       *)
(* deactivation reads it, and its coding_prefix is blank.                  *)
(***************************************************************************)
EXTENDS Integers, FiniteSets, FiniteSetsExt

CONSTANTS
    Classes, NoClass,   \* ItemClassification rows, existing or not
    Names, NoName,      \* their codes
    Attributes,         \* AttributeDefinition rows
    Deployments         \* what exists and what is asked for, see the MC module

ASSUME NoClassAssumption == NoClass \notin Classes /\ NoName \notin Names

VARIABLES
    deployment,         \* which deployment this is
    class,              \* the ItemClassification rows
    assigned,           \* the role of each attribute, by its ClassificationAttribute row
    classCall           \* what each thread is doing

classVars == <<deployment, class, assigned, classCall>>

AnyWorker == UNION {d.workers : d \in Deployments}
Workers == deployment.workers
Serial == Cardinality(Workers) = 1
Asked(kind) == kind \in deployment.kinds

\* Required and part of the identity, or optional and no part of it.
Roles == {"none", "note", "key"}

ClassRows == [exists: BOOLEAN, parent: Classes \cup {NoClass},
              code: Names \cup {NoName}, domain: Names \cup {NoName}]
NoRow == [exists |-> FALSE, parent |-> NoClass, code |-> NoName, domain |-> NoName]

\* "save" holds a node that was validated and is not yet written.
IdleClassCall == [step |-> "idle", class |-> NoClass, copy |-> NoRow]

ClassInit(d) ==
    /\ deployment = d
    /\ class = [c \in Classes |->
                  IF c \in DOMAIN d.tree
                  THEN [exists |-> TRUE, parent |-> d.tree[c], code |-> d.names[c],
                        domain |-> d.names[IF d.tree[c] = NoClass THEN c ELSE d.tree[c]]]
                  ELSE NoRow]
    /\ assigned = d.assigned
    /\ classCall = [w \in AnyWorker |-> IdleClassCall]

Present(c) == class[c].exists

\* What the walk from c to the root meets: the least set with the parent of c and
\* of each of its own.
Ancestors(c) ==
    {d \in Classes : \A S \in SUBSET Classes :
        (\A e \in S \cup {c} : class[e].parent \in S \cup {NoClass}) => d \in S}

\* The walk to the root from c never arrives.
Endless(c) == \E d \in Ancestors(c) : d \in Ancestors(d)

\* The assignment nearest to c counts, with its overrides of the definition.
Role(c, a) ==
    LET has == {d \in Ancestors(c) \cup {c} : assigned[d][a] # "none"}
    IN IF has = {} THEN "none"
       ELSE assigned[CHOOSE d \in has : has \subseteq Ancestors(d) \cup {d}][a]

\* get_effective_classification_attributes, and what they are required for.
Effective(c) == {a \in Attributes : Role(c, a) # "none"}
Keys(c) == {a \in Attributes : Role(c, a) = "key"}

\* unique_together of parent and code, which says nothing of nodes without a parent.
SiblingHas(c, p, code) ==
    p # NoClass /\ \E d \in Classes \ {c} : Present(d) /\ class[d].parent = p /\ class[d].code = code

\* The node below p with a code: its path is the parent's and its own code.
Placing(c, p, code) ==
    [step |-> "save", class |-> c, copy |->
       [exists |-> TRUE, parent |-> p, code |-> code,
        domain |-> IF p = NoClass THEN code ELSE class[p].domain]]

\* A POST of a node, or a PATCH that moves or renames it.
ClassAsked(c, p, code) ==
    IF Present(c)
    THEN /\ Asked("move class") \/ Asked("rename class")
         /\ p # class[c].parent => Asked("move class")
         /\ code # class[c].code => Asked("rename class")
    ELSE Asked("create class")

MutReadClass(w, c, p, code) ==
    /\ w \in Workers /\ classCall[w] = IdleClassCall /\ ClassAsked(c, p, code)
    /\ p # c /\ ~SiblingHas(c, p, code) /\ (p # NoClass => Present(p))
    /\ classCall' = [classCall EXCEPT ![w] = Placing(c, p, code)]
    /\ UNCHANGED <<deployment, class, assigned>>

\* The request is validated: clean walks up from the new parent, and a circle that
\* is there already is refused as well.
ReadClass(w, c, p, code) ==
    /\ w \in Workers /\ classCall[w] = IdleClassCall /\ ClassAsked(c, p, code)
    /\ p # c /\ ~SiblingHas(c, p, code)
    /\ p # NoClass => Present(p) /\ c \notin Ancestors(p) /\ ~Endless(p)
    /\ classCall' = [classCall EXCEPT ![w] = Placing(c, p, code)]
    /\ UNCHANGED <<deployment, class, assigned>>

\* The row is written; the paths of the nodes below it are not.  The constraints
\* refuse a parent deleted meanwhile and a code a sibling has by now.  Rows in
\* held are locked by others.
SaveClass(w, held) ==
    LET call == classCall[w] IN
    /\ call.step = "save" /\ call.class \notin held
    /\ class' = IF /\ call.copy.parent = NoClass \/ Present(call.copy.parent)
                   /\ ~SiblingHas(call.class, call.copy.parent, call.copy.code)
                THEN [class EXCEPT ![call.class] = call.copy] ELSE class
    /\ classCall' = [classCall EXCEPT ![w] = IdleClassCall]
    /\ UNCHANGED <<deployment, assigned>>

\* DELETE: children, parts and templates protect the node.
DeleteClass(w, c, used) ==
    /\ w \in Workers /\ Asked("delete class") /\ classCall[w] = IdleClassCall
    /\ Present(c) /\ c \notin used /\ \A d \in Classes : class[d].parent # c
    /\ class' = [class EXCEPT ![c] = NoRow]
    /\ assigned' = [assigned EXCEPT ![c] = [a \in Attributes |-> "none"]]
    /\ UNCHANGED <<deployment, classCall>>

Assign(w, c, a, role) ==
    /\ w \in Workers /\ Asked("assign") /\ classCall[w] = IdleClassCall /\ Present(c)
    /\ assigned' = [assigned EXCEPT ![c][a] = role]
    /\ UNCHANGED <<deployment, class, classCall>>

ClassStarts(w, used) ==
    \E c \in Classes :
        \/ \E p \in Classes \cup {NoClass}, code \in Names : ReadClass(w, c, p, code)
        \/ DeleteClass(w, c, used)
        \/ \E a \in Attributes, role \in Roles : Assign(w, c, a, role)

=============================================================================
