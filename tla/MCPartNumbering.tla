----------------------------- MODULE MCPartNumbering ------------------------------
(* Model-checking instances of PartNumbering. *)
EXTENDS PartNumbering, TLC
CONSTANTS w1, w2, A, B, C, a, b, c, size, note, x

\* One thread; a class A with B below it and, of its own, C.
Base == [workers |-> {w1}, kinds |-> {}, scope |-> "GLOBAL",
         tree |-> A :> NoClass @@ B :> A @@ C :> NoClass, names |-> A :> a @@ B :> b @@ C :> c,
         assigned |-> [k \in Classes |-> [attribute \in Attributes |-> "none"]],
         payloads |-> [{size} -> Values], encoded |-> [v \in Values |-> v], templates |-> <<>>, segments |-> <<>>]
TwoThreads == [Base EXCEPT !.workers = {w1, w2}]
ActiveFor(k) == [status |-> "active", on |-> TRUE, from |-> 1, to |-> None, class |-> k]
Draft(k) == [status |-> "draft", on |-> TRUE, from |-> None, to |-> None, class |-> k]
Sized == [k \in Classes |-> [attribute \in Attributes |-> IF k = A /\ attribute = size THEN "key" ELSE "none"]]
Keyed == [k \in Classes |-> [attribute \in Attributes |-> IF attribute = size THEN "key" ELSE "none"]]
Described == [Sized EXCEPT ![A][note] = "note"]

\* The tree is built and moved by one thread or by two.
TreeEdited == [Base EXCEPT
    !.kinds = {"create class", "move class", "delete class"},
    !.tree = A :> NoClass, !.templates = <<ActiveFor(A)>>, !.segments = <<{"number", size}>>]
AttributesAssigned == [Base EXCEPT
    !.kinds = {"assign", "generate"}, !.tree = A :> NoClass, !.payloads = UNION {[S -> {1}] : S \in SUBSET Attributes},
    !.templates = <<ActiveFor(A)>>, !.segments = <<{"number", size}>>]
ClassesRenamed == [Base EXCEPT
    !.kinds = {"rename class", "move class"}, !.tree = A :> NoClass @@ B :> A @@ C :> A]
TreeMoved == [TwoThreads EXCEPT !.kinds = {"move class"}, !.tree = A :> NoClass @@ B :> NoClass]

\* Templates.
TemplatesEdited == [Base EXCEPT
    !.kinds = {"activate", "retire", "patch template"},
    !.tree = A :> NoClass, !.templates = <<ActiveFor(A), Draft(A)>>, !.segments = <<{"number"}, {"number"}>>]
TemplatesMade == [Base EXCEPT
    !.kinds = {"activate", "create template", "clone template", "destroy template"},
    !.tree = A :> NoClass, !.templates = <<ActiveFor(A)>>, !.segments = <<{"number"}>>]
SegmentsEdited == [Base EXCEPT
    !.kinds = {"activate", "retire", "segment", "remove segment"}, !.assigned = Sized,
    !.tree = A :> NoClass @@ B :> A, !.templates = <<Draft(B)>>,
    !.segments = <<{"domain"}>>]
TemplatesAtOnce == [TwoThreads EXCEPT
    !.kinds = {"activate", "retire", "clone template", "destroy template"},
    !.tree = A :> NoClass, !.templates = <<Draft(A), [Draft(A) EXCEPT !.to = 1]>>,
    !.segments = <<{"number"}, {"number"}>>]
TemplatesSwitched == [Base EXCEPT
    !.kinds = {"activate", "patch template", "switch"},
    !.tree = A :> NoClass, !.templates = <<Draft(A)>>, !.segments = <<{"number"}>>]

\* Numbers: two classes that share one sequence or have their own.
NumbersAtOnce == [TwoThreads EXCEPT
    !.kinds = {"generate", "override", "crash"}, !.assigned = Keyed,
    !.templates = <<ActiveFor(A), ActiveFor(C)>>, !.segments = <<{"class", "number"}, {"class", "number"}>>]
NumbersByDomain == [Base EXCEPT
    !.kinds = {"generate", "move class"}, !.scope = "DOMAIN",
    !.payloads = {<<>>},
    !.templates = <<ActiveFor(A), ActiveFor(B)>>, !.segments = <<{"domain", "number"}, {"domain", "number"}>>]
NumbersByClass == [TwoThreads EXCEPT
    !.kinds = {"generate", "delete part"}, !.scope = "CLASSIFICATION",
    !.tree = A :> NoClass @@ B :> A, !.payloads = {<<>>},
    !.templates = <<ActiveFor(A), ActiveFor(B)>>, !.segments = <<{"class", "number"}, {"class", "number"}>>]
\* Two domains may come to bear one name and then share a sequence; the identities
\* of two classes may be the same.
NumbersRenamed == [Base EXCEPT
    !.kinds = {"generate", "rename class"}, !.scope = "DOMAIN", !.payloads = {<<>>},
    !.tree = A :> NoClass @@ C :> NoClass,
    !.templates = <<ActiveFor(A), ActiveFor(C)>>, !.segments = <<{"domain", "number"}, {"domain", "number"}>>]
CodesFromValues == [Base EXCEPT
    !.kinds = {"generate", "activate", "retire", "delete part", "scheme active"}, !.assigned = Described,
    !.payloads = UNION {[S -> Values] : S \in SUBSET Attributes}, !.encoded = [v \in Values |-> 1],
    !.tree = A :> NoClass, !.templates = <<ActiveFor(A), Draft(A)>>, !.segments = <<{size}, {"class"}>>]
CodesTyped == [Base EXCEPT !.kinds = {"plain", "manual", "rename"}, !.payloads = {<<>>}, !.tree = A :> NoClass]
CodesCounted == [Base EXCEPT !.kinds = {"plain", "legacy", "scheme"}, !.tree = A :> NoClass]
CodesTypedAtOnce == [TwoThreads EXCEPT !.kinds = {"plain", "legacy"}, !.tree = A :> NoClass]

\* What belongs to a part.
PartsDescribed == [Base EXCEPT
    !.kinds = {"generate", "value", "remove value", "release"},
    !.assigned = Described, !.tree = A :> NoClass, !.templates = <<ActiveFor(A)>>, !.segments = <<{size}>>]
PartsIdentified == [Base EXCEPT
    !.kinds = {"plain", "generate", "delete part", "identifier", "remove identifier"}, !.payloads = {<<>>},
    !.tree = A :> NoClass, !.templates = <<ActiveFor(A)>>, !.segments = <<{"number"}>>]

MCDeployments ==
    {TreeEdited, AttributesAssigned, ClassesRenamed, TreeMoved, TemplatesEdited, TemplatesMade, SegmentsEdited, TemplatesAtOnce, TemplatesSwitched,
     NumbersAtOnce, NumbersByDomain, NumbersByClass, NumbersRenamed, CodesFromValues, CodesTyped, CodesCounted, CodesTypedAtOnce,
     PartsDescribed, PartsIdentified}
=============================================================================
