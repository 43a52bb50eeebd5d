----------------------------- MODULE Conditional -----------------------------
(***************************************************************************)
(* The life of one conditional literal in a body (ConjunctionAccumulate-   *)
(* Empty, ConjunctionAccumulateCond, ConjunctionAccumulateHead,            *)
(* ConjunctionComplete, ConjunctionLiteral) or of one disjunction with     *)
(* conditions in a head (DisjunctionRule, DisjunctionAccumulate,           *)
(* DisjunctionComplete) in libgringo/src/ground/statements.cc, from the    *)
(* first report to the translation.                                        *)
(*                                                                         *)
(* The statements that complete are run with priority 1, after the others  *)
(* of their component.  What may still be reported then depends on the     *)
(* program:                                                                *)
(*   stratified  nothing                                                   *)
(*   heads       heads of conjunctions, which depend on the rules the      *)
(*               literal is in                                             *)
(*   recursive   anything                                                  *)
(* What the grounder recognises as recursive is output at the end of the   *)
(* ground call, everything else at once.                                   *)
(***************************************************************************)
EXTENDS ConditionalOps

CONSTANTS
  Elements,       (* the elements of the literal *)
  Conditions,     (* clauses that are reported as bodies *)
  Heads,          (* clauses that are reported as heads *)
  HeadSets,       (* sets of them that one instance of a disjunction reports *)
  Stable,         (* atoms the literal cannot depend on unless recursive *)
  MaxReports      (* bounds the number of reports for each kind *)

ASSUME ElementsAssumption == IsFiniteSet(Elements)
ASSUME HeadSetsAssumption == \A hs \in HeadSets : IsFiniteSet(hs)

VARIABLES
  kind, mode,     (* "conjunction" or "disjunction", and the program *)
  conj,           (* the ConjunctionAtom *)
  disj,           (* the DisjunctionAtom *)
  pending,        (* the statement that completes has to run *)
  headsDefined,   (* atoms that DisjunctionComplete has defined *)
  open,           (* "rule": nothing is there yet; then what may still be
                     reported: "all", "heads", "none" *)
  trusted,        (* the literal has been left out of a rule as true *)
  delayed,        (* the literal is in a rule that is not translated yet *)
  translated,     (* elements and flags at the time of the translation *)
  conds, heads,   (* history: the elements and clauses reported *)
  reports         (* bound: the number of reports *)

vars == <<kind, mode, conj, disj, pending, headsDefined, open, trusted, delayed, translated,
          conds, heads, reports>>

NoElements == [e \in Elements |-> Element]

(* Atoms as their constructors leave them: recursive until completed. *)
NewConjunction ==
  [elems |-> NoElements, blocked |-> 0, fact |-> 0, defined |-> FALSE, enqueued |-> FALSE,
   headRecursive |-> TRUE, condRecursive |-> TRUE]

NewDisjunction ==
  [elems |-> NoElements, headFact |-> 0, enqueued |-> FALSE, todo |-> FALSE, recursive |-> TRUE]

Init ==
  /\ kind \in {"conjunction", "disjunction"}
  /\ mode \in {"stratified", "recursive"} \union (IF kind = "conjunction" THEN {"heads"} ELSE {})
  /\ conj = NewConjunction
  /\ disj = NewDisjunction
  /\ pending = FALSE
  /\ headsDefined = {}
  /\ open = "rule"
  /\ trusted = FALSE
  /\ delayed = FALSE
  /\ translated = <<>>
  /\ conds = {}
  /\ heads = {}
  /\ reports = 0

-----------------------------------------------------------------------------
(* Conjunctions *)

(* reportOther; before it a slip that enqueues an atom for its first       *)
(* report only.                                                            *)
EnqueueOnce(a) ==
  [a EXCEPT !.enqueued = @ \/ (a.blocked = 0 /\ ~a.defined /\ conds \union heads = {})]

EnqueueConjunction(a) == [a EXCEPT !.enqueued = @ \/ (a.blocked = 0 /\ ~a.defined)]

(* ConjunctionAccumulateEmpty::report: an instance of the rest of the body. *)
ReportEmpty ==
  /\ kind = "conjunction"
  /\ open = "rule"
  /\ conj' = EnqueueConjunction(conj)
  /\ pending' = TRUE
  /\ open' = "all"
  /\ UNCHANGED <<kind, mode, disj, headsDefined, trusted, delayed, translated, conds, heads, reports>>

(* Atoms that recursion through the literal can change. *)
Fits(c) == mode = "recursive" \/ \A l \in c : l.atom \in Stable

(* ConjunctionAccumulateCond::report *)
ReportCond(e, c) ==
  /\ kind = "conjunction"
  /\ open = "all"
  /\ Fits(c)
  /\ reports < MaxReports[kind]
  /\ conj' = EnqueueConjunction(AccumulateCond(conj, e, c))
  /\ pending' = TRUE
  /\ conds' = conds \union {<<e, c>>}
  /\ reports' = reports + 1
  /\ UNCHANGED <<kind, mode, disj, headsDefined, open, trusted, delayed, translated, heads>>

(* ConjunctionAccumulateHead::report, for an element with a condition. *)
ReportHead(e, c) ==
  /\ kind = "conjunction"
  /\ open \in {"all", "heads"}
  /\ \E b \in conds : b[1] = e
  /\ reports < MaxReports[kind]
  /\ conj' = EnqueueConjunction(AccumulateHead(conj, e, c))
  /\ pending' = TRUE
  /\ heads' = heads \union {<<e, c>>}
  /\ reports' = reports + 1
  /\ UNCHANGED <<kind, mode, disj, headsDefined, open, trusted, delayed, translated, conds>>

(* No more conditions, or no more heads, will be reported. *)
CloseConds ==
  /\ open = "all"
  /\ mode = "recursive" => ~pending
  /\ open' = IF kind = "conjunction" /\ mode # "recursive" THEN "heads" ELSE "none"
  /\ UNCHANGED <<kind, mode, conj, disj, pending, headsDefined, trusted, delayed, translated,
                 conds, heads, reports>>

CloseHeads ==
  /\ open = "heads"
  /\ mode = "heads" => ~pending
  /\ open' = "none"
  /\ UNCHANGED <<kind, mode, conj, disj, pending, headsDefined, trusted, delayed, translated,
                 conds, heads, reports>>

(* Completion waits for the statements it depends on, by their order or by *)
(* its priority; before it a slip: by nothing.                             *)
AnyTime == open # "rule"

MayComplete ==
  /\ mode = "stratified" => open = "none"
  /\ mode = "heads" => open # "all"

(* ConjunctionAtom::init with the flags that the statements have set when  *)
(* they were linearized.                                                   *)
InitConjunction(a) ==
  [a EXCEPT !.headRecursive = mode \in {"heads", "recursive"},
            !.condRecursive = mode = "recursive"]

(* ConjunctionComplete::report *)
CompleteConjunction ==
  /\ kind = "conjunction"
  /\ pending
  /\ MayComplete
  /\ conj' = IF ~conj.enqueued THEN conj
             ELSE IF conj.blocked > 0 THEN [conj EXCEPT !.enqueued = FALSE]
             ELSE [InitConjunction(conj) EXCEPT !.defined = TRUE, !.enqueued = FALSE]
  /\ pending' = FALSE
  /\ UNCHANGED <<kind, mode, disj, headsDefined, open, trusted, delayed, translated, conds, heads,
                 reports>>

(* ConjunctionAtom::fact, recursive and nonmonotone; before them a slip    *)
(* that trusts facts of recursive conditions.                              *)
FactAnyway(a) == a.fact = 0

IsFact(a) == a.fact = 0 /\ ~a.condRecursive

IsRecursive(a) == (a.headRecursive \/ a.condRecursive) /\ ~IsFact(a)

IsNonmonotone(a) == ~IsFact(a) /\ a.condRecursive

Grounded == open = "none" /\ ~pending

(* ConjunctionLiteral::toOutput in a rule that is instantiated, with the   *)
(* translation of the rule unless it has to be delayed.                    *)
Translation == <<[elems |-> conj.elems, nonmonotone |-> IsNonmonotone(conj)]>>

ReadConjunction ==
  /\ kind = "conjunction"
  /\ conj.defined
  /\ translated = <<>>
  /\ IF IsFact(conj) THEN trusted' = TRUE /\ UNCHANGED <<delayed, translated>>
     ELSE IF IsRecursive(conj) THEN delayed' = TRUE /\ UNCHANGED <<trusted, translated>>
     ELSE translated' = Translation /\ UNCHANGED <<trusted, delayed>>
  /\ UNCHANGED <<kind, mode, conj, disj, pending, headsDefined, open, conds, heads, reports>>

(* The rules that were delayed, at the end of the ground call. *)
TranslateConjunction ==
  /\ kind = "conjunction"
  /\ Grounded
  /\ delayed
  /\ delayed' = FALSE
  /\ translated' = IF translated = <<>> THEN Translation ELSE translated
  /\ UNCHANGED <<kind, mode, conj, disj, pending, headsDefined, open, trusted, conds, heads, reports>>

-----------------------------------------------------------------------------
(* Disjunctions *)

(* DisjunctionComplete::enqueue *)
EnqueueDisjunction(d) == IF d.enqueued THEN d ELSE [d EXCEPT !.enqueued = TRUE, !.todo = TRUE]

(* DisjunctionRule::report: the rule is always delayed. *)
ReportRule ==
  /\ kind = "disjunction"
  /\ open = "rule"
  /\ disj' = EnqueueDisjunction(disj)
  /\ pending' = TRUE
  /\ delayed' = TRUE
  /\ open' = "all"
  /\ UNCHANGED <<kind, mode, conj, headsDefined, trusted, translated, conds, heads, reports>>

(* DisjunctionAccumulate::report for one condition with the instantiation  *)
(* of its head in reportHead, which reports nothing for a fact or a head   *)
(* that is true.                                                           *)
ReportElement(e, c, hs) ==
  /\ kind = "disjunction"
  /\ open = "all"
  /\ reports < MaxReports[kind]
  /\ LET accumulated == AccumulateDisjCond(disj, e, c)
     IN disj' = IF hs = {} THEN accumulated
                ELSE EnqueueDisjunction(AccumulateDisjHeads(accumulated, e, hs))
  /\ pending' = TRUE
  /\ conds' = conds \union {<<e, c>>}
  /\ heads' = heads \union {<<e, h>> : h \in hs}
  /\ reports' = reports + 1
  /\ UNCHANGED <<kind, mode, conj, headsDefined, open, trusted, delayed, translated>>

HeadAtoms(elems) ==
  {l.atom : l \in {k \in UNION {UNION ToSet(elems[e].heads) : e \in Elements} : k.sign = "POS"}}

(* DisjunctionAtom::headFact *)
HeadFact(d) == d.headFact > 0 /\ ~d.recursive

(* What is left to do after a run: todo_ is kept; before it a slip that    *)
(* drops it, as for conjunctions, but leaves the atoms enqueued.           *)
TodoDropped(d) == [d EXCEPT !.todo = FALSE]

TodoAfterReport(d) == d

(* DisjunctionComplete::report *)
CompleteDisjunction ==
  /\ kind = "disjunction"
  /\ pending
  /\ MayComplete
  /\ LET d == [disj EXCEPT !.recursive = mode = "recursive"]
     IN IF disj.todo
        THEN /\ disj' = TodoAfterReport(d)
             /\ headsDefined' = headsDefined \union IF HeadFact(d) THEN {} ELSE HeadAtoms(d.elems)
        ELSE UNCHANGED <<disj, headsDefined>>
  /\ pending' = FALSE
  /\ UNCHANGED <<kind, mode, conj, open, trusted, delayed, translated, conds, heads, reports>>

(* DisjunctionLiteral::translate, at the end of the ground call. *)
TranslateDisjunction ==
  /\ kind = "disjunction"
  /\ Grounded
  /\ delayed
  /\ delayed' = FALSE
  /\ translated' = <<[elems |-> disj.elems]>>
  /\ UNCHANGED <<kind, mode, conj, disj, pending, headsDefined, open, trusted, conds, heads, reports>>

Next ==
  \/ ReportEmpty
  \/ \E e \in Elements, c \in Conditions : ReportCond(e, c)
  \/ \E e \in Elements, c \in Heads : ReportHead(e, c)
  \/ CloseConds
  \/ CloseHeads
  \/ CompleteConjunction
  \/ ReadConjunction
  \/ TranslateConjunction
  \/ ReportRule
  \/ \E e \in Elements, c \in Conditions, hs \in HeadSets : ReportElement(e, c, hs)
  \/ CompleteDisjunction
  \/ TranslateDisjunction

Spec == Init /\ [][Next]_vars
-----------------------------------------------------------------------------
(* What the literal means, from everything that has been reported          *)

Bodies(e) == UNION {AllOf(b[2]) : b \in {b \in conds : b[1] = e}}

SomeHead(e) == UNION {AllOf(h[2]) : h \in {h \in heads : h[1] = e}}

EveryHead(e) == {w \in Worlds : \A h \in heads : h[1] = e => w \in AnyOf(h[2])}

Meaning ==
  IF kind = "conjunction"
  THEN {w \in Worlds : \A e \in Elements : w \in Implies(Bodies(e), SomeHead(e))}
  ELSE UNION {Bodies(e) \intersect EveryHead(e) : e \in Elements}

(* The worlds that can differ from each other where the literal is used:   *)
(* the atoms of conditions are decided unless they are recursive.  For     *)
(* disjunctions, nothing is claimed about recursion through conditions     *)
(* beyond total worlds.                                                    *)
Decided ==
  CASE kind = "disjunction" -> {l.atom : l \in UNION {b[2] : b \in conds}}
    [] kind = "conjunction" /\ mode = "recursive" -> {}
    [] OTHER -> Stable

Relevant == {w \in Worlds : w[1] \intersect Decided = w[2] \intersect Decided}

Holds(D) == Relevant \subseteq D

-----------------------------------------------------------------------------
(* Properties *)

(* The counters blocked_, fact_ and headFact_ that are updated clause by   *)
(* clause agree with what has been reported, in whatever order conditions  *)
(* and heads come and become facts (accumulateCond, accumulateHead).       *)
Unconditional == {e \in Elements : <<e, {}>> \in conds}
Headless == {e \in Elements : \A h \in heads : h[1] # e}

CountersExact ==
  IF kind = "conjunction"
  THEN /\ conj.blocked = Cardinality(Unconditional \intersect Headless)
       /\ conj.fact = Cardinality({e \in Elements : /\ \E b \in conds : b[1] = e
                                                   /\ <<e, {}>> \notin heads})
  ELSE disj.headFact = Cardinality(Unconditional \intersect Headless)

(* When the component is finished, a conjunction that holds somewhere is   *)
(* defined, so that the rules with it are instantiated, although it may    *)
(* have been blocked and unblocked several times (reportOther); and all    *)
(* atoms that a disjunction can derive are defined, although its statement *)
(* may have run before the last of them was reported.                      *)
DefinedWhenPossible ==
  Grounded =>
    IF kind = "conjunction" THEN Meaning \intersect Relevant # {} => conj.defined
    ELSE ~Holds(Meaning) =>
           \A e \in Elements : Bodies(e) \intersect EveryHead(e) # {} =>
             {l.atom : l \in {k \in UNION {h[2] : h \in {g \in heads : g[1] = e}} : k.sign = "POS"}}
               \subseteq headsDefined

(* A conjunction that has been left out of a rule as true holds, whatever  *)
(* is reported after that (ConjunctionAtom::fact).                         *)
VerdictsSound == trusted => Holds(Meaning)

(* The rules that a literal is translated to have its meaning: nothing is  *)
(* reported after a translation that was not delayed, and the rules for    *)
(* recursive conditions keep the meaning in the reduct.                    *)
TranslationExact ==
  translated # <<>> =>
    \A D \in IF kind = "conjunction"
             THEN {ConjunctionWorlds(translated[1].elems, translated[1].nonmonotone)}
             ELSE {DisjunctionWorlds(translated[1].elems, Derived),
                   DisjunctionWorlds(translated[1].elems, Admitted)} :
      D \intersect Relevant = Meaning \intersect Relevant
=============================================================================
