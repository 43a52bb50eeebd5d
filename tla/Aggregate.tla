------------------------------ MODULE Aggregate ------------------------------
(***************************************************************************)
(* The life of one body aggregate or assignment aggregate from its first   *)
(* element to its translation: BodyAggregateAccumulate,                    *)
(* BodyAggregateComplete, BodyAggregateLiteral and their counterparts for  *)
(* assignments in libgringo/src/ground/statements.cc, with the atoms in    *)
(* libgringo/src/output/literals.cc.                                       *)
(*                                                                         *)
(* Which elements there are, and in which order they come, is up to the    *)
(* program.  Three kinds of programs differ in when an aggregate is        *)
(* completed and read:                                                     *)
(*   stratified  after all its elements are there                          *)
(*   positive    while elements arrive, in a component without negation;   *)
(*               only for monotone aggregates                              *)
(*   recursive   while elements arrive, in any other component             *)
(***************************************************************************)
EXTENDS AggregateTranslation

CONSTANTS
  Programs,     (* aggregates: [kind, fun, rels, naf, mode] *)
  Clauses,      (* the conditions of elements *)
  MaxReports    (* bound: how many elements are reported *)

VARIABLES
  agg,          (* the statement: a member of Programs *)
  open,         (* elements may still be reported *)
  emptyDone,    (* the statement for the empty set of elements has run *)
  body,         (* the BodyAggregateAtom *)
  asg,          (* the AssignmentAggregateData and its atoms *)
  verdicts,     (* the truth values a read of the literal has decided on *)
  output,       (* [rels, worlds]: what has been translated *)
  reported,     (* history: the tuples and conditions that were reported *)
  reports       (* how many reports there were *)

vars == <<agg, open, emptyDone, body, asg, verdicts, output, reported, reports>>

Recursive == agg.mode = "recursive"

(* BodyAggregateComplete: monotone_ *)
MonotoneStatement(a) ==
  LET allIn(R) == \A i \in DOMAIN a.rels : a.rels[i].rel \in R
  IN \/ a.fun \in {"COUNT", "SUMP", "MAX"} /\ allIn({"GT", "GEQ"})
     \/ a.fun = "MIN" /\ allIn({"LT", "LEQ"})

Relations == [rel : {"GT", "GEQ", "LT", "LEQ", "NEQ", "EQ"}, bound : Inf..Sup]

(* A component is only positive if what its aggregates depend on counts    *)
(* as positive (BodyAggregateComplete::analyze).                           *)
ASSUME ProgramsAssumption ==
  \A a \in Programs :
    /\ a.kind \in {"body", "assignment"}
    /\ a.fun \in {"COUNT", "SUM", "SUMP", "MIN", "MAX"}
    /\ a.rels \in Seq(Relations)
    /\ a.naf \in {"POS", "NOT", "NOTNOT"}
    /\ a.mode \in {"stratified", "positive", "recursive"}
    /\ a.mode = "positive" => a.kind = "body" /\ a.naf = "POS" /\ MonotoneStatement(a)

(* An atom as reserve() leaves it. *)
NoAtom ==
  [exists |-> FALSE, initialized |-> FALSE, bounds |-> <<>>,
   range |-> [min |-> 0, max |-> 0], elems |-> [t \in {} |-> {}],
   fact |-> FALSE, defined |-> FALSE, enqueued |-> FALSE, recursive |-> TRUE]

NoData ==
  [exists |-> FALSE, values |-> [front |-> 0, rest |-> <<>>],
   elems |-> [t \in {} |-> {}], atoms |-> {}, enqueued |-> FALSE]

Init ==
  /\ agg \in Programs
  /\ open = TRUE
  /\ emptyDone = FALSE
  /\ body = NoAtom
  /\ asg = NoData
  /\ verdicts = {}
  /\ output = {}
  /\ reported = {}
  /\ reports = 0

(***************************************************************************)
(* Accumulation                                                            *)
(***************************************************************************)
BodyFact(b) == ContainsInterval(b.bounds, RangeInterval(agg.fun, b.range))

BodySatisfiable(b) == IntersectsInterval(b.bounds, RangeInterval(agg.fun, b.range))

(* reserve() and BodyAggregateAtom::init *)
InitBody(b) ==
  IF b.initialized THEN b
  ELSE LET i == [b EXCEPT !.exists = TRUE, !.initialized = TRUE,
                          !.bounds = InitBounds(agg.rels), !.range = InitRange(agg.fun)]
       IN [i EXCEPT !.fact = BodyFact(i)]

(* BodyAggregateComplete::enqueue; before it, a slip: an atom that was     *)
(* completed once is not completed again.                                  *)
EnqueueBodyOnce(b) == [b EXCEPT !.enqueued = @ \/ (b.recursive /\ ~b.defined)]

EnqueueBody(b) == [b EXCEPT !.enqueued = @ \/ ~b.defined]

(* BodyAggregateElements_::accumulate and BodyAggregateAtom::accumulate *)
AccumulateBody(b, t, c) ==
  LET inserted == t \notin DOMAIN b.elems
      remove   == ~inserted /\ c = {} /\ ~IsFact(b.elems, t)
      elems    == AddElement(b.elems, t, c)
      fact     == IsFact(elems, t)
      range    == AccumulateRange(agg.fun, b.range, GetWeight(agg.fun, t), fact, remove)
      next     == [b EXCEPT !.elems = elems, !.range = range]
  IN IF IsNeutral(agg.fun, t) \/ (fact /\ ~inserted /\ ~remove) THEN b
     ELSE [next EXCEPT !.fact = BodyFact(next)]

InitData(a) ==
  IF a.exists THEN a
  ELSE [a EXCEPT !.exists = TRUE, !.values = [front |-> Neutral(agg.fun), rest |-> <<>>]]

(* AssignmentAggregateData::accumulate: only new tuples and tuples that    *)
(* become facts change the values.                                         *)
AccumulateData(a, t, c) ==
  LET inserted == t \notin DOMAIN a.elems
      fact     == c = {}
      remove   == fact /\ ~inserted
      next     == [a EXCEPT !.elems = AddElement(a.elems, t, c)]
  IN IF IsNeutral(agg.fun, t) \/ IsFact(a.elems, t) THEN a
     ELSE IF ~inserted /\ ~remove THEN next
     ELSE [next EXCEPT !.values =
             AccumulateValues(agg.fun, @, GetWeight(agg.fun, t), fact, remove)]

(* BodyAggregateAccumulate::report and AssignmentAggregateAccumulate::     *)
(* report for one instance.                                                *)
Report(t, c) ==
  /\ open
  /\ reports < MaxReports
  /\ IF agg.kind = "body"
     THEN /\ body' = EnqueueBody(AccumulateBody(InitBody(body), t, c))
          /\ asg' = asg
     ELSE /\ asg' = [AccumulateData(InitData(asg), t, c) EXCEPT !.enqueued = TRUE]
          /\ body' = body
  /\ reported' = reported \union {<<t, c>>}
  /\ reports' = reports + 1
  /\ UNCHANGED <<agg, open, emptyDone, verdicts, output>>

(* The same for the statement without elements (TupleBodyAggregate::       *)
(* toGround).  Its tuple is neutral; for a body aggregate, it has the      *)
(* bounds for the neutral value as condition.                              *)
ReportEmpty ==
  /\ open
  /\ ~emptyDone
  /\ emptyDone' = TRUE
  /\ body' = IF /\ agg.kind = "body"
                /\ \A i \in DOMAIN agg.rels :
                     Holds(agg.rels[i].rel, Neutral(agg.fun), agg.rels[i].bound)
             THEN EnqueueBody(InitBody(body)) ELSE body
  /\ asg' = IF agg.kind = "assignment"
            THEN [InitData(asg) EXCEPT !.enqueued = TRUE] ELSE asg
  /\ UNCHANGED <<agg, open, verdicts, output, reported, reports>>

(***************************************************************************)
(* Completion                                                              *)
(***************************************************************************)
(* A slip: no dependency on the statements that accumulate. *)
MayCompleteEarly == open \in BOOLEAN

(* In a stratified program, completing is the task of a later component.   *)
MayComplete == agg.mode = "stratified" => ~open

(* BodyAggregateComplete::report *)
CompleteBody ==
  /\ MayComplete
  /\ body.enqueued
  /\ body' = [body EXCEPT !.defined = @ \/ BodySatisfiable(body),
                         !.recursive = Recursive, !.enqueued = FALSE]
  /\ UNCHANGED <<agg, open, emptyDone, asg, verdicts, output, reported, reports>>

(* AssignmentAggregateComplete::report: an atom for each value; the only   *)
(* value is a fact.                                                        *)
CompleteAssignment ==
  /\ MayComplete
  /\ asg.enqueued
  /\ LET vs == Values(agg.fun, asg.values)
         was(v) == \E a \in asg.atoms : a.value = v /\ a.fact
     IN asg' = [asg EXCEPT
          !.enqueued = FALSE,
          !.atoms = {a \in @ : a.value \notin vs} \union
                    {[value |-> v, fact |-> was(v) \/ Cardinality(vs) = 1,
                      recursive |-> Recursive] : v \in vs}]
  /\ UNCHANGED <<agg, open, emptyDone, body, verdicts, output, reported, reports>>

NothingQueued == ~body.enqueued /\ ~asg.enqueued

(* The component has been grounded. *)
Close ==
  /\ open
  /\ emptyDone
  /\ agg.mode # "stratified" => NothingQueued
  /\ open' = FALSE
  /\ UNCHANGED <<agg, emptyDone, body, asg, verdicts, output, reported, reports>>

(***************************************************************************)
(* Reading                                                                 *)
(***************************************************************************)
(* BodyAggregateAtom::fact; before it, a slip: facts of recursive          *)
(* aggregates are trusted.                                                 *)
AtomFactAlways(b) == b.fact

AtomFact(b) == b.fact /\ (MonotoneStatement(agg) \/ ~b.recursive)

(* AbstractDomain::lookup and BodyAggregateLiteral::toOutput: the literal  *)
(* is TRUE and left out, or FALSE so that there is no rule, or written.    *)
(* In a recursive component a negated literal reserves its atom.           *)
ReadBody ==
  /\ agg.kind = "body"
  /\ agg.mode = "stratified" => ~open /\ NothingQueued
  /\ \/ /\ agg.naf = "POS" \/ (agg.naf = "NOTNOT" /\ ~Recursive)
        /\ body.defined
        /\ body' = body
        /\ verdicts' = verdicts \union (IF AtomFact(body) THEN {TRUE} ELSE {})
     \/ /\ agg.naf = "NOTNOT"
        /\ Recursive
        /\ body' = [body EXCEPT !.exists = TRUE]
        /\ verdicts' = verdicts \union (IF AtomFact(body) THEN {TRUE} ELSE {})
     \/ /\ agg.naf = "NOT"
        /\ body' = [body EXCEPT !.exists = @ \/ Recursive]
        /\ verdicts' = verdicts \union
             (IF ~body'.exists THEN {TRUE}
              ELSE IF AtomFact(body) THEN {FALSE}
              ELSE IF ~body.recursive /\ ~BodySatisfiable(body) THEN {TRUE}
              ELSE {})
  /\ UNCHANGED <<agg, open, emptyDone, asg, output, reported, reports>>

(***************************************************************************)
(* Translation                                                             *)
(***************************************************************************)
(* BodyAggregateLiteral::translate, once for each atom.                    *)
TranslateBody ==
  /\ agg.kind = "body"
  /\ ~open /\ NothingQueued
  /\ body.exists
  /\ output = {}
  /\ LET range == RangeInterval(agg.fun, body.range)
         worlds == GetEqualAggregate(agg.fun, agg.naf, body.bounds, range, body.elems)
     IN /\ body.defined =>
             ~NeedsEquivalences(agg.fun, agg.naf, body.bounds, range, body.elems,
                                body.recursive)
        /\ output' = {[rels |-> agg.rels,
                       worlds |-> IF body.defined THEN worlds
                                  ELSE IF agg.naf = "NOT" THEN Worlds ELSE {}]}
  /\ UNCHANGED <<agg, open, emptyDone, body, asg, verdicts, reported, reports>>

(* AssignmentAggregateLiteral::translate for one atom that is no fact. *)
TranslateAssignment ==
  /\ ~open /\ NothingQueued
  /\ \E a \in asg.atoms :
       LET bounds == <<Interval(a.value, TRUE, a.value, TRUE)>>
           range == RangeInterval(agg.fun, ValuesRange(agg.fun, asg.values))
           rels == <<[rel |-> "EQ", bound |-> a.value]>>
       IN /\ ~(a.fact /\ ~a.recursive)
          /\ \A o \in output : o.rels # rels
          /\ ~NeedsEquivalences(agg.fun, "POS", bounds, range, asg.elems, a.recursive)
          /\ output' = output \union
               {[rels |-> rels,
                 worlds |-> GetEqualAggregate(agg.fun, "POS", bounds, range, asg.elems)]}
  /\ UNCHANGED <<agg, open, emptyDone, body, asg, verdicts, reported, reports>>

Next ==
  \/ \E t \in Tuple, c \in Clauses : Report(t, c)
  \/ ReportEmpty
  \/ CompleteBody
  \/ CompleteAssignment
  \/ Close
  \/ ReadBody
  \/ TranslateBody
  \/ TranslateAssignment

Spec == Init /\ [][Next]_vars

(***************************************************************************)
(* What the aggregate means                                                *)
(***************************************************************************)
(* The tuples that the reported elements select in an interpretation.      *)
Selected(w) == {t \in Tuple : \E c \in Clauses : <<t, c>> \in reported /\ w \in ClauseWorlds(c)}

(* The interpretations in which the value satisfies the relations.         *)
Satisfying(rels) ==
  LET total == {w \in Worlds :
                  LET v == ValueOf(agg.fun, Selected(w))
                  IN \A i \in DOMAIN rels : Holds(rels[i].rel, v, rels[i].bound)}
  IN {w \in total : <<w[2], w[2]>> \in total}

Meaning == Signed(agg.naf, Satisfying(agg.rels))

(* The numbers met so far are far enough from the ends of their range.     *)
Fits ==
  LET r == IF agg.kind = "body" THEN body.range ELSE ValuesRange(agg.fun, asg.values)
  IN IsMinMax(agg.fun) \/ (-MaxInt < r.min /\ r.max < MaxInt)

Grounded == ~open /\ NothingQueued

(***************************************************************************)
(* Properties                                                              *)
(***************************************************************************)
(* The range that is updated element by element contains the value of the  *)
(* aggregate in every interpretation, also when a tuple is reported with   *)
(* several conditions or becomes a fact late (AggregateAtomRange::         *)
(* accumulate, AssignmentAggregateData::range).                            *)
RangeSound ==
  LET r == IF agg.kind = "body" THEN body.range ELSE ValuesRange(agg.fun, asg.values)
  IN body.initialized \/ asg.exists =>
       \A w \in TotalWorlds :
         LET v == ValueOf(agg.fun, Selected(w)) IN r.min <= v /\ v <= r.max

(* An aggregate that holds in some interpretation has a defined atom when  *)
(* its component is finished, so that rules with it are instantiated,      *)
(* although its atom is completed at most once and the check happens       *)
(* before later elements are known (BodyAggregateComplete).                *)
DefinedWhenPossible ==
  agg.kind = "body" /\ Grounded /\ Fits /\ Satisfying(agg.rels) # {} => body.defined

(* A literal that was left out of a rule as true holds in every            *)
(* interpretation, a literal that prevented a rule in none, whatever       *)
(* elements are reported later (BodyAggregateAtom::fact,                   *)
(* BodyAggregateLiteral::toOutput).                                        *)
VerdictsSound ==
  Fits => /\ TRUE \in verdicts => Meaning = Worlds
          /\ FALSE \in verdicts => Meaning = {}

(* The values an assignment aggregate is instantiated with are those of    *)
(* the facts with any set of the conditional tuples, no more and no less   *)
(* (AssignmentAggregateData::accumulate and values).                       *)
ValuesExact ==
  LET counted(T) == {t \in T : ~IsNeutral(agg.fun, t)}
      facts == {t \in Tuple : <<t, {}>> \in reported}
      open_ == {r[1] : r \in reported} \ facts
  IN asg.exists => Values(agg.fun, asg.values) =
       {ValueOf(agg.fun, facts \union ts) : ts \in SUBSET counted(open_)}

(* When the component is finished, each value the aggregate can take has   *)
(* an atom, and an atom that is a fact has the only possible value         *)
(* (AssignmentAggregateComplete::report).                                  *)
AssignmentsCover ==
  agg.kind = "assignment" /\ Grounded =>
    \A w \in TotalWorlds :
      LET v == ValueOf(agg.fun, Selected(w))
      IN /\ \E a \in asg.atoms : a.value = v
         /\ \A a \in asg.atoms : a.fact /\ ~a.recursive => a.value = v

(* The translation holds in exactly the interpretations in which the       *)
(* aggregate does.  Where the aggregate may depend on what it derives,     *)
(* this includes the reduct: monotone, antimonotone and convex aggregates  *)
(* keep their stable models (getEqualAggregate, AggregateAnalyzer).        *)
TranslationExact ==
  Fits => \A o \in output :
    LET expected == Signed(agg.naf, Satisfying(o.rels))
        relevant == IF agg.mode = "stratified" THEN TotalWorlds ELSE Worlds
    IN o.worlds \intersect relevant = expected \intersect relevant

(* The relations that text output writes for an aggregate hold if and only *)
(* if the aggregate does (AggregateAtomRange::plainBounds).                *)
PlainBoundsExact ==
  agg.kind = "body" /\ Grounded /\ body.defined /\ ~AtomFact(body) /\ Fits =>
    LET plain == PlainBounds(body.bounds, RangeInterval(agg.fun, body.range))
    IN Satisfying(plain) = Satisfying(agg.rels)
=============================================================================
