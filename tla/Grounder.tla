------------------------------- MODULE Grounder -------------------------------
(***************************************************************************)
(* Semi-naive grounding of logic programs: Ground::Program::ground with    *)
(* the dependency analysis, the linearization of rules, the queue of       *)
(* instantiators, and the report of rule instances (ground/dependency.hh,  *)
(* ground/program.cc, ground/statements.cc, ground/instantiation.cc,       *)
(* ground/literals.cc, ground/binders.hh).                                 *)
(*                                                                         *)
(* A symbol is a tuple <<predicate, argument, ...>>.  A program is a       *)
(* sequence of parts, one for each call of ground(); a part is a record    *)
(*   choices  symbols that a backend adds before the call, as choices      *)
(*   facts    the symbols of its edb                                       *)
(*   stms     the names of its statements.                                 *)
(* A statement stands for a rule with variables by its ground instances:   *)
(*   kind     "rule" (normal, disjunctive, or constraint) or "choice"      *)
(*   naf      for each body literal "pos", "not", or "notnot"              *)
(*   insts    a sequence of records [heads, body] of sequences of symbols. *)
(* The term of the k-th literal matches the k-th symbols of the instances. *)
(***************************************************************************)
EXTENDS DomainOps, GroundRules

Seqs == INSTANCE SequencesExt

CONSTANTS
  Statements,    (* the statements by their names                           *)
  Programs,      (* the programs that are grounded, by their names          *)
  KeepingFacts,  (* those for which OutputBase::keepFacts is set            *)
  Generations    (* those an iteration can begin in: bounds their number    *)

ASSUME KeepFactsAssumption == KeepingFacts \subseteq DOMAIN Programs

(* The body literals are numbered, and the symbols that one of them        *)
(* matches have one predicate.                                             *)
ASSUME StatementsAssumption ==
  \A stm \in DOMAIN Statements :
    LET lits == DOMAIN Statements[stm].naf
        all == Statements[stm].insts
    IN /\ Statements[stm].naf \in Seq({"pos", "not", "notnot"})
       /\ 1 \in DOMAIN all
       /\ \A i \in DOMAIN all :
            /\ all[i].heads \in Seq({all[i].heads[n] : n \in DOMAIN all[i].heads})
            /\ \A k \in lits : all[i].body[k][1] = all[1].body[k][1]

ASSUME ProgramsAssumption ==
  \A name \in DOMAIN Programs :
    /\ Programs[name] # <<>>
    /\ Programs[name] \in Seq({Programs[name][n] : n \in DOMAIN Programs[name]})
    /\ \A n \in DOMAIN Programs[name] : Programs[name][n].stms \subseteq DOMAIN Statements

VARIABLES
  program,       (* the name of the program that is grounded                *)
  step,          (* the number of the call of ground()                      *)
  nheads,        (* what non-positive statements of earlier calls derive    *)
  todo,          (* symbols still to be defined before the call             *)
  deps,          (* what the dependency analysis found for its statements   *)
  done,          (* statements of the call whose component is grounded      *)
  comp,          (* the component that is grounded                          *)
  insts,         (* its instantiators                                       *)
  agenda,        (* literals of instantiators that have no index yet        *)
  dom,           (* for each predicate its domain                           *)
  index,         (* indices and matchers by their keys                      *)
  choiceIndex,   (* for each predicate where hasChoice continues to search  *)
  enqueueVec,    (* the indices and instantiators a head has to update      *)
  queued,        (* instantiators for the next iteration                    *)
  current,       (* instantiators of the iteration not run yet              *)
  running,       (* the instantiator that runs                              *)
  left,          (* instances it has not tried yet                          *)
  seen,          (* instances it has reported                               *)
  work,          (* the instance that is matched and reported               *)
  ran,           (* instantiators of the iteration not propagated yet       *)
  pc,            (* what the grounder does                                  *)
  matched,       (* all instances reported in the call (history)            *)
  closed,        (* symbols taken to be undefined for good (history)        *)
  emitted        (* the rules passed to the output                          *)

indexVars == <<index, choiceIndex>>
callVars == <<program, step, nheads, todo>>
compVars == <<deps, done, comp, insts, agenda, enqueueVec>>
queueVars == <<queued, current, ran>>
instVars == <<running, left, seen, work>>
history == <<matched, closed, emitted>>

vars == <<callVars, compVars, dom, indexVars, queueVars, instVars, pc, history>>

-----------------------------------------------------------------------------
(* Statements *)

PredOf(s) == s[1]

Part == Programs[program][step]

Instances(stm) == DOMAIN Statements[stm].insts
Body(stm) == DOMAIN Statements[stm].naf
Positive(stm) == {k \in Body(stm) : Statements[stm].naf[k] = "pos"}
Negative(stm) == Body(stm) \ Positive(stm)

BodySym(stm, i, k) == Statements[stm].insts[i].body[k]
Heads(stm, i) == Statements[stm].insts[i].heads
HeadSet(stm, i) == {Heads(stm, i)[n] : n \in DOMAIN Heads(stm, i)}

(* Tables over all statements: what a literal matches, what the heads      *)
(* derive, and which heads provide for a literal because the terms unify.  *)
LitTable ==
  [stm \in DOMAIN Statements |->
     [k \in Body(stm) |-> {BodySym(stm, i, k) : i \in Instances(stm)}]]

HeadTable ==
  [stm \in DOMAIN Statements |-> UNION {HeadSet(stm, i) : i \in Instances(stm)}]

ProviderTable ==
  [stm \in DOMAIN Statements |->
     [k \in Body(stm) |->
        {t \in DOMAIN Statements : HeadTable[t] \intersect LitTable[stm][k] # {}}]]

LitSyms(stm, k) == LitTable[stm][k]
HeadSyms(stm) == HeadTable[stm]
LitPred(stm, k) == PredOf(BodySym(stm, 1, k))
HeadPreds(stm) == {PredOf(s) : s \in HeadSyms(stm)}

-----------------------------------------------------------------------------
(* Dependency::analyze.  A head provides for a literal if their terms      *)
(* unify.  There are two relations: all dependencies, and the positive     *)
(* ones.                                                                   *)

DefinedBy(stms, stm, k) == ProviderTable[stm][k] \intersect stms

Depends(stms, s) == UNION {DefinedBy(stms, s, k) : k \in Body(s)}
DependsPositively(stms, s) == UNION {DefinedBy(stms, s, k) : k \in Positive(s)}

(* The statements a statement reaches. *)
Closure(stms, next, s) ==
  {t \in stms : \A c \in SUBSET stms :
     (s \in c /\ \A u \in c : next[u] \subseteq c) => t \in c}

Reach(stms, s) == Closure(stms, [u \in stms |-> Depends(stms, u)], s)

(* The strongly connected component of a statement, and its part that is   *)
(* strongly connected by positive dependencies: what is grounded at once.  *)
NegSCC(stms, s) == {t \in Reach(stms, s) : s \in Reach(stms, t)}

PosSCC(stms, s) ==
  LET scc == NegSCC(stms, s)
      reach(u) == Closure(scc, [v \in scc |-> DependsPositively(scc, v)], u)
  IN {t \in reach(s) : s \in reach(t)}

(* isNormal: a rule with one head. *)
IsNormal(stm) ==
  Statements[stm].kind = "rule" /\ \A i \in Instances(stm) : Len(Heads(stm, i)) = 1

(* A component is positive if all atoms it derives are facts; what earlier *)
(* calls derived otherwise is provided by a DummyStatement.                *)
IsPositive(stms, stm) ==
  \A s \in Reach(stms, stm) :
    /\ IsNormal(s)
    /\ \A k \in Body(s) : LitSyms(s, k) \intersect nheads = {}
    /\ \A k \in Negative(s) : DefinedBy(NegSCC(stms, s), s, k) = {}

Analyze(stms) ==
  [s \in stms |-> [scc |-> NegSCC(stms, s), comp |-> PosSCC(stms, s),
                   positive |-> IsPositive(stms, s)]]

(* Components are grounded in the order of two runs of Tarjan's algorithm: *)
(* each after those it depends on, those of a strongly connected component *)
(* in a row, and negative dependencies among the latter do not count.      *)
Ready(s) ==
  LET d == deps[s]
  IN /\ s \notin done
     /\ \A t \in d.comp :
          /\ Depends(Part.stms, t) \subseteq done \union d.scc
          /\ DependsPositively(Part.stms, t) \subseteq done \union d.comp
     /\ \A t \in done : deps[t].scc \subseteq done \/ t \in d.scc

(* A slip: only statements of the own component count. *)
IsRecursiveInComponent(stm, k) == DefinedBy(deps[stm].comp, stm, k) # {}

(* OccurrenceType: UNSTRATIFIED if a statement that provides for the       *)
(* literal is not grounded before, POSITIVELY_STRATIFIED if all of them    *)
(* are positive and of other components.                                   *)
IsRecursive(stm, k) == DefinedBy(Part.stms \ done, stm, k) # {}

IsPositivelyStratified(stm, k) ==
  /\ LitSyms(stm, k) \intersect nheads = {}
  /\ \A t \in DefinedBy(Part.stms, stm, k) :
       deps[t].positive /\ t \notin deps[stm].scc

(* AbstractDomain::hasChoice: the search stops at the first choice it      *)
(* finds, and continues there the next time.                               *)
Choices(p) ==
  {o \in Offsets(dom[p]) :
     o > choiceIndex[p] /\ IsDefined(dom[p], o) /\ ~dom[p].atoms[o].fact}

HasChoice(p) == Choices(p) # {}

ChoiceIndexAfter(p) ==
  IF HasChoice(p) THEN Seqs!Min(Choices(p)) - 1 ELSE Len(dom[p].atoms)

(* The predicates that a rule asks in collectImportant. *)
AskedPreds(stm) ==
  IF deps[stm].positive THEN {}
  ELSE {LitPred(stm, k) : k \in {k \in Body(stm) : IsPositivelyStratified(stm, k)}}

(* A slip: only the head is important. *)
ImportantHeads(stm) == {}

(* collectImportant: the literals of a rule that tell its instances apart. *)
Important(stm) ==
  IF deps[stm].positive THEN {}
  ELSE {k \in Body(stm) : ~IsPositivelyStratified(stm, k) \/ HasChoice(LitPred(stm, k))}

-----------------------------------------------------------------------------
(* Instantiators and the indices they read through *)

(* A slip: literals before the NEW one are ALL. *)
BinderTypesWithoutOld(stm) ==
  LET rec == {k \in Positive(stm) : IsRecursive(stm, k)}
  IN IF rec = {} THEN {[k \in Positive(stm) |-> "ALL"]}
     ELSE {[k \in Positive(stm) |-> IF k = n THEN "NEW" ELSE "ALL"] : n \in rec}

(* _linearize: one instantiator for each recursive positive literal, which *)
(* is NEW there, those before it OLD, those behind it ALL.                 *)
BinderTypes(stm) ==
  LET rec == {k \in Positive(stm) : IsRecursive(stm, k)}
      types(n) == [k \in Positive(stm) |->
        IF k \notin rec \/ k > n THEN "ALL" ELSE IF k = n THEN "NEW" ELSE "OLD"]
  IN IF rec = {} THEN {types(0)} ELSE {types(n) : n \in rec}

(* make_binder: the symbols a literal can match, for each way to bind the  *)
(* given literals before it.                                               *)
ClassTable ==
  [stm \in DOMAIN Statements |->
     [earlier \in SUBSET Positive(stm) |->
        [k \in Body(stm) |->
           LET agree(i, j) == \A e \in earlier : BodySym(stm, i, e) = BodySym(stm, j, e)
           IN {{BodySym(stm, i, k) : i \in {i \in Instances(stm) : agree(i, j)}} :
                 j \in Instances(stm)}]]]

Earlier(stm, order, k) == {e \in Positive(stm) : order[e] < order[k]}

Classes(stm, order, k) == ClassTable[stm][Earlier(stm, order, k)][k]

IsBound(stm, order, k) == \A c \in Classes(stm, order, k) : Cardinality(c) = 1

(* The order of the literals depends on estimates of domain sizes and is   *)
(* arbitrary, except that a NEW literal precedes the other positive ones   *)
(* and negative literals come when they are bound.                         *)
Orders(stm, types) ==
  {f \in [Body(stm) -> 1..Cardinality(Body(stm))] :
     /\ \A j, k \in Body(stm) : f[j] = f[k] => j = k
     /\ \A j, k \in Positive(stm) : types[k] = "NEW" => f[k] <= f[j]
     /\ \A k \in Negative(stm) : IsBound(stm, f, k)}

(* AbstractDomain::add finds an index by its term up to the names of       *)
(* variables and by what is bound.  The key of an index is one of the      *)
(* literals that use it with the literals before it; a matcher belongs to  *)
(* its literal.                                                            *)
IndexTable ==
  LET uses == UNION {{<<stm, k, e>> : k \in Positive(stm), e \in SUBSET Positive(stm)} :
                       stm \in DOMAIN Statements}
      term(u) == <<LitSyms(u[1], u[2]), ClassTable[u[1]][u[3]][u[2]]>>
  IN [u \in uses |-> CHOOSE v \in uses : term(v) = term(u)]

IsMatcher(key) == Len(key) = 2
KeyPred(key) == LitPred(key[1], key[2])
KeyMatch(key) == LitSyms(key[1], key[2])

Binder(stm, order, k) ==
  IF ~IsBound(stm, order, k)
  THEN [kind |-> "index", key |-> IndexTable[<<stm, k, Earlier(stm, order, k)>>]]
  ELSE [kind |-> IF IsRecursive(stm, k) THEN "posmatcher" ELSE "matcher", key |-> <<stm, k>>]

Instantiators(stm) ==
  LET important == Important(stm)
  IN UNION {{[stm |-> stm, types |-> t, order |-> f, important |-> important,
              binders |-> [k \in Positive(stm) |-> Binder(stm, f, k)]] :
                f \in Orders(stm, t)} : t \in BinderTypes(stm)}

(* The literals whose binders are index updaters. *)
Updaters(xs) ==
  UNION {{<<x, k>> : k \in {k \in Positive(x.stm) :
     \/ x.binders[k].kind = "index"
     \/ x.binders[k].kind = "posmatcher" /\ x.types[k] = "NEW"}} : x \in xs}

Has(s) == Contains(dom[PredOf(s)], s)
AtomOf(s) == dom[PredOf(s)].atoms[Find(dom[PredOf(s)], s)]
IsDefinedSym(s) == Has(s) /\ AtomOf(s).gen > 0
IsFactSym(s) == Has(s) /\ AtomOf(s).fact

(* Binder::match for a positive literal. *)
Matches(x, k, s) ==
  LET d == dom[PredOf(s)]
      ix == index[x.binders[k].key]
      found == CASE x.binders[k].kind = "index" ->
                      (CASE x.types[k] = "NEW" -> LookupNew(d, ix)
                         [] x.types[k] = "OLD" -> LookupOld(d, ix)
                         [] x.types[k] = "ALL" -> LookupAll(ix))
                 [] x.binders[k].kind = "posmatcher" ->
                      (CASE x.types[k] = "NEW" -> MatchNew(d, {s})
                         [] x.types[k] = "OLD" -> MatchOld(d, {s})
                         [] x.types[k] = "ALL" -> MatchAll(d, {s}))
                 [] x.binders[k].kind = "matcher" -> {o \in Offsets(d) : IsDefined(d, o)}
  IN \E o \in found : d.atoms[o].sym = s

(* The positive literals of an instance that do not match, and the         *)
(* negative ones that are looked up before the first of them.              *)
Fails(x, i) == {k \in Positive(x.stm) : ~Matches(x, k, BodySym(x.stm, i, k))}

Probes(x, i) ==
  {k \in Negative(x.stm) : \A f \in Fails(x, i) : x.order[k] < x.order[f]}

(* Instances without a lookup that reserves and without a match leave no   *)
(* trace.                                                                  *)
Tried(x) ==
  {i \in Instances(x.stm) :
     Fails(x, i) = {} \/ \E k \in Probes(x, i) : IsRecursive(x.stm, k)}

-----------------------------------------------------------------------------
(* The calls of ground() *)

AllSyms(name) ==
  UNION {Programs[name][n].choices \union Programs[name][n].facts \union
           UNION {HeadSyms(t) \union UNION {LitSyms(t, k) : k \in Body(t)} :
                    t \in Programs[name][n].stms} : n \in DOMAIN Programs[name]}

UsedSyms == UNION {AllSyms(name) : name \in DOMAIN Programs}

Preds == {PredOf(s) : s \in UsedSyms}

PredTable == [name \in DOMAIN Programs |-> {PredOf(s) : s \in AllSyms(name)}]

Init ==
  /\ program \in DOMAIN Programs
  /\ step = 1
  /\ nheads = {}
  /\ todo = {}
  /\ deps = <<>>
  /\ done = {} /\ comp = {} /\ insts = {} /\ agenda = {} /\ enqueueVec = {}
  /\ dom = [p \in Preds |-> EmptyDomain]
  /\ index = <<>>
  /\ choiceIndex = [p \in Preds |-> 0]
  /\ queued = {} /\ current = {} /\ ran = {}
  /\ running = {} /\ left = {} /\ seen = {} /\ work = {}
  /\ pc = "call"
  /\ matched = {} /\ closed = {} /\ emitted = {}

NextGeneration == [p \in DOMAIN dom |-> [dom[p] EXCEPT !.generation = @ + 1]]

(* ClingoControl::beginAddBackend prepares an empty program. *)
BeginAddBackend ==
  /\ pc = "call"
  /\ Part.choices # {}
  /\ dom' = NextGeneration
  /\ todo' = Part.choices
  /\ pc' = "backend"
  /\ UNCHANGED <<program, step, nheads, compVars, indexVars, queueVars, instVars, history>>

(* OutputBase::addAtom, and a choice rule for the atom. *)
AddAtom(s) ==
  /\ pc = "backend"
  /\ s \in todo
  /\ todo' = todo \ {s}
  /\ dom' = [dom EXCEPT ![PredOf(s)] = Define(@, s)]
  /\ emitted' = emitted \union {[choice |-> TRUE, heads |-> {s}, body |-> {}]}
  /\ UNCHANGED <<program, step, nheads, compVars, indexVars, queueVars, instVars, pc,
                 matched, closed>>

(* Program::toGround, and the start of Program::prepare. *)
BeginPrepare ==
  /\ \/ pc = "call" /\ Part.choices = {}
     \/ pc = "backend" /\ todo = {}
  /\ deps' = Analyze(Part.stms)
  /\ todo' = Part.facts
  /\ pc' = "prepare"
  /\ UNCHANGED <<program, step, nheads, done, comp, insts, agenda, enqueueVec, dom, indexVars,
                 queueVars, instVars, history>>

(* Program::prepare: a fact of the edb. *)
DefineFact(s) ==
  /\ pc = "prepare"
  /\ s \in todo
  /\ todo' = todo \ {s}
  /\ LET d == Define(dom[PredOf(s)], s)
     IN dom' = [dom EXCEPT ![PredOf(s)] = SetFact(d, Find(d, s))]
  /\ emitted' = IF IsFactSym(s) THEN emitted ELSE emitted \union {Fact(s)}
  /\ UNCHANGED <<program, step, nheads, compVars, indexVars, queueVars, instVars, pc,
                 matched, closed>>

(* The end of Program::prepare. *)
Prepared ==
  /\ pc = "prepare"
  /\ todo = {}
  /\ dom' = NextGeneration
  /\ pc' = "ground"
  /\ UNCHANGED <<callVars, compVars, indexVars, queueVars, instVars, history>>

(* Program::ground: the next component. *)
StartComponent(c) ==
  /\ pc = "ground"
  /\ \A s \in c : Ready(s)
  /\ comp' = c
  /\ insts' = {}
  /\ agenda' = {}
  /\ enqueueVec' = {}
  /\ pc' = "linearize"
  /\ UNCHANGED <<callVars, deps, done, dom, indexVars, queueVars, instVars, history>>

Linearized == {x.stm : x \in insts}

(* AbstractStatement::linearize up to the choice of an order for the       *)
(* literals of each instantiator.                                          *)
Linearize(s) ==
  /\ pc = "linearize"
  /\ agenda = {}
  /\ s \notin Linearized
  /\ \E xs \in SUBSET Instantiators(s) :
       /\ \A t \in BinderTypes(s) : \E x \in xs : {y \in xs : y.types = t} = {x}
       /\ insts' = insts \union xs
       /\ agenda' = Updaters(xs)
  /\ choiceIndex' = [p \in DOMAIN choiceIndex |->
       IF p \in AskedPreds(s) THEN ChoiceIndexAfter(p) ELSE choiceIndex[p]]
  /\ UNCHANGED <<callVars, deps, done, comp, enqueueVec, dom, index, queueVars, instVars, pc,
                 history>>

(* _linearize: the index of a literal is created or found, and updated; a  *)
(* matcher is created.  The updater is registered with the heads that      *)
(* provide for the literal, the instantiator only if the literal is NEW.   *)
(* The order of the literals does not matter to the domains.               *)
RegisterLiteral ==
  /\ pc = "linearize"
  /\ agenda # {}
  /\ LET u == CHOOSE u \in agenda : TRUE
         x == u[1]
         k == u[2]
         key == x.binders[k].key
         isIndex == x.binders[k].kind = "index"
         ix == IF isIndex /\ key \in DOMAIN index THEN index[key] ELSE NewIndex(KeyMatch(key))
     IN /\ agenda' = agenda \ {u}
        /\ index' = [q \in DOMAIN index \union {key} |->
             IF q # key THEN index[q]
             ELSE IF isIndex THEN UpdateIndex(dom[KeyPred(key)], ix) ELSE ix]
        /\ dom' = IF isIndex THEN [dom EXCEPT ![KeyPred(key)] = PassedBy(@, ix)] ELSE dom
        /\ choiceIndex' = IF isIndex THEN [choiceIndex EXCEPT ![KeyPred(key)] = 0]
                          ELSE choiceIndex
        /\ enqueueVec' = enqueueVec \union
             {[stm |-> t, key |-> key, insts |-> IF x.types[k] = "NEW" THEN {x} ELSE {}] :
                t \in DefinedBy(comp, x.stm, k)}
  /\ UNCHANGED <<callVars, deps, done, comp, insts, queueVars, instVars, pc, history>>

(* AbstractStatement::enqueue for the statements of the component. *)
CompPreds == UNION {HeadPreds(s) : s \in comp}

EnqueueComponent ==
  /\ pc = "linearize"
  /\ agenda = {}
  /\ Linearized = comp
  /\ dom' = [p \in DOMAIN dom |-> IF p \in CompPreds THEN InitDomain(dom[p]) ELSE dom[p]]
  /\ queued' = insts
  /\ pc' = "process"
  /\ UNCHANGED <<callVars, compVars, indexVars, current, ran, instVars, history>>

-----------------------------------------------------------------------------
(* Queue::process *)

(* The code numbers generations without bound.  With a bound, a component  *)
(* whose queue does not become empty is left in the middle.                *)
BeginIteration ==
  /\ pc = "process"
  /\ queued # {}
  /\ \A p \in CompPreds : dom[p].generation \in Generations
  /\ queued' = {}
  /\ current' = queued
  /\ ran' = queued
  /\ pc' = "iterate"
  /\ UNCHANGED <<callVars, compVars, dom, indexVars, instVars, history>>

(* Instantiator::instantiate.  Literals whose predicates are completely    *)
(* grounded are taken to have the extension found now.                     *)
RunInstantiator(x) ==
  /\ pc = "iterate"
  /\ x \in current
  /\ left = {} /\ work = {}
  /\ current' = current \ {x}
  /\ running' = {x}
  /\ left' = Tried(x)
  /\ seen' = {}
  /\ closed' = closed \union
       {s \in UNION {LitSyms(x.stm, k) : k \in {k \in Positive(x.stm) : ~IsRecursive(x.stm, k)}} :
          ~IsDefinedSym(s)}
  /\ UNCHANGED <<callVars, compVars, dom, indexVars, queued, ran, work, pc, matched, emitted>>

(* The next instance is matched up to its first negative literal; the      *)
(* negative literals to look up follow.                                    *)
TryInstance(i) ==
  /\ work = {}
  /\ i \in left
  /\ left' = left \ {i}
  /\ \E x \in running :
       work' = {[inst |-> i, stage |-> "match", complete |-> Fails(x, i) = {},
                 probes |-> Probes(x, i), body |-> {}, fact |-> TRUE, defs |-> <<>>,
                 heads |-> <<>>]}
  /\ UNCHANGED <<callVars, compVars, dom, indexVars, queueVars, running, seen, pc, history>>

(* Backjumping: what differs from a reported instance only in variables    *)
(* that are not important is not visited.                                  *)
Backjump(i) ==
  /\ work = {}
  /\ i \in left
  /\ \E x \in running, j \in seen :
       /\ Heads(x.stm, i) = Heads(x.stm, j)
       /\ \A k \in x.important : BodySym(x.stm, i, k) = BodySym(x.stm, j, k)
  /\ left' = left \ {i}
  /\ UNCHANGED <<callVars, compVars, dom, indexVars, queueVars, running, seen, work, pc,
                 history>>

(* Matcher::match with AbstractDomain::lookup(offset, repr, naf): the next *)
(* negative literal.                                                       *)
MatchNegative ==
  /\ \E x \in running, w \in work : \E k \in w.probes :
       /\ w.stage = "match"
       /\ \A j \in w.probes : x.order[k] <= x.order[j]
       /\ LET s == BodySym(x.stm, w.inst, k)
              naf == Statements[x.stm].naf[k]
              found == IF naf = "not" THEN ~IsFactSym(s)
                       ELSE IsRecursive(x.stm, k) \/ IsDefinedSym(s)
          IN /\ work' = IF found THEN {[w EXCEPT !.probes = @ \ {k}]} ELSE {}
             /\ IF IsRecursive(x.stm, k)
                THEN /\ dom' = [dom EXCEPT ![PredOf(s)] = Reserve(@, s)]
                     /\ UNCHANGED closed
                ELSE /\ closed' = IF IsDefinedSym(s) THEN closed ELSE closed \union {s}
                     /\ UNCHANGED dom
  /\ UNCHANGED <<callVars, compVars, indexVars, queueVars, running, left, seen, pc, matched,
                 emitted>>

(* A positive literal fails behind the negative ones. *)
Mismatch ==
  /\ \E w \in work : w.stage = "match" /\ w.probes = {} /\ ~w.complete
  /\ work' = {}
  /\ UNCHANGED <<callVars, compVars, dom, indexVars, queueVars, running, left, seen, pc, history>>

(* PredicateLiteral::toOutput: a negative literal on an atom that is not   *)
(* derived is true and left out.                                           *)
IsOutput(stm, k, s) ==
  Statements[stm].naf[k] = "not" => Has(s) /\ (IsDefinedSym(s) \/ IsRecursive(stm, k))

IsTrue(stm, k, s) ==
  IF Statements[stm].naf[k] = "not" THEN ~IsOutput(stm, k, s) ELSE IsFactSym(s)

(* Rule::report: the body. *)
ReportBody ==
  /\ \E x \in running, w \in work :
       /\ w.stage = "match" /\ w.probes = {} /\ w.complete
       /\ LET sym(k) == BodySym(x.stm, w.inst, k)
              true == {k \in Body(x.stm) : IsTrue(x.stm, k, sym(k))}
              out == {k \in Body(x.stm) :
                        IsOutput(x.stm, k, sym(k)) /\ (program \in KeepingFacts \/ k \notin true)}
          IN work' = {[w EXCEPT !.stage = "head", !.fact = (true = Body(x.stm)),
                                !.body = {Lit(Statements[x.stm].naf[k], sym(k)) : k \in out}]}
       /\ seen' = seen \union {w.inst}
       /\ matched' = matched \union {<<x.stm, w.inst>>}
  /\ UNCHANGED <<callVars, compVars, dom, indexVars, queueVars, running, left, pc, closed,
                 emitted>>

(* Rule::report: the next head is defined.  A head that is a fact ends the *)
(* report of a rule and is skipped by a choice.  defs are the heads that   *)
(* are done.                                                               *)
ReportHead ==
  /\ \E x \in running, w \in work :
       /\ w.stage = "head"
       /\ Len(w.defs) < Len(Heads(x.stm, w.inst))
       /\ LET s == Heads(x.stm, w.inst)[Len(w.defs) + 1]
              next == [w EXCEPT !.defs = Append(@, s)]
          IN /\ dom' = [dom EXCEPT ![PredOf(s)] = Define(@, s)]
             /\ work' = IF ~IsFactSym(s) THEN {[next EXCEPT !.heads = Append(@, s)]}
                        ELSE IF Statements[x.stm].kind = "choice" THEN {next} ELSE {}
  /\ UNCHANGED <<callVars, compVars, indexVars, queueVars, running, left, seen, pc, history>>

(* Rule::report: a rule with one head and a true body makes it a fact; the *)
(* rule is passed to the output.                                           *)
ReportRule ==
  /\ \E x \in running, w \in work :
       /\ w.stage = "head"
       /\ Len(w.defs) = Len(Heads(x.stm, w.inst))
       /\ LET choice == Statements[x.stm].kind = "choice"
              h == Head(w.heads)
              isFact == ~choice /\ w.fact /\ Len(w.heads) = 1
          IN /\ dom' = IF isFact
                       THEN [dom EXCEPT ![PredOf(h)] = SetFact(@, Find(@, h))] ELSE dom
             /\ emitted' = IF choice /\ w.heads = <<>> THEN emitted
                  ELSE emitted \union
                    {[choice |-> choice, heads |-> Seqs!ToSet(w.heads), body |-> w.body]}
  /\ work' = {}
  /\ UNCHANGED <<callVars, compVars, indexVars, queueVars, running, left, seen, pc, matched,
                 closed>>

(* A slip: what update() returns is ignored. *)
UpdatedAlways(entries) == entries

(* The updaters that find something in their domain. *)
FoundNew(entries) ==
  {e \in entries : Fresh(dom[KeyPred(e.key)], index[e.key]) # {}}

(* HeadDefinition::enqueue for the heads of the statement: their domains,  *)
(* the updaters that are registered with them, and the instantiators of    *)
(* updaters that find something.                                           *)
Propagate(x) ==
  /\ pc = "iterate"
  /\ current = {} /\ left = {} /\ work = {}
  /\ x \in ran
  /\ ran' = ran \ {x}
  /\ LET entries == {e \in enqueueVec : e.stm = x.stm}
         keys == {e.key : e \in entries}
         passed(p) == {o \in Offsets(dom[p]) :
                         \E key \in keys : KeyPred(key) = p /\ o > index[key].imported}
     IN /\ dom' = [p \in DOMAIN dom |->
             IF p \in HeadPreds(x.stm) THEN EnqueueDomain(MarkDelayed(dom[p], passed(p)))
             ELSE dom[p]]
        /\ index' = [key \in DOMAIN index |->
             IF key \in keys THEN UpdateIndex(dom[KeyPred(key)], index[key]) ELSE index[key]]
        /\ choiceIndex' = [p \in DOMAIN choiceIndex |->
             IF \E key \in keys : KeyPred(key) = p THEN 0 ELSE choiceIndex[p]]
        /\ queued' = queued \union UNION {e.insts : e \in FoundNew(entries)}
  /\ running' = {} /\ seen' = {}
  /\ UNCHANGED <<callVars, compVars, current, left, work, pc, history>>

(* A slip: all domains go to the next generation. *)
AdvanceAllDomains == dom' = NextGeneration

(* Domain::nextGeneration and Domain::dequeue for the domains of the queue. *)
AdvanceEnqueuedDomains ==
  dom' = [p \in DOMAIN dom |-> IF dom[p].enqueued > 0 THEN AdvanceDomain(dom[p]) ELSE dom[p]]

EndIteration ==
  /\ pc = "iterate"
  /\ current = {} /\ left = {} /\ work = {} /\ ran = {}
  /\ AdvanceEnqueuedDomains
  /\ pc' = "process"
  /\ UNCHANGED <<callVars, compVars, indexVars, queueVars, instVars, history>>

(* The end of Queue::process, and of the component. *)
EndComponent ==
  /\ pc = "process"
  /\ queued = {}
  /\ AdvanceEnqueuedDomains
  /\ done' = done \union comp
  /\ comp' = {} /\ insts' = {} /\ enqueueVec' = {}
  /\ pc' = "ground"
  /\ UNCHANGED <<callVars, deps, agenda, indexVars, queueVars, instVars, history>>

(* ground() returns.  The heads of non-positive statements are kept for    *)
(* the next call.                                                          *)
NextCall ==
  /\ pc = "ground"
  /\ done = Part.stms
  /\ step < Len(Programs[program])
  /\ step' = step + 1
  /\ nheads' = nheads \union
       UNION {HeadSyms(s) : s \in {s \in done : ~deps[s].positive}}
  /\ done' = {}
  /\ pc' = "call"
  /\ matched' = {} /\ closed' = {}
  /\ UNCHANGED <<program, todo, deps, comp, insts, agenda, enqueueVec, dom, indexVars, queueVars,
                 instVars, emitted>>

Return ==
  /\ pc = "ground"
  /\ done = Part.stms
  /\ step = Len(Programs[program])
  /\ pc' = "done"
  /\ UNCHANGED <<callVars, compVars, dom, indexVars, queueVars, instVars, history>>

Next ==
  \/ BeginAddBackend \/ BeginPrepare \/ Prepared
  \/ \E s \in todo : AddAtom(s) \/ DefineFact(s)
  \/ \E c \in {deps[s].comp : s \in DOMAIN deps} : StartComponent(c)
  \/ \E s \in comp : Linearize(s)
  \/ RegisterLiteral \/ EnqueueComponent
  \/ BeginIteration
  \/ \E x \in current : RunInstantiator(x)
  \/ \E i \in left : TryInstance(i) \/ Backjump(i)
  \/ MatchNegative \/ Mismatch
  \/ ReportBody \/ ReportHead \/ ReportRule
  \/ \E x \in ran : Propagate(x)
  \/ EndIteration \/ EndComponent
  \/ NextCall \/ Return

(* ground() is a loop that always takes its next step. *)
Spec == Init /\ [][Next]_vars /\ WF_vars(Next)

-----------------------------------------------------------------------------
(* Properties *)

TypeOK ==
  /\ program \in DOMAIN Programs
  /\ step \in DOMAIN Programs[program]
  /\ pc \in {"call", "backend", "prepare", "ground", "linearize", "process", "iterate", "done"}
  /\ done \union comp \subseteq Part.stms
  /\ Linearized \subseteq comp
  /\ pc \in {"process", "iterate"} => Linearized = comp
  /\ queued \union current \union running \union ran \subseteq insts
  /\ \A p \in Preds :
       /\ dom[p].enqueued \in 0..2
       /\ choiceIndex[p] \in 0..Len(dom[p].atoms)
       /\ \A o \in Offsets(dom[p]) : PredOf(dom[p].atoms[o].sym) = p
  /\ Cardinality(running) <= 1 /\ Cardinality(work) <= 1

(* Semi-naive evaluation: the NEW, OLD, ALL instantiators of a rule        *)
(* partition its instances, in an iteration and over all iterations, so    *)
(* that a call reports no instance twice.                                  *)
NoInstanceTwice ==
  \A x \in running, w \in work :
    (w.stage = "match" /\ w.complete) => <<x.stm, w.inst>> \notin matched

(* An instance stands for another one if its heads are the same and its    *)
(* body is weaker: they differ only in literals that are true.             *)
StandsFor(stm, j, i) ==
  /\ Heads(stm, i) = Heads(stm, j)
  /\ \A k \in Body(stm) :
       BodySym(stm, i, k) = BodySym(stm, j, k) \/ IsTrue(stm, k, BodySym(stm, j, k))

Possible(stm, i) ==
  \A k \in Body(stm) :
    IF Statements[stm].naf[k] = "not" THEN ~IsFactSym(BodySym(stm, i, k))
    ELSE IsDefinedSym(BodySym(stm, i, k))

(* When the queue of a component is empty, its fixpoint is reached: each   *)
(* instance whose body can be true was reported, or backjumping left it    *)
(* out in favor of one that says more.  No enqueue of an instantiator is   *)
(* missed, and no atom defined in the last iteration is overlooked.        *)
Complete ==
  pc = "ground" =>
    \A stm \in done : \A i \in Instances(stm) :
      Possible(stm, i) => \E j \in Instances(stm) :
        <<stm, j>> \in matched /\ StandsFor(stm, j, i)

(* Stratification: what a rule instance took to be underivable in a call,  *)
(* when a negative literal was dropped as true or a positive one did not   *)
(* match, is not derived later in the call.                                *)
ClosedWorld == \A s \in closed : ~IsDefinedSym(s)

RulesOf(stm) ==
  {[choice |-> Statements[stm].kind = "choice", heads |-> HeadSet(stm, i),
    body |-> {Lit(Statements[stm].naf[k], BodySym(stm, i, k)) : k \in Body(stm)}] :
     i \in Instances(stm)}

FullProgram(parts) ==
  UNION {   {Fact(s) : s \in parts[n].facts}
     \union {[choice |-> TRUE, heads |-> {s}, body |-> {}] : s \in parts[n].choices}
     \union UNION {RulesOf(stm) : stm \in parts[n].stms} : n \in DOMAIN parts}

ReferenceModels ==
  [name \in DOMAIN Programs |-> StableModels(FullProgram(Programs[name]))]

(* The ground program that is output has the stable models of the full     *)
(* instantiation: dropping true literals, facts, instances that cannot     *)
(* apply, and instances that backjumping leaves out changes nothing.       *)
Equivalent ==
  pc = "done" => StableModels(emitted) = ReferenceModels[program]

(* Grounding ends: each iteration that goes on has found something new, so *)
(* that the queue of each component becomes empty, and does so before the  *)
(* generations are used up.                                                *)
Terminates == <>(pc = "done")

-----------------------------------------------------------------------------
(* What a domain sees of the grounder *)

LiveKeys(p) ==
  {key \in {u[1].binders[u[2]].key : u \in Updaters(insts) \ agenda} :
     KeyPred(key) = p /\ ~IsMatcher(key)}

PhaseOf(p) ==
  IF pc \notin {"process", "iterate"} \/ p \notin CompPreds THEN "idle"
  ELSE IF pc = "iterate" /\ dom[p].enqueued = 2 THEN "prop" ELSE "inst"

WithoutFacts(d) ==
  [d EXCEPT !.atoms = [o \in Offsets(d) |-> [d.atoms[o] EXCEPT !.fact = FALSE]]]

UsedStatements == UNION {UNION {part.stms : part \in {Programs[name][n] :
  n \in DOMAIN Programs[name]}} : name \in DOMAIN Programs}

KeyTable ==
  LET lits == UNION {{<<stm, k>> : k \in Positive(stm)} : stm \in UsedStatements}
      keys == lits \union {IndexTable[u] : u \in
                {u \in DOMAIN IndexTable : <<u[1], u[2]>> \in lits /\ u[2] \notin u[3]}}
  IN [p \in Preds |-> {key \in keys : KeyPred(key) = p}]

SymTable == [p \in Preds |-> {s \in UsedSyms : PredOf(s) = p}]
MatchTable == [p \in Preds |-> [key \in KeyTable[p] |-> KeyMatch(key)]]

(* The steps of a domain are those of any number of iterations. *)
DomainOf(p) ==
  INSTANCE Domain WITH
    Sym <- SymTable[p], Index <- KeyTable[p], Match <- MatchTable[p],
    Generations <- Nat,
    dom <- WithoutFacts(dom[p]),
    index <- [key \in KeyTable[p] |->
                IF key \in DOMAIN index THEN index[key] ELSE NewIndex(KeyMatch(key))],
    live <- LiveKeys(p),
    phase <- PhaseOf(p)

(* Each domain goes through the steps of the module Domain: the grounder   *)
(* keeps the protocol under which the indices are proved to be exact.      *)
(* This is \A p \in Preds : DomainOf(p)!Spec with the quantifier pulled    *)
(* inside the box, and restricted to the predicates of the program there:  *)
(* the domains of the others get no atoms.                                 *)
RefinesDomain ==
  /\ \A p \in Preds : DomainOf(p)!Init
  /\ [][\A p \in PredTable[program] :
          UNCHANGED DomainOf(p)!vars \/ DomainOf(p)!Next]_vars
=============================================================================
