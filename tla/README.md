# clingo in TLA+

Specifications of the parts of clingo that carry state from one step to the
next: the grounder's atom domains and indices, the semi-naive grounder built on
them, aggregates and conditional literals from their first element to their
translation, the control object that alternates grounding and solving with the
built-in incremental mode on top of it, the lock around callbacks of solver
threads, and the reifier.  All names
follow the C++ source; paths below are relative to the repository.

- [Inventory](#inventory): what the system consists of
- [Modules](#modules): what is modelled, and how it corresponds to the code
- [Runs](#runs): what TLC checks, in which bounds, and what that shows
- [Proofs](#proofs): what TLAPS proves, from what, and how
- [Disagreements](#disagreements-between-code-and-its-description)
- [What is not modelled](#what-is-not-modelled), and [the plan](#plan)

To check: `tlc -config MCDomain.cfg MCDomain` (and so on for each `.cfg`, with
the module named in the table of runs), and `tlapm DomainProofs.tla` (and so on
for each `*Proofs` module).

## Inventory

clingo reads a logic program with variables, *grounds* it (replaces the program
by an equivalent one without variables) and hands the result to clasp, which
searches for stable models.  A `Control` object does this many times: parts of
the program are grounded, solved, externals are assigned, more parts are
grounded.  Everything except clasp, and the callbacks that it makes, runs in one
thread.  What is hard is rarely concurrency and mostly *order*: the same mutable containers are scanned, extended,
reserved into, compacted and re-read by many callers in a sequence that depends
on the program, and results are remembered as offsets into vectors that move.

| Component | State | Operations | Talks to | Correct if |
|---|---|---|---|---|
| **Atom domains** `libgringo/gringo/domain.hh`, `output/literal.hh` | ordered set of atoms with a generation each; `delayed_`; `generation_`, `enqueued_`, `initOffset_`, `initDelayedOffset_`, `choiceIndex_` | `reserve`, `define`, `init`, `enqueue`, `dequeue`, `nextGeneration`, `hasChoice`, `update` for an index, lookups `NEW`/`OLD`/`ALL` | called by statements, literals, the queue, and the output | each index holds exactly the defined atoms it matches; every atom is `NEW` exactly once; lookups that stop early are right |
| **Cleanup** `domain.hh` (`cleanup_`), `literal.hh` (`Mapping`) | the atoms, the mapping from old to new offsets | delete or keep each atom; `Mapping::add`, `get` | output (`simplify`), everything that keeps offsets | nothing that stays is lost or moved without the mapping saying so |
| **Grounder** `libgringo/src/ground/*.cc`, `gringo/ground/*.hh` | components of statements, instantiators, queue, indices, `enqueueVec_` of heads | dependency analysis, `linearize`, `Queue::process`, `Instantiator::instantiate`, `Rule::report`, `HeadDefinition::enqueue` | domains; output | the ground program has the stable models of the full instantiation, no instance is repeated, grounding ends |
| **Input programs** `libgringo/src/input/program.cc` | blocks, `edb`, heads kept between calls | `rewrite`, `check`, `toGround` | grounder | what an earlier call derived is visible to the dependency analysis of a later one |
| **Control object** `libclingo/src/clingocontrol.cc` | `grounded_`, `canClean_`, `enableCleanup_`, output, clasp facade | `ground`, `solve`, `prepare`, `cleanup`, `assignExternal`, backend, `update` | grounder, output, clasp | no cleanup while the solver's values are not those of the atoms; steps begin and end in turn |
| **Output** `libgringo/src/output/*.cc` | predicate domains with `incOffset`, `showOffset`; output table; weak-constraint tuples; translator data | `beginStep`, `output`, `endGround`, `simplify`, `endStep` | backends, domains | complements are excluded, atoms are shown once, kept literals follow their atoms |
| Solver (clasp) | *a git submodule that is not in the tree* | `prepare`, `solve`, top-level values | control object | external here |
| **Incremental mode** `libclingo/src/incmode.cc` | step, last result | `check_run`, the loop over release, ground, assign, solve | control object | stops at the right step; one query is open at a time |
| **Program backend** `gringo/backend.hh`, `clingocontrol.cc` | added atoms, added facts | `beginAddBackend`, `addAtom`, rules, externals, `endAddBackend` | domains, output | steps stay paired; what is added is excluded, shown and cleaned up like what is grounded |
| **Propagators** `clingo/clingocontrol.hh`, `clingocontrol.cc` | registered propagators, `seq_`, the optional mutex, event handler | `registerPropagator`, `prepare`, callbacks of solver threads | clasp | sequential callbacks exclude each other and the reports |
| Solve futures | a handle of clasp | `wait`, `resume`, `cancel` | clasp | protocol of the handle |
| **Aggregates** `ground/statements.cc`, `output/literals.cc`, `output/aggregates.cc` | elements with their conditions, range, bounds as intervals; the flags fact, defined, enqueued, recursive; values of assignments | accumulate, complete, lookup with `toOutput`, translate | domains, output | the range contains the value; a fact stays one; an atom that can hold is defined; the translation means what the aggregate means |
| **Intervals** `gringo/intervals.hh` | sorted vector of disjoint intervals | `add`, `remove`, `contains`, `intersects` | aggregates | union, difference, subset, overlap of the sets of values |
| **Conditional literals, disjunctions** (same files) | elements with two formulas each; the counters `blocked_`, `fact_`, `headFact_`; flags; `todo_` lists | accumulate conditions and heads, complete, read, delay, translate | domains, output | counters agree with what was reported; verdicts are final; the rules mean what the literal means |
| Head aggregates | accumulated elements | accumulate, complete, translate | domains, output | completed once all elements are there |
| **Graphs** `gringo/graph.hh` | nodes, edges, visited marks, phase | `insertNode`, `insertEdge`, `tarjan` | dependency analysis, reifier | components are right in every run |
| Safety check, `Indexed` | local to one call | pure algorithms | grounder | agree with their definitions |
| **Reifier** `libreify` | tuples with numbers, dependency graph, step | one function for each statement, `endStep` | backends | the facts give back the program; components are those of the dependencies |
| Parser, AST, rewriting, symbols, terms, theory, scripts, applications | syntax trees, interned symbols | transformations | all | - |

The behaviours that are hard to test are listed, each at its line, under
`hazards` in `PROJECT.json`.  Those that shape the models:

- an atom can be **reserved** by a negative literal before it is defined; the
  scan of an index passes it, and only the `delayed_` vector brings it back;
- the **generation** of an atom is set back when a component is entered again,
  and indices are searched by generation;
- a rule with several recursive literals becomes **several instantiators** whose
  `NEW`/`OLD`/`ALL` split has to cover every combination once;
- literals are **dropped** and instances **skipped** (backjumping) on the basis
  of what the domains contain at that moment of a fixpoint still running;
- a cleanup **moves atoms**, and looks up values for uids that the solver may
  not have seen yet;
- **offsets** (`incOffset`, `showOffset`, `choiceIndex_`) stand for "what was
  there last time" while reserved atoms before them can still be defined;
- an aggregate's **range** is updated from element to element, although a tuple
  can be reported several times and become a fact late, and a **verdict** that
  is read from it in the middle of a fixpoint is never revised; conditional literals
  have counters in the place of the range, and the same problem twice, for
  conditions and for heads;
- the **incremental mode** has a cleanup inside of each call that it makes, between
  which the query of one step is released and that of the next one is declared;
- the **lock** of propagators exists or not, depending on the number of threads and
  propagators at the time of the last `solve`.

## Modules

| Module | Models | Uses |
|---|---|---|
| `DomainOps` | `AbstractDomain` and the indices as operators on a domain record and an index record | - |
| `Domain` | one domain and its indices under the call protocol of the grounder | `DomainOps` |
| `DomainProofs` | theorems about `Domain` | `Domain` |
| `GroundRules` | ground rules and their stable models, the reference semantics | - |
| `Grounder` | `ground()` for programs of several calls | `DomainOps`, `GroundRules`, instance of `Domain` |
| `GrounderProofs` | theorems about `Grounder` | `Grounder`, instance of `DomainProofs` |
| `GrounderCompleteProofs` | the theorem that grounding is complete | `GrounderProofs` |
| `CleanupOps` | `Mapping` and one iteration of `cleanup_`, as operators | - |
| `Cleanup` | the cleanup loop | `CleanupOps` |
| `CleanupProofs` | lemmas about the cleanup loop for any atoms, and theorems about `Cleanup` | `Cleanup` |
| `MultiShot` | the control object with output, domains and backend sessions across steps | `CleanupOps` |
| `IncMode` | who calls it: a user, or the incremental mode | `MultiShot` |
| `MultiShotProofs` | theorems about `MultiShot` and `IncMode` | `IncMode`, instance of `CleanupProofs` |
| `IntervalOps` | `Interval` and `IntervalSet` | - |
| `AggregateOps` | tuples, elements, ranges, values and bounds of aggregates, and what an aggregate means in an interpretation, as operators | `IntervalOps` |
| `AggregateTranslation` | the analysis and the translation into rules; relations written by text output | `AggregateOps` |
| `Aggregate` | the life of one aggregate | `AggregateTranslation` |
| `AggregateProofs` | theorems about `IntervalOps` and `Aggregate` | `Aggregate` |
| `ConditionalOps` | elements, counters and translation of conditional literals and disjunctions, as operators | - |
| `Conditional` | the life of one of them | `ConditionalOps` |
| `ConditionalProofs` | theorems about both | `Conditional` |
| `Propagators` | callbacks of solver threads and their lock, across solve calls | - |
| `PropagatorsProofs` | theorems about `Propagators` | `Propagators` |
| `GraphOps` | `Graph` with `tarjan`, as operators | - |
| `Reifier` | the reifier with its graph, across steps | `GraphOps` |
| `MC*` | constants for TLC | the module they are named after |

Offsets are 1-based in the modules; everything else that is an offset is
converted accordingly.  Operators that are named as slips in a comment
(`DefineWithoutDelayed`, `EraseAndSkip`, ...) are not part of the models: they are
the plausible mistakes that the checks are known to detect.

### DomainOps and Domain

A domain is a record with the fields of `AbstractDomain`; an atom has a symbol,
a generation (0: reserved only; the code stores the generation plus one, as here),
the `fact` and `delayed` flags.  An index is a record with the set of symbols
its term can match, the offsets imported so far (a sequence of *batches*, one
for each update that found something; within a batch atoms of a bind index are
in different entries and their order carries no information), and the two
counters `imported_`, `importedDelayed_`.

- `Reserve`, `Define`, `DefineOffset`, `InitDomain`, `EnqueueDomain`,
  `AdvanceDomain` are the methods of the same name (`AdvanceDomain` is
  `nextGeneration` with `dequeue`, which `Queue::process` calls together).
- `UpdateIndex` with `PassedBy` is `AbstractDomain::update`: the scan marks
  undefined atoms as delayed, the second loop imports late atoms.
- `LookupNew`, `LookupOld`, `LookupAll` are the traversals of an index, which stop
  at the first atom of another generation or search for it; `MatchNew`, `MatchOld`,
  `MatchAll` are the lookups in the domain itself.  They look alike in purpose and
  are different in code; `LookupsAgree` relates them.

`Domain` adds the protocol.  `phase` says where `Program::ground` is, seen from
one domain: `"idle"` while no component that derives atoms of the domain is
processed, `"inst"` while instantiators run, `"prop"` while they propagate.  The
guards of its actions are what the callers guarantee (an iteration ends only
after every head that defined something has propagated); `RefinesDomain` in
`Grounder` checks that they do.

### Grounder

Statements are normal and disjunctive rules, constraints and choice rules.  A
statement is given by its ground instances over a finite universe, and terms by
the sets of symbols they match: the model contains no parser and no matcher, but
all decisions that are made about the sets of matches.  A state holds what
`Program::ground` has: domains, indices (found again by term, as
`AbstractDomain::add` does), the instantiators of the component, `enqueueVec_`,
the queue, and the instance that is being matched.

| Action | Code |
|---|---|
| `BeginAddBackend`, `AddAtom` | a backend is opened before the call and adds atoms as choices |
| `BeginPrepare`, `DefineFact`, `Prepared` | `Program::prepare` |
| `StartComponent` | the outer loop of `Program::ground`; the order is that of `Dependency::analyze` (`Ready`) |
| `Linearize`, `RegisterLiteral` | `AbstractStatement::linearize`: choice of NEW/OLD/ALL, order of literals, creation or reuse of indices, registration with heads |
| `EnqueueComponent` | `AbstractStatement::enqueue`: `init` of the domains, all instantiators queued |
| `BeginIteration`, `EndIteration`, `EndComponent` | `Queue::process` |
| `RunInstantiator`, `TryInstance`, `MatchNegative`, `Mismatch`, `Backjump` | `Instantiator::instantiate` |
| `ReportBody`, `ReportHead`, `ReportRule` | `Rule::report` |
| `Propagate` | `HeadDefinition::enqueue`; `FoundNew` are the updaters whose `update()` returns true |
| `NextCall`, `Return` | the end of `ClingoControl::ground`; `DummyStatement` |

What the code decides by estimates or by hash order (the order of literals, of
statements, of instantiators in the queue, of instances) is left open.  Recursive
negative literals reserve atoms *while* instances are matched, so matching an
instance takes one step for each negative literal, and defining heads one step
for each head.

`GroundRules` defines stable models by the reduct.  It is what the result of the
grounder is compared with and models no code.

### CleanupOps and Cleanup

`Mapping` is, as in the code, a table of the offsets that changed and a sequence of
ranges of those that did not; `GetMapping` consults the table and then the range that
the binary search of `Mapping::get` finds.  `UnorderedErase` (move the last element into the hole) is a
method of `tsl::ordered_set`, a vendored container.  `EraseAtom` and `KeepAtom`
are the branches of the loop in `cleanup_`; `Cleanup` runs it over any sequence of
distinct atoms with any set of atoms to delete.

### MultiShot

The flags of `ClingoControl`, the atoms of two complementary signatures, the
three offsets of each domain, the tuples of weak constraints that the translator
keeps, and the backend's view: begun steps, constraints, output table, heads and
frozen externals.  A call of the API is one action, except `ground`, between whose
`BeginGround` and `EndGround` atoms are reserved, defined and declared external in
any order the grounder could choose, and tuples added.  `Update` is
`ClingoControl::update`, called first by each of the other calls as in the code.

The solver is external.  `TopLevel` allows any values that can hold at the top
level given facts, constraints and missing definitions; the program may become
inconsistent whenever rules reach the backend or the solver has run.

A session with the backend begins in `BeginAddBackend`, which ignores whether
`update()` succeeded, and ends in `EndAddBackend`, which makes facts of the new atoms
that got one and then outputs like a ground call.  In between, `AddAtom` defines
atoms of the domains and `AddRule` and `AddExternal` refer to their uids.

What the object is used for is a *scenario*, chosen in the initial state: the names
of atoms, whether there are externals and whether the backend is used, which domains
are asked for choices, the queries of the incremental mode, and the bounds.

`IncMode` is what `ClingoControl::main` starts.  `at` is the next call in the loop of
`Incmode::run`, and every call is the action of `MultiShot` with the same name, or
(`AssignQuery`) the conjunction of `update()` and what `assignExternal` does to the
query it finds.  `Instantiate` is the instantiation of `check(t)`, which declares the
query, and of the other programs, which define other atoms.  The result of a solve
call is any, as its assumptions and the solver are external; if the solver
finds the program to be inconsistent it is `UNSAT`.

### IntervalOps, AggregateOps, AggregateTranslation, Aggregate

`IntervalOps` has the comparisons of bounds, and `AddInterval`, `RemoveInterval`,
`ContainsInterval` and `IntersectsInterval` for `IntervalSet::add`, `remove`,
`contains` and `intersects`: where the code calls `std::lower_bound` and
`std::upper_bound`, so do the operators (`LowerBound`, `UpperBound`: the first
place at which the comparison changes), and where it erases and inserts a part of
the vector they `Splice`.

`AggregateOps` holds what `BodyAggregateAtom`, `AssignmentAggregateData` and
`AggregateAtomRange` compute for one element.  A tuple is a model value with a
weight.  A condition is a set of literals, and the meaning of literals, conditions
and rules is a set of *worlds*: pairs `<<h, t>>` of interpretations with `h` a
subset of `t` (the interpretations of here-and-there logic).  A pair with `h = t`
stands for a truth assignment, the other pairs for its reducts; two
formulas with the same worlds can replace each other in any program.

`Aggregate` is the life of one aggregate of a program.  Three modes differ in when
it is completed: `stratified` (after all elements), `positive` (monotone, while
elements arrive, without recursion through negation) and `recursive`.

| Action | Code |
|---|---|
| `Report` | `BodyAggregateAccumulate::report`, `AssignmentAggregateAccumulate::report` for one instance of an element |
| `ReportEmpty` | the statement for the empty set of elements that `TupleBodyAggregate::toGround` adds |
| `CompleteBody`, `CompleteAssignment` | `BodyAggregateComplete::report`, `AssignmentAggregateComplete::report` |
| `Close` | the component is grounded |
| `ReadBody` | lookup of the literal and `BodyAggregateLiteral::toOutput`: left out as true, no rule as false, or written |
| `TranslateBody`, `TranslateAssignment` | `BodyAggregateLiteral::translate`, `AssignmentAggregateLiteral::translate`, with `getEqualAggregate`, `AggregateAnalyzer`, `SumTranslator`, `translateMinMax` |

Any tuple can be reported with any condition at any time until `Close`, any
number of times; reads can happen between any two reports.  `reported` is a history
variable from which the properties compute what the aggregate means.

### ConditionalOps and Conditional

An element of a conditional literal has two formulas: its heads and its bodies, each
a sequence of clauses that collapses to the empty clause when one of them is a fact.
`AccumulateCond`, `AccumulateHead` and their counterparts for disjunctions change
formulas and counters as the methods of the same name do.  Literals and rules are
sets of worlds as in `AggregateOps`.

`Conditional` has both kinds of literals, in three modes: `stratified` (nothing is
reported after completion), `heads` (heads depend on the rules with the literal,
conditions do not) and `recursive`.

| Action | Code |
|---|---|
| `ReportEmpty`, `ReportCond`, `ReportHead` | `report` of `ConjunctionAccumulateEmpty`, `ConjunctionAccumulateCond` and `ConjunctionAccumulateHead`, with `reportOther`, which queues the atom |
| `CompleteConjunction` | `ConjunctionComplete::report` |
| `ReadConjunction` | `ConjunctionLiteral::toOutput`: left out as true, delayed, or translated |
| `ReportRule`, `ReportElement`, `CompleteDisjunction` | `DisjunctionRule::report`, `DisjunctionAccumulate::report` with the instantiation of the head, `DisjunctionComplete::report` |
| `CloseConds`, `CloseHeads` | no instances are left of the statements that report conditions, heads |
| `TranslateConjunction`, `TranslateDisjunction` | the delayed literals in `endGround` |

Elements without a condition and with a head cannot occur: the head is instantiated
for instances of the condition.  `conds` and `heads` are history variables.

### Propagators

`Register`, `Solve` and `PrepareFails` happen between solve calls, with any number of
threads in each.  A solver thread enters a callback through `lock` if the lock was
given out for it (`Locks`), and leaves it through `unlock`, also when it throws.  The
lock does nothing while there is no mutex.  `on_model`, `on_unsat` and `print_model`
always use the lock, one thread at a time reports, and the printer runs after the
handler in a call of its own, with the lock released in between.

Which callback a thread makes and when is up to clasp, which is external.
`decide()` asks the heuristics one after the other, all under the lock that the
first one was registered with.

### GraphOps and Reifier

A graph is the list of nodes (the newest first, as in the `forward_list`), their
edges, their marks and the phase.  `Tarjan` is the loop of `tarjan()` with its two
stacks; `Push`, `NextEdge`, `LowLink`, `Complete` and `Leave` are the parts of its body.

A statement of the reifier has plain arguments and tuples.  `Report` looks the
tuples up, prints new ones and the statement, and adds the dependencies of rules;
`EndStep` searches the components and starts the maps anew if steps are
reified.  All four combinations of the flags are initial states.

## Runs

| Run | Module | Checks | States |
|---|---|---|---|
| `domain` | `MCDomain` | `IndexExact`, `IndexComplete`, `ImportedOnce`, `Sorted`, `DelayedExact`, `LookupsAgree`, `DequeuedInTime`, `NewExactlyOnce` | 1.5 million |
| `grounder` | `MCGrounder` | `NoInstanceTwice`, `Complete`, `ClosedWorld`, `Equivalent`, `RefinesDomain`, `Terminates` | 24 000 |
| `cleanup` | `MCCleanup` | `MappingExact`, `NothingLost`, `AddedInOrder` | 52 000 |
| `multishot` | `MCMultiShot` | `ComplementsOfSteps`, `ShownOnce`, `LiteralsFollow`, `ExternalsOpen`, `StepsPaired`, `QueryOfStep`, `StopsInTime`, `DefinedKept` | 1.1 million |
| `aggregate` | `MCAggregate` | `RangeSound`, `DefinedWhenPossible`, `VerdictsSound`, `ValuesExact`, `AssignmentsCover`, `TranslationExact` | 320 000 |
| `conditional` | `MCConditional` | `CountersExact`, `DefinedWhenPossible`, `VerdictsSound`, `TranslationExact` | 170 000 |
| `propagators` | `MCPropagators` | `Exclusion`, `HeldInside`, `Progress` | 370 000 |
| `reifier` | `MCReifier` | `ProgramExpressed`, `ComponentsExact` | 400 000 |
| `backend`, `complements`, `choices`, `plain_bounds` | | one property each, violated: see [below](#disagreements-between-code-and-its-description) | |

`Domain`, `Grounder`, `Cleanup`, `MultiShot` and `Propagators` state a type invariant
`TypeOK`.  Those of `Domain`, `Grounder`, `MultiShot` and `Propagators` are proved, that of `Cleanup` has been
checked in the instance of its run, to which it can be added as an invariant.

**domain.**  Three symbols, an index over all and one over two of them, two
changes of generation; symmetric in the two symbols that both indices match.
Three symbols are enough for an atom that is passed while reserved, one defined
before and one behind it; two indices for an atom delayed for one and imported in
order by the other; `Generations = {0, 1}`, those an iteration can end in, for an atom that is `NEW` and then `OLD`
and for a second component after the first.  `DequeuedInTime` is the assertion
that a domain is not enqueued when the queue is empty.  The unbounded case is
proved.

**grounder.**  Thirteen programs, each chosen for a kind of dependency:

| Program | Why |
|---|---|
| `reach` | two recursive literals in one body: NEW/OLD/ALL |
| `loops` | negative loops and double negation within one component: reserved atoms that become defined, or never do |
| `calls`, `mixed`, `grow` | several calls: atoms of earlier calls, rules over predicates whose earlier definition was not positive, a choice that becomes known |
| `strat` | choices of a backend under a constraint |
| `given` | choices of a backend before each of two calls, under constraints and in a disjunction, with a negative literal over them |
| `chase` | atoms derived in a chain through negation: an index sees reserved atoms in each iteration |
| `game` | recursion through negation only |
| `cycle` | two predicates that derive each other |
| `keep_*` | the same with `keepFacts`, where true literals stay in bodies |

They are checked together as one state space, over every order the model leaves
open.  `Equivalent` compares the output with the stable models of the full
instantiation.  `Generations = 0..4`, those an iteration can begin in, bounds the iterations of a
component; none of these needs the last one.  `CHECK_DEADLOCK FALSE` because `ground()` returns.

**cleanup.**  Every domain of up to five atoms and every subset to delete; five
atoms give two separated ranges in the mapping with a move across each.  The loop
ends, hence `CHECK_DEADLOCK FALSE`.  The unbounded case is proved.

**multishot.**  Eight scenarios, checked as one state space:

| Scenario | What it is for |
|---|---|
| `pair` | one pair of complementary atoms, which may be externals, and two ground calls with a solve call in between: an atom is new, old, kept or deleted by the cleanup when its complement is defined |
| `longpair` | the same without externals and with three ground calls: an atom may be reserved in the first, deleted by the cleanup, reserved again in the second and defined in the third |
| `single` | one atom, a weak constraint and four ground calls: an external is kept by a cleanup, released, deleted by the next cleanup, and declared again |
| `places` | two atoms of one signature, so that a cleanup of the first moves the second to its place, and a weak constraint that refers to either; `enable_cleanup` may be switched at any time, two ground calls may follow each other.  These are all the ways in which `canClean_` is set and unset |
| `asked` | a domain that is asked for choices |
| `sessions` | a pair, a weak constraint, and two ground calls or backend sessions in any order |
| `steps` | the incremental mode with two queries and another atom of the program |
| `longsteps` | the incremental mode with three queries: the query of the first step is released and cleaned up before the third is declared |

With one ground call or session per step (`CleanSteps`) all complements are excluded
and all atoms are shown; with two they are not (run `complements`).  In the incremental
mode `imin` and `imax` take every value up to the number of queries and `istop` every
result; the number of steps that are taken is bounded by `imax` in the code as well.
The unbounded case is proved, with any scenarios; the inductive invariant was checked on
the states of this run before.

**aggregate.**  Seventy aggregates: each function (`#count`, `#sum`, `#sum+`, `#min`,
`#max`) in the body, with up to four choices of relations, each sign and mode, and as
an assignment.  The relations are such that the violating values lie below, above,
on both sides of, and between the satisfying ones, which are the cases of
`AggregateAnalyzer`.  Tuples have the weights 1, 2 and -1: a sum that is not monotone,
different sums and equal ones from different sets, a minimum and a maximum that
are not the same tuple.  Conditions are empty, two positive literals, and one
negative literal; two are contradictory, and two positive ones on different atoms
can be conditions of one tuple.  Three reports are enough for a tuple that is reported
twice and becomes a fact with the second report, with another tuple before, between
or after.  Double negation is restricted to two functions: its translation does not
depend on the function except through the analysis that the other signs cover.
`CHECK_DEADLOCK FALSE`, as an aggregate that is translated is done.  All properties of
the run but `TranslationExact` are proved without these bounds.

`TranslationExact` compares with the meaning in all worlds where the aggregate may
depend on atoms derived from it, and in the worlds `h = t` where it cannot: there
the translation only has to keep the truth value.

`Fits` restricts three properties to states in which the clamped sums have not reached
the ends of the integers; `MaxInt = 5` is larger than any sum of the run, and
comparisons with the ends do not matter below it.

**conditional.**  Two elements, so that one can be blocked while the other is not.
Conditions are empty, a literal of each sign over an atom that is never recursive, and
a conjunction with one that may be; heads are empty, two atoms and a negative literal.
Four reports for conjunctions let one element receive a condition that becomes a fact
and a head that becomes true in every order, with a report for the other element in
between; three suffice for disjunctions, whose reports carry a condition and
any number of heads.  `TranslationExact` compares the rules with the
meaning in the worlds that can occur: conditions are decided unless they are
recursive.  For disjunctions it is claimed for both readings of the auxiliary atoms,
the smallest and the largest the rules admit.  `CHECK_DEADLOCK FALSE`, as a literal that
is translated is done.  The unbounded case is proved.

**propagators.**  Three threads, so that one waits while two are inside, and two
propagators, the least number for which their order matters, for any sequence of
solve calls.  There is no other bound.  `Exclusion` and `HeldInside` are proved for any
number.

**reifier.**  Eight statements that share tuples, five of them rules whose dependencies
form cycles only together; up to four statements, distributed over up to three steps.
Three searches of the same graph are one more than the phase has values.
`CHECK_DEADLOCK FALSE`, as the bounds end every behaviour.

### Fairness

`Grounder` assumes `WF_vars(Next)`.  `ground()` is a single-threaded
loop without blocking calls, so that it takes a step as long as it has one.  No
fairness is assumed among the alternatives of `Next`, which is why `Terminates`
says something: it holds because each iteration that goes on has found something
new, in whatever order.

Nothing bounds how often a component can be instantiated but that its queue becomes empty.  If
it did not, the generations of its domains would grow for ever, and no state would
repeat.  So `BeginIteration` needs a generation of `Generations`, and a component
whose queue stays filled stops there for good: `Terminates` is violated, as it is when
instantiators are queued whatever `update()` returns.

`Propagators` assumes weak fairness of `Lock`, `Return` and `Unlock` for each thread: a
thread that waits for a free mutex gets it, callbacks return, and the code behind them
releases the lock.  `Progress` needs only that some thread goes on; that each thread is
served in the end would need strong fairness, which a `std::mutex` does not promise.  No
fairness is assumed for what the solver does, or that it ends.

The other modules have no fairness: whether a user calls the next method, or the program has another
element, is not promised by the code.

### Mutants

`PROJECT.json` names for every property of the passing runs a slip in a modelled
definition that makes TLC find a violation: a dropped entry in the delayed vector,
a domain that is advanced twice, a missing `OLD`, a flag that is not reset.

## Proofs

TLC checks small instances.  The theorems in the `*Proofs` modules hold for every
value of the constants and are checked by TLAPS.

### DomainProofs

For any sets of symbols and indices and any number of generations, from
`MatchAssumption` (an index matches a set of symbols) alone:
`SpecTypeOK`, `SpecIndexExact`, `SpecIndexComplete`, `SpecImportedOnce`,
`SpecDelayedExact`, `SpecSorted`, `SpecLookupsAgree`, `SpecDequeuedInTime`, and the
action property `SpecNewExactlyOnce`.

None of these is inductive.  The inductive invariant is

    IInv == DomOK(dom) /\ IndexInv /\ PhaseInv /\ GenerationInv /\ IdleInv /\ SortedInv /\ DequeuedInTime

- `DomOK`: symbols occur once, the delayed vector is exact and without repetition,
  the offsets are within bounds.  Needed because an index that starts late
  imports through the vector what it has passed in the scan.
- `IndexInv`: for each index, which atoms it has imported is determined by its two
  counters; all atoms it passed undefined are marked delayed.  This is the heart:
  with it an update adds exactly what is missing, and never twice.
- `PhaseInv`, `GenerationInv`, `IdleInv`: in which phases indices are up to date, which
  generations atoms can have, and that `init` has reset those of the component.
- `SortedInv`: batches are sorted by generation, because an update imports only
  atoms of the open generation once the index is up to date.

The proof has one lemma for each operator of `DomainOps` (what it does to
definedness, generations, the delayed vector and the content of an index), then
one step for each action of `Next`.

### GrounderProofs

For any statements and programs, any universe of instances, every schedule of the
queue and any `Generations` (with `Nat`, any number of iterations): `SpecClosedWorld`, `SpecRefinesDomain` and `SpecNoInstanceTwice`, from `StatementsAssumption`
(the body literals are numbered, and the symbols that a literal can match have one predicate) and `ProgramsAssumption` (a part of a program is a set of
statements).  The first is the promise of stratification: a rule that was grounded without a literal `not a`,
or with `not a` counted as a fact, since `a` was not defined, is right for the rest
of the call.  The second is that the callers keep the protocol of the domains, which
`Domain` states for one of them and `DomainProofs` draws its conclusions from.  The third is that the
binder types (`NEW`, `OLD`, `ALL`) divide the instances of a rule among its instantiators and iterations.

`ClosedWorld` is not inductive: that `a` stays undefined depends on which statements
are still to be grounded.  The inductive invariant is

    GInv == CallInv /\ PhaseInv /\ DomInv /\ QueueInv /\ WorkInv /\ ClosedInv

together with `LInv`.

- `ClosedInv`: no statement of the part that is still to be grounded has `a` in a head.  An atom
  is added to `closed` only when its literal is not recursive (`NotRecursive`), which is decided from
  the statements that are not done.
- `WorkInv`: the heads that an instance still has to define, and those it reserves, are
  heads of the running statement, which is one of the component.
- `DomInv`: the protocol fields of each domain are within bounds, and all of its symbols have its predicate.  An
  operation on a domain is described by which symbols it may change (`Becomes`); the
  lemmas for it are those of `DomainProofs`, taken for all predicates at once through an
  instance of the module with `UsedSyms` for the symbols.
- `LInv`: a component is grounded with an instantiator for each of its statements, so
  that `done` grows by statements that nothing is left to do for; and the
  instantiators are registered exactly with the heads that provide for their literals.

The proof has one lemma for each action or group of actions that change the same variables; those
that leave the domains and the statements alone share `QuietStep`.

The step of `Domain` that a step of the grounder maps to depends on what the grounder knows when it
takes it: `advance` is a step only when no registered index still lacks an atom that would
become old, and `register` only for an index that is up to date.  The invariant
for that is

    HInv == EnqInv /\ GenInv /\ IdxInv /\ FreshInv

checked by TLC before it was proved (`DomainInvariance`).

- `EnqInv`: only domains of the running component are enqueued, and those of an iteration
  not before the end of its instantiators.
- `GenInv`: no atom is ahead of the next generation; for those of the next one the
  domain is enqueued, or the head that derives them still has to propagate.
- `IdxInv`: the symbols of an index are those of its domain, and a registered index exists.
- `FreshInv`: a registered index lacks only atoms of heads that still propagate.

`SpecRefinesDomain` then has one lemma for each action (`DefineMaps`, `EnqueueMaps`,
`PropagateMaps`, `AdvanceMaps`, ...), put together in `StepMaps`.

`NoInstanceTwice` is about the generations that the atoms of an instance had when it was reported, compared with
those of the iteration that runs.  Its invariant, also checked by TLC before it was proved, is

    NInv == CompInv /\ UniqueInv /\ MatchedInv /\ QueuedInv /\ ContentInv /\ WaitInv /\ TryInv

on top of `GInv`, `LInv` and `HInv`.

- `UniqueInv`: no two instantiators of a statement have the same binder types.
- `MatchedInv`: in a reported instance of a statement of the component, the atoms of all recursive
  literals were visible.
- `WaitInv`, `TryInv`: every instance that was reported is too old or too new for a literal of
  every instantiator that has still to run, and of every instance that is still to be tried.
- `QueuedInv`: an instantiator that is queued for the next iteration has a `NEW` literal whose domain
  gets a new generation then.
- `ContentInv`: while instantiators run, no index holds an atom of the next generation.
- `CompInv`: what the statements of the component depend on positively is done, or belongs to it.

`MatchedFits` and `OthersExclude` give the step that reports an instance: it fits one instantiator and is
excluded by the others.  `EndIterationNStep` is the other step that matters: the new
atoms become old, so that what was reported is too old for the `NEW` literal of each instantiator that was queued.

### GrounderCompleteProofs

The converse of `NoInstanceTwice`, for any statements and programs, any universe of instances and every
schedule of the queue:

- `SpecComplete == Spec /\ []ChoicesSeen => []Complete`: an instance whose body can be true is reported, or
  backjumping leaves it out in favor of one with the same head whose other literals are true
  for good;
- `SpecCompleteNoBackend == Spec => [](NoBackend => Complete)`: without atoms of a backend there is nothing
  to assume;
- `GrounderTypeOK`.

`ChoicesSeen` is about runs, and only about choices of a backend: no literal of a component that counts as positive can match one, and an atom that
was reserved and then is given as a choice has not been passed by the search for choices before.  Each of
the two is needed, and what happens without it is a [finding](#disagreements-between-code-and-its-description):
`backend` for the first, `reserved` for the second, which has no run of its own.  The second was found by this proof: `FactInv` below
was not preserved by `AddAtom`.  Programs that satisfy both are `strat` and `given` of the run `grounder`.

Only the last step of an instance's way is about reporting it; the rest is what was decided
before: which instantiators exist, what is important, which literals are dropped.  The inductive invariant is

    CompleteInv == GInv /\ LInv /\ HInv /\ NInv /\ AInv /\ BInv /\ RInv /\ CInv

with the four invariants of `GrounderProofs` and, each of them checked by TLC before it was proved,

- `AInv`, the order of things: every binder type of a statement has its instantiator (`CoverInv`), what is not
  important is provided by positive statements (`ImportantInv`), a component comes after what it depends on
  (`StratInv`, `DoneInv`), and the heads still to be defined are those of one instance (`HeadsInv`).
- `BInv`, the facts: `FactInv` says that an atom that is defined and not a fact is a head of a statement that is
  not positive, or a choice that `hasChoice` has still to see (`MayBeOpen`).  `UnimportantInv` draws the conclusion
  that matters: a literal that is not important has only facts, or, if it is negative, only
  atoms that stay undefined.  `SeenInv` carries this over to the instances that backjumping compares with, `ProbeInv` to
  the literals that are dropped from the one being matched; `ChoiceInv` says that the search stays inside of the domain.
- `RInv`, the rounds: an atom of the next generation waits for a head to propagate it (`NextInv`), a domain with atoms of the
  current one is enqueued or will be (`NowInv`), and indices are sorted, so that looking up `NEW` atoms
  finds all of them (`SortInv`, from `SortedInv` of `DomainProofs` for one domain).
- `CInv`, the result: every instance whose literals may be true is `Covered` by one that was reported, or
  `Pending`.  It is pending if a queued instantiator will try it, if the running one has
  not passed it, or if one of its atoms is not visible yet and will be `NEW` in the next iteration.

Of the lemmas about single actions, four have the substance.  `ChoicesStay`: a choice of the backend that was not passed is
not passed later, unless it becomes a fact.  `LinearizeUnimportant`: what `_linearize` takes for unimportant
is, as its domain has no choice, or is provided by positive statements that are done.  `EnqueueComponentPending`: at the
beginning of a component everything that can be matched fits an instantiator that is queued.
`EndIterationPending`: what was not visible in an iteration fits an instantiator that its
atoms have queued: the one whose `NEW` literal is the first with an atom of the new generation.

### CleanupProofs

For domains of any size: `SpecMappingExact` (the mapping sends each visited atom that
stays to its place and deleted ones to `InvalidId`), `SpecNothingLost`, and
`SpecAddedInOrder` (the assertions in `Mapping::add` hold).  The invariant describes where each atom of the
original domain is while the loop runs: at its old place behind the cursor, except
those moved from the end.

The first part has what both uses of the loop need, for a loop that deletes the atoms of
one set and replaces any other atom by its value under a function: `AddMoved` and
`AddUnmoved` show what `Mapping::add` does to the function that the ranges represent,
`EraseStep` and `KeepStep` that an iteration keeps the invariant, and `LoopEnds` what holds
once the cursor has reached the end: each atom that is kept is where `GetMapping` says, and
nothing else is there.  `Cleanup` takes one iteration for each step; `MultiShot` runs the
loop within one call, as a function of the number of iterations (`CleanDomain`), and its proofs
take the lemmas from an instance of this module.

### AggregateProofs: intervals

For sets of any number of intervals with any integer bounds, inclusive or not:
`AddUnites` (the result of `add` is in normal form and holds what either argument
holds), `RemoveSubtracts`, `ContainsIsSubset` and `IntersectsIsOverlap`.

`IntervalSet` is a template that compares values and never assumes that two of them are
neighbours: `(1, 2)` is not empty, and `[0, 1]`, `(1, 2]` do touch.  So an interval is
interpreted over *positions*: `2 * v` for the integer `v` and `2 * v + 1` for the gap
behind it.  `FirstOf` and `LastOf` give the
positions at which an interval begins and ends; `Comparisons` translates each
comparison of bounds into one of positions, and from there on the proof is
arithmetic.  The normal form (`IsNormal`) says that intervals are not empty,
ascending, and do not touch, which is what makes the comparison used by the
binary searches monotone.  `LowerBoundFound` and `UpperBoundFound` show where the searches end
(the first such index exists because the naturals are well-founded),
`SpliceElements` to `SpliceNormal` what replacing a part of the vector does to its
members and its normal form.  Bounds are integers; the symbols `#inf` and `#sup` are
two integers outside the range of the numbers (`Inf` and `Sup` in `AggregateOps`).

### AggregateProofs: aggregates

For any set of tuples, finite or not, any weights between `#inf` and `#sup`, any sets of atoms and
conditions, any relations, and without a bound on reports: `RangeSoundHolds`,
`DefinedWhenPossibleHolds`, `VerdictsSoundHolds`, `ValuesExactHolds` and
`AssignmentsCoverHolds`, from `WeightAssumption`, `LimitAssumption` and
`ProgramsAssumption` (the last says that only monotone aggregates are in positive components).
`DefinedWhenPossible` and `VerdictsSound` have `Fits` as a premise: the sums of what was reported
stay within the numbers, as they are clamped where they do not.

The first part is about the operators.  Sums are folds over sets, for which `Sums` shows
that they are well-defined and that a tuple can be added at any place; `ValueJoins` says for each
function what one more tuple does to the value.  `BoundsExact` says that the intervals of
`InitBounds` hold exactly the values that satisfy all relations, from the theorems about
intervals; `FactHolds`, `SatisfiableCovers` and `FactLasts` what a comparison of a range with
them says about values in the range.

The second part has the inductive invariant of body aggregates

    BodyInv /\ VerdictInv

- The range covers the value of *each* set of tuples that contains the facts and is contained in
  what was reported (`Covers`).  That it contains the values in all interpretations is not enough to
  survive a report: a tuple that becomes a fact narrows the range, and rules
  out sets of which it is not known whether an interpretation selects them.
- `elems` agrees with what was reported (`ElemsMatch`), since it decides whether a fact is new.
- An atom that is neither queued nor defined has a range that misses the bounds, and one that
  holds without elements has been initialized.
- A verdict rests on elements that have all been reported, or on a fact of a monotone
  aggregate, which lasts: later reports move its range in one direction only (`RangeDirected`).

and the one of assignment aggregates

    AsgInv

- The first recorded value is the value of the facts.  For `#min` and `#max` the others are
  the weights beyond it; for sums there is a numbering of the open tuples by the places of the vector
  (`Numbering`).  The code keeps only the weights there, and erases the first that is equal when a
  tuple becomes a fact: `NumberingShrinks` renumbers the tuple whose entry was taken.
- Once completed, there is an atom for each value, and outside of recursive components an atom
  that is a fact has the only one: such aggregates are completed when all elements are there, and a
  later report could add values (in recursive ones it does, and `AssignmentsCover` claims
  nothing of their facts).

`ValuesExact` follows with `SumValues` (the loop of `values()` computes the sums of all subsets of
the entries, one place after the other) and `ExtremumValues`.

### ConditionalProofs

For any finite set of elements, any sets of atoms, conditions and heads, and without
a bound on reports: `CountersAreExact`, `VerdictsAreSound`, `PossibleAreDefined` and
`TranslationsAreExact`, from the assumptions that the elements, and the heads of one
instance, are finite sets.

The first part is about single elements.  `ClauseCollected` says when a formula has
collected a set of clauses (it holds them all, or is the empty clause if that is among them);
`ElementTranslated` and `DisjunctionTranslated` show that the rules for such formulas
mean what the clauses mean: in worlds in which the condition is decided, and for
non-monotone conjunctions in all of them, which is what the additional rule with a
negated head is for.  They rest on `Persistent`: what holds in a smaller world holds in
the one it was taken from.

The second part has the inductive invariant

    IInv == Types /\ Formulas /\ Fitting /\ CountersExact
            /\ ConjunctionFlags /\ DisjunctionFlags /\ Started

- `Formulas`: the formulas of each element have collected what was reported for it.
- `Fitting`: conditions that were reported fit the mode; heads come with conditions.
- `CountersExact` is part of it, as each counter is changed relative to its old value.
- `ConjunctionFlags`, `DisjunctionFlags`: an atom that is not blocked is queued or
  defined; a queued one has its statement still to run; what is translated or trusted
  was so at a time after which nothing that matters is reported.

It has one lemma for each action, and the four theorems follow from it with the first part.

### PropagatorsProofs

For any finite set of threads and any number of propagators: `PropagatorTypes`,
`LockHeldInside`, `CallbacksExclusive`.  Exclusion is not inductive: it needs that
there *is* a mutex whenever two threads run and the lock was given out (`MutexSound`),
that the lock is counted for everyone who has it (`Counted`: `seq_` is never decremented,
and `init` looks at nothing else), and that threads are in calls only between `solve`
and its end (`CallsSound`), so that the mutex is neither made nor dropped under them.

### MultiShotProofs

For any scenarios: any names, queries and bounds on the calls, with `CleanSteps` or not.
Two properties depend on flags and counters only.  `StepsArePaired` and `IncStepsArePaired`
follow from `StepsInv` (while the program is
consistent, a step has begun if and only if `grounded_` is set; once it is not, no step
begins or ends any more), and `IncStopsInTime` from `LoopInv`, which ties the step to
the results so far and to the place in the loop.

The others follow from one inductive invariant of all calls:

    CallsInv == Types /\ Identities /\ StepsInv /\ Prepared /\ LiteralsFollow
                /\ ExternalsInv /\ ComplementsInv /\ ShownInv

- `Identities`: uids and names are not shared between atoms.  A constraint, an entry of the
  output table, an external and a literal of a weak constraint refer to an atom by one of the
  two, while its offset changes.
- `Prepared`: when `canClean_` is set, the solver knows every atom there is, and what is a
  fact is true for it.  This is what makes it safe that `cleanup_` looks up values by
  uid, and that it lets facts pass; it needs the protocol of the flag (each `update()`
  unsets it, only `solve` sets it, nothing is added in between).
- `ExternalsInv`: an external has no rule; an atom that is a fact has one or was prepared.
  So a cleanup does not take an external for a fact, nor delete it as unknown.
- `ComplementsInv`: with one call per step, `pc = "idle"` finds either a cleanup due or all
  atoms old and defined; so in a ground call the atoms up to `incOffset` are defined, and
  complements among them are excluded already.  It fails without `CleanSteps`, which is the run
  `complements`.
- `ShownInv`: which atoms have an entry in the table, and exactly one: those up to
  `showOffset`.  Entries of facts carry no uid, and are told apart by names.

The calls are of few kinds (`Kinds`): those that begin with `update()` and may clean up
(`Refresh`), those that add or define an atom (`Growth`), `EndGround` and `EndAddBackend`,
`Solve`, and those that leave the atoms alone.  Of a cleanup the proofs use only where
`LoopEnds` says the atoms are (`Moved`); of all others that no atom is lost or changes
its identity (`Lasting`).  Each conjunct has one lemma for each kind it depends on.
From it follow `CallsTyped`, `LiteralsFollowAtoms`, `ExternalsStayOpen`,
`ComplementsAreExcluded`, `AtomsShownOnce` and the action property `DefinedAreKept` (what
a cleanup does to an atom that is defined: `RefreshKeeps`).

The incremental mode makes calls of the same kinds, so that it inherits all of it
(`IncPromises`, `IncDefinedAreKept`).  `QueriesInStep` needs more:

    IncInv == CallsInv /\ LoopInv /\ QueryInv

`QueryInv` says for each place in the loop which external there is and whether it is true
(`LoopQueries`): between the release of one query and the declaration of the next there is none,
after the ground call the one of the step, which has no rule and cannot be a fact.  It
assumes what `ScenariosAssumption` states of the queries, that they differ from step to step,
as `query(t)` does.

### Only model-checked

- `Progress` of `Propagators` and `Terminates` of `Grounder`: liveness under fairness, which is out of the
  prover's reach, as is `ENABLED`.
- `ProgramExpressed` and `ComponentsExact` of `Reifier`: the algorithm of Tarjan in `GraphOps` is a
  recursive operator, in a module that only TLC uses.
- `TranslationExact` of `Aggregate`: it rests on `AggregateTranslation`, whose division of sums and of
  intervals into rules has not been proved.
- `Equivalent` of `Grounder` compares the stable models of two whole programs.  `Complete`, `ClosedWorld` and
  `NoInstanceTwice`, on which it rests, are proved; what is left is the semantics: that the instances without a reported
  counterpart can be dropped from a program without changing its stable models.

The library states induction with an operator as a parameter, which the provers cannot
instantiate.  Where a proof is about a loop over data (`CleanDomain`, `NewEntries`, `InitBounds`, `Values`, `ValuesRange`), the loop is
a recursive function on the number of iterations, and the induction is over a set of
numbers: `SetInduction`, from the well-foundedness of the naturals.

## Disagreements between code and its description

Four runs are expected to fail.

| Run | What happens | Where |
|---|---|---|
| `backend` | a backend adds `a(1)`, `a(2)` as choices, then `q :- a(X).` is grounded: the component counts as positive, the body literal as unimportant, and only `q :- a(1)` is output. A test (`libclingo/tests/clingo.cc:780-789`) covers the case for a constraint, where the literal is asked for choices | `ground/dependency.hh:251`, `ground/statements.cc:115-121` |
| `complements` | two ground calls without `solve` between them: an atom reserved in the first and defined in the second is old and undefined for one loop of `endGround`, and old for the other; no constraint excludes it together with its complement | `output/output.cc:476-488` |
| `choices` | `cleanup_` shrinks a domain and leaves `choiceIndex_`: the next `hasChoice` starts behind the end | `domain.hh:584-592` |
| `plain_bounds` | relations for text output are written only where the range reaches them, and a later interval turns what was written into `!=` without looking at what that was: `#sum { -1 : q; 2 : p } > 0` together with `!= 4` becomes `4 != #sum { ... }` alone | `output/literals.cc:246-286` |

Four more have no run of their own:

- `reserved`: the offset `choiceIndex_` again, without a cleanup (`domain.hh:585-593`).  With facts `d(f(1))`, `d(f(2))` and
  `a(X) :- d(X), not c(X). c(g) :- d(g), not a(g). :- a(f(1)), c(f(1)).`, the negative literal reserves `c(f(1))` and
  `c(f(2))`; the ground literal `c(f(1))` asks the domain for choices, which passes both.  A backend
  then gives both as choices.  Only the update of an index sets `choiceIndex_` back, and a ground
  literal has none, so that `:- c(f(X)).` in the next ground call is told that there is no choice, and only
  `:- c(f(1))` is output.  `pos_strat` in `libclingo/tests/clingo.cc` expects all instances in the case
  without the earlier call.  TLC shows that `Equivalent` is violated with `Programs <- ReservedPrograms` in
  `MCGrounderBackend.cfg`.
- The sequence of `complements` also leaves an atom behind `showOffset`, so that it
  is never output (`output/statements.cc:568-575`, against `literal.hh:178`: "This offset
  keeps track of atoms already added to the output table").  It has the same cause, and
  `ShownOnce` is checked for the sequences without it.
- `decide()` (`clingocontrol.cc:619-628`) calls all heuristics under the lock of the
  first one that was registered.  `clingo.h` promises for a sequential propagator that
  its callbacks are not called concurrently; if the first heuristic belongs to a
  propagator that is not sequential, `decide` of a later one is.  `Exclusion` leaves this case
  out (`Covered`).  Whether it happens depends on how clasp uses the factory it is given.
- `make_backend` (`output.cc:839-845`) passes `reify_sccs` for both flags of the reifier: steps
  are numbered whenever SCCs are reified, and `reify_steps` has no effect there.

Read but not modelled: `AuxLiteral::simplify` computes a constant and returns the old literal;
`AbstractDomain::clear` does not
reset `choiceIndex_` either (it is called for the `#inc_` domains);
`assert(!antecedent.empty())` in `translateMinMax` (`output/aggregates.cc:261`) fails in
builds with assertions for `#min { -1 : p; 2 } != 1`, where the translation is right
without it; `IntervalSet::intersect` can return an empty interval for intervals that
touch (only tests call it); the facts of a weighted tuple do not tell how often it has a
literal with a weight, and without step numbers the numbers of components begin anew
with each `endStep`.

## What is not modelled

- clasp: not in the tree.
- Terms, unification, arithmetic, safety, rewriting, parsing: they transform data
  without lasting state; a term is the set of symbols it matches.
- The values of a `BindIndex` by which its entries are split: an index is searched
  as one sequence.  What an entry contains is the part of the index with those
  values, in the same order, so that what holds of the whole holds of each.
- Head aggregates; aggregates and conditional literals as statements of the grounder (they
  are modelled by themselves, with the statements that report to them left open); theory atoms.
- In `Conditional`: that a condition shared by two elements is interned once, and the names of
  auxiliary atoms.  For recursion through the conditions of a disjunction only the truth
  value is claimed.
- In `Aggregate`: the rules for aggregates that are recursive and not monotone (which
  make auxiliary atoms equivalent to their definitions), weights that are not numbers.
- Weak constraints in the grounder, `#show` terms, `#project`, `#edge`, `#heuristic`, projection domains.
- In `MultiShot`: exceptions thrown out of `ground` (what they leave behind depends on where
  they are thrown, and the API promises nothing afterwards), models, solve
  handles (clasp keeps their state), configuration, statistics, iteration over symbolic atoms (offsets that
  the interface declares invalid once a ground call or cleanup has changed the domains).  Of the backend's statements only rules
  and externals change what is modelled.
- In `Propagators`: watches, clauses and assignments, which belong to clasp.
- In `Reifier`: the text of plain arguments, and duplicates of a literal in one tuple.
- The width of integers: an atom keeps its uid in 31 and its generation in 30 bits,
  offsets have 32.  Each grows by one for an atom or an iteration; the models stay
  far below these limits and say nothing about what happens there.

## Plan

1. (done) `DomainOps`, `Domain`, `DomainProofs`: everything else reads domains.
2. (done) `Grounder` with `RefinesDomain`: the callers keep the protocol that the
   proofs assume.
3. (done) `CleanupOps`, `Cleanup`, `CleanupProofs`.
4. (done) `MultiShot`: control object and output over several steps.
5. (done) Backend sessions in `MultiShot`; `IncMode`; `MultiShotProofs`.
6. (done) `IntervalOps`, `AggregateOps`, `AggregateTranslation`, `Aggregate`,
   `ConditionalOps`, `Conditional`, `ConditionalProofs`.  Left: both
   as statements in `Grounder`, head aggregates, the translation of recursive
   non-monotone aggregates.
7. (done) `GraphOps`, `Reifier`; `Propagators`, `PropagatorsProofs`.
8. Algorithms: `Instantiate` (backjumping by dependencies against plain
   enumeration), `SafetyCheck`, `Indexed`.
9. Proofs.  Done: all invariants and action properties of `MultiShot` and `IncMode`, with
   `CleanDomain` from what one iteration of the loop does; all of `Aggregate` but the
   translation; `ClosedWorld`, `NoInstanceTwice` and `Complete` of `Grounder`, and that it implements `Domain`.  Left:
   `TranslationExact`, beginning with conjunctions of intervals and the weights of `SumTranslator`; `Equivalent`, beginning
   with one rule that `StandsFor` another.
10. The ASPIF and smodels backends, as far as they keep state.
