------------------------------- MODULE Reifier -------------------------------
(***************************************************************************)
(* The reifier (libreify/src/program.cc), for each combination of its two  *)
(* flags.                                                                  *)
(*                                                                         *)
(* A statement of the ground program has plain arguments, which are        *)
(* printed as they are, and tuples of literals, atoms or theory terms,     *)
(* which are replaced by numbers; the tuples are printed as facts of their *)
(* own when they occur for the first time.  A fact is a sequence of its    *)
(* name and its arguments, with the number of the step at the end if steps *)
(* are reified.                                                            *)
(***************************************************************************)
EXTENDS GraphOps, Integers, FiniteSets

CONSTANTS
  Statements,     (* [kind, plain, tuples, head, body] *)
  MaxStatements,  (* bounds the number of statements *)
  MaxSteps        (* bounds the number of steps *)

VARIABLES
  calculateSCCs, reifyStep,   (* flags of the reifier *)
  step,           (* step_ *)
  maps,           (* the tuples of each kind in the order of their numbers *)
  graph,          (* graph_ with nodes_ *)
  facts,          (* what has been printed *)
  sccs,           (* what the last endStep printed *)
  reported,       (* history: the statements with the number of their step *)
  ended           (* history: how many steps have ended *)

vars == <<calculateSCCs, reifyStep, step, maps, graph, facts, sccs, reported, ended>>

(* The maps of a StepData. *)
TupleKinds ==
  {"literal_tuple", "weighted_literal_tuple", "atom_tuple", "theory_tuple",
   "theory_element_tuple"}

NoTuples == [k \in TupleKinds |-> <<>>]

Init ==
  /\ calculateSCCs \in BOOLEAN
  /\ reifyStep \in BOOLEAN
  /\ step = 0
  /\ maps = NoTuples
  /\ graph = EmptyGraph
  /\ facts = {}
  /\ sccs = {}
  /\ reported = {}
  /\ ended = 0

-----------------------------------------------------------------------------
(* Tuples and facts *)

(* printStepFact *)
Fact(name, args) == <<name>> \o args \o (IF reifyStep THEN <<step>> ELSE <<>>)

Ordered(kind) == kind = "theory_tuple"

(* tuple and ordered_tuple: the facts for the tuple with a number; before  *)
(* it a slip that forgets the positions.                                   *)
TupleFactsUnordered(kind, id, args) ==
  {Fact(kind, <<id>>)} \union {Fact(kind, <<id, args[k]>>) : k \in DOMAIN args}

TupleFacts(kind, id, args) ==
  {Fact(kind, <<id>>)} \union
  {Fact(kind, IF Ordered(kind) THEN <<id, k - 1, args[k]>> ELSE <<id, args[k]>>) :
     k \in DOMAIN args}

TupleId(ms, tuple) == SelectInSeq(ms[tuple.kind], LAMBDA args : args = tuple.args) - 1

(* The maps after the tuples of a statement have been looked up. *)
AddTuples(ms, tuples) ==
  FoldLeft(LAMBDA m, t : IF Contains(m[t.kind], t.args) THEN m
                         ELSE [m EXCEPT ![t.kind] = Append(@, t.args)],
           ms, tuples)

NewTupleFacts(old, new) ==
  UNION {TupleFacts(k, id, new[k][id + 1]) :
           <<k, id>> \in {p \in TupleKinds \X (0..MaxStatements * 2) :
                            Len(old[p[1]]) <= p[2] /\ p[2] < Len(new[p[1]])}}

StatementFact(ms, s) ==
  Fact(s.kind, s.plain \o [k \in DOMAIN s.tuples |-> TupleId(ms, s.tuples[k])])

-----------------------------------------------------------------------------
(* Dependencies *)

WithNode(g, x) == IF HasNode(g, x) THEN g ELSE InsertNode(g, x)

(* The edges that one head atom gets. *)
WithEdges(g, x, body) ==
  FoldLeft(LAMBDA h, l : IF l > 0 THEN InsertEdge(WithNode(h, l), x, l) ELSE h,
           WithNode(g, x), body)

(* Reifier::calculateSCCs for the rules among the statements. *)
WithRule(g, s) == FoldLeft(LAMBDA h, x : WithEdges(h, x, s.body), g, s.head)

-----------------------------------------------------------------------------
(* A call of one of the statement functions, once in a step for each       *)
(* statement.                                                              *)
Report(s) ==
  /\ Cardinality(reported) < MaxStatements
  /\ <<ended, s>> \notin reported
  /\ maps' = AddTuples(maps, s.tuples)
  /\ facts' = facts \union NewTupleFacts(maps, maps') \union {StatementFact(maps', s)}
  /\ graph' = IF calculateSCCs THEN WithRule(graph, s) ELSE graph
  /\ reported' = reported \union {<<ended, s>>}
  /\ UNCHANGED <<calculateSCCs, reifyStep, step, sccs, ended>>

(* What is left for the next step. *)
GraphAfterStep(g) == IF reifyStep THEN EmptyGraph ELSE g

(* Reifier::endStep: components are counted, those of several atoms are    *)
(* printed.                                                                *)
EndStep ==
  /\ ended < MaxSteps
  /\ LET run == Tarjan(graph)
         large == {i \in DOMAIN run.sccs : Len(run.sccs[i]) > 1}
     IN /\ sccs' = UNION {{Fact("scc", <<i - 1, run.sccs[i][k]>>) : k \in DOMAIN run.sccs[i]} :
                            i \in large}
        /\ graph' = GraphAfterStep(run.graph)
  /\ facts' = facts \union sccs'
  /\ maps' = IF reifyStep THEN NoTuples ELSE maps
  /\ step' = IF reifyStep THEN step + 1 ELSE step
  /\ ended' = ended + 1
  /\ UNCHANGED <<calculateSCCs, reifyStep, reported>>

Next == EndStep \/ \E s \in Statements : Report(s)

Spec == Init /\ [][Next]_vars

-----------------------------------------------------------------------------
(* Properties *)

(* The facts of a step without the number of the step. *)
StepFacts(i) ==
  IF reifyStep THEN {Front(f) : f \in {g \in facts : Last(g) = i}} ELSE facts

(* The tuple that the facts fs give for a number: its elements, or its     *)
(* elements with their positions.                                          *)
Decoded(fs, kind, id) ==
  {SubSeq(f, 3, Len(f)) : f \in {g \in fs : g[1] = kind /\ g[2] = id /\ Len(g) > 2}}

Meant(tuple) ==
  {IF Ordered(tuple.kind) THEN <<k - 1, tuple.args[k]>> ELSE <<tuple.args[k]>> :
     k \in DOMAIN tuple.args}

(* The facts fs express a statement. *)
Expressed(fs, s) ==
  \E f \in fs :
    /\ f[1] = s.kind
    /\ Len(f) = 1 + Len(s.plain) + Len(s.tuples)
    /\ SubSeq(f, 2, 1 + Len(s.plain)) = s.plain
    /\ \A k \in DOMAIN s.tuples :
         LET id == f[1 + Len(s.plain) + k]
         IN /\ <<s.tuples[k].kind, id>> \in fs
            /\ Decoded(fs, s.tuples[k].kind, id) = Meant(s.tuples[k])

(* Whoever reads the facts gets back the statements that were reported, in *)
(* their step if steps are reified, and no others: numbers of tuples are   *)
(* not used twice, also when they are counted anew for each step.          *)
ProgramExpressed ==
  \A i \in IF reifyStep THEN 0..ended ELSE {ended} :
    LET fs == StepFacts(i)
        here == IF reifyStep THEN {i} ELSE 0..ended
    IN \A s \in Statements : Expressed(fs, s) <=> \E j \in here : <<j, s>> \in reported

(* The dependencies that the last run of tarjan() was about. *)
Rules ==
  {r[2] : r \in {q \in reported :
     calculateSCCs /\ q[1] < ended /\ (reifyStep => q[1] = ended - 1)}}

Atoms == UNION {ToSet(s.head) : s \in Statements}

Successors(xs) ==
  UNION {ToSet(s.body) : s \in {r \in Rules : \E x \in xs : Contains(r.head, x)}}

Reached(x) ==
  FoldLeft(LAMBDA xs, i : xs \union (Successors(xs) \intersect Atoms), {x},
           [i \in 1..Cardinality(Atoms) |-> i])

Components ==
  LET reached == [x \in Atoms |-> Reached(x)]
  IN {{y \in reached[x] : x \in reached[y]} : x \in Atoms}

(* At the end of a step, the groups of scc facts are the components of the *)
(* positive dependencies with several atoms, one number for each of them,  *)
(* however often the graph was searched before and grew since.             *)
ComponentsExact ==
  ended > 0 =>
    {{f[3] : f \in {g \in sccs : g[2] = i}} : i \in {f[2] : f \in sccs}}
      = {c \in Components : Cardinality(c) > 1}
=============================================================================
