------------------------------ MODULE MultiShot ------------------------------
(***************************************************************************)
(* The control object of multi-shot solving (libclingo/src/                *)
(* clingocontrol.cc) with the atoms of two complementary signatures p/n    *)
(* and -p/n, the translator's weak constraint tuples, and what a ground    *)
(* call sends to the backend when it ends (OutputBase::endGround in        *)
(* libgringo/src/output/output.cc).                                        *)
(*                                                                         *)
(* A call of the control object is one action, except for ground(): it     *)
(* starts in BeginGround, the instantiation of the program reserves and    *)
(* defines atoms one by one, and EndGround outputs what is due for the     *)
(* atoms as a whole.  An atom is reserved when it occurs negatively in a   *)
(* rule that is output before it is defined; it has a uid from then on.    *)
(*                                                                         *)
(* The solver and its logic program are external: they know for each uid   *)
(* they have seen a value that holds at the top level, and which atoms are *)
(* frozen externals.                                                       *)
(***************************************************************************)
EXTENDS CleanupOps, FiniteSets

Seqs == INSTANCE SequencesExt

CONSTANT Scenarios  (* by name: what the control object may be used for  *)

(* names lists for each sign the arguments its atoms may have,             *)
(* cleanupModes the values enable_cleanup may be set to, asked the domains *)
(* that are asked for choices, queries the external atoms of the steps if  *)
(* the incremental mode runs; externals says whether the program has       *)
(* #external statements, sessions whether the backend is used.             *)
(* Bounds: the number of ground calls and backend sessions together, of    *)
(* those between two solve calls, and of weak constraints.                 *)
ASSUME ScenariosAssumption ==
  \A k \in DOMAIN Scenarios : LET c == Scenarios[k] IN
    /\ DOMAIN c.names = {"pos", "neg"}
    /\ c.cleanupModes \subseteq BOOLEAN /\ TRUE \in c.cleanupModes
    /\ c.asked \subseteq {"pos", "neg"}
    /\ {c.externals, c.sessions} \subseteq BOOLEAN
    /\ c.queries \in Seq(c.names["pos"])
    /\ \A i, j \in DOMAIN c.queries : c.queries[i] = c.queries[j] => i = j
    /\ {c.grounds, c.perStep, c.tuples} \subseteq Nat

VARIABLES
  scenario,       (* the name of one of them, which never changes          *)
  pc,             (* "idle", "ground" or "backend"                         *)
  grounded, canClean, enableCleanup,      (* flags of ClingoControl        *)
  atoms,          (* the atoms of the domain of each sign                  *)
  incOffset, showOffset, choiceIndex,     (* offsets of each domain        *)
  tuples,         (* literals the translator keeps across steps            *)
  uids,           (* the number of program atoms                           *)
  steps,          (* begin_step minus end_step events of the backend       *)
  constraints,    (* sets of uids that are not true together               *)
  table,          (* the output table: symbols and uids in order           *)
  heads,          (* uids of atoms that are heads of rules                 *)
  frozen,         (* uids of externals that are not released or defined    *)
  value,          (* the top level value of the uids the solver has seen   *)
  ok,             (* the solver has not found the program inconsistent     *)
  addedAtoms, addedFacts,    (* added_atoms_ and added_facts_ of a session *)
  grounds, since  (* ground calls so far, and since the last solve call    *)

control == <<pc, grounded, canClean, enableCleanup>>
data == <<atoms, incOffset, showOffset, choiceIndex, tuples, uids>>
backend == <<steps, constraints, table, heads, frozen>>
solver == <<value, ok>>
session == <<addedAtoms, addedFacts>>
bounds == <<grounds, since, scenario>>
vars == <<control, data, backend, solver, session, bounds>>

Signs == {"pos", "neg"}
Bounds == Scenarios[scenario]
Names == Bounds.names
AllNames == UNION {Names[s] : s \in Signs}
Flip(s) == IF s = "pos" THEN "neg" ELSE "pos"

Atom == [name : AllNames, defined : BOOLEAN, fact : BOOLEAN, uid : Nat \ {0}]

(* offset 0 is the literal that is always true. *)
Tuple == [sign : Signs, name : AllNames, uid : Nat \ {0}, offset : Nat]

(* uid 0 is the condition of a fact. *)
Entry == [sign : Signs, name : AllNames, uid : Nat]

TypeOK ==
  /\ pc \in {"idle", "ground", "backend"}
  /\ {grounded, canClean, enableCleanup, ok} \subseteq BOOLEAN
  /\ atoms \in [Signs -> Seq(Atom)]
  /\ \A s \in Signs : incOffset[s] \in 0..Len(atoms[s]) /\ showOffset[s] \in 0..Len(atoms[s])
  /\ choiceIndex \in [Signs -> Nat]
  /\ \A t \in tuples : t \in Tuple /\ t.offset <= Len(atoms[t.sign])
  /\ table \in Seq(Entry)
  /\ steps \in Nat
  /\ heads \union frozen \union UNION constraints \subseteq 1..uids
  /\ DOMAIN value \subseteq 1..uids
  /\ \A u \in DOMAIN value : value[u] \in {"true", "false", "free"}
  /\ addedAtoms \subseteq Signs \X AllNames
  /\ addedFacts \subseteq 1..uids

Init ==
  /\ scenario \in DOMAIN Scenarios
  /\ pc = "idle"
  /\ grounded = FALSE
  /\ canClean = FALSE
  /\ enableCleanup = TRUE
  /\ atoms = [s \in Signs |-> <<>>]
  /\ incOffset = [s \in Signs |-> 0]
  /\ showOffset = [s \in Signs |-> 0]
  /\ choiceIndex = [s \in Signs |-> 0]
  /\ tuples = {}
  /\ uids = 0
  /\ steps = 0
  /\ constraints = {}
  /\ table = <<>>
  /\ heads = {}
  /\ frozen = {}
  /\ value = [u \in {} |-> "free"]
  /\ ok = TRUE
  /\ addedAtoms = {}
  /\ addedFacts = {}
  /\ grounds = 0
  /\ since = 0

-----------------------------------------------------------------------------
(* Cleanup *)

(* The assignment that cleanup() looks values up in.  The literal of an    *)
(* atom the solver has not prepared yet is the one that is false.          *)
Truth(u) == IF u \in DOMAIN value THEN value[u] ELSE "false"

(* The callback of PredicateDomain::cleanup: what it deletes, and what it  *)
(* makes a fact; before the latter a slip that does not treat externals as *)
(* such.                                                                   *)
Deleted(a) == ~a.defined \/ (a.uid \notin frozen /\ Truth(a.uid) = "false")

KeptWithExternals(a) ==
  IF Truth(a.uid) = "true" THEN [a EXCEPT !.fact = TRUE] ELSE a

Kept(a) ==
  IF a.uid \notin frozen /\ Truth(a.uid) = "true" THEN [a EXCEPT !.fact = TRUE] ELSE a

(* AbstractDomain::cleanup_ over one domain: each iteration deletes an     *)
(* atom or goes on to the next.                                            *)
CleanAtom(c) ==
  LET a == c.atoms[c.next] IN IF Deleted(a) THEN EraseAtom(c) ELSE KeepAtom(c, Kept(a))

CleanDomain(old) ==
  LET loop[k \in 0..Len(old)] == IF k = 0 THEN StartCleanup(old) ELSE CleanAtom(loop[k - 1])
  IN  loop[Len(old)]

(* PredicateLiteral::simplify for the positive literals of tuples, and the *)
(* removal of false ones in Translator::simplify; before it a slip that    *)
(* does not follow atoms to their new offsets.                             *)
SimplifyTuplesInPlace(cleaned) ==
  {t \in tuples : t.offset <= Len(cleaned[t.sign].atoms)}

SimplifyTuples(cleaned) ==
  LET Offset(t) == GetMapping(cleaned[t.sign].map, t.offset)
  IN     {t \in tuples : t.offset = 0}
    \union {[t EXCEPT !.offset = 0] :
              t \in {u \in tuples : u.offset # 0 /\ Offset(u) # 0
                                    /\ Truth(cleaned[u.sign].atoms[Offset(u)].uid) = "true"}}
    \union {[t EXCEPT !.offset = Offset(t)] :
              t \in {u \in tuples : u.offset # 0 /\ Offset(u) # 0
                                    /\ Truth(cleaned[u.sign].atoms[Offset(u)].uid) = "free"}}

(* The end of PredicateDomain::cleanup: everything left counts as old and  *)
(* as shown; before it a slip that sets the offsets back.       *)
OffsetsBack(cleaned) == [s \in Signs |-> 0]

OffsetsAfter(cleaned) == [s \in Signs |-> Len(cleaned[s].atoms)]

(* ClingoControl::cleanup and OutputBase::simplify without incOffset,      *)
(* which Program::prepare may set in the same call.                        *)
CleanupData ==
  LET cleaned == [s \in Signs |-> CleanDomain(atoms[s])]
  IN  /\ atoms' = [s \in Signs |-> cleaned[s].atoms]
      /\ showOffset' = OffsetsAfter(cleaned)
      /\ tuples' = SimplifyTuples(cleaned)

-----------------------------------------------------------------------------
(* Calls of the control object *)

(* What is left of canClean_ after update(); before it, a slip that leaves *)
(* the flag alone when cleanups are disabled.                              *)
FlagKeptIfDisabled == canClean /\ ~enableCleanup

FlagAfterUpdate == FALSE

(* update() begins a step unless one has begun; before it a slip that      *)
(* forgets to ask.                                                         *)
BeginsAlways == ok

BeginsStep == ok /\ ~grounded

Cleans == enableCleanup /\ canClean

(* ClingoControl::update *)
Update(cleans) ==
  /\ IF cleans THEN CleanupData ELSE UNCHANGED <<atoms, showOffset, tuples>>
  /\ steps' = IF BeginsStep THEN steps + 1 ELSE steps

IncAfterUpdate(cleans) ==
  incOffset' = IF cleans THEN [s \in Signs |-> Len(atoms'[s])] ELSE incOffset

InBounds == grounds < Bounds.grounds /\ since < Bounds.perStep

Counted ==
  /\ grounds' = grounds + 1
  /\ since' = since + 1
  /\ UNCHANGED scenario

(* ClingoControl::ground up to the end of Program::prepare. *)
BeginGround ==
  /\ pc = "idle"
  /\ ok
  /\ InBounds
  /\ Update(Cleans)
  /\ canClean' = FlagAfterUpdate
  /\ grounded' = TRUE
  /\ incOffset' = [s \in Signs |-> Len(atoms'[s])]
  /\ pc' = "ground"
  /\ Counted
  /\ UNCHANGED <<enableCleanup, choiceIndex, uids, constraints, table, heads, frozen, solver,
                 session>>

(* ClingoControl::ground once the program is inconsistent. *)
RefuseGround ==
  /\ pc = "idle"
  /\ ~ok
  /\ Update(Cleans)
  /\ IncAfterUpdate(Cleans)
  /\ canClean' = FlagAfterUpdate
  /\ UNCHANGED <<pc, grounded, enableCleanup, choiceIndex, uids, constraints, table, heads,
                 frozen, solver, session, bounds>>

Offsets(s) == DOMAIN atoms[s]

Named(s, n) == {o \in Offsets(s) : atoms[s][o].name = n}

NewAtom(n) == [name |-> n, defined |-> FALSE, fact |-> FALSE, uid |-> uids + 1]

(* AbstractDomain::reserve *)
ReserveAtom(s, n) ==
  /\ pc = "ground"
  /\ Named(s, n) = {}
  /\ atoms' = [atoms EXCEPT ![s] = Append(@, NewAtom(n))]
  /\ uids' = uids + 1
  /\ UNCHANGED <<control, incOffset, showOffset, choiceIndex, tuples, backend, solver, session,
                 bounds>>

(* PredicateDomain::define *)
DefineIn(s, n, fact) ==
  IF Named(s, n) = {}
  THEN /\ atoms' = [atoms EXCEPT ![s] =
                      Append(@, [NewAtom(n) EXCEPT !.defined = TRUE, !.fact = fact])]
       /\ uids' = uids + 1
  ELSE /\ atoms' = [atoms EXCEPT ![s] = [o \in Offsets(s) |->
                      IF o \in Named(s, n)
                      THEN [atoms[s][o] EXCEPT !.defined = TRUE, !.fact = @ \/ fact]
                      ELSE atoms[s][o]]]
       /\ UNCHANGED uids

UidOf(s, n) ==
  IF Named(s, n) = {} THEN uids + 1 ELSE (CHOOSE a \in {atoms[s][o] : o \in Named(s, n)} : TRUE).uid

(* Rule::report, or Program::prepare for a fact: nothing is output for     *)
(* what is a fact already.  The solver refuses rules for atoms of earlier  *)
(* steps that are not externals.                                           *)
DefineAtom(s, n, fact) ==
  /\ pc = "ground"
  /\ \A o \in Named(s, n) : ~atoms[s][o].fact
  /\ UidOf(s, n) \in DOMAIN value => UidOf(s, n) \in frozen
  /\ DefineIn(s, n, fact)
  /\ heads' = heads \union {UidOf(s, n)}
  /\ frozen' = frozen \ {UidOf(s, n)}
  /\ UNCHANGED <<control, incOffset, showOffset, choiceIndex, tuples, steps, constraints, table,
                 solver, session, bounds>>

(* ExternalStatement::report.  The solver ignores the declaration for      *)
(* atoms that have rules or belong to an earlier step.                     *)
DeclareExternal(s, n) ==
  /\ pc = "ground"
  /\ Bounds.externals
  /\ DefineIn(s, n, FALSE)
  /\ frozen' = frozen \union ({UidOf(s, n)} \ (heads \union DOMAIN value))
  /\ UNCHANGED <<control, incOffset, showOffset, choiceIndex, tuples, steps, constraints, table,
                 heads, solver, session, bounds>>

(* AbstractDomain::hasChoice continues where its last search ended.  It is *)
(* asked for literals over predicates that are grounded.  The search runs  *)
(* away when the atoms end before it begins: it may answer anything, and   *)
(* the model does not go on from there.                                    *)
Choices(s) == {o \in Offsets(s) : atoms[s][o].defined /\ ~atoms[s][o].fact}

Remaining(s) == {o \in Choices(s) : o > choiceIndex[s]}

Answers(s) ==
  IF choiceIndex[s] > Len(atoms[s]) THEN BOOLEAN ELSE {Remaining(s) # {}}

AskForChoice(s) ==
  /\ pc = "ground"
  /\ choiceIndex[s] <= Len(atoms[s])
  /\ choiceIndex' = [choiceIndex EXCEPT ![s] =
       IF Remaining(s) = {} THEN Len(atoms[s]) ELSE Seqs!Min(Remaining(s)) - 1]
  /\ UNCHANGED <<control, atoms, incOffset, showOffset, tuples, uids, backend, solver, session,
                 bounds>>

(* AbstractDomain::update, when an index is registered or propagated: the  *)
(* next search begins at the first atom again.                             *)
UpdateIndices(s) ==
  /\ pc = "ground"
  /\ choiceIndex' = [choiceIndex EXCEPT ![s] = 0]
  /\ UNCHANGED <<control, atoms, incOffset, showOffset, tuples, uids, backend, solver, session,
                 bounds>>

(* Translator::addMinimize for a condition that is a single literal; the   *)
(* translator keeps the literal for later steps.                           *)
AddTuple(s, o) ==
  /\ pc = "ground"
  /\ Cardinality(tuples) < Bounds.tuples
  /\ ~atoms[s][o].fact
  /\ tuples' = tuples \union {[sign |-> s, name |-> atoms[s][o].name,
                               uid |-> atoms[s][o].uid, offset |-> o]}
  /\ UNCHANGED <<control, atoms, incOffset, showOffset, choiceIndex, uids, backend, solver,
                 session, bounds>>

(* The constraints of endGround: new atoms of the negative signature with  *)
(* defined ones of the positive, and new ones of the positive with defined *)
(* ones of the negative that are not new; before it the first loop alone.  *)
Complements(pos, neg) ==
  {{atoms["pos"][q[1]].uid, atoms["neg"][q[2]].uid} :
     q \in {r \in pos \X neg : atoms["pos"][r[1]].name = atoms["neg"][r[2]].name}}

New(s) == {o \in Offsets(s) : o > incOffset[s]}

Defined(s) == {o \in Offsets(s) : atoms[s][o].defined}

NewNegConstraints == Complements(Defined("pos"), New("neg"))

NewConstraints ==
  Complements(Defined("pos"), New("neg"))
    \union Complements(New("pos"), Defined("neg") \ New("neg"))

(* Translator::showAtom and Atomtab for a domain with the atoms now.       *)
EntryOf(s, a) == [sign |-> s, name |-> a.name, uid |-> IF a.fact THEN 0 ELSE a.uid]

NewEntries(s, now) ==
  LET upTo[o \in 0..Len(now)] ==
        IF o = 0 THEN <<>>
        ELSE IF o > showOffset[s] /\ now[o].defined THEN Append(upTo[o - 1], EntryOf(s, now[o]))
        ELSE upTo[o - 1]
  IN  upTo[Len(now)]

(* OutputBase::endGround.  The program may turn out to be inconsistent as  *)
(* soon as its rules reach the backend.                                    *)
OutputGround ==
  /\ constraints' = constraints \union NewConstraints
  /\ table' = table \o NewEntries("pos", atoms'["pos"]) \o NewEntries("neg", atoms'["neg"])
  /\ showOffset' = [s \in Signs |-> Len(atoms[s])]
  /\ ok' \in {ok, FALSE}
  /\ pc' = "idle"
  /\ UNCHANGED <<grounded, canClean, enableCleanup, incOffset, choiceIndex, tuples, uids, steps,
                 heads, frozen, value, bounds>>

EndGround ==
  /\ pc = "ground"
  /\ UNCHANGED <<atoms, session>>
  /\ OutputGround

-----------------------------------------------------------------------------
(* Sessions with the program backend *)

(* ClingoControl::beginAddBackend: the result of update() is ignored, and  *)
(* a program without parts is prepared.                                    *)
BeginAddBackend ==
  /\ pc = "idle"
  /\ Bounds.sessions
  /\ InBounds
  /\ Update(Cleans)
  /\ canClean' = FlagAfterUpdate
  /\ grounded' = (grounded \/ ok)
  /\ incOffset' = [s \in Signs |-> Len(atoms'[s])]
  /\ pc' = "backend"
  /\ Counted
  /\ UNCHANGED <<enableCleanup, choiceIndex, uids, constraints, table, heads, frozen, solver,
                 session>>

(* ClingoControl::addAtom *)
AddAtom(s, n) ==
  /\ pc = "backend"
  /\ DefineIn(s, n, FALSE)
  /\ addedAtoms' = IF Named(s, n) = {} THEN addedAtoms \union {<<s, n>>} ELSE addedAtoms
  /\ UNCHANGED <<control, incOffset, showOffset, choiceIndex, tuples, backend, solver, addedFacts,
                 bounds>>

(* clingo_backend_rule with the head u; the solver takes rules as for      *)
(* DefineAtom.                                                             *)
AddRule(u, fact) ==
  /\ pc = "backend"
  /\ ok
  /\ u \in DOMAIN value => u \in frozen
  /\ heads' = heads \union {u}
  /\ frozen' = frozen \ {u}
  /\ addedFacts' = IF fact THEN addedFacts \union {u} ELSE addedFacts
  /\ UNCHANGED <<control, data, steps, constraints, table, solver, addedAtoms, bounds>>

(* clingo_backend_external *)
AddExternal(u) ==
  /\ pc = "backend"
  /\ ok
  /\ frozen' = frozen \union ({u} \ (heads \union DOMAIN value))
  /\ UNCHANGED <<control, data, steps, constraints, table, heads, solver, session, bounds>>

(* ClingoControl::endAddBackend: of the atoms with facts, those that are   *)
(* new become facts of their domains; before it a slip that forgets to ask *)
(* for facts.                                                              *)
FactsOfAll == UNION {{atoms[a[1]][o].uid : o \in Named(a[1], a[2])} : a \in addedAtoms}

FactsOfSession == FactsOfAll \intersect addedFacts

EndAddBackend ==
  /\ pc = "backend"
  /\ atoms' = [s \in Signs |-> [o \in Offsets(s) |->
                 [atoms[s][o] EXCEPT !.fact = @ \/ atoms[s][o].uid \in FactsOfSession]]]
  /\ addedAtoms' = {}
  /\ addedFacts' = {}
  /\ OutputGround

-----------------------------------------------------------------------------
(* Solving and the other calls *)

(* Values that the solver may have derived at the top level: they only     *)
(* grow, follow the facts and constraints, and are false for atoms that    *)
(* have no definition and are not external.                                *)
TopLevel ==
  {v \in [1..uids -> {"true", "false", "free"}] :
    /\ \A u \in DOMAIN value : value[u] # "free" => v[u] = value[u]
    /\ \A u \in (1..uids) \ (heads \union frozen) : v[u] = "false"
    /\ \A s \in Signs : \A o \in Offsets(s) : atoms[s][o].fact => v[atoms[s][o].uid] = "true"
    /\ \A c \in constraints : \A t, u \in c : t # u /\ v[t] = "true" => v[u] = "false"}

(* ClingoControl::solve with prepare(), and the solver until its next use. *)
(* canClean_ is unset while the program is prepared.                       *)
Solve ==
  /\ pc = "idle"
  /\ UNCHANGED data
  /\ steps' = IF ok THEN (IF BeginsStep THEN steps + 1 ELSE steps) - 1 ELSE steps
  /\ grounded' = FALSE
  /\ canClean' = TRUE
  /\ \/ ok /\ value' \in TopLevel /\ UNCHANGED ok
     \/ UNCHANGED value /\ ok' = FALSE
  /\ since' = 0
  /\ UNCHANGED <<pc, enableCleanup, constraints, table, heads, frozen, session, grounds, scenario>>

(* ClingoControl::cleanup called by the user. *)
CallCleanup ==
  /\ pc = "idle"
  /\ canClean
  /\ CleanupData
  /\ incOffset' = [s \in Signs |-> Len(atoms'[s])]
  /\ canClean' = FALSE
  /\ UNCHANGED <<pc, grounded, enableCleanup, choiceIndex, uids, backend, solver, session, bounds>>

(* ClingoControl::enableCleanup *)
SetEnableCleanup(b) ==
  /\ pc = "idle"
  /\ enableCleanup # b
  /\ enableCleanup' = b
  /\ UNCHANGED <<pc, grounded, canClean, data, backend, solver, session, bounds>>

(* ClingoControl::assignExternal with the value that releases it. *)
ReleaseExternal(u) ==
  /\ pc = "idle"
  /\ Update(Cleans)
  /\ IncAfterUpdate(Cleans)
  /\ canClean' = FlagAfterUpdate
  /\ grounded' = (grounded \/ ok)
  /\ frozen' = IF ok THEN frozen \ {u} ELSE frozen
  /\ UNCHANGED <<pc, enableCleanup, choiceIndex, uids, constraints, table, heads, solver, session,
                 bounds>>

Next ==
  \/ BeginGround
  \/ RefuseGround
  \/ \E s \in Signs : \E n \in Names[s] : ReserveAtom(s, n)
  \/ \E s \in Signs : \E n \in Names[s], fact \in BOOLEAN : DefineAtom(s, n, fact)
  \/ \E s \in Signs : \E n \in Names[s] : DeclareExternal(s, n)
  \/ \E s \in Signs : \E o \in Offsets(s) : AddTuple(s, o)
  \/ \E s \in Bounds.asked : AskForChoice(s) \/ UpdateIndices(s)
  \/ EndGround
  \/ BeginAddBackend
  \/ \E s \in Signs : \E n \in Names[s] : AddAtom(s, n)
  \/ \E s \in Signs : \E o \in Defined(s), fact \in BOOLEAN : AddRule(atoms[s][o].uid, fact)
  \/ \E s \in Signs : \E o \in Defined(s) : AddExternal(atoms[s][o].uid)
  \/ EndAddBackend
  \/ Solve
  \/ CallCleanup
  \/ \E b \in Bounds.cleanupModes : SetEnableCleanup(b)
  \/ \E u \in frozen : ReleaseExternal(u)

Spec == Init /\ [][Next]_vars

-----------------------------------------------------------------------------
(* Properties *)

(* After a ground call or a backend session, no answer set can have an     *)
(* atom and its classical complement: whichever of them is new, old, kept  *)
(* by a cleanup or defined again after one, there is a constraint over     *)
(* their present uids.                                                     *)
ComplementsExcluded ==
  pc = "idle" =>
    \A p \in Defined("pos"), n \in Defined("neg") :
      atoms["pos"][p].name = atoms["neg"][n].name
        => {atoms["pos"][p].uid, atoms["neg"][n].uid} \in constraints

(* This is what the code ensures: it needs a cleanup before each ground    *)
(* call, and thus a solve call between any two of them.                    *)
CleanSteps == Bounds.perStep = 1 /\ Bounds.cleanupModes = {TRUE}

ComplementsOfSteps == CleanSteps => ComplementsExcluded

(* After a ground call or a backend session, the output table has exactly  *)
(* one entry for every defined atom; again with a cleanup in between.      *)
ShownOnce ==
  pc = "idle" /\ ok /\ CleanSteps =>
    \A s \in Signs : \A o \in Defined(s) :
      Cardinality({k \in DOMAIN table :
        /\ table[k].sign = s /\ table[k].name = atoms[s][o].name
        /\ table[k].uid \in {0, atoms[s][o].uid}}) = 1

(* hasChoice tells the grounder that a domain has an atom that is not a    *)
(* fact only if there is one, in whatever order domains grow, are asked,   *)
(* and are cleaned up.                                                     *)
ChoiceFound ==
  pc = "ground" => \A s \in Signs : TRUE \in Answers(s) => Choices(s) # {}

(* A literal that the translator keeps across steps denotes the atom it    *)
(* was made for, although cleanups move atoms; it becomes a constant only  *)
(* for an atom with that value.                                            *)
LiteralsFollow ==
  ok => \A t \in tuples :
    IF t.offset = 0 THEN Truth(t.uid) = "true"
    ELSE /\ t.offset \in Offsets(t.sign)
         /\ atoms[t.sign][t.offset].name = t.name
         /\ atoms[t.sign][t.offset].uid = t.uid

(* The atoms that may be true in a later step.  Nothing is promised once   *)
(* the program is inconsistent: no call grounds then.                      *)
Possible(u) == ok /\ (u \notin DOMAIN value \/ value[u] # "false")

(* No call loses a defined atom that may still be true, or a literal kept  *)
(* for it: a later ground call finds it under its uid.  This needs the     *)
(* protocol of canClean_: a cleanup must not see atoms that the solver has *)
(* not prepared.                                                           *)
DefinedKept ==
  [][\A s \in Signs : \A o \in Defined(s) :
       Possible(atoms[s][o].uid) =>
         /\ \E p \in DOMAIN atoms'[s] :
              atoms'[s][p].uid = atoms[s][o].uid /\ atoms'[s][p].defined
         /\ (\E t \in tuples : t.uid = atoms[s][o].uid)
              => \E t \in tuples' : t.uid = atoms[s][o].uid]_vars

(* An external that can still get a definition is neither deleted nor made *)
(* a fact, for which the grounder would skip the definition.               *)
ExternalsOpen ==
  ok => \A u \in frozen :
    \E s \in Signs : \E o \in Defined(s) : atoms[s][o].uid = u /\ ~atoms[s][o].fact

(* Steps begin and end in turn: rules are output between begin_step and    *)
(* end_step, whatever calls are made in between.                           *)
StepsPaired ==
  /\ steps \in 0..1
  /\ pc = "ground" => steps = 1
  /\ pc = "backend" /\ ok => steps = 1
  /\ pc = "idle" /\ ok => (steps = 1 <=> grounded)
=============================================================================
