--------------------------- MODULE MultiShotProofs ---------------------------
(***************************************************************************)
(* Proofs about the calls of the control object and the incremental mode,  *)
(* for any scenarios: any names, queries, and bounds on the calls.         *)
(*                                                                         *)
(* Whether steps are paired depends on the flags of the control object     *)
(* only: while the program is consistent, a step has begun if and only if  *)
(* grounded_ is set.  When the incremental mode stops depends on its       *)
(* counter and the last result.                                            *)
(*                                                                         *)
(* The other properties follow from one invariant of all calls, CallsInv.  *)
(* The calls fall into few kinds: those that begin with update() and may   *)
(* clean up (Refresh), those that add or define atoms (Growth), the end of *)
(* a ground call or session, solve calls, and calls that change none of    *)
(* the atoms.  A cleanup moves atoms (Moved), by the lemmas of             *)
(* CleanupProofs about its loop; all others leave them (Lasting).  Each    *)
(* conjunct of the invariant has a lemma for each of the kinds.            *)
(***************************************************************************)
EXTENDS IncMode, FiniteSetTheorems, TLAPS

(* The lemmas about the loop in cleanup_ for any atoms. *)
CP == INSTANCE CleanupProofs WITH
        Symbol <- {}, MaxAtoms <- 0, before <- <<>>, dead <- {}, clean <- StartCleanup(<<>>)

(* The operators of CleanupOps are the same in this module and in CP. *)
LEMMA SameCleanup ==
  ASSUME NEW b, NEW c, NEW a, NEW m, NEW o
  PROVE  /\ CP!StartCleanup(b) = StartCleanup(b)
         /\ CP!EraseAtom(c) = EraseAtom(c)
         /\ CP!KeepAtom(c, a) = KeepAtom(c, a)
         /\ CP!GetMapping(m, o) = GetMapping(m, o)
<1>1. CP!StartCleanup(b) = StartCleanup(b)
  BY DEF CP!StartCleanup, StartCleanup, CP!EmptyMapping, EmptyMapping
<1>2. CP!EraseAtom(c) = EraseAtom(c)
  BY DEF CP!EraseAtom, EraseAtom, CP!UnorderedErase, UnorderedErase
<1>3. \A l, i, j : CP!AddMapping(l, i, j) = AddMapping(l, i, j)
  BY DEF CP!AddMapping, AddMapping
<1>4. CP!KeepAtom(c, a) = KeepAtom(c, a)
  BY <1>3, Zenon DEF CP!KeepAtom, KeepAtom
<1>5. CP!GetMapping(m, o) = GetMapping(m, o)
  BY DEF CP!GetMapping, GetMapping, CP!Unchanged, Unchanged
<1>. QED  BY <1>1, <1>2, <1>4, <1>5

-----------------------------------------------------------------------------
(* Steps                                                                   *)

StepsInv ==
  /\ pc \in {"idle", "ground", "backend"}
  /\ grounded \in BOOLEAN /\ ok \in BOOLEAN
  /\ steps \in 0..1
  /\ pc = "ground" => steps = 1
  /\ pc = "backend" /\ ok => steps = 1
  /\ ok => (steps = 1 <=> grounded)

stepVars == <<pc, grounded, steps, ok>>

LEMMA InitSteps == Init => StepsInv
<1>1. Init => pc = "idle" /\ grounded = FALSE /\ ok = TRUE /\ steps = 0
  BY Zenon DEF Init
<1>2. 0 \in 0..1 /\ 0 # 1 /\ "idle" # "ground" /\ "idle" # "backend"
  OBVIOUS
<1>. QED  BY <1>1, <1>2, Zenon DEF StepsInv

(* update() begins a step if and only if it has to. *)
LEMMA UpdatedSteps ==
  ASSUME StepsInv, NEW cleans, Update(cleans)
  PROVE  /\ steps' \in 0..1
         /\ ok => steps' = 1
         /\ ~ok => steps' = steps
BY DEF StepsInv, Update, BeginsStep

(* The output of a ground call or a session keeps the step open. *)
LEMMA OutputSteps ==
  ASSUME StepsInv, OutputGround
  PROVE  StepsInv'
<1>1. pc' = "idle" /\ grounded' = grounded /\ steps' = steps /\ (ok' = ok \/ ok' = FALSE)
  BY Zenon DEF OutputGround
<1>2. CASE ok' = ok
  BY <1>1, <1>2 DEF StepsInv
<1>3. CASE ok' = FALSE
  BY <1>1, <1>3 DEF StepsInv
<1>. QED  BY <1>1, <1>2, <1>3

(* An external is released or assigned after update(). *)
LEMMA AssignedSteps ==
  ASSUME StepsInv, Update(Cleans), pc' = pc, pc = "idle", ok' = ok, grounded' = (grounded \/ ok)
  PROVE  StepsInv'
<1>1. /\ steps' \in 0..1
      /\ ok => steps' = 1
      /\ ~ok => steps' = steps
  BY UpdatedSteps
<1>2. grounded' \in BOOLEAN /\ (ok => grounded')
  BY DEF StepsInv
<1>. QED  BY <1>1, <1>2 DEF StepsInv

LEMMA NextSteps == StepsInv /\ Next => StepsInv'
<1>. SUFFICES ASSUME StepsInv, Next PROVE StepsInv'
  OBVIOUS
<1>1. CASE BeginGround
  <2>1. /\ steps' \in 0..1
        /\ ok => steps' = 1
        /\ ~ok => steps' = steps
    BY <1>1, UpdatedSteps DEF BeginGround
  <2>2. ok /\ ok' = ok /\ grounded' = TRUE /\ pc' = "ground"
    BY <1>1 DEF BeginGround, solver
  <2>. QED  BY <2>1, <2>2 DEF StepsInv
<1>2. CASE RefuseGround
  <2>1. ~ok /\ steps' = steps
    BY <1>2, UpdatedSteps DEF RefuseGround
  <2>2. UNCHANGED <<pc, grounded, ok>>
    BY <1>2 DEF RefuseGround, solver
  <2>. QED  BY <2>1, <2>2 DEF StepsInv
<1>3. CASE BeginAddBackend
  <2>1. /\ steps' \in 0..1
        /\ ok => steps' = 1
        /\ ~ok => steps' = steps
    BY <1>3, UpdatedSteps DEF BeginAddBackend
  <2>2. ok' = ok /\ grounded' = (grounded \/ ok) /\ pc' = "backend"
    BY <1>3 DEF BeginAddBackend, solver
  <2>3. grounded' \in BOOLEAN /\ (ok => grounded')
    BY <2>2 DEF StepsInv
  <2>. QED  BY <2>1, <2>2, <2>3 DEF StepsInv
<1>4. CASE EndGround \/ EndAddBackend
  BY <1>4, OutputSteps DEF EndGround, EndAddBackend
<1>5. CASE Solve
  <2>1. /\ pc = "idle" /\ pc' = pc /\ grounded' = FALSE
        /\ steps' = IF ok THEN (IF BeginsStep THEN steps + 1 ELSE steps) - 1 ELSE steps
        /\ ok' = ok \/ ok' = FALSE
    BY <1>5, Zenon DEF Solve
  <2>2. CASE ok
    <3>1. steps' = 0
      BY <2>1, <2>2 DEF StepsInv, BeginsStep
    <3>2. ok' \in BOOLEAN
      BY <2>1 DEF StepsInv
    <3>3. 0 \in 0..1 /\ 0 # 1 /\ "idle" # "ground" /\ "idle" # "backend"
      OBVIOUS
    <3>. QED  BY <2>1, <3>1, <3>2, <3>3, Zenon DEF StepsInv
  <2>3. CASE ~ok
    <3>1. ok' = FALSE /\ steps' = steps
      BY <2>1, <2>3 DEF StepsInv
    <3>. QED  BY <2>1, <3>1 DEF StepsInv
  <2>. QED  BY <2>2, <2>3
<1>6. CASE \E u \in frozen : ReleaseExternal(u)
  <2>1. Update(Cleans) /\ pc = "idle" /\ UNCHANGED <<pc, ok>> /\ grounded' = (grounded \/ ok)
    BY <1>6 DEF ReleaseExternal, solver
  <2>. QED  BY <2>1, AssignedSteps
<1>7. CASE UNCHANGED stepVars
  BY <1>7 DEF stepVars, StepsInv
<1>8. ASSUME NEW s, NEW n, NEW fact, ReserveAtom(s, n) \/ DefineAtom(s, n, fact) \/ DeclareExternal(s, n)
      PROVE  UNCHANGED stepVars
  BY <1>8 DEF ReserveAtom, DefineAtom, DeclareExternal, stepVars, control, backend, solver
<1>9. ASSUME NEW s, NEW o, AddTuple(s, o) \/ AskForChoice(s) \/ UpdateIndices(s) \/ AddAtom(s, o)
      PROVE  UNCHANGED stepVars
  BY <1>9 DEF AddTuple, AskForChoice, UpdateIndices, AddAtom, stepVars, control, backend, solver
<1>10. ASSUME NEW u, NEW fact, AddRule(u, fact) \/ AddExternal(u)
       PROVE  UNCHANGED stepVars
  BY <1>10 DEF AddRule, AddExternal, stepVars, control, solver
<1>11. ASSUME CallCleanup \/ \E b \in Bounds.cleanupModes : SetEnableCleanup(b)
       PROVE  UNCHANGED stepVars
  BY <1>11 DEF CallCleanup, SetEnableCleanup, stepVars, backend, solver
<1>. QED  BY <1>1, <1>2, <1>3, <1>4, <1>5, <1>6, <1>7, <1>8, <1>9, <1>10, <1>11 DEF Next

LEMMA UnchangedSteps == StepsInv /\ UNCHANGED vars => StepsInv'
<1>1. UNCHANGED vars => UNCHANGED <<pc, grounded, steps, ok>>
  BY DEF vars, control, backend, solver
<1>. QED  BY <1>1 DEF StepsInv

LEMMA PairedSteps == StepsInv => StepsPaired
BY DEF StepsInv, StepsPaired

(* begin_step and end_step alternate and rules are output between them,    *)
(* for all sequences of calls an application can make (the flag grounded_  *)
(* in ClingoControl::update, prepare, ground and beginAddBackend).         *)
THEOREM StepsArePaired == Spec => []StepsPaired
<1>1. StepsInv /\ [Next]_vars => StepsInv'
  BY NextSteps, UnchangedSteps
<1>. QED  BY InitSteps, <1>1, PairedSteps, PTL DEF Spec

LEMMA IncNextSteps == StepsInv /\ IncNext => StepsInv'
<1>. SUFFICES ASSUME StepsInv, IncNext PROVE StepsInv'
  OBVIOUS
<1>1. CASE User
  BY <1>1, NextSteps DEF User
<1>2. CASE Check \/ Stop
  BY <1>2, UnchangedSteps DEF Check, Stop
<1>3. CASE Release \/ Assign
  <2>1. ASSUME NEW i, NEW released, AssignQuery(i, released)
        PROVE  Update(Cleans) /\ pc = "idle" /\ UNCHANGED <<pc, ok>> /\ grounded' = (grounded \/ ok)
    BY <2>1 DEF AssignQuery, solver
  <2>2. AssignQuery(Released, TRUE) \/ AssignQuery(step, FALSE)
    BY <1>3 DEF Release, Assign
  <2>. QED  BY <2>1, <2>2, AssignedSteps
<1>4. CASE Ground \/ FinishGround \/ SolveStep
  <2>1. BeginGround \/ RefuseGround \/ EndGround \/ Solve
    BY <1>4 DEF Ground, FinishGround, SolveStep
  <2>. QED  BY <2>1, NextSteps DEF Next
<1>5. CASE Instantiate
  <2>1. PICK n : DeclareExternal("pos", n) \/ ReserveAtom("pos", n) \/ \E f \in BOOLEAN : DefineAtom("pos", n, f)
    BY <1>5 DEF Instantiate
  <2>2. UNCHANGED stepVars
    BY <2>1 DEF ReserveAtom, DefineAtom, DeclareExternal, stepVars, control, backend, solver
  <2>. QED  BY <2>2 DEF stepVars, StepsInv
<1>. QED  BY <1>1, <1>2, <1>3, <1>4, <1>5 DEF IncNext

(* The same with the incremental mode, however many steps it takes.        *)
THEOREM IncStepsArePaired == IncSpec => []StepsPaired
<1>1. IncInit => StepsInv
  BY InitSteps DEF IncInit
<1>2. StepsInv /\ [IncNext]_<<vars, loop>> => StepsInv'
  BY IncNextSteps, UnchangedSteps
<1>. QED  BY <1>1, <1>2, PairedSteps, PTL DEF IncSpec

-----------------------------------------------------------------------------
(* The loop of the incremental mode                                        *)

(* Not a result that ends the loop. *)
GoesOn(k) == k < imin \/ results[k] # istop

LoopInv ==
  /\ imax \in Nat /\ imin \in Nat /\ step \in Nat
  /\ results \in Seq(Results) /\ Len(results) = step
  /\ at \in {"user", "check", "release", "ground", "instantiate", "assign", "solve", "done"}
  /\ step <= imax
  /\ \A k \in 1..step : k # step => GoesOn(k)
  /\ at \in {"release", "ground", "instantiate", "assign", "solve"} => step < imax
  /\ at \notin {"check", "done"} => \A k \in 1..step : GoesOn(k)
  /\ at = "done" => ~CheckRun

LEMMA InitLoop == IncInit => LoopInv
<1>. SUFFICES ASSUME IncInit PROVE LoopInv
  OBVIOUS
<1>1. scenario \in DOMAIN Scenarios
  BY DEF IncInit, Init
<1>2. Queries \in Seq(Names["pos"])
  BY <1>1, ScenariosAssumption DEF Queries, Names, Bounds
<1>3. Len(Queries) \in Nat
  BY <1>2
<1>4. imax \in Nat /\ imin \in Nat
  BY <1>3 DEF IncInit
<1>. QED  BY <1>4 DEF IncInit, LoopInv

(* The calls of a step leave the counter and the results alone. *)
LEMMA CallsLoop ==
  ASSUME LoopInv, UNCHANGED <<imax, imin, istop, step, results>>,
         at \in {"release", "ground", "instantiate", "assign"},
         at' \in {"ground", "instantiate", "assign", "solve"}
  PROVE  LoopInv'
BY DEF LoopInv, GoesOn, CheckRun

LEMMA NextLoop == LoopInv /\ IncNext => LoopInv'
<1>. SUFFICES ASSUME LoopInv, IncNext PROVE LoopInv'
  OBVIOUS
<1>1. CASE User \/ Stop
  BY <1>1 DEF User, Stop, loop, LoopInv, GoesOn, CheckRun
<1>2. CASE Check
  <2>1. at = "check" /\ UNCHANGED <<imax, imin, istop, step, results>>
        /\ at' = CASE ~CheckRun -> "done" [] CheckRun /\ step > 0 -> "release" [] OTHER -> "ground"
    BY <1>2 DEF Check, Goto
  <2>2. CASE ~CheckRun
    BY <2>1, <2>2 DEF LoopInv, GoesOn, CheckRun
  <2>3. CASE CheckRun
    <3>1. at' \in {"release", "ground"}
      BY <2>1, <2>3
    <3>2. step < imax /\ (step = 0 \/ GoesOn(step))
      BY <2>3 DEF CheckRun, GoesOn
    <3>. QED  BY <2>1, <3>1, <3>2 DEF LoopInv, GoesOn
  <2>. QED  BY <2>2, <2>3
<1>3. CASE Release \/ Ground \/ FinishGround \/ Assign
  <2>1. /\ UNCHANGED <<imax, imin, istop, step, results>>
        /\ at \in {"release", "ground", "instantiate", "assign"}
        /\ at' \in {"ground", "instantiate", "assign", "solve"}
    BY <1>3 DEF Release, Ground, FinishGround, Assign, Goto
  <2>. QED  BY <2>1, CallsLoop
<1>4. CASE Instantiate
  BY <1>4 DEF Instantiate, loop, LoopInv, GoesOn, CheckRun
<1>5. CASE SolveStep
  <2>1. PICK r \in Results : results' = Append(results, r)
    BY <1>5 DEF SolveStep, Results
  <2>2. step' = step + 1 /\ at = "solve" /\ at' = "check" /\ UNCHANGED <<imax, imin, istop>>
    BY <1>5 DEF SolveStep, Goto
  <2>3. /\ results' \in Seq(Results) /\ Len(results') = step + 1
        /\ \A k \in 1..step : results'[k] = results[k]
    BY <2>1 DEF LoopInv
  <2>4. \A k \in 1..step : k < imin \/ results'[k] # istop
    BY <2>2, <2>3 DEF LoopInv, GoesOn
  <2>. QED  BY <2>2, <2>3, <2>4 DEF LoopInv, GoesOn
<1>. QED  BY <1>1, <1>2, <1>3, <1>4, <1>5 DEF IncNext

(* The incremental mode stops after imax steps, or at the first step that  *)
(* is not below imin and has the result istop, for any number of steps and *)
(* any results (check_run in incmode.cc).                                  *)
THEOREM IncStopsInTime == IncSpec => []StopsInTime
<1>1. LoopInv /\ [IncNext]_<<vars, loop>> => LoopInv'
  <2>1. LoopInv /\ UNCHANGED <<vars, loop>> => LoopInv'
    BY DEF loop, LoopInv, GoesOn, CheckRun
  <2>. QED  BY <2>1, NextLoop
<1>2. LoopInv => StopsInTime
  BY DEF LoopInv, StopsInTime, GoesOn, CheckRun
<1>. QED  BY InitLoop, <1>1, <1>2, PTL DEF IncSpec

-----------------------------------------------------------------------------
(* Cleanup of a domain *)

(* The first n iterations over a domain, as CleanDomain counts them. *)
LoopTo(old, n, g) ==
  g = [k \in 0..n |-> IF k = 0 THEN StartCleanup(old) ELSE CleanAtom(g[k - 1])]

LEMMA LoopOneMore ==
  ASSUME NEW old, NEW m \in Nat, NEW g, LoopTo(old, m, g)
  PROVE  \E h : LoopTo(old, m + 1, h)
<1>1. \A k \in 0..m : g[k] = IF k = 0 THEN StartCleanup(old) ELSE CleanAtom(g[k - 1])
  BY DEF LoopTo
<1>2. SUFFICES
        ASSUME NEW h, h = [k \in 0..(m + 1) |-> IF k = 0 THEN StartCleanup(old) ELSE CleanAtom(g[k - 1])]
        PROVE  LoopTo(old, m + 1, h)
  OBVIOUS
<1>3. \A k \in 0..m : h[k] = g[k]
  <2>1. \A k \in 0..m : k \in 0..(m + 1)
    OBVIOUS
  <2>. QED  BY <1>1, <1>2, <2>1, Zenon
<1>4. ASSUME NEW k \in 0..(m + 1)
      PROVE  (IF k = 0 THEN StartCleanup(old) ELSE CleanAtom(g[k - 1]))
               = (IF k = 0 THEN StartCleanup(old) ELSE CleanAtom(h[k - 1]))
  <2>1. k # 0 => k - 1 \in 0..m
    OBVIOUS
  <2>2. k # 0 => g[k - 1] = h[k - 1]
    BY <1>3, <2>1
  <2>. QED  BY <2>2
<1>5. [k \in 0..(m + 1) |-> IF k = 0 THEN StartCleanup(old) ELSE CleanAtom(g[k - 1])]
        = [k \in 0..(m + 1) |-> IF k = 0 THEN StartCleanup(old) ELSE CleanAtom(h[k - 1])]
  BY <1>4, Zenon
<1>. QED  BY <1>2, <1>5, Zenon DEF LoopTo

LEMMA CleanLoopExists ==
  ASSUME NEW old, NEW n \in Nat
  PROVE  \E g : LoopTo(old, n, g)
<1> DEFINE S == {m \in Nat : \E g : LoopTo(old, m, g)}
<1>1. 0 \in S
  <2>1. [k \in 0..0 |-> StartCleanup(old)]
          = [k \in 0..0 |-> IF k = 0 THEN StartCleanup(old) ELSE CleanAtom([j \in 0..0 |-> StartCleanup(old)][k - 1])]
    OBVIOUS
  <2>2. LoopTo(old, 0, [k \in 0..0 |-> StartCleanup(old)])
    BY <2>1, Zenon DEF LoopTo
  <2> QED BY <2>2
<1>2. ASSUME NEW m \in S PROVE m + 1 \in S
  <2>1. m \in Nat /\ m + 1 \in Nat
    OBVIOUS
  <2>2. PICK g : LoopTo(old, m, g)
    OBVIOUS
  <2>3. \E h : LoopTo(old, m + 1, h)
    BY <2>1, <2>2, LoopOneMore
  <2>. QED  BY <2>1, <2>3
<1>3. S = Nat
  <2> HIDE DEF S
  <2>1. S \in SUBSET Nat
    BY DEF S
  <2> QED BY <1>1, <1>2, <2>1, CP!SetInduction
<1> QED BY <1>3

(* CleanDomain is the last of the iterations. *)
LEMMA CleanDomainLoops ==
  ASSUME NEW old, Len(old) \in Nat
  PROVE  \E g : LoopTo(old, Len(old), g) /\ CleanDomain(old) = g[Len(old)]
<1> DEFINE g == CHOOSE g : LoopTo(old, Len(old), g)
<1>1. LoopTo(old, Len(old), g)
  BY CleanLoopExists
<1>2. CleanDomain(old) = g[Len(old)]
  BY Zenon DEF CleanDomain, LoopTo
<1> QED BY <1>1, <1>2

(* The atoms that a cleanup deletes, and what it makes of the others. *)
Gone == {a \in Atom : Deleted(a)}

KeptOf == [a \in Atom |-> Kept(a)]

LEMMA KeptInAtom == KeptOf \in [Atom -> Atom]
<1>1. ASSUME NEW a \in Atom PROVE Kept(a) \in Atom
  BY DEF Kept, Atom
<1>. QED  BY <1>1, Zenon DEF KeptOf

(* A kept atom is the same but for being a fact, which needs a true        *)
(* value.                                                                  *)
LEMMA KeptSame ==
  ASSUME NEW a \in Atom
  PROVE  /\ KeptOf[a] = Kept(a) /\ Kept(a) \in Atom
         /\ Kept(a).name = a.name /\ Kept(a).uid = a.uid /\ Kept(a).defined = a.defined
         /\ a.fact => Kept(a).fact
         /\ Kept(a).fact => a.fact \/ (a.uid \notin frozen /\ Truth(a.uid) = "true")
BY DEF Kept, Atom, KeptOf

(* After k iterations. *)
RanTo(old, k, c) ==
  /\ CP!CleanupLoop(Atom, old, Gone, KeptOf, c)
  /\ c.next + Len(old) = k + 1 + Len(c.atoms)

(* The iteration leaves an atom less, or goes on to the next. *)
LEMMA IterationCounts ==
  ASSUME NEW X, NEW c, CP!LoopShape(c), c.atoms \in Seq(X), c.next \in 1..Len(c.atoms), NEW a
  PROVE  /\ EraseAtom(c).next = c.next /\ Len(EraseAtom(c).atoms) = Len(c.atoms) - 1
         /\ KeepAtom(c, a).next = c.next + 1 /\ Len(KeepAtom(c, a).atoms) = Len(c.atoms)
BY DEF EraseAtom, KeepAtom, UnorderedErase, CP!LoopShape

(* An iteration of CleanDomain is one of the loop of CleanupOps. *)
LEMMA RunsOn ==
  ASSUME NEW old \in Seq(Atom), NEW k \in Nat, k < Len(old), NEW c, RanTo(old, k, c)
  PROVE  RanTo(old, k + 1, CleanAtom(c))
<1> DEFINE n == c.next
           l == Len(c.atoms)
           m == Len(old)
<1>1. CP!CleanupLoop(Atom, old, Gone, KeptOf, c)
  BY DEF RanTo
<1>2. n + m = k + 1 + l
  BY Zenon DEF RanTo
<1>3. CP!LoopPlaces(Atom, old, c)
  BY <1>1 DEF CP!CleanupLoop
<1>4. CP!LoopShape(c) /\ c.atoms \in Seq(Atom) /\ n \in 1..(l + 1)
  BY <1>3, Zenon DEF CP!LoopPlaces
<1>5. l \in Nat /\ m \in Nat
  BY <1>4
<1>6. n \in 1..l
  <2>1. k < m
    OBVIOUS
  <2> HIDE DEF n, l, m
  <2>. QED  BY <1>2, <1>4, <1>5, <2>1
<1>7. CP!LoopRuns(c) /\ c.atoms[c.next] \in Atom
  BY <1>4, <1>5, <1>6 DEF CP!LoopRuns
<1>8. CASE Deleted(c.atoms[c.next])
  <2> DEFINE d == EraseAtom(c)
  <2>1. CleanAtom(c) = d
    BY <1>8 DEF CleanAtom
  <2>2. c.atoms[c.next] \in Gone
    BY <1>7, <1>8 DEF Gone
  <2>3. CP!CleanupLoop(Atom, old, Gone, KeptOf, d)
    BY <1>1, <1>7, <2>2, CP!EraseStep, SameCleanup
  <2>4. d.next = n /\ Len(d.atoms) = l - 1
    BY <1>4, <1>6, IterationCounts
  <2> HIDE DEF d, n, l, m
  <2>5. n + m = (k + 1) + 1 + (l - 1)
    BY <1>2, <1>5, <1>6
  <2>6. RanTo(old, k + 1, d)
    BY <2>3, <2>4, <2>5, Zenon DEF RanTo, m
  <2>. QED  BY <2>1, <2>6, Zenon
<1>9. CASE ~Deleted(c.atoms[c.next])
  <2> DEFINE d == KeepAtom(c, KeptOf[c.atoms[c.next]])
  <2>1. CleanAtom(c) = d
    BY <1>7, <1>9, KeptSame DEF CleanAtom
  <2>2. c.atoms[c.next] \notin Gone
    BY <1>7, <1>9 DEF Gone
  <2>3. CP!CleanupLoop(Atom, old, Gone, KeptOf, d)
    BY <1>1, <1>7, <2>2, KeptInAtom, CP!KeepStep, SameCleanup
  <2>4. d.next = n + 1 /\ Len(d.atoms) = l
    BY <1>4, <1>6, IterationCounts
  <2> HIDE DEF d, n, l, m
  <2>5. (n + 1) + m = (k + 1) + 1 + l
    BY <1>2, <1>5, <1>6
  <2>6. RanTo(old, k + 1, d)
    BY <2>3, <2>4, <2>5, Zenon DEF RanTo, m
  <2>. QED  BY <2>1, <2>6, Zenon
<1>. QED  BY <1>8, <1>9

(* The cleanup of a domain deletes the atoms it is to delete, moves no two *)
(* atoms to one offset, and maps the offset of each to the one it has now. *)
LEMMA DomainCleaned ==
  ASSUME NEW old \in Seq(Atom)
  PROVE  LET c == CleanDomain(old) IN
         /\ c.atoms \in Seq(Atom) /\ DOMAIN c.atoms = 1..Len(c.atoms)
         /\ \A o \in DOMAIN old :
              IF Deleted(old[o])
              THEN GetMapping(c.map, o) = 0
              ELSE /\ GetMapping(c.map, o) \in DOMAIN c.atoms
                   /\ c.atoms[GetMapping(c.map, o)] = Kept(old[o])
         /\ \A o, p \in DOMAIN old :
              ~Deleted(old[o]) /\ ~Deleted(old[p]) /\ GetMapping(c.map, o) = GetMapping(c.map, p)
                => o = p
         /\ \A p \in DOMAIN c.atoms :
              \E o \in DOMAIN old : ~Deleted(old[o]) /\ GetMapping(c.map, o) = p
<1>1. Len(old) \in Nat /\ \A o \in DOMAIN old : old[o] \in Atom
  OBVIOUS
<1>2. PICK g : LoopTo(old, Len(old), g) /\ CleanDomain(old) = g[Len(old)]
  BY <1>1, CleanDomainLoops
<1>3. g[0] = StartCleanup(old) /\ \A k \in Nat : k < Len(old) => g[k + 1] = CleanAtom(g[k])
  <2>1. \A k \in 0..Len(old) : g[k] = IF k = 0 THEN StartCleanup(old) ELSE CleanAtom(g[k - 1])
    BY <1>2 DEF LoopTo
  <2>2. 0 \in 0..Len(old)
    BY <1>1
  <2>3. ASSUME NEW k \in Nat, k < Len(old) PROVE g[k + 1] = CleanAtom(g[k])
    <3>1. k + 1 \in 0..Len(old) /\ k + 1 # 0 /\ (k + 1) - 1 = k
      BY <1>1, <2>3
    <3>. QED  BY <2>1, <3>1
  <2>. QED  BY <2>1, <2>2, <2>3
<1> DEFINE S == {k \in Nat : k <= Len(old) => RanTo(old, k, g[k])}
<1>4. 0 \in S
  <2>1. CP!CleanupLoop(Atom, old, Gone, KeptOf, StartCleanup(old))
    BY CP!LoopStarts, SameCleanup
  <2>2. StartCleanup(old).next = 1 /\ StartCleanup(old).atoms = old
    BY DEF StartCleanup
  <2>. QED  BY <1>1, <1>3, <2>1, <2>2 DEF RanTo
<1>5. ASSUME NEW k \in S PROVE k + 1 \in S
  <2>1. k \in Nat /\ k + 1 \in Nat
    OBVIOUS
  <2>2. ASSUME k + 1 <= Len(old) PROVE RanTo(old, k + 1, g[k + 1])
    <3>1. k < Len(old) /\ k <= Len(old)
      BY <1>1, <2>1, <2>2
    <3>2. RanTo(old, k, g[k])
      BY <3>1
    <3>3. RanTo(old, k + 1, CleanAtom(g[k]))
      BY <2>1, <3>1, <3>2, RunsOn
    <3>. QED  BY <1>3, <2>1, <3>1, <3>3
  <2>. QED  BY <2>1, <2>2
<1>6. S = Nat
  <2> HIDE DEF S
  <2>1. S \in SUBSET Nat
    BY DEF S
  <2> QED BY <1>4, <1>5, <2>1, CP!SetInduction
<1> DEFINE c == CleanDomain(old)
<1>7. RanTo(old, Len(old), c)
  BY <1>1, <1>2, <1>6
<1>8. CP!CleanupLoop(Atom, old, Gone, KeptOf, c) /\ ~CP!LoopRuns(c)
  <2> DEFINE n == c.next
             l == Len(c.atoms)
             m == Len(old)
  <2>1. CP!CleanupLoop(Atom, old, Gone, KeptOf, c)
    BY <1>7, Zenon DEF RanTo
  <2>2. n + m = m + 1 + l
    BY <1>7, Zenon DEF RanTo
  <2>3. CP!LoopPlaces(Atom, old, c)
    BY <2>1, Zenon DEF CP!CleanupLoop
  <2>4. c.atoms \in Seq(Atom) /\ n \in 1..(l + 1)
    BY <2>3, Zenon DEF CP!LoopPlaces
  <2>5. l \in Nat /\ m \in Nat
    BY <1>1, <2>4
  <2> HIDE DEF n, l, m
  <2>6. ~(n <= l)
    BY <2>2, <2>4, <2>5
  <2>. QED  BY <2>1, <2>6, Zenon DEF CP!LoopRuns, n, l
<1> HIDE DEF c
<1>9. \A o \in DOMAIN old : (old[o] \in Gone <=> Deleted(old[o])) /\ KeptOf[old[o]] = Kept(old[o])
  BY <1>1, KeptSame DEF Gone
<1>10. \A o : CP!GetMapping(c.map, o) = GetMapping(c.map, o)
  BY SameCleanup
<1>11. /\ c.atoms \in Seq(Atom) /\ DOMAIN c.atoms = 1..Len(c.atoms)
       /\ \A o \in DOMAIN old :
            IF old[o] \in Gone
            THEN CP!GetMapping(c.map, o) = 0
            ELSE /\ CP!GetMapping(c.map, o) \in DOMAIN c.atoms
                 /\ c.atoms[CP!GetMapping(c.map, o)] = KeptOf[old[o]]
       /\ \A o, p \in DOMAIN old :
            old[o] \notin Gone /\ old[p] \notin Gone /\ CP!GetMapping(c.map, o) = CP!GetMapping(c.map, p)
              => o = p
  BY <1>8, CP!LoopEnds
<1>12. /\ c.atoms \in Seq(Atom) /\ DOMAIN c.atoms = 1..Len(c.atoms)
       /\ \A o \in DOMAIN old :
            IF old[o] \in Gone
            THEN GetMapping(c.map, o) = 0
            ELSE /\ GetMapping(c.map, o) \in DOMAIN c.atoms
                 /\ c.atoms[GetMapping(c.map, o)] = KeptOf[old[o]]
       /\ \A o, p \in DOMAIN old :
            old[o] \notin Gone /\ old[p] \notin Gone /\ GetMapping(c.map, o) = GetMapping(c.map, p)
              => o = p
  BY <1>10, <1>11, Zenon
<1>13. \A p \in DOMAIN c.atoms :
         \E o \in DOMAIN old : old[o] \notin Gone /\ GetMapping(c.map, o) = p
  BY <1>8, <1>10, CP!LoopEnds
<1>14. \A o \in DOMAIN old :
         IF Deleted(old[o])
         THEN GetMapping(c.map, o) = 0
         ELSE /\ GetMapping(c.map, o) \in DOMAIN c.atoms
              /\ c.atoms[GetMapping(c.map, o)] = Kept(old[o])
  BY <1>9, <1>12, Zenon
<1>15. \A o, p \in DOMAIN old :
         ~Deleted(old[o]) /\ ~Deleted(old[p]) /\ GetMapping(c.map, o) = GetMapping(c.map, p)
           => o = p
  BY <1>9, <1>12, Zenon
<1>16. ASSUME NEW p \in DOMAIN c.atoms
       PROVE  \E o \in DOMAIN old : ~Deleted(old[o]) /\ GetMapping(c.map, o) = p
  <2>1. PICK o \in DOMAIN old : old[o] \notin Gone /\ GetMapping(c.map, o) = p
    BY <1>13, Zenon
  <2>. QED  BY <1>9, <2>1, Zenon
<1>. QED  BY <1>12, <1>14, <1>15, <1>16 DEF c

-----------------------------------------------------------------------------
(* Atoms and their uids, and the calls that begin with update() *)

Uid(s, o) == atoms[s][o].uid

(* Types, with what TLC cannot check as it is bounded only by the          *)
(* scenario.                                                               *)
Types ==
  /\ TypeOK
  /\ uids \in Nat
  /\ scenario \in DOMAIN Scenarios

(* A uid belongs to one atom, and a name to one atom of a domain. *)
UidsBounded == \A s \in Signs : \A o \in Offsets(s) : Uid(s, o) <= uids

UidsApart ==
  \A s, t \in Signs : \A o \in Offsets(s), p \in Offsets(t) : Uid(s, o) = Uid(t, p) => s = t /\ o = p

NamesApart ==
  \A s \in Signs : \A o, p \in Offsets(s) : atoms[s][o].name = atoms[s][p].name => o = p

Identities == UidsBounded /\ UidsApart /\ NamesApart

(* Where a cleanup takes the atom at an offset. *)
Move(s, o) == GetMapping(CleanDomain(atoms[s]).map, o)

(* What a cleanup does with the atoms. *)
Moved ==
  \A s \in Signs :
    /\ atoms'[s] \in Seq(Atom)
    /\ \A o \in Offsets(s) :
         IF Deleted(atoms[s][o])
         THEN Move(s, o) = 0
         ELSE Move(s, o) \in DOMAIN atoms'[s] /\ atoms'[s][Move(s, o)] = Kept(atoms[s][o])
    /\ \A p \in DOMAIN atoms'[s] : \E o \in Offsets(s) : ~Deleted(atoms[s][o]) /\ Move(s, o) = p

(* update() or a cleanup at the beginning of a call. *)
Refresh ==
  /\ pc = "idle"
  /\ \/ canClean /\ CleanupData
     \/ ~Cleans /\ UNCHANGED <<atoms, showOffset, tuples>>
  /\ \/ /\ pc' = "idle" /\ UNCHANGED since
        /\ \/ incOffset' = [s \in Signs |-> Len(atoms'[s])]
           \/ ~Cleans /\ UNCHANGED <<atoms, showOffset, tuples, incOffset>>
     \/ /\ pc' \in {"ground", "backend"} /\ InBounds /\ since' = since + 1
        /\ incOffset' = [s \in Signs |-> Len(atoms'[s])]
  /\ canClean' = FALSE
  /\ grounded \in BOOLEAN => grounded' \in BOOLEAN
  /\ steps \in Nat => steps' \in Nat
  /\ frozen' \subseteq frozen
  /\ UNCHANGED <<enableCleanup, choiceIndex, uids, constraints, table, heads, solver, session, scenario>>

LEMMA UpdateRefreshes ==
  ASSUME pc = "idle", Update(Cleans), IncAfterUpdate(Cleans), UNCHANGED <<pc, since>>
  PROVE  /\ \/ canClean /\ CleanupData
            \/ ~Cleans /\ UNCHANGED <<atoms, showOffset, tuples>>
         /\ \/ incOffset' = [s \in Signs |-> Len(atoms'[s])]
            \/ ~Cleans /\ UNCHANGED <<atoms, showOffset, tuples, incOffset>>
         /\ steps \in Nat => steps' \in Nat
<1>1. steps \in Nat => steps' \in Nat
  BY DEF Update
<1>2. CASE Cleans
  BY <1>1, <1>2, Zenon DEF Update, IncAfterUpdate, Cleans
<1>3. CASE ~Cleans
  BY <1>1, <1>3, Zenon DEF Update, IncAfterUpdate
<1>. QED  BY <1>2, <1>3

LEMMA Refreshes ==
  ASSUME \/ BeginGround \/ RefuseGround \/ BeginAddBackend \/ CallCleanup
         \/ \E u \in frozen : ReleaseExternal(u)
         \/ \E i, r : AssignQuery(i, r)
  PROVE  Refresh
<1>1. CASE BeginGround \/ BeginAddBackend
  <2>1. Update(Cleans)
    BY <1>1 DEF BeginGround, BeginAddBackend
  <2>2. steps \in Nat => steps' \in Nat
    BY <2>1 DEF Update
  <2>3. \/ canClean /\ CleanupData
        \/ ~Cleans /\ UNCHANGED <<atoms, showOffset, tuples>>
    BY <2>1, Zenon DEF Update, Cleans
  <2>. QED  BY <1>1, <2>2, <2>3 DEF BeginGround, BeginAddBackend, Refresh, Counted, FlagAfterUpdate
<1>2. CASE RefuseGround
  <2>1. pc = "idle" /\ Update(Cleans) /\ IncAfterUpdate(Cleans) /\ UNCHANGED <<pc, since>>
    BY <1>2 DEF RefuseGround, bounds
  <2>. QED  BY <1>2, <2>1, UpdateRefreshes DEF RefuseGround, Refresh, FlagAfterUpdate, bounds
<1>3. CASE CallCleanup
  BY <1>3 DEF CallCleanup, Refresh, backend, bounds
<1>4. CASE \E u \in frozen : ReleaseExternal(u)
  <2>1. PICK u \in frozen : ReleaseExternal(u)
    BY <1>4
  <2>2. pc = "idle" /\ Update(Cleans) /\ IncAfterUpdate(Cleans) /\ UNCHANGED <<pc, since>>
    BY <2>1 DEF ReleaseExternal, bounds
  <2>3. frozen' \subseteq frozen /\ (grounded \in BOOLEAN => grounded' \in BOOLEAN)
    BY <2>1 DEF ReleaseExternal
  <2>. QED  BY <2>1, <2>2, <2>3, UpdateRefreshes DEF ReleaseExternal, Refresh, FlagAfterUpdate, bounds
<1>5. CASE \E i, r : AssignQuery(i, r)
  <2>1. PICK i, r : AssignQuery(i, r)
    BY <1>5
  <2>2. pc = "idle" /\ Update(Cleans) /\ IncAfterUpdate(Cleans) /\ UNCHANGED <<pc, since>>
    BY <2>1 DEF AssignQuery, bounds
  <2>3. frozen' \subseteq frozen /\ (grounded \in BOOLEAN => grounded' \in BOOLEAN)
    BY <2>1 DEF AssignQuery
  <2>. QED  BY <2>1, <2>2, <2>3, UpdateRefreshes DEF AssignQuery, Refresh, FlagAfterUpdate, bounds
<1>. QED  BY <1>1, <1>2, <1>3, <1>4, <1>5

LEMMA CleanupMoves ==
  ASSUME Types, CleanupData
  PROVE  Moved
<1>1. \A s \in Signs : atoms[s] \in Seq(Atom) /\ atoms'[s] = CleanDomain(atoms[s]).atoms
  BY DEF Types, TypeOK, CleanupData
<1>. SUFFICES ASSUME NEW s \in Signs
     PROVE /\ atoms'[s] \in Seq(Atom)
           /\ \A o \in Offsets(s) :
                IF Deleted(atoms[s][o])
                THEN Move(s, o) = 0
                ELSE Move(s, o) \in DOMAIN atoms'[s] /\ atoms'[s][Move(s, o)] = Kept(atoms[s][o])
           /\ \A p \in DOMAIN atoms'[s] : \E o \in Offsets(s) : ~Deleted(atoms[s][o]) /\ Move(s, o) = p
  BY Zenon DEF Moved
<1>2. atoms[s] \in Seq(Atom) /\ atoms'[s] = CleanDomain(atoms[s]).atoms
  BY <1>1
<1>. QED  BY <1>2, DomainCleaned DEF Move, Offsets

-----------------------------------------------------------------------------
(* Atoms that are added and defined *)

(* The atom b is a later state of a. *)
Lives(a, b) ==
  /\ b.name = a.name /\ b.uid = a.uid
  /\ a.defined => b.defined
  /\ a.fact => b.fact

(* Atoms are added at the end with the next uid. *)
Fresh(s, p) ==
  /\ Named(s, atoms'[s][p].name) = {}
  /\ p = Len(atoms[s]) + 1
  /\ atoms'[s][p].uid = uids + 1
  /\ uids' = uids + 1

(* No atom is lost or changes its identity; at most one is new. *)
Lasting ==
  /\ uids' \in Nat /\ uids <= uids'
  /\ atoms' \in [Signs -> Seq(Atom)]
  /\ \A s \in Signs :
       /\ \A o \in Offsets(s) : o \in DOMAIN atoms'[s] /\ Lives(atoms[s][o], atoms'[s][o])
       /\ \A p \in DOMAIN atoms'[s] : p \in Offsets(s) \/ Fresh(s, p)
  /\ \A s, t \in Signs : \A p \in DOMAIN atoms'[s], q \in DOMAIN atoms'[t] :
       p \notin Offsets(s) /\ q \notin Offsets(t) => s = t

(* Types of atoms, spelled out. *)
LEMMA AtomsTyped ==
  ASSUME Types
  PROVE  /\ atoms \in [Signs -> Seq(Atom)] /\ uids \in Nat
         /\ \A s \in Signs : /\ atoms[s] \in Seq(Atom) /\ Len(atoms[s]) \in Nat
                             /\ Offsets(s) = 1..Len(atoms[s])
                             /\ \A o \in Offsets(s) : atoms[s][o] \in Atom
BY DEF Types, TypeOK, Offsets

(* An atom is appended. *)
LEMMA AppendLasts ==
  ASSUME Types, NEW s \in Signs, NEW n, Named(s, n) = {}, NEW a \in Atom, a.name = n, a.uid = uids + 1,
         atoms' = [atoms EXCEPT ![s] = Append(@, a)], uids' = uids + 1
  PROVE  /\ Lasting
         /\ \A t \in Signs : \A p \in DOMAIN atoms'[t] :
              \/ p \in Offsets(t) /\ atoms'[t][p] = atoms[t][p]
              \/ t = s /\ p = Len(atoms[s]) + 1 /\ atoms'[t][p] = a
         /\ Len(atoms[s]) + 1 \in DOMAIN atoms'[s] /\ atoms'[s][Len(atoms[s]) + 1] = a
<1>1. /\ atoms \in [Signs -> Seq(Atom)] /\ uids \in Nat
      /\ \A t \in Signs : /\ atoms[t] \in Seq(Atom) /\ Len(atoms[t]) \in Nat
                          /\ Offsets(t) = 1..Len(atoms[t])
  BY AtomsTyped
<1>2. atoms'[s] = Append(atoms[s], a) /\ \A t \in Signs \ {s} : atoms'[t] = atoms[t]
  BY <1>1
<1>3. /\ atoms'[s] \in Seq(Atom) /\ Len(atoms[s]) \in Nat
      /\ DOMAIN atoms'[s] = 1..(Len(atoms[s]) + 1)
      /\ \A o \in 1..Len(atoms[s]) : atoms'[s][o] = atoms[s][o]
      /\ atoms'[s][Len(atoms[s]) + 1] = a
  BY <1>1, <1>2
<1>4. ASSUME NEW t \in Signs, NEW p \in DOMAIN atoms'[t]
      PROVE  \/ p \in Offsets(t) /\ atoms'[t][p] = atoms[t][p]
             \/ t = s /\ p = Len(atoms[s]) + 1 /\ atoms'[t][p] = a
  <2>1. CASE t = s
    <3>1. p \in 1..Len(atoms[s]) \/ p = Len(atoms[s]) + 1
      BY <1>3, <2>1
    <3>. QED  BY <1>1, <1>3, <2>1, <3>1
  <2>2. CASE t # s
    BY <1>2, <2>2 DEF Offsets
  <2>. QED  BY <2>1, <2>2
<1>5. atoms' \in [Signs -> Seq(Atom)]
  BY <1>1, <1>2, <1>3
<1>6. ASSUME NEW t \in Signs, NEW o \in Offsets(t)
      PROVE  o \in DOMAIN atoms'[t] /\ atoms'[t][o] = atoms[t][o]
  <2>1. CASE t = s
    <3>1. o \in 1..Len(atoms[s])
      BY <1>1, <2>1
    <3>. QED  BY <1>3, <2>1, <3>1
  <2>2. CASE t # s
    BY <1>2, <2>2 DEF Offsets
  <2>. QED  BY <2>1, <2>2
<1>7. \A t \in Signs : \A o \in Offsets(t) : o \in DOMAIN atoms'[t] /\ Lives(atoms[t][o], atoms'[t][o])
  BY <1>6, Zenon DEF Lives
<1>8. \A t \in Signs : \A p \in DOMAIN atoms'[t] : p \in Offsets(t) \/ (t = s /\ Fresh(t, p))
  BY <1>4, Zenon DEF Fresh
<1>9. uids' \in Nat /\ uids <= uids'
  BY <1>1
<1>10. Lasting
  BY <1>5, <1>7, <1>8, <1>9, Zenon DEF Lasting
<1>11. Len(atoms[s]) + 1 \in DOMAIN atoms'[s]
  BY <1>3
<1>. QED  BY <1>3, <1>4, <1>10, <1>11

(* No atom is added. *)
LEMMA UpdateLasts ==
  ASSUME Types, NEW S \in SUBSET Signs, UNCHANGED uids,
         atoms' \in [Signs -> Seq(Atom)],
         \A s \in Signs : /\ DOMAIN atoms'[s] = Offsets(s)
                          /\ \A o \in Offsets(s) : Lives(atoms[s][o], atoms'[s][o])
  PROVE  Lasting
<1>1. uids' \in Nat /\ uids <= uids'
  BY AtomsTyped
<1>. QED  BY <1>1, Zenon DEF Lasting

(* The uid of a name is that of its atom. *)
LEMMA NamedUid ==
  ASSUME Identities, NEW s \in Signs, NEW n, NEW o \in Named(s, n)
  PROVE  UidOf(s, n) = Uid(s, o)
<1>1. o \in Offsets(s) /\ atoms[s][o].name = n
  BY DEF Named
<1>2. \A p \in Named(s, n) : p = o
  BY <1>1 DEF Named, Identities, NamesApart
<1>3. {atoms[s][p] : p \in Named(s, n)} = {atoms[s][o]}
  BY <1>2
<1>4. (CHOOSE a \in {atoms[s][p] : p \in Named(s, n)} : TRUE) = atoms[s][o]
  BY <1>3
<1>5. Named(s, n) # {}
  OBVIOUS
<1>. QED  BY <1>4, <1>5, Zenon DEF UidOf, Uid

(* PredicateDomain::define and reserve add an atom with a new uid, or      *)
(* define the one that is there.                                           *)
LEMMA DefineLasts ==
  ASSUME Types, Identities, NEW s \in Signs, NEW n \in Names[s], NEW f \in BOOLEAN, DefineIn(s, n, f)
  PROVE  /\ Lasting
         /\ \E o \in DOMAIN atoms'[s] :
              /\ atoms'[s][o].name = n /\ atoms'[s][o].uid = UidOf(s, n) /\ atoms'[s][o].defined
              /\ f \/ (Named(s, n) = {} /\ ~atoms'[s][o].fact)
                   \/ (o \in Offsets(s) /\ (atoms'[s][o].fact => atoms[s][o].fact))
         /\ \A t \in Signs : \A p \in DOMAIN atoms'[t] :
              atoms'[t][p].fact => \/ p \in Offsets(t) /\ atoms[t][p].fact
                                   \/ f /\ atoms'[t][p].uid = UidOf(s, n)
         /\ \A t \in Signs : \A o \in Offsets(t) :
              atoms[t][o].uid # UidOf(s, n) => atoms'[t][o] = atoms[t][o]
<1>1. /\ atoms \in [Signs -> Seq(Atom)] /\ uids \in Nat
      /\ \A t \in Signs : /\ atoms[t] \in Seq(Atom) /\ Len(atoms[t]) \in Nat
                          /\ Offsets(t) = 1..Len(atoms[t])
                          /\ \A o \in Offsets(t) : atoms[t][o] \in Atom
  BY AtomsTyped
<1>2. CASE Named(s, n) = {}
  <2>8. PICK a : a = [NewAtom(n) EXCEPT !.defined = TRUE, !.fact = f]
    OBVIOUS
  <2>1. a = [name |-> n, defined |-> TRUE, fact |-> f, uid |-> uids + 1]
    BY <2>8 DEF NewAtom
  <2>2. a \in Atom /\ a.name = n /\ a.uid = uids + 1
    <3>1. n \in AllNames /\ uids + 1 \in Nat \ {0}
      BY <1>1 DEF AllNames
    <3>. QED  BY <2>1, <3>1 DEF Atom
  <2>9. a.defined /\ a.fact = f
    BY <2>1, Zenon
  <2>3. atoms' = [atoms EXCEPT ![s] = Append(@, a)] /\ uids' = uids + 1
    BY <1>2, <2>8, Zenon DEF DefineIn
  <2>4. UidOf(s, n) = uids + 1
    BY <1>2 DEF UidOf
  <2>5. /\ Lasting
        /\ \A t \in Signs : \A p \in DOMAIN atoms'[t] :
             \/ p \in Offsets(t) /\ atoms'[t][p] = atoms[t][p]
             \/ t = s /\ p = Len(atoms[s]) + 1 /\ atoms'[t][p] = a
        /\ Len(atoms[s]) + 1 \in DOMAIN atoms'[s] /\ atoms'[s][Len(atoms[s]) + 1] = a
    BY <1>2, <2>2, <2>3, AppendLasts
  <2>6. \A t \in Signs : \A o \in Offsets(t) : atoms'[t][o] = atoms[t][o]
    <3> SUFFICES ASSUME NEW t \in Signs, NEW o \in Offsets(t) PROVE atoms'[t][o] = atoms[t][o]
      OBVIOUS
    <3>1. o \in 1..Len(atoms[t]) /\ o # Len(atoms[t]) + 1
      BY <1>1
    <3>2. o \in DOMAIN atoms'[t]
      BY <2>5 DEF Lasting
    <3>. QED  BY <2>5, <3>1, <3>2
  <2>7. \A t \in Signs : \A p \in DOMAIN atoms'[t] :
              atoms'[t][p].fact => \/ p \in Offsets(t) /\ atoms[t][p].fact
                                   \/ f /\ atoms'[t][p].uid = UidOf(s, n)
    BY <2>2, <2>9, <2>4, <2>5, Zenon
  <2>10. \E o \in DOMAIN atoms'[s] :
              /\ atoms'[s][o].name = n /\ atoms'[s][o].uid = UidOf(s, n) /\ atoms'[s][o].defined
              /\ f \/ (Named(s, n) = {} /\ ~atoms'[s][o].fact)
                   \/ (o \in Offsets(s) /\ (atoms'[s][o].fact => atoms[s][o].fact))
    BY <1>2, <2>2, <2>9, <2>4, <2>5, Zenon
  <2>. QED  BY <2>5, <2>6, <2>7, <2>10
<1>3. CASE Named(s, n) # {}
  <2>1. PICK o \in Named(s, n) : TRUE
    BY <1>3
  <2>2. o \in Offsets(s) /\ UidOf(s, n) = atoms[s][o].uid /\ atoms[s][o].name = n
    BY NamedUid DEF Named, Uid
  <2>3. \A p \in Named(s, n) : p = o
    BY <2>2 DEF Named, Identities, NamesApart
  <2> DEFINE now(p) == [atoms[s][p] EXCEPT !.defined = TRUE, !.fact = @ \/ f]
  <2>4. UNCHANGED uids /\
        atoms' = [atoms EXCEPT ![s] = [p \in Offsets(s) |-> IF p \in Named(s, n) THEN now(p) ELSE atoms[s][p]]]
    BY <1>3, Zenon DEF DefineIn
  <2>5. /\ DOMAIN atoms'[s] = Offsets(s)
        /\ \A p \in Offsets(s) : atoms'[s][p] = IF p = o THEN now(o) ELSE atoms[s][p]
        /\ \A t \in Signs \ {s} : atoms'[t] = atoms[t]
    BY <1>1, <2>2, <2>3, <2>4
  <2>6. /\ now(o) \in Atom /\ now(o).name = n /\ now(o).uid = atoms[s][o].uid /\ now(o).defined
        /\ now(o).fact = (atoms[s][o].fact \/ f)
    BY <1>1, <2>2 DEF Atom
  <2> HIDE DEF now
  <2>7. atoms'[s] \in Seq(Atom)
    <3>1. \A p \in Offsets(s) : atoms'[s][p] \in Atom
      BY <1>1, <2>5, <2>6
    <3>2. atoms'[s] = [p \in Offsets(s) |-> IF p \in Named(s, n) THEN now(p) ELSE atoms[s][p]]
      BY <1>1, <2>4
    <3>3. atoms'[s] \in [Offsets(s) -> Atom]
      BY <3>1, <3>2
    <3>. QED  BY <1>1, <3>3
  <2>8. atoms' \in [Signs -> Seq(Atom)]
    BY <1>1, <2>4, <2>5, <2>7
  <2>9. \A t \in Signs : /\ DOMAIN atoms'[t] = Offsets(t)
                         /\ \A p \in Offsets(t) : atoms'[t][p] = IF t = s /\ p = o THEN now(o) ELSE atoms[t][p]
    BY <2>5, Zenon DEF Offsets
  <2>10. \A t \in Signs : \A p \in Offsets(t) : Lives(atoms[t][p], atoms'[t][p])
    BY <2>2, <2>6, <2>9 DEF Lives
  <2>11. Lasting
    BY <2>4, <2>8, <2>9, <2>10, UpdateLasts
  <2>12. \A t \in Signs : \A p \in DOMAIN atoms'[t] :
              atoms'[t][p].fact => \/ p \in Offsets(t) /\ atoms[t][p].fact
                                   \/ f /\ atoms'[t][p].uid = UidOf(s, n)
    BY <2>2, <2>6, <2>9
  <2>13. \A t \in Signs : \A p \in Offsets(t) :
              atoms[t][p].uid # UidOf(s, n) => atoms'[t][p] = atoms[t][p]
    BY <2>2, <2>9
  <2>14. /\ o \in DOMAIN atoms'[s] /\ atoms'[s][o] = now(o)
    BY <2>2, <2>9
  <2>15. now(o).fact => f \/ atoms[s][o].fact
    BY <2>6
  <2>16. \E p \in DOMAIN atoms'[s] :
              /\ atoms'[s][p].name = n /\ atoms'[s][p].uid = UidOf(s, n) /\ atoms'[s][p].defined
              /\ f \/ (Named(s, n) = {} /\ ~atoms'[s][p].fact)
                   \/ (p \in Offsets(s) /\ (atoms'[s][p].fact => atoms[s][p].fact))
    BY <2>2, <2>6, <2>14, <2>15, Zenon
  <2>. QED  BY <2>11, <2>12, <2>13, <2>16
<1>. QED  BY <1>2, <1>3

(* An atom is reserved. *)
LEMMA ReserveLasts ==
  ASSUME Types, NEW s \in Signs, NEW n \in Names[s], ReserveAtom(s, n)
  PROVE  /\ Lasting
         /\ \A t \in Signs : \A p \in DOMAIN atoms'[t] :
              atoms'[t][p].fact => p \in Offsets(t) /\ atoms[t][p].fact
<1>1. NewAtom(n) \in Atom /\ NewAtom(n).name = n /\ NewAtom(n).uid = uids + 1 /\ ~NewAtom(n).fact
  BY DEF NewAtom, Atom, AllNames, Types
<1>2. Named(s, n) = {} /\ atoms' = [atoms EXCEPT ![s] = Append(@, NewAtom(n))] /\ uids' = uids + 1
  BY DEF ReserveAtom
<1>3. /\ Lasting
      /\ \A t \in Signs : \A p \in DOMAIN atoms'[t] :
           \/ p \in Offsets(t) /\ atoms'[t][p] = atoms[t][p]
           \/ t = s /\ p = Len(atoms[s]) + 1 /\ atoms'[t][p] = NewAtom(n)
  BY <1>1, <1>2, AppendLasts
<1>. QED  BY <1>1, <1>3, Zenon

-----------------------------------------------------------------------------
(* Entries for the output table *)

(* The entry of an atom in the table, if it is due. *)
Due(s, now, o) == o > showOffset[s] /\ now[o].defined

(* NewEntries goes through the atoms one by one. *)
NextEntries(s, now, o, e) == IF Due(s, now, o) THEN Append(e, EntryOf(s, now[o])) ELSE e

EntriesTo(s, now, n, g) ==
  g = [o \in 0..n |-> IF o = 0 THEN <<>> ELSE NextEntries(s, now, o, g[o - 1])]

LEMMA EntriesOneMore ==
  ASSUME NEW s, NEW now, NEW m \in Nat, NEW g, EntriesTo(s, now, m, g)
  PROVE  \E h : EntriesTo(s, now, m + 1, h)
<1>1. \A k \in 0..m : g[k] = IF k = 0 THEN <<>> ELSE NextEntries(s, now, k, g[k - 1])
  BY DEF EntriesTo
<1>2. SUFFICES
        ASSUME NEW h,
               h = [k \in 0..(m + 1) |-> IF k = 0 THEN <<>> ELSE NextEntries(s, now, k, g[k - 1])]
        PROVE  EntriesTo(s, now, m + 1, h)
  OBVIOUS
<1>3. \A k \in 0..m : h[k] = g[k]
  <2>1. \A k \in 0..m : k \in 0..(m + 1)
    OBVIOUS
  <2>. QED  BY <1>1, <1>2, <2>1, Zenon
<1>4. ASSUME NEW k \in 0..(m + 1)
      PROVE  (IF k = 0 THEN <<>> ELSE NextEntries(s, now, k, g[k - 1]))
               = (IF k = 0 THEN <<>> ELSE NextEntries(s, now, k, h[k - 1]))
  <2>1. k # 0 => k - 1 \in 0..m
    OBVIOUS
  <2>2. k # 0 => g[k - 1] = h[k - 1]
    BY <1>3, <2>1
  <2>. QED  BY <2>2
<1>5. [k \in 0..(m + 1) |-> IF k = 0 THEN <<>> ELSE NextEntries(s, now, k, g[k - 1])]
        = [k \in 0..(m + 1) |-> IF k = 0 THEN <<>> ELSE NextEntries(s, now, k, h[k - 1])]
  BY <1>4, Zenon
<1>. QED  BY <1>2, <1>5, Zenon DEF EntriesTo

(* NewEntries is well defined. *)
LEMMA EntriesExist ==
  ASSUME NEW s, NEW now, NEW n \in Nat
  PROVE  \E g : EntriesTo(s, now, n, g)
<1> DEFINE S == {m \in Nat : \E g : EntriesTo(s, now, m, g)}
<1>1. 0 \in S
  <2>1. [k \in 0..0 |-> <<>>]
          = [k \in 0..0 |-> IF k = 0 THEN <<>> ELSE NextEntries(s, now, k, [j \in 0..0 |-> <<>>][k - 1])]
    OBVIOUS
  <2>2. EntriesTo(s, now, 0, [k \in 0..0 |-> <<>>])
    BY <2>1, Zenon DEF EntriesTo
  <2> QED BY <2>2
<1>2. ASSUME NEW m \in S PROVE m + 1 \in S
  <2>1. m \in Nat /\ m + 1 \in Nat
    OBVIOUS
  <2>2. PICK g : EntriesTo(s, now, m, g)
    OBVIOUS
  <2>3. \E h : EntriesTo(s, now, m + 1, h)
    BY <2>1, <2>2, EntriesOneMore
  <2>. QED  BY <2>1, <2>3
<1>3. S = Nat
  <2> HIDE DEF S
  <2>1. S \in SUBSET Nat
    BY DEF S
  <2> QED BY <1>1, <1>2, <2>1, CP!SetInduction
<1> QED BY <1>3

(* e has the entries for the atoms up to n that are due, each once. *)
EntriesFor(s, now, n, e) ==
  /\ e \in Seq(Entry)
  /\ \A k \in DOMAIN e : \E o \in 1..n : Due(s, now, o) /\ e[k] = EntryOf(s, now[o])
  /\ \A o \in 1..n : Due(s, now, o) => \E k \in DOMAIN e : e[k] = EntryOf(s, now[o])
  /\ \A k, l \in DOMAIN e : e[k].name = e[l].name => k = l

(* The entry of an atom. *)
LEMMA EntryFacts ==
  ASSUME NEW s \in Signs, NEW a \in Atom
  PROVE  /\ EntryOf(s, a) \in Entry
         /\ EntryOf(s, a).sign = s /\ EntryOf(s, a).name = a.name
         /\ EntryOf(s, a).uid = IF a.fact THEN 0 ELSE a.uid
BY DEF EntryOf, Entry, Atom

(* One atom more. *)
LEMMA EntriesGoOn ==
  ASSUME NEW s \in Signs, NEW now \in Seq(Atom), NEW n \in Nat, n < Len(now), NEW e,
         \A o, p \in DOMAIN now : now[o].name = now[p].name => o = p,
         EntriesFor(s, now, n, e)
  PROVE  EntriesFor(s, now, n + 1, NextEntries(s, now, n + 1, e))
<1>1. /\ e \in Seq(Entry)
      /\ \A k \in DOMAIN e : \E o \in 1..n : Due(s, now, o) /\ e[k] = EntryOf(s, now[o])
      /\ \A o \in 1..n : Due(s, now, o) => \E k \in DOMAIN e : e[k] = EntryOf(s, now[o])
      /\ \A k, l \in DOMAIN e : e[k].name = e[l].name => k = l
  BY DEF EntriesFor
<1>2. /\ Len(now) \in Nat /\ DOMAIN now = 1..Len(now) /\ n + 1 \in DOMAIN now
      /\ \A o \in DOMAIN now : now[o] \in Atom
      /\ \A o \in 1..(n + 1) : o \in 1..n \/ o = n + 1
      /\ \A o \in 1..n : o \in 1..(n + 1) /\ o \in DOMAIN now /\ o # n + 1
      /\ n + 1 \in 1..(n + 1)
  OBVIOUS
<1>3. CASE ~Due(s, now, n + 1)
  <2>1. NextEntries(s, now, n + 1, e) = e
    BY <1>3, Zenon DEF NextEntries
  <2>2. \A k \in DOMAIN e : \E o \in 1..(n + 1) : Due(s, now, o) /\ e[k] = EntryOf(s, now[o])
    BY <1>1, <1>2, Zenon
  <2>3. \A o \in 1..(n + 1) : Due(s, now, o) => \E k \in DOMAIN e : e[k] = EntryOf(s, now[o])
    BY <1>1, <1>2, <1>3, Zenon
  <2>4. EntriesFor(s, now, n + 1, e)
    BY <1>1, <2>2, <2>3, Zenon DEF EntriesFor
  <2>. QED  BY <2>1, <2>4, Zenon
<1>4. CASE Due(s, now, n + 1)
  <2>1. PICK a : a = EntryOf(s, now[n + 1])
    OBVIOUS
  <2>2. PICK f : f = NextEntries(s, now, n + 1, e)
    OBVIOUS
  <2>3. f = Append(e, a)
    BY <1>4, <2>1, <2>2, Zenon DEF NextEntries
  <2>4. a \in Entry /\ a.name = now[n + 1].name
    BY <1>2, <2>1, EntryFacts
  <2>5. /\ f \in Seq(Entry) /\ Len(e) \in Nat
        /\ DOMAIN e = 1..Len(e) /\ DOMAIN f = 1..(Len(e) + 1)
        /\ f[Len(e) + 1] = a /\ \A k \in DOMAIN e : f[k] = e[k]
    BY <1>1, <2>3, <2>4
  <2>6. /\ \A k \in DOMAIN f : k \in DOMAIN e \/ k = Len(e) + 1
        /\ \A k \in DOMAIN e : k \in DOMAIN f
        /\ Len(e) + 1 \in DOMAIN f
    BY <2>5
  <2>7. \A k \in DOMAIN f : \E o \in 1..(n + 1) : Due(s, now, o) /\ f[k] = EntryOf(s, now[o])
    <3> SUFFICES ASSUME NEW k \in DOMAIN f
                 PROVE  \E o \in 1..(n + 1) : Due(s, now, o) /\ f[k] = EntryOf(s, now[o])
      OBVIOUS
    <3>1. CASE k \in DOMAIN e
      <4>1. PICK o \in 1..n : Due(s, now, o) /\ e[k] = EntryOf(s, now[o])
        BY <1>1, <3>1, Zenon
      <4>. QED  BY <1>2, <2>5, <3>1, <4>1, Zenon
    <3>2. CASE k = Len(e) + 1
      BY <1>2, <1>4, <2>1, <2>5, <3>2, Zenon
    <3>. QED  BY <2>6, <3>1, <3>2
  <2>8. \A o \in 1..(n + 1) : Due(s, now, o) => \E k \in DOMAIN f : f[k] = EntryOf(s, now[o])
    <3> SUFFICES ASSUME NEW o \in 1..(n + 1), Due(s, now, o)
                 PROVE  \E k \in DOMAIN f : f[k] = EntryOf(s, now[o])
      OBVIOUS
    <3>1. CASE o \in 1..n
      <4>1. PICK k \in DOMAIN e : e[k] = EntryOf(s, now[o])
        BY <1>1, <3>1, Zenon
      <4>. QED  BY <2>5, <2>6, <4>1, Zenon
    <3>2. CASE o = n + 1
      BY <2>1, <2>5, <2>6, <3>2, Zenon
    <3>. QED  BY <1>2, <3>1, <3>2
  <2>9. \A k \in DOMAIN e : e[k].name # a.name
    <3> SUFFICES ASSUME NEW k \in DOMAIN e PROVE e[k].name # a.name
      OBVIOUS
    <3>1. PICK o \in 1..n : e[k] = EntryOf(s, now[o])
      BY <1>1, Zenon
    <3>2. e[k].name = now[o].name /\ o \in DOMAIN now /\ o # n + 1
      BY <1>2, <3>1, EntryFacts
    <3>. QED  BY <1>2, <2>4, <3>2, Zenon
  <2>10. \A k, l \in DOMAIN f : f[k].name = f[l].name => k = l
    BY <1>1, <2>5, <2>6, <2>9, Zenon
  <2>11. EntriesFor(s, now, n + 1, f)
    BY <2>5, <2>7, <2>8, <2>10, Zenon DEF EntriesFor
  <2>. QED  BY <2>2, <2>11, Zenon
<1>. QED  BY <1>3, <1>4

(* Exactly the atoms that are due have an entry, and only one each. *)
LEMMA NewEntriesExact ==
  ASSUME NEW s \in Signs, NEW now \in Seq(Atom),
         \A o, p \in DOMAIN now : now[o].name = now[p].name => o = p
  PROVE  EntriesFor(s, now, Len(now), NewEntries(s, now))
<1>1. Len(now) \in Nat
  OBVIOUS
<1> DEFINE g == CHOOSE g : EntriesTo(s, now, Len(now), g)
<1>2. EntriesTo(s, now, Len(now), g)
  BY <1>1, EntriesExist, Zenon
<1>3. NewEntries(s, now) = g[Len(now)]
  BY Zenon DEF NewEntries, EntriesTo, NextEntries, Due
<1> HIDE DEF g
<1>4. g[0] = <<>> /\ \A k \in Nat : k < Len(now) => g[k + 1] = NextEntries(s, now, k + 1, g[k])
  <2>1. \A k \in 0..Len(now) : g[k] = IF k = 0 THEN <<>> ELSE NextEntries(s, now, k, g[k - 1])
    BY <1>2 DEF EntriesTo
  <2>2. 0 \in 0..Len(now)
    BY <1>1
  <2>3. ASSUME NEW k \in Nat, k < Len(now) PROVE g[k + 1] = NextEntries(s, now, k + 1, g[k])
    <3>1. k + 1 \in 0..Len(now) /\ k + 1 # 0 /\ (k + 1) - 1 = k
      BY <1>1, <2>3
    <3>. QED  BY <2>1, <3>1
  <2>. QED  BY <2>1, <2>2, <2>3
<1> DEFINE S == {k \in Nat : k <= Len(now) => EntriesFor(s, now, k, g[k])}
<1>5. 0 \in S
  <2>1. <<>> \in Seq(Entry) /\ DOMAIN <<>> = {} /\ 1..0 = {}
    OBVIOUS
  <2>2. EntriesFor(s, now, 0, <<>>)
    BY <2>1, Zenon DEF EntriesFor
  <2>. QED  BY <1>4, <2>2
<1>6. ASSUME NEW k \in S PROVE k + 1 \in S
  <2>1. k \in Nat /\ k + 1 \in Nat
    OBVIOUS
  <2>2. ASSUME k + 1 <= Len(now) PROVE EntriesFor(s, now, k + 1, g[k + 1])
    <3>1. k < Len(now) /\ k <= Len(now)
      BY <1>1, <2>1, <2>2
    <3>2. EntriesFor(s, now, k, g[k])
      BY <3>1
    <3>3. EntriesFor(s, now, k + 1, NextEntries(s, now, k + 1, g[k]))
      BY <2>1, <3>1, <3>2, EntriesGoOn
    <3>. QED  BY <1>4, <2>1, <3>1, <3>3
  <2>. QED  BY <2>1, <2>2
<1>7. S = Nat
  <2> HIDE DEF S
  <2>1. S \in SUBSET Nat
    BY DEF S
  <2> QED BY <1>5, <1>6, <2>1, CP!SetInduction
<1>8. EntriesFor(s, now, Len(now), g[Len(now)])
  BY <1>1, <1>7
<1>. QED  BY <1>3, <1>8, Zenon

-----------------------------------------------------------------------------
(* The kinds of calls, and tuples in a cleanup *)

(* A call of the control object: assignExternal for any symbol included. *)
CallStep == Next \/ \E i, r : AssignQuery(i, r)

(* Calls that add or define atoms, that add rules, and that search. *)
Growth(s, n) ==
  ReserveAtom(s, n) \/ DeclareExternal(s, n) \/ AddAtom(s, n) \/ \E f \in BOOLEAN : DefineAtom(s, n, f)

BackendCall(u) == AddExternal(u) \/ \E f \in BOOLEAN : AddRule(u, f)

Search(s) == AskForChoice(s) \/ UpdateIndices(s)

(* Every call is of one of these kinds. *)
LEMMA Kinds ==
  ASSUME Types, CallStep
  PROVE  \/ Refresh
         \/ \E s \in Signs : \E n \in Names[s] : Growth(s, n)
         \/ EndGround
         \/ EndAddBackend
         \/ Solve
         \/ \E s \in Signs : \E o \in Defined(s) : BackendCall(Uid(s, o))
         \/ \E s \in Signs : \E o \in Offsets(s) : AddTuple(s, o)
         \/ \E s \in Signs : Search(s)
         \/ \E b \in Bounds.cleanupModes : SetEnableCleanup(b)
<1>1. Bounds.asked \subseteq Signs
  BY ScenariosAssumption DEF Types, Bounds, Signs
<1>2. CASE \E i, r : AssignQuery(i, r)
  BY <1>2, Refreshes
<1>3. CASE BeginGround \/ RefuseGround \/ BeginAddBackend \/ CallCleanup \/ \E u \in frozen : ReleaseExternal(u)
  BY <1>3, Refreshes
<1>4. CASE \E s \in Signs : \E n \in Names[s] :
             ReserveAtom(s, n) \/ DeclareExternal(s, n) \/ AddAtom(s, n) \/ \E f \in BOOLEAN : DefineAtom(s, n, f)
  BY <1>4, Zenon DEF Growth
<1>5. CASE \E s \in Bounds.asked : AskForChoice(s) \/ UpdateIndices(s)
  BY <1>1, <1>5 DEF Search
<1>6. CASE \E s \in Signs : \E o \in Defined(s) :
             AddExternal(Uid(s, o)) \/ \E f \in BOOLEAN : AddRule(Uid(s, o), f)
  BY <1>6, Zenon DEF BackendCall
<1>7. CASE \/ EndGround \/ EndAddBackend \/ Solve
           \/ \E s \in Signs : \E o \in Offsets(s) : AddTuple(s, o)
           \/ \E b \in Bounds.cleanupModes : SetEnableCleanup(b)
  BY <1>7
<1>. QED  BY <1>2, <1>3, <1>4, <1>5, <1>6, <1>7, Zenon DEF CallStep, Next, Uid

(* A literal of a tuple follows its atom to its new offset. *)
LEMMA TuplesSimplified ==
  ASSUME Types, CleanupData, NEW t \in tuples'
  PROVE  \E u \in tuples :
           /\ t = [sign |-> u.sign, name |-> u.name, uid |-> u.uid, offset |-> t.offset]
           /\ t.sign = u.sign /\ t.name = u.name /\ t.uid = u.uid
           /\ \/ t.offset = 0 /\ u.offset = 0
              \/ t.offset = 0 /\ u.offset # 0 /\ Move(u.sign, u.offset) # 0
                 /\ Truth(atoms'[u.sign][Move(u.sign, u.offset)].uid) = "true"
              \/ u.offset # 0 /\ t.offset = Move(u.sign, u.offset) /\ t.offset # 0
<1> DEFINE cleaned == [s \in Signs |-> CleanDomain(atoms[s])]
           Offset(u) == GetMapping(cleaned[u.sign].map, u.offset)
           Value(u) == Truth(cleaned[u.sign].atoms[Offset(u)].uid)
<1>1. /\ atoms' = [s \in Signs |-> cleaned[s].atoms]
      /\ tuples' = SimplifyTuples(cleaned)
  BY Zenon DEF CleanupData
<1>2. t \in      {u \in tuples : u.offset = 0}
          \union {[u EXCEPT !.offset = 0] :
                    u \in {v \in tuples : v.offset # 0 /\ Offset(v) # 0 /\ Value(v) = "true"}}
          \union {[u EXCEPT !.offset = Offset(u)] :
                    u \in {v \in tuples : v.offset # 0 /\ Offset(v) # 0 /\ Value(v) = "free"}}
  BY <1>1, Zenon DEF SimplifyTuples
<1>3. \A u \in tuples : /\ u \in Tuple /\ u.sign \in Signs
                        /\ u = [sign |-> u.sign, name |-> u.name, uid |-> u.uid, offset |-> u.offset]
  BY DEF Types, TypeOK, Tuple
<1>4. \A u \in tuples : Offset(u) = Move(u.sign, u.offset)
  BY <1>3, Zenon DEF Move
<1>5. \A u \in tuples : Value(u) = Truth(atoms'[u.sign][Offset(u)].uid)
  BY <1>1, <1>3, Zenon
<1> HIDE DEF cleaned, Offset, Value
<1>6. CASE t \in {u \in tuples : u.offset = 0}
  BY <1>3, <1>6, Zenon
<1>7. ASSUME NEW u \in tuples, u.offset # 0, Offset(u) # 0, Value(u) = "true", t = [u EXCEPT !.offset = 0]
      PROVE  /\ t = [sign |-> u.sign, name |-> u.name, uid |-> u.uid, offset |-> t.offset]
             /\ t.sign = u.sign /\ t.name = u.name /\ t.uid = u.uid /\ t.offset = 0
             /\ u.offset # 0 /\ Move(u.sign, u.offset) # 0
             /\ Truth(atoms'[u.sign][Move(u.sign, u.offset)].uid) = "true"
  <2>1. t.sign = u.sign /\ t.name = u.name /\ t.uid = u.uid /\ t.offset = 0
    BY <1>3, <1>7
  <2>2. t = [sign |-> u.sign, name |-> u.name, uid |-> u.uid, offset |-> t.offset]
    BY <1>3, <1>7
  <2>. QED  BY <1>4, <1>5, <1>7, <2>1, <2>2, Zenon
<1>8. ASSUME NEW u \in tuples, u.offset # 0, Offset(u) # 0, t = [u EXCEPT !.offset = Offset(u)]
      PROVE  /\ t = [sign |-> u.sign, name |-> u.name, uid |-> u.uid, offset |-> t.offset]
             /\ t.sign = u.sign /\ t.name = u.name /\ t.uid = u.uid
             /\ u.offset # 0 /\ t.offset = Move(u.sign, u.offset) /\ t.offset # 0
  <2>1. t.sign = u.sign /\ t.name = u.name /\ t.uid = u.uid /\ t.offset = Offset(u)
    BY <1>3, <1>8
  <2>2. t = [sign |-> u.sign, name |-> u.name, uid |-> u.uid, offset |-> t.offset]
    BY <1>3, <1>8
  <2>. QED  BY <1>4, <1>8, <2>1, <2>2, Zenon
<1>. QED  BY <1>2, <1>6, <1>7, <1>8

(* No literal of an atom that is not false is removed. *)
LEMMA TuplesStay ==
  ASSUME Types, CleanupData, NEW u \in tuples
  PROVE  /\ u.offset = 0 => \E t \in tuples' : t.uid = u.uid
         /\ Move(u.sign, u.offset) # 0
              => (Truth(atoms'[u.sign][Move(u.sign, u.offset)].uid) \in {"true", "free"}
                    => \E t \in tuples' : t.uid = u.uid)
<1> DEFINE cleaned == [s \in Signs |-> CleanDomain(atoms[s])]
           Offset(v) == GetMapping(cleaned[v.sign].map, v.offset)
           Value(v) == Truth(cleaned[v.sign].atoms[Offset(v)].uid)
<1>1. /\ atoms' = [s \in Signs |-> cleaned[s].atoms]
      /\ tuples' = SimplifyTuples(cleaned)
  BY Zenon DEF CleanupData
<1>2. tuples' = {v \in tuples : v.offset = 0}
          \union {[v EXCEPT !.offset = 0] :
                    v \in {w \in tuples : w.offset # 0 /\ Offset(w) # 0 /\ Value(w) = "true"}}
          \union {[v EXCEPT !.offset = Offset(v)] :
                    v \in {w \in tuples : w.offset # 0 /\ Offset(w) # 0 /\ Value(w) = "free"}}
  BY <1>1, Zenon DEF SimplifyTuples
<1>3. /\ u \in Tuple /\ u.sign \in Signs
      /\ u = [sign |-> u.sign, name |-> u.name, uid |-> u.uid, offset |-> u.offset]
  BY DEF Types, TypeOK, Tuple
<1>4. Offset(u) = Move(u.sign, u.offset) /\ Value(u) = Truth(atoms'[u.sign][Offset(u)].uid)
  BY <1>1, <1>3, Zenon DEF Move
<1> HIDE DEF cleaned, Offset, Value
<1>5. [u EXCEPT !.offset = 0].uid = u.uid /\ [u EXCEPT !.offset = Offset(u)].uid = u.uid
  BY <1>3
<1> DEFINE Stays == \E t \in tuples' : t.uid = u.uid
<1>6. u.offset = 0 => Stays
  BY <1>2
<1>7. ASSUME u.offset # 0, Offset(u) # 0, Value(u) = "true" PROVE Stays
  <2>1. [u EXCEPT !.offset = 0] \in tuples'
    BY <1>2, <1>7, Zenon
  <2>. QED  BY <1>5, <2>1, Zenon
<1>8. ASSUME u.offset # 0, Offset(u) # 0, Value(u) = "free" PROVE Stays
  <2>1. [u EXCEPT !.offset = Offset(u)] \in tuples'
    BY <1>2, <1>8, Zenon
  <2>. QED  BY <1>5, <2>1, Zenon
<1>. QED  BY <1>4, <1>6, <1>7, <1>8, Zenon

-----------------------------------------------------------------------------
(* Names and uids stay apart *)

(* Each atom that is left is one from before, which was defined. *)
LEMMA MovedFrom ==
  ASSUME Types, Moved, NEW s \in Signs, NEW p \in DOMAIN atoms'[s]
  PROVE  \E o \in Offsets(s) :
           /\ ~Deleted(atoms[s][o]) /\ Move(s, o) = p
           /\ atoms[s][o] \in Atom /\ atoms'[s][p] = Kept(atoms[s][o])
           /\ Lives(atoms[s][o], atoms'[s][p]) /\ atoms[s][o].defined /\ atoms'[s][p].defined
<1>1. PICK o \in Offsets(s) : ~Deleted(atoms[s][o]) /\ Move(s, o) = p
  BY DEF Moved
<1>2. atoms'[s][p] = Kept(atoms[s][o])
  BY <1>1 DEF Moved
<1>3. atoms[s][o] \in Atom
  BY AtomsTyped
<1>4. Lives(atoms[s][o], atoms'[s][p]) /\ atoms'[s][p].defined = atoms[s][o].defined
  BY <1>2, <1>3, KeptSame DEF Lives
<1>5. atoms[s][o].defined
  BY <1>1 DEF Deleted
<1>. QED  BY <1>1, <1>2, <1>3, <1>4, <1>5

(* A cleanup keeps names and uids apart. *)
LEMMA MovedIdentities ==
  ASSUME Types, Identities, Moved, UNCHANGED uids
  PROVE  Identities'
<1>1. \A s \in Signs : \A p \in DOMAIN atoms'[s] :
        \E o \in Offsets(s) : Move(s, o) = p /\ atoms'[s][p].uid = Uid(s, o) /\ atoms'[s][p].name = atoms[s][o].name
  BY MovedFrom DEF Lives, Uid
<1>2. UidsBounded'
  <2> SUFFICES ASSUME NEW s \in Signs, NEW p \in DOMAIN atoms'[s]
               PROVE  atoms'[s][p].uid <= uids
    BY DEF UidsBounded, Uid, Offsets
  <2>. QED  BY <1>1 DEF Identities, UidsBounded
<1>3. UidsApart'
  <2> SUFFICES ASSUME NEW s \in Signs, NEW t \in Signs, NEW p \in DOMAIN atoms'[s], NEW q \in DOMAIN atoms'[t],
                      atoms'[s][p].uid = atoms'[t][q].uid
               PROVE  s = t /\ p = q
    BY DEF UidsApart, Uid, Offsets
  <2>1. PICK o \in Offsets(s) : Move(s, o) = p /\ atoms'[s][p].uid = Uid(s, o)
    BY <1>1
  <2>2. PICK r \in Offsets(t) : Move(t, r) = q /\ atoms'[t][q].uid = Uid(t, r)
    BY <1>1
  <2>3. s = t /\ o = r
    BY <2>1, <2>2, Zenon DEF Identities, UidsApart
  <2>. QED  BY <2>1, <2>2, <2>3
<1>4. NamesApart'
  <2> SUFFICES ASSUME NEW s \in Signs, NEW p \in DOMAIN atoms'[s], NEW q \in DOMAIN atoms'[s],
                      atoms'[s][p].name = atoms'[s][q].name
               PROVE  p = q
    BY DEF NamesApart, Offsets
  <2>1. PICK o \in Offsets(s) : Move(s, o) = p /\ atoms'[s][p].name = atoms[s][o].name
    BY <1>1
  <2>2. PICK r \in Offsets(s) : Move(s, r) = q /\ atoms'[s][q].name = atoms[s][r].name
    BY <1>1
  <2>3. o = r
    BY <2>1, <2>2, Zenon DEF Identities, NamesApart
  <2>. QED  BY <2>1, <2>2, <2>3
<1>. QED  BY <1>2, <1>3, <1>4 DEF Identities

(* So does a new atom. *)
LEMMA LastingIdentities ==
  ASSUME Types, Identities, Lasting
  PROVE  Identities'
<1>1. uids \in Nat /\ uids' \in Nat /\ uids <= uids'
  BY AtomsTyped DEF Lasting
<1>2. \A s \in Signs : \A o \in Offsets(s) : Uid(s, o) \in Nat /\ Uid(s, o) <= uids
  BY AtomsTyped DEF Uid, Atom, Identities, UidsBounded
<1>3. ASSUME NEW s \in Signs, NEW p \in DOMAIN atoms'[s]
      PROVE  \/ p \in Offsets(s) /\ atoms'[s][p].uid = Uid(s, p) /\ atoms'[s][p].name = atoms[s][p].name
             \/ p \notin Offsets(s) /\ Fresh(s, p)
  BY DEF Lasting, Lives, Uid
<1>4. UidsBounded'
  <2> SUFFICES ASSUME NEW s \in Signs, NEW p \in DOMAIN atoms'[s]
               PROVE  atoms'[s][p].uid <= uids'
    BY DEF UidsBounded, Uid, Offsets
  <2>1. CASE p \in Offsets(s) /\ atoms'[s][p].uid = Uid(s, p)
    BY <1>1, <1>2, <2>1
  <2>2. CASE Fresh(s, p)
    BY <1>1, <2>2 DEF Fresh
  <2>. QED  BY <1>3, <2>1, <2>2
<1>5. UidsApart'
  <2> SUFFICES ASSUME NEW s \in Signs, NEW t \in Signs, NEW p \in DOMAIN atoms'[s], NEW q \in DOMAIN atoms'[t],
                      atoms'[s][p].uid = atoms'[t][q].uid
               PROVE  s = t /\ p = q
    BY DEF UidsApart, Uid, Offsets
  <2>1. CASE p \in Offsets(s) /\ q \in Offsets(t)
    BY <1>3, <2>1 DEF Identities, UidsApart
  <2>2. CASE p \in Offsets(s) /\ q \notin Offsets(t)
    BY <1>1, <1>2, <1>3, <2>2 DEF Fresh
  <2>3. CASE p \notin Offsets(s) /\ q \in Offsets(t)
    BY <1>1, <1>2, <1>3, <2>3 DEF Fresh
  <2>4. CASE p \notin Offsets(s) /\ q \notin Offsets(t)
    <3>1. s = t
      BY <2>4 DEF Lasting
    <3>. QED  BY <1>3, <2>4, <3>1 DEF Fresh
  <2>. QED  BY <2>1, <2>2, <2>3, <2>4
<1>6. NamesApart'
  <2> SUFFICES ASSUME NEW s \in Signs, NEW p \in DOMAIN atoms'[s], NEW q \in DOMAIN atoms'[s],
                      atoms'[s][p].name = atoms'[s][q].name
               PROVE  p = q
    BY DEF NamesApart, Offsets
  <2>1. CASE p \in Offsets(s) /\ q \in Offsets(s)
    BY <1>3, <2>1 DEF Identities, NamesApart
  <2>2. CASE p \in Offsets(s) /\ q \notin Offsets(s)
    BY <1>3, <2>2 DEF Fresh, Named
  <2>3. CASE p \notin Offsets(s) /\ q \in Offsets(s)
    BY <1>3, <2>3 DEF Fresh, Named
  <2>4. CASE p \notin Offsets(s) /\ q \notin Offsets(s)
    BY <1>3, <2>4 DEF Fresh
  <2>. QED  BY <2>1, <2>2, <2>3, <2>4
<1>. QED  BY <1>4, <1>5, <1>6 DEF Identities

(* endGround and endAddBackend: atoms may become facts. *)
LEMMA OutputLasts ==
  ASSUME Types, EndGround \/ EndAddBackend
  PROVE  /\ Lasting /\ UNCHANGED uids /\ OutputGround
         /\ \A s \in Signs : DOMAIN atoms'[s] = Offsets(s)
         /\ \A s \in Signs : \A o \in Offsets(s) :
              atoms'[s][o].fact => atoms[s][o].fact \/ Uid(s, o) \in addedFacts
<1>1. OutputGround /\ UNCHANGED uids
  BY DEF EndGround, EndAddBackend, OutputGround
<1>2. /\ atoms \in [Signs -> Seq(Atom)] /\ uids \in Nat
      /\ \A s \in Signs : /\ atoms[s] \in Seq(Atom) /\ Len(atoms[s]) \in Nat
                          /\ Offsets(s) = 1..Len(atoms[s])
                          /\ \A o \in Offsets(s) : atoms[s][o] \in Atom
  BY AtomsTyped
<1>3. CASE EndGround
  <2>1. atoms' = atoms
    BY <1>3 DEF EndGround
  <2>2. \A s \in Signs : /\ DOMAIN atoms'[s] = Offsets(s)
                         /\ \A o \in Offsets(s) : Lives(atoms[s][o], atoms'[s][o])
    BY <2>1, Zenon DEF Offsets, Lives
  <2>3. Lasting
    BY <1>1, <1>2, <2>1, <2>2, UpdateLasts
  <2>. QED  BY <1>1, <2>1, <2>2, <2>3
<1>4. CASE EndAddBackend
  <2> DEFINE now(s, o) == [atoms[s][o] EXCEPT !.fact = @ \/ atoms[s][o].uid \in FactsOfSession]
  <2>1. atoms' = [s \in Signs |-> [o \in Offsets(s) |-> now(s, o)]]
    BY <1>4, Zenon DEF EndAddBackend
  <2>2. ASSUME NEW s \in Signs, NEW o \in Offsets(s)
        PROVE  /\ now(s, o) \in Atom /\ Lives(atoms[s][o], now(s, o))
               /\ now(s, o).fact => atoms[s][o].fact \/ Uid(s, o) \in FactsOfSession
    <3>1. atoms[s][o] \in Atom
      BY <1>2
    <3>2. PICK f \in BOOLEAN : f = (atoms[s][o].fact \/ atoms[s][o].uid \in FactsOfSession)
      OBVIOUS
    <3>3. PICK a : a = now(s, o)
      OBVIOUS
    <3>4. a = [atoms[s][o] EXCEPT !.fact = f]
      BY <3>2, <3>3, Zenon
    <3>5. a \in Atom /\ a.name = atoms[s][o].name /\ a.uid = atoms[s][o].uid /\ a.defined = atoms[s][o].defined
      BY <3>1, <3>4 DEF Atom
    <3>6. a.fact = f
      BY <3>1, <3>4 DEF Atom
    <3>7. atoms[s][o].fact => f
      BY <3>2
    <3>8. f => atoms[s][o].fact \/ Uid(s, o) \in FactsOfSession
      BY <3>2 DEF Uid
    <3>. QED  BY <3>3, <3>5, <3>6, <3>7, <3>8, Zenon DEF Lives
  <2> HIDE DEF now
  <2>3. \A s \in Signs : DOMAIN atoms'[s] = Offsets(s) /\ \A o \in Offsets(s) : atoms'[s][o] = now(s, o)
    BY <2>1
  <2>4. \A s \in Signs : atoms'[s] \in Seq(Atom)
    <3> SUFFICES ASSUME NEW s \in Signs PROVE atoms'[s] \in Seq(Atom)
      OBVIOUS
    <3>1. atoms'[s] = [o \in Offsets(s) |-> now(s, o)]
      BY <2>1
    <3>2. \A o \in Offsets(s) : now(s, o) \in Atom
      BY <2>2
    <3>3. atoms'[s] \in [Offsets(s) -> Atom]
      BY <3>1, <3>2
    <3>. QED  BY <1>2, <3>3
  <2>5. atoms' \in [Signs -> Seq(Atom)]
    BY <2>1, <2>4
  <2>6. \A s \in Signs : /\ DOMAIN atoms'[s] = Offsets(s)
                         /\ \A o \in Offsets(s) : Lives(atoms[s][o], atoms'[s][o])
    BY <2>2, <2>3, Zenon
  <2>7. Lasting
    BY <1>1, <2>5, <2>6, UpdateLasts
  <2>8. FactsOfSession \subseteq addedFacts
    BY DEF FactsOfSession
  <2>9. \A s \in Signs : \A o \in Offsets(s) :
          atoms'[s][o].fact => atoms[s][o].fact \/ Uid(s, o) \in addedFacts
    BY <2>2, <2>3, <2>8, Zenon
  <2>. QED  BY <1>1, <2>6, <2>7, <2>9
<1>. QED  BY <1>3, <1>4

-----------------------------------------------------------------------------
(* Types *)

(* The types depend on the scenario only. *)
LEMMA SameTypes ==
  ASSUME UNCHANGED scenario
  PROVE  /\ AllNames' = AllNames /\ Atom' = Atom /\ Tuple' = Tuple /\ Entry' = Entry
         /\ Bounds' = Bounds /\ (CleanSteps' <=> CleanSteps)
BY DEF AllNames, Atom, Tuple, Entry, Names, Bounds, CleanSteps

(* What ground calls and sessions do when they reserve or define an atom.  *)
LEMMA GrowthFacts ==
  ASSUME Types, Identities, NEW s \in Signs, NEW n \in Names[s], Growth(s, n)
  PROVE  /\ Lasting /\ Identities'
         /\ pc \in {"ground", "backend"}
         /\ UNCHANGED <<control, incOffset, showOffset, choiceIndex, tuples, steps, constraints,
                        table, solver, addedFacts, bounds>>
         /\ heads \subseteq heads'
         /\ heads' \union frozen' \subseteq heads \union frozen \union 1..uids'
         /\ addedAtoms' \subseteq addedAtoms \union {<<s, n>>}
<1>1. CASE ReserveAtom(s, n)
  <2>1. Lasting
    BY <1>1, ReserveLasts
  <2>. QED  BY <1>1, <2>1, LastingIdentities DEF ReserveAtom, backend, session
<1>2. ASSUME NEW f \in BOOLEAN, DefineIn(s, n, f)
      PROVE  Lasting /\ Identities' /\ UidOf(s, n) \in 1..uids'
  <2>1. Lasting
    BY <1>2, DefineLasts
  <2>2. PICK o \in DOMAIN atoms'[s] : atoms'[s][o].uid = UidOf(s, n)
    BY <1>2, DefineLasts
  <2>3. Identities'
    BY <2>1, LastingIdentities
  <2>4. atoms'[s] \in Seq(Atom) /\ uids' \in Nat
    BY <2>1 DEF Lasting
  <2>5. atoms'[s][o].uid \in Nat \ {0}
    <3>1. atoms'[s][o] \in Atom
      BY <2>4
    <3>. QED  BY <3>1 DEF Atom
  <2>6. atoms'[s][o].uid <= uids'
    BY <2>3 DEF Identities, UidsBounded, Uid, Offsets
  <2>. QED  BY <2>1, <2>2, <2>3, <2>4, <2>5, <2>6
<1>3. CASE DeclareExternal(s, n)
  <2>1. Lasting /\ Identities' /\ UidOf(s, n) \in 1..uids'
    BY <1>2, <1>3 DEF DeclareExternal
  <2>. QED  BY <1>3, <2>1 DEF DeclareExternal, session
<1>4. CASE \E f \in BOOLEAN : DefineAtom(s, n, f)
  <2>1. PICK f \in BOOLEAN : DefineAtom(s, n, f)
    BY <1>4
  <2>2. Lasting /\ Identities' /\ UidOf(s, n) \in 1..uids'
    BY <1>2, <2>1 DEF DefineAtom
  <2>. QED  BY <2>1, <2>2 DEF DefineAtom, session
<1>5. CASE AddAtom(s, n)
  <2>1. Lasting /\ Identities'
    BY <1>2, <1>5 DEF AddAtom
  <2>. QED  BY <1>5, <2>1 DEF AddAtom, backend
<1>. QED  BY <1>1, <1>3, <1>4, <1>5 DEF Growth

(* Types, conjunct by conjunct. *)
LEMMA TypeFacts ==
  ASSUME Types
  PROVE  /\ pc \in {"idle", "ground", "backend"}
         /\ grounded \in BOOLEAN /\ canClean \in BOOLEAN /\ enableCleanup \in BOOLEAN /\ ok \in BOOLEAN
         /\ atoms \in [Signs -> Seq(Atom)]
         /\ \A s \in Signs : incOffset[s] \in 0..Len(atoms[s]) /\ showOffset[s] \in 0..Len(atoms[s])
         /\ choiceIndex \in [Signs -> Nat]
         /\ \A t \in tuples : t \in Tuple /\ t.offset <= Len(atoms[t.sign])
         /\ table \in Seq(Entry)
         /\ steps \in Nat
         /\ heads \subseteq 1..uids /\ frozen \subseteq 1..uids
         /\ \A c \in constraints : c \subseteq 1..uids
         /\ DOMAIN value \subseteq 1..uids
         /\ \A u \in DOMAIN value : value[u] \in {"true", "false", "free"}
         /\ addedAtoms \subseteq Signs \X AllNames
         /\ addedFacts \subseteq 1..uids
BY DEF Types, TypeOK

(* The converse, for the state after a step. *)
LEMMA TypesNext ==
  ASSUME scenario \in DOMAIN Scenarios, UNCHANGED scenario, uids' \in Nat,
         pc' \in {"idle", "ground", "backend"},
         grounded' \in BOOLEAN, canClean' \in BOOLEAN, enableCleanup' \in BOOLEAN, ok' \in BOOLEAN,
         atoms' \in [Signs -> Seq(Atom)],
         \A s \in Signs : incOffset'[s] \in 0..Len(atoms'[s]) /\ showOffset'[s] \in 0..Len(atoms'[s]),
         choiceIndex' \in [Signs -> Nat],
         \A t \in tuples' : t \in Tuple /\ t.offset <= Len(atoms'[t.sign]),
         table' \in Seq(Entry),
         steps' \in Nat,
         heads' \subseteq 1..uids', frozen' \subseteq 1..uids',
         \A c \in constraints' : c \subseteq 1..uids',
         DOMAIN value' \subseteq 1..uids',
         \A u \in DOMAIN value' : value'[u] \in {"true", "false", "free"},
         addedAtoms' \subseteq Signs \X AllNames,
         addedFacts' \subseteq 1..uids'
  PROVE  Types'
<1>1. AllNames' = AllNames /\ Atom' = Atom /\ Tuple' = Tuple /\ Entry' = Entry
  BY SameTypes
<1>2. {grounded', canClean', enableCleanup', ok'} \subseteq BOOLEAN
  OBVIOUS
<1>3. (heads \union frozen \union UNION constraints)' \subseteq 1..uids'
  OBVIOUS
<1>. QED  BY <1>1, <1>2, <1>3, Zenon DEF Types, TypeOK

(* Types in calls that begin with update(). *)
LEMMA RefreshTypes ==
  ASSUME Types, Identities, Refresh
  PROVE  Types' /\ Identities'
<1>1. UNCHANGED <<enableCleanup, choiceIndex, uids, constraints, table, heads, value, ok,
                  addedAtoms, addedFacts, scenario>>
  BY DEF Refresh, solver, session
<1>2. /\ pc' \in {"idle", "ground", "backend"} /\ grounded' \in BOOLEAN /\ canClean' \in BOOLEAN
      /\ steps' \in Nat /\ frozen' \subseteq 1..uids'
  BY <1>1, TypeFacts DEF Refresh
<1>3. CASE canClean /\ CleanupData
  <2>1. Moved
    BY <1>3, CleanupMoves
  <2>2. /\ \A s \in Signs : atoms'[s] \in Seq(Atom)
        /\ atoms' = [s \in Signs |-> CleanDomain(atoms[s]).atoms]
    BY <1>3, <2>1 DEF Moved, CleanupData
  <2>3. atoms' \in [Signs -> Seq(Atom)]
    BY <2>2
  <2>4. \A s \in Signs : showOffset'[s] = Len(atoms'[s])
    BY <1>3 DEF CleanupData, OffsetsAfter
  <2>5. \A s \in Signs : Len(atoms'[s]) \in Nat
    BY <2>2
  <2>6. \A s \in Signs : incOffset'[s] = Len(atoms'[s]) \/ incOffset'[s] \in 0..Len(atoms'[s])
    BY <1>3, TypeFacts DEF Refresh, Cleans
  <2>7. ASSUME NEW t \in tuples' PROVE t \in Tuple /\ t.offset <= Len(atoms'[t.sign])
    <3>1. PICK u \in tuples :
            /\ t = [sign |-> u.sign, name |-> u.name, uid |-> u.uid, offset |-> t.offset]
            /\ t.sign = u.sign
            /\ t.offset = 0 \/ (u.offset # 0 /\ t.offset = Move(u.sign, u.offset) /\ t.offset # 0)
      BY <1>3, TuplesSimplified
    <3>2. u.sign \in Signs /\ u.name \in AllNames /\ u.uid \in Nat \ {0} /\ u.offset \in Nat
          /\ u.offset <= Len(atoms[u.sign])
      BY TypeFacts DEF Tuple
    <3>3. t.offset \in Nat /\ t.offset <= Len(atoms'[t.sign])
      <4>1. CASE t.offset = 0
        BY <2>5, <3>1, <3>2, <4>1
      <4>2. CASE u.offset # 0 /\ t.offset = Move(u.sign, u.offset) /\ t.offset # 0
        <5>1. u.offset \in Offsets(u.sign)
          BY <3>2, <4>2, AtomsTyped
        <5>2. t.offset \in DOMAIN atoms'[u.sign]
          BY <2>1, <3>2, <4>2, <5>1 DEF Moved
        <5>. QED  BY <2>2, <3>1, <3>2, <5>2
      <4>. QED  BY <3>1, <4>1, <4>2
    <3>. QED  BY <3>1, <3>2, <3>3 DEF Tuple
  <2>8. \A s \in Signs : incOffset'[s] \in 0..Len(atoms'[s]) /\ showOffset'[s] \in 0..Len(atoms'[s])
    BY <2>4, <2>5, <2>6
  <2>9. Types'
    BY <1>1, <1>2, <2>3, <2>7, <2>8, TypeFacts, TypesNext DEF Types
  <2>. QED  BY <1>1, <2>1, <2>9, MovedIdentities
<1>4. CASE UNCHANGED <<atoms, showOffset, tuples>>
  <2>1. \A s \in Signs : Len(atoms'[s]) \in Nat
    BY <1>4, AtomsTyped
  <2>2. \A s \in Signs : incOffset'[s] = Len(atoms'[s]) \/ incOffset'[s] \in 0..Len(atoms'[s])
    BY <1>4, TypeFacts DEF Refresh
  <2>3. \A s \in Signs : incOffset'[s] \in 0..Len(atoms'[s]) /\ showOffset'[s] \in 0..Len(atoms'[s])
    BY <1>4, <2>1, <2>2, TypeFacts
  <2>4. Types'
    BY <1>1, <1>2, <1>4, <2>3, TypeFacts, TypesNext DEF Types
  <2>5. Identities'
    BY <1>1, <1>4 DEF Identities, UidsBounded, UidsApart, NamesApart, Uid, Offsets
  <2>. QED  BY <2>4, <2>5
<1>. QED  BY <1>3, <1>4 DEF Refresh

(* Types in calls that add or define atoms. *)
LEMMA GrowthTypes ==
  ASSUME Types, Identities, NEW s \in Signs, NEW n \in Names[s], Growth(s, n)
  PROVE  Types' /\ Identities'
<1>1. /\ Lasting /\ Identities'
      /\ UNCHANGED <<pc, grounded, canClean, enableCleanup, incOffset, showOffset, choiceIndex, tuples,
                     steps, constraints, table, value, ok, addedFacts, scenario>>
      /\ heads' \union frozen' \subseteq heads \union frozen \union 1..uids'
      /\ addedAtoms' \subseteq addedAtoms \union {<<s, n>>}
  BY GrowthFacts DEF control, solver, bounds
<1>2. uids \in Nat /\ uids' \in Nat /\ uids <= uids'
  BY <1>1, AtomsTyped DEF Lasting
<1>3. \A t \in Signs : Len(atoms[t]) \in Nat /\ Len(atoms'[t]) \in Nat /\ Len(atoms[t]) <= Len(atoms'[t])
  <2> SUFFICES ASSUME NEW t \in Signs
               PROVE Len(atoms[t]) \in Nat /\ Len(atoms'[t]) \in Nat /\ Len(atoms[t]) <= Len(atoms'[t])
    OBVIOUS
  <2>1. atoms[t] \in Seq(Atom) /\ atoms'[t] \in Seq(Atom) /\ Offsets(t) = 1..Len(atoms[t])
    BY <1>1, AtomsTyped DEF Lasting
  <2>2. \A o \in Offsets(t) : o \in DOMAIN atoms'[t]
    BY <1>1 DEF Lasting
  <2>3. DOMAIN atoms'[t] = 1..Len(atoms'[t]) /\ Len(atoms'[t]) \in Nat /\ Len(atoms[t]) \in Nat
    BY <2>1
  <2>4. CASE Len(atoms[t]) = 0
    BY <2>3, <2>4
  <2>5. CASE Len(atoms[t]) # 0
    <3>1. Len(atoms[t]) \in Offsets(t)
      BY <2>1, <2>3, <2>5
    <3>. QED  BY <2>2, <2>3, <3>1
  <2>. QED  BY <2>3, <2>4, <2>5
<1>4. \A t \in Signs : incOffset'[t] \in 0..Len(atoms'[t]) /\ showOffset'[t] \in 0..Len(atoms'[t])
  BY <1>1, <1>3, TypeFacts
<1>5. \A t \in tuples' : t \in Tuple /\ t.offset <= Len(atoms'[t.sign])
  BY <1>1, <1>3, TypeFacts DEF Tuple
<1>6. 1..uids \subseteq 1..uids'
  BY <1>2
<1>7. /\ heads' \subseteq 1..uids' /\ frozen' \subseteq 1..uids'
      /\ \A c \in constraints' : c \subseteq 1..uids'
      /\ DOMAIN value' \subseteq 1..uids'
      /\ addedFacts' \subseteq 1..uids'
  BY <1>1, <1>6, TypeFacts
<1>8. addedAtoms' \subseteq Signs \X AllNames
  BY <1>1, TypeFacts DEF AllNames
<1>9. atoms' \in [Signs -> Seq(Atom)]
  BY <1>1 DEF Lasting
<1>10. Types'
  BY <1>1, <1>2, <1>4, <1>5, <1>7, <1>8, <1>9, TypeFacts, TypesNext DEF Types
<1>. QED  BY <1>1, <1>10

(* Types at the end of a ground call or a session. *)
LEMMA OutputTypes ==
  ASSUME Types, Identities, EndGround \/ EndAddBackend
  PROVE  Types' /\ Identities'
<1>1. /\ Lasting /\ UNCHANGED uids /\ OutputGround
      /\ \A s \in Signs : DOMAIN atoms'[s] = Offsets(s)
  BY OutputLasts
<1>2. Identities'
  BY <1>1, LastingIdentities
<1>3. UNCHANGED <<grounded, canClean, enableCleanup, incOffset, choiceIndex, tuples, uids, steps,
                  heads, frozen, value, scenario>>
  BY <1>1 DEF OutputGround, bounds
<1>4. pc' = "idle" /\ ok' \in BOOLEAN
  BY <1>1, TypeFacts DEF OutputGround
<1>5. \A s \in Signs : Len(atoms'[s]) = Len(atoms[s]) /\ Len(atoms[s]) \in Nat
  <2> SUFFICES ASSUME NEW s \in Signs PROVE Len(atoms'[s]) = Len(atoms[s]) /\ Len(atoms[s]) \in Nat
    OBVIOUS
  <2>1. atoms[s] \in Seq(Atom) /\ atoms'[s] \in Seq(Atom) /\ Offsets(s) = 1..Len(atoms[s])
    BY <1>1, AtomsTyped DEF Lasting
  <2>2. DOMAIN atoms'[s] = 1..Len(atoms[s])
    BY <1>1, <2>1
  <2>. QED  BY <2>1, <2>2
<1>6. \A s \in Signs : incOffset'[s] \in 0..Len(atoms'[s]) /\ showOffset'[s] \in 0..Len(atoms'[s])
  BY <1>1, <1>3, <1>5, TypeFacts DEF OutputGround
<1>7. \A t \in tuples' : t \in Tuple /\ t.offset <= Len(atoms'[t.sign])
  BY <1>3, <1>5, TypeFacts DEF Tuple
<1>8. table' \in Seq(Entry)
  <2>1. ASSUME NEW s \in Signs PROVE NewEntries(s, atoms'[s]) \in Seq(Entry)
    <3>1. atoms'[s] \in Seq(Atom)
      BY <1>1 DEF Lasting
    <3>2. \A o, p \in DOMAIN atoms'[s] : atoms'[s][o].name = atoms'[s][p].name => o = p
      BY <1>2 DEF Identities, NamesApart, Offsets
    <3>. QED  BY <3>1, <3>2, NewEntriesExact DEF EntriesFor
  <2>2. table \in Seq(Entry)
    BY TypeFacts
  <2>3. table' = table \o NewEntries("pos", atoms'["pos"]) \o NewEntries("neg", atoms'["neg"])
    BY <1>1 DEF OutputGround
  <2>. QED  BY <2>1, <2>2, <2>3 DEF Signs
<1>9. \A s \in Signs : \A o \in Offsets(s) : atoms[s][o].uid \in 1..uids
  BY AtomsTyped DEF Atom, Identities, UidsBounded, Uid
<1>10. \A c \in constraints' : c \subseteq 1..uids
  <2>1. ASSUME NEW P \in SUBSET Offsets("pos"), NEW N \in SUBSET Offsets("neg"), NEW c \in Complements(P, N)
        PROVE  c \subseteq 1..uids
    <3>1. PICK q \in P \X N : c = {atoms["pos"][q[1]].uid, atoms["neg"][q[2]].uid}
      BY <2>1 DEF Complements
    <3>2. q[1] \in Offsets("pos") /\ q[2] \in Offsets("neg")
      OBVIOUS
    <3>. QED  BY <1>9, <3>1, <3>2 DEF Signs
  <2>2. /\ Defined("pos") \subseteq Offsets("pos") /\ New("neg") \subseteq Offsets("neg")
        /\ New("pos") \subseteq Offsets("pos") /\ Defined("neg") \ New("neg") \subseteq Offsets("neg")
    BY DEF Defined, New
  <2>3. \A c \in NewConstraints : c \subseteq 1..uids
    BY <2>1, <2>2, Zenon DEF NewConstraints
  <2>4. constraints' = constraints \union NewConstraints
    BY <1>1 DEF OutputGround
  <2>. QED  BY <2>3, <2>4, TypeFacts
<1>11. addedAtoms' \subseteq Signs \X AllNames /\ addedFacts' \subseteq 1..uids
  BY TypeFacts DEF EndGround, EndAddBackend, session
<1>12. atoms' \in [Signs -> Seq(Atom)]
  BY <1>1 DEF Lasting
<1>13. Types'
  BY <1>3, <1>4, <1>6, <1>7, <1>8, <1>10, <1>11, <1>12, TypeFacts, TypesNext DEF Types
<1>. QED  BY <1>2, <1>13

(* The values that the solver has found hold on. *)
LEMMA SolveFacts ==
  ASSUME Types, Identities, Solve
  PROVE  /\ UNCHANGED <<pc, enableCleanup, constraints, table, heads, frozen, session, grounds, scenario, data>>
         /\ canClean' = TRUE /\ since' = 0 /\ grounded' = FALSE /\ pc = "idle"
         /\ \A u \in DOMAIN value : u \in DOMAIN value' /\ (value[u] # "free" => value'[u] = value[u])
         /\ DOMAIN value' \subseteq 1..uids
         /\ \A u \in DOMAIN value' : value'[u] \in {"true", "false", "free"}
         /\ ok' \in BOOLEAN
         /\ ok' => /\ ok /\ DOMAIN value' = 1..uids
                   /\ \A s \in Signs : \A o \in Offsets(s) : atoms[s][o].fact => value'[Uid(s, o)] = "true"
<1>1. UNCHANGED <<pc, enableCleanup, constraints, table, heads, frozen, session, grounds, scenario, data>>
      /\ canClean' = TRUE /\ since' = 0 /\ grounded' = FALSE /\ pc = "idle"
  BY DEF Solve
<1>2. CASE ok /\ value' \in TopLevel /\ UNCHANGED ok
  <2>1. /\ value' \in [1..uids -> {"true", "false", "free"}]
        /\ \A u \in DOMAIN value : value[u] # "free" => value'[u] = value[u]
        /\ \A s \in Signs : \A o \in Offsets(s) : atoms[s][o].fact => value'[atoms[s][o].uid] = "true"
    BY <1>2, Zenon DEF TopLevel
  <2>2. DOMAIN value' = 1..uids /\ \A u \in DOMAIN value' : value'[u] \in {"true", "false", "free"}
    BY <2>1
  <2>. QED  BY <1>1, <1>2, <2>1, <2>2, TypeFacts DEF Uid
<1>3. CASE UNCHANGED value /\ ok' = FALSE
  BY <1>1, <1>3, TypeFacts
<1>. QED  BY <1>2, <1>3 DEF Solve

(* Types in solve calls. *)
LEMMA SolveTypes ==
  ASSUME Types, Identities, Solve, steps' \in Nat
  PROVE  Types' /\ Identities'
<1>1. UNCHANGED <<pc, enableCleanup, constraints, table, heads, frozen, addedAtoms, addedFacts, scenario,
                  atoms, incOffset, showOffset, choiceIndex, tuples, uids>>
  BY SolveFacts DEF data, session
<1>2. Types'
  BY <1>1, SolveFacts, TypeFacts, TypesNext DEF Types
<1>. QED  BY <1>1, <1>2 DEF Identities, UidsBounded, UidsApart, NamesApart, Uid, Offsets

(* The calls that only tell the solver something. *)
LEMMA BackendTypes ==
  ASSUME Types, Identities, NEW s \in Signs, NEW o \in Defined(s), BackendCall(Uid(s, o))
  PROVE  Types' /\ Identities'
<1>1. UNCHANGED <<pc, grounded, canClean, enableCleanup, atoms, incOffset, showOffset, choiceIndex, tuples,
                  uids, steps, constraints, table, value, ok, addedAtoms, scenario>>
  BY DEF BackendCall, AddExternal, AddRule, control, data, solver, session, bounds
<1>2. Uid(s, o) \in 1..uids
  <2>1. o \in Offsets(s)
    BY DEF Defined
  <2>. QED  BY <2>1, AtomsTyped DEF Atom, Identities, UidsBounded, Uid
<1>3. /\ heads' \subseteq heads \union {Uid(s, o)} /\ frozen' \subseteq frozen \union {Uid(s, o)}
      /\ addedFacts' \subseteq addedFacts \union {Uid(s, o)}
  BY DEF BackendCall, AddExternal, AddRule, session
<1>4. heads' \subseteq 1..uids' /\ frozen' \subseteq 1..uids' /\ addedFacts' \subseteq 1..uids'
  BY <1>1, <1>2, <1>3, TypeFacts
<1>5. Types'
  BY <1>1, <1>4, TypeFacts, TypesNext DEF Types
<1>. QED  BY <1>1, <1>5 DEF Identities, UidsBounded, UidsApart, NamesApart, Uid, Offsets

(* Types in the other calls. *)
LEMMA TupleTypes ==
  ASSUME Types, Identities, NEW s \in Signs, NEW o \in Offsets(s), AddTuple(s, o)
  PROVE  Types' /\ Identities'
<1>1. UNCHANGED <<pc, grounded, canClean, enableCleanup, atoms, incOffset, showOffset, choiceIndex,
                  uids, steps, constraints, table, heads, frozen, value, ok, addedAtoms, addedFacts, scenario>>
  BY DEF AddTuple, control, backend, solver, session, bounds
<1>2. tuples' = tuples \union {[sign |-> s, name |-> atoms[s][o].name,
                               uid |-> atoms[s][o].uid, offset |-> o]}
  BY DEF AddTuple
<1>3. atoms[s][o] \in Atom /\ o \in Nat /\ o <= Len(atoms[s])
  BY AtomsTyped
<1>4. [sign |-> s, name |-> atoms[s][o].name, uid |-> atoms[s][o].uid, offset |-> o] \in Tuple
  BY <1>3 DEF Atom, Tuple
<1>5. \A t \in tuples' : t \in Tuple /\ t.offset <= Len(atoms'[t.sign])
  BY <1>1, <1>2, <1>3, <1>4, TypeFacts
<1>6. Types'
  BY <1>1, <1>5, TypeFacts, TypesNext DEF Types
<1>. QED  BY <1>1, <1>6 DEF Identities, UidsBounded, UidsApart, NamesApart, Uid, Offsets

LEMMA SearchTypes ==
  ASSUME Types, Identities, NEW s \in Signs, Search(s)
  PROVE  Types' /\ Identities'
<1>1. UNCHANGED <<pc, grounded, canClean, enableCleanup, atoms, incOffset, showOffset, tuples,
                  uids, steps, constraints, table, heads, frozen, value, ok, addedAtoms, addedFacts, scenario>>
  BY DEF Search, AskForChoice, UpdateIndices, control, backend, solver, session, bounds
<1>2. Remaining(s) # {} => Seqs!Min(Remaining(s)) \in Remaining(s)
  <2>1. Remaining(s) \in SUBSET Nat
    BY AtomsTyped DEF Remaining, Choices
  <2>2. Remaining(s) # {} => \E x \in Remaining(s) : \A y \in Remaining(s) : x <= y
    BY <2>1, CP!LeastElement
  <2>. QED  BY <2>2 DEF Seqs!Min
<1>3. choiceIndex' \in [Signs -> Nat]
  <2>1. Len(atoms[s]) \in Nat /\ \A o \in Remaining(s) : o - 1 \in Nat
    BY AtomsTyped DEF Remaining, Choices
  <2>. QED  BY <1>2, <2>1, TypeFacts DEF Search, AskForChoice, UpdateIndices
<1>4. Types'
  BY <1>1, <1>3, TypeFacts, TypesNext DEF Types
<1>. QED  BY <1>1, <1>4 DEF Identities, UidsBounded, UidsApart, NamesApart, Uid, Offsets

LEMMA EnableTypes ==
  ASSUME Types, Identities, NEW b \in Bounds.cleanupModes, SetEnableCleanup(b)
  PROVE  Types' /\ Identities'
<1>1. UNCHANGED <<pc, grounded, canClean, atoms, incOffset, showOffset, choiceIndex, tuples,
                  uids, steps, constraints, table, heads, frozen, value, ok, addedAtoms, addedFacts, scenario>>
  BY DEF SetEnableCleanup, data, backend, solver, session, bounds
<1>2. enableCleanup' \in BOOLEAN
  BY ScenariosAssumption DEF Types, Bounds, SetEnableCleanup
<1>3. Types'
  BY <1>1, <1>2, TypeFacts, TypesNext DEF Types
<1>. QED  BY <1>1, <1>3 DEF Identities, UidsBounded, UidsApart, NamesApart, Uid, Offsets

(* Types in all calls. *)
LEMMA StepTypes ==
  ASSUME Types, Identities, StepsInv, CallStep
  PROVE  Types' /\ Identities'
<1>1. CASE Refresh
  BY <1>1, RefreshTypes
<1>2. CASE \E s \in Signs : \E n \in Names[s] : Growth(s, n)
  BY <1>2, GrowthTypes
<1>3. CASE EndGround \/ EndAddBackend
  BY <1>3, OutputTypes
<1>4. CASE Solve
  <2>1. steps' \in Nat
    BY <1>4 DEF Solve, StepsInv, BeginsStep
  <2>. QED  BY <1>4, <2>1, SolveTypes
<1>5. CASE \E s \in Signs : \E o \in Defined(s) : BackendCall(Uid(s, o))
  BY <1>5, BackendTypes
<1>6. CASE \E s \in Signs : \E o \in Offsets(s) : AddTuple(s, o)
  BY <1>6, TupleTypes
<1>7. CASE \E s \in Signs : Search(s)
  BY <1>7, SearchTypes
<1>8. CASE \E b \in Bounds.cleanupModes : SetEnableCleanup(b)
  BY <1>8, EnableTypes
<1>. QED  BY <1>1, <1>2, <1>3, <1>4, <1>5, <1>6, <1>7, <1>8, Kinds

-----------------------------------------------------------------------------
(* Steps that change nothing but what is listed. *)
Quiet ==
  /\ UNCHANGED <<pc, canClean, atoms, incOffset, showOffset, tuples, uids, constraints, table, value, ok,
                 since, scenario>>

LEMMA QuietKinds ==
  ASSUME \/ \E s \in Signs : \E o \in Defined(s) : BackendCall(Uid(s, o))
         \/ \E s \in Signs : Search(s)
         \/ \E b \in Bounds.cleanupModes : SetEnableCleanup(b)
  PROVE  Quiet
BY DEF Quiet, BackendCall, AddExternal, AddRule, Search, AskForChoice, UpdateIndices, SetEnableCleanup,
       control, data, backend, solver, session, bounds

(* A cleanup only sees atoms that the solver has prepared.                 *)
Prepared ==
  /\ pc # "idle" => ~canClean
  /\ canClean /\ ok =>
       /\ DOMAIN value = 1..uids
       /\ \A s \in Signs : \A o \in Offsets(s) : atoms[s][o].fact => value[Uid(s, o)] = "true"

(* The protocol of canClean_: update() unsets it, solve() sets it once     *)
(* the solver has prepared all atoms, and nothing is added in between.     *)
LEMMA StepPrepared ==
  ASSUME Types, Identities, Prepared, CallStep
  PROVE  Prepared'
<1>1. CASE Refresh
  BY <1>1 DEF Refresh, Prepared
<1>2. CASE \E s \in Signs : \E n \in Names[s] : Growth(s, n)
  <2>1. pc \in {"ground", "backend"} /\ pc' = pc /\ canClean' = canClean
    BY <1>2, GrowthFacts DEF control
  <2>. QED  BY <2>1 DEF Prepared
<1>3. CASE EndGround \/ EndAddBackend
  <2>1. pc # "idle" /\ canClean' = canClean
    BY <1>3 DEF EndGround, EndAddBackend, OutputGround
  <2>. QED  BY <2>1 DEF Prepared
<1>4. CASE Solve
  <2>1. UNCHANGED <<atoms, uids>> /\ pc' = "idle"
    BY <1>4, SolveFacts DEF data
  <2>2. ok' => /\ DOMAIN value' = 1..uids
               /\ \A s \in Signs : \A o \in Offsets(s) : atoms[s][o].fact => value'[Uid(s, o)] = "true"
    BY <1>4, SolveFacts
  <2>. QED  BY <2>1, <2>2 DEF Prepared, Uid, Offsets
<1>5. CASE Quiet
  BY <1>5 DEF Quiet, Prepared, Uid, Offsets
<1>6. CASE \E s \in Signs : \E o \in Offsets(s) : AddTuple(s, o)
  <2>1. pc = "ground" /\ pc' = pc /\ canClean' = canClean
    BY <1>6 DEF AddTuple, control
  <2>. QED  BY <2>1 DEF Prepared
<1>. QED  BY <1>1, <1>2, <1>3, <1>4, <1>5, <1>6, Kinds, QuietKinds

-----------------------------------------------------------------------------
(* Literals and their atoms *)

(* A cleanup moves literals together with their atoms. *)
LEMMA RefreshLiterals ==
  ASSUME Types, LiteralsFollow, Refresh
  PROVE  LiteralsFollow'
<1>1. UNCHANGED <<value, ok>>
  BY DEF Refresh, solver
<1>2. \A u : Truth(u)' = Truth(u)
  BY <1>1 DEF Truth
<1>3. CASE UNCHANGED <<atoms, tuples>>
  BY <1>1, <1>3 DEF LiteralsFollow, Offsets, Truth
<1>4. CASE canClean /\ CleanupData
  <2> SUFFICES ASSUME ok, NEW t \in tuples'
               PROVE  IF t.offset = 0 THEN Truth(t.uid) = "true"
                      ELSE /\ t.offset \in DOMAIN atoms'[t.sign]
                           /\ atoms'[t.sign][t.offset].name = t.name
                           /\ atoms'[t.sign][t.offset].uid = t.uid
    BY <1>1, <1>2 DEF LiteralsFollow, Offsets
  <2>1. PICK u \in tuples :
           /\ t.sign = u.sign /\ t.name = u.name /\ t.uid = u.uid
           /\ \/ t.offset = 0 /\ u.offset = 0
              \/ t.offset = 0 /\ u.offset # 0 /\ Move(u.sign, u.offset) # 0
                 /\ Truth(atoms'[u.sign][Move(u.sign, u.offset)].uid) = "true"
              \/ u.offset # 0 /\ t.offset = Move(u.sign, u.offset) /\ t.offset # 0
    BY <1>4, TuplesSimplified
  <2>2. IF u.offset = 0 THEN Truth(u.uid) = "true"
        ELSE /\ u.offset \in Offsets(u.sign)
             /\ atoms[u.sign][u.offset].name = u.name
             /\ atoms[u.sign][u.offset].uid = u.uid
    BY DEF LiteralsFollow
  <2>3. u.sign \in Signs
    BY TypeFacts DEF Tuple
  <2>4. CASE t.offset = 0 /\ u.offset = 0
    BY <2>1, <2>2, <2>4
  <2>5. CASE u.offset # 0 /\ Move(u.sign, u.offset) # 0
    <3> DEFINE a == atoms[u.sign][u.offset]
               m == Move(u.sign, u.offset)
    <3>1. Moved
      BY <1>4, CleanupMoves
    <3>2. a \in Atom /\ u.offset \in Offsets(u.sign)
      BY <2>2, <2>3, <2>5, AtomsTyped
    <3>3. m \in DOMAIN atoms'[u.sign] /\ atoms'[u.sign][m] = Kept(a)
      BY <2>3, <2>5, <3>1, <3>2 DEF Moved
    <3>4. atoms'[u.sign][m].name = u.name /\ atoms'[u.sign][m].uid = u.uid
      BY <2>2, <2>5, <3>2, <3>3, KeptSame
    <3>. QED  BY <2>1, <2>5, <3>3, <3>4
  <2>. QED  BY <2>1, <2>4, <2>5
<1>. QED  BY <1>3, <1>4 DEF Refresh

(* All other calls leave atoms at their offsets. *)
LEMMA StepLiterals ==
  ASSUME Types, Identities, LiteralsFollow, CallStep
  PROVE  LiteralsFollow'
<1>1. CASE Refresh
  BY <1>1, RefreshLiterals
<1>2. ASSUME Lasting, UNCHANGED <<tuples, value>>, ok' => ok
      PROVE  LiteralsFollow'
  <2>1. \A t \in tuples : t.sign \in Signs
    BY TypeFacts DEF Tuple
  <2>2. \A s \in Signs : \A o \in Offsets(s) : o \in DOMAIN atoms'[s] /\ Lives(atoms[s][o], atoms'[s][o])
    BY <1>2 DEF Lasting
  <2>. QED  BY <1>2, <2>1, <2>2 DEF LiteralsFollow, Offsets, Lives, Truth
<1>3. CASE \E s \in Signs : \E n \in Names[s] : Growth(s, n)
  BY <1>2, <1>3, GrowthFacts DEF solver
<1>4. CASE EndGround \/ EndAddBackend
  <2>1. Lasting /\ OutputGround
    BY <1>4, OutputLasts
  <2>2. UNCHANGED <<tuples, value>>
    BY <2>1 DEF OutputGround
  <2>3. ok' => ok
    BY <2>1, Zenon DEF OutputGround
  <2>. QED  BY <1>2, <2>1, <2>2, <2>3
<1>5. CASE Solve
  <2>1. UNCHANGED <<atoms, tuples>> /\ (ok' => ok)
    BY <1>5, SolveFacts DEF data
  <2>2. \A u : Truth(u) = "true" => Truth(u)' = "true"
    BY <1>5, SolveFacts DEF Truth
  <2>. QED  BY <2>1, <2>2 DEF LiteralsFollow, Offsets
<1>6. CASE Quiet
  BY <1>6 DEF Quiet, LiteralsFollow, Offsets, Truth
<1>7. ASSUME NEW s \in Signs, NEW o \in Offsets(s), AddTuple(s, o) PROVE LiteralsFollow'
  <2> DEFINE t == [sign |-> s, name |-> atoms[s][o].name, uid |-> atoms[s][o].uid, offset |-> o]
  <2>1. tuples' = tuples \union {t} /\ UNCHANGED <<atoms, value, ok>>
    BY <1>7 DEF AddTuple, solver
  <2>2. t.sign = s /\ t.name = atoms[s][o].name /\ t.uid = atoms[s][o].uid /\ t.offset = o /\ o # 0
    BY <1>7, AtomsTyped
  <2> HIDE DEF t
  <2>. QED  BY <1>7, <2>1, <2>2 DEF LiteralsFollow, Offsets, Truth
<1>. QED  BY <1>1, <1>3, <1>4, <1>5, <1>6, <1>7, Kinds, QuietKinds

-----------------------------------------------------------------------------
(* What cleanups keep *)

(* The action of DefinedKept. *)
KeepsDefined ==
  \A s \in Signs : \A o \in Defined(s) :
    Possible(atoms[s][o].uid) =>
      /\ \E p \in DOMAIN atoms'[s] : atoms'[s][p].uid = atoms[s][o].uid /\ atoms'[s][p].defined
      /\ (\E t \in tuples : t.uid = atoms[s][o].uid) => \E t \in tuples' : t.uid = atoms[s][o].uid

(* A cleanup only deletes atoms whose values are false at the top level. *)
LEMMA RefreshKeeps ==
  ASSUME Types, Identities, Prepared, LiteralsFollow, Refresh
  PROVE  KeepsDefined
<1>1. CASE UNCHANGED <<atoms, tuples>>
  BY <1>1 DEF KeepsDefined, Defined, Offsets
<1>2. CASE canClean /\ CleanupData
  <2> SUFFICES ASSUME NEW s \in Signs, NEW o \in Defined(s), Possible(atoms[s][o].uid)
               PROVE  /\ \E p \in DOMAIN atoms'[s] : atoms'[s][p].uid = atoms[s][o].uid /\ atoms'[s][p].defined
                      /\ \A t \in tuples : t.uid = atoms[s][o].uid => \E u \in tuples' : u.uid = atoms[s][o].uid
    BY DEF KeepsDefined
  <2>0. \A u \in tuples : u.offset = 0 => \E w \in tuples' : w.uid = u.uid
    BY <1>2, TuplesStay
  <2> DEFINE a == atoms[s][o]
             m == Move(s, o)
  <2>1. Moved
    BY <1>2, CleanupMoves
  <2>2. o \in Offsets(s) /\ a \in Atom /\ a.defined
    BY AtomsTyped DEF Defined
  <2>3. a.uid \in 1..uids
    BY <2>2 DEF Atom, Identities, UidsBounded, Uid, Types
  <2>4. ok /\ a.uid \in DOMAIN value /\ value[a.uid] # "false"
    BY <1>2, <2>3 DEF Prepared, Possible
  <2>5. Truth(a.uid) \in {"true", "free"}
    BY <2>4, TypeFacts DEF Truth
  <2>6. ~Deleted(a)
    BY <2>2, <2>5 DEF Deleted
  <2>7. m \in DOMAIN atoms'[s] /\ atoms'[s][m] = Kept(a)
    BY <2>1, <2>2, <2>6 DEF Moved
  <2>8. atoms'[s][m].uid = a.uid /\ atoms'[s][m].defined
    BY <2>2, <2>7, KeptSame
  <2>9. ASSUME NEW t \in tuples, t.uid = a.uid
        PROVE  \E u \in tuples' : u.uid = a.uid
    <3>1. t.sign \in Signs
      BY TypeFacts DEF Tuple
    <3>2. t.offset # 0 => t.sign = s /\ t.offset = o
      BY <2>2, <2>4, <2>9, <3>1 DEF LiteralsFollow, Identities, UidsApart, Uid
    <3>3. m # 0
      BY <2>1, <2>7 DEF Moved
    <3>4. t.offset = 0 \/ /\ Move(t.sign, t.offset) # 0
                          /\ Truth(atoms'[t.sign][Move(t.sign, t.offset)].uid) \in {"true", "free"}
      BY <2>5, <2>8, <3>2, <3>3
    <3> HIDE DEF a, m
    <3>5. \E w \in tuples' : w.uid = t.uid
      <4>1. CASE t.offset = 0
        BY <2>0, <4>1
      <4>2. CASE Move(t.sign, t.offset) # 0
                 /\ Truth(atoms'[t.sign][Move(t.sign, t.offset)].uid) \in {"true", "free"}
        BY <1>2, <4>2, TuplesStay
      <4>. QED  BY <3>4, <4>1, <4>2
    <3>. QED  BY <2>9, <3>5
  <2>. QED  BY <2>7, <2>8, <2>9
<1>. QED  BY <1>1, <1>2 DEF Refresh

(* No other call deletes anything. *)
LEMMA StepKeeps ==
  ASSUME Types, Identities, Prepared, LiteralsFollow, CallStep
  PROVE  KeepsDefined
<1>1. CASE Refresh
  BY <1>1, RefreshKeeps
<1>2. ASSUME Lasting, UNCHANGED tuples PROVE KeepsDefined
  <2>1. \A s \in Signs : \A o \in Offsets(s) : o \in DOMAIN atoms'[s] /\ Lives(atoms[s][o], atoms'[s][o])
    BY <1>2 DEF Lasting
  <2>. QED  BY <1>2, <2>1 DEF KeepsDefined, Defined, Lives
<1>3. CASE \E s \in Signs : \E n \in Names[s] : Growth(s, n)
  BY <1>2, <1>3, GrowthFacts
<1>4. CASE EndGround \/ EndAddBackend
  BY <1>2, <1>4, OutputLasts DEF OutputGround
<1>5. ASSUME UNCHANGED atoms, tuples \subseteq tuples' PROVE KeepsDefined
  BY <1>5 DEF KeepsDefined, Defined, Offsets
<1>6. CASE Solve
  BY <1>5, <1>6, SolveFacts DEF data
<1>7. CASE Quiet
  BY <1>5, <1>7 DEF Quiet
<1>8. CASE \E s \in Signs : \E o \in Offsets(s) : AddTuple(s, o)
  BY <1>5, <1>8 DEF AddTuple
<1>. QED  BY <1>1, <1>3, <1>4, <1>6, <1>7, <1>8, Kinds, QuietKinds

-----------------------------------------------------------------------------
(* Externals and the atoms they are                                        *)

(* An external has no rule, and an atom that is a fact has one or is       *)
(* known to the solver.                                                    *)
FactsGrounded == \A s \in Signs : \A o \in Offsets(s) : atoms[s][o].fact => Uid(s, o) \in heads \union DOMAIN value

ExternalsInv ==
  /\ frozen \intersect heads = {}
  /\ addedFacts \subseteq heads
  /\ FactsGrounded
  /\ ExternalsOpen

(* A cleanup treats externals as such. *)
LEMMA RefreshExternals ==
  ASSUME Types, ExternalsInv, Refresh
  PROVE  ExternalsInv'
<1>1. UNCHANGED <<heads, addedFacts, value, ok>> /\ frozen' \subseteq frozen
  BY DEF Refresh, solver, session
<1>2. CASE UNCHANGED atoms
  BY <1>1, <1>2 DEF ExternalsInv, FactsGrounded, ExternalsOpen, Offsets, Uid, Defined
<1>3. CASE CleanupData
  <2>1. Moved
    BY <1>3, CleanupMoves
  <2>2. FactsGrounded'
    <3> SUFFICES ASSUME NEW s \in Signs, NEW p \in DOMAIN atoms'[s], atoms'[s][p].fact
                 PROVE  atoms'[s][p].uid \in heads \union DOMAIN value
      BY <1>1 DEF FactsGrounded, Offsets, Uid
    <3>1. PICK o \in Offsets(s) : atoms[s][o] \in Atom /\ atoms'[s][p] = Kept(atoms[s][o])
      BY <2>1, MovedFrom
    <3>2. atoms'[s][p].uid = Uid(s, o)
      BY <3>1, KeptSame DEF Uid
    <3>3. atoms[s][o].fact \/ Truth(Uid(s, o)) = "true"
      BY <3>1, KeptSame DEF Uid
    <3>. QED  BY <3>2, <3>3 DEF ExternalsInv, FactsGrounded, Truth
  <2>3. ExternalsOpen'
    <3> SUFFICES ASSUME ok, NEW u \in frozen
                 PROVE  \E s \in Signs : \E p \in DOMAIN atoms'[s] :
                          atoms'[s][p].defined /\ atoms'[s][p].uid = u /\ ~atoms'[s][p].fact
      BY <1>1 DEF ExternalsOpen, Defined, Offsets
    <3>0. PICK s \in Signs : \E o \in Defined(s) : atoms[s][o].uid = u /\ ~atoms[s][o].fact
      BY DEF ExternalsInv, ExternalsOpen
    <3>1. PICK o \in Defined(s) : atoms[s][o].uid = u /\ ~atoms[s][o].fact
      BY <3>0
    <3>2. o \in Offsets(s) /\ atoms[s][o] \in Atom /\ atoms[s][o].defined
      BY AtomsTyped DEF Defined
    <3>3. Move(s, o) \in DOMAIN atoms'[s] /\ atoms'[s][Move(s, o)] = Kept(atoms[s][o])
      BY <2>1, <3>1, <3>2 DEF Moved, Deleted
    <3>. QED  BY <3>1, <3>2, <3>3, KeptSame
  <2>. QED  BY <1>1, <2>2, <2>3 DEF ExternalsInv
<1>. QED  BY <1>2, <1>3 DEF Refresh

(* An atom that is frozen stays what it is as long as it does not become   *)
(* a fact.                                                                 *)
LEMMA StayOpen ==
  ASSUME Types, Lasting, ExternalsInv, ok, NEW u \in frozen,
         \A t \in Signs : \A p \in Offsets(t) :
           atoms'[t][p].fact => atoms[t][p].fact \/ Uid(t, p) # u
  PROVE  \E s \in Signs : \E p \in DOMAIN atoms'[s] :
           atoms'[s][p].defined /\ atoms'[s][p].uid = u /\ ~atoms'[s][p].fact
<1>0. PICK s \in Signs : \E o \in Defined(s) : atoms[s][o].uid = u /\ ~atoms[s][o].fact
  BY DEF ExternalsInv, ExternalsOpen
<1>1. PICK o \in Defined(s) : atoms[s][o].uid = u /\ ~atoms[s][o].fact
  BY <1>0
<1>2. o \in Offsets(s) /\ atoms[s][o].defined
  BY DEF Defined
<1>3. o \in DOMAIN atoms'[s] /\ Lives(atoms[s][o], atoms'[s][o])
  BY <1>2 DEF Lasting
<1>. QED  BY <1>1, <1>2, <1>3 DEF Lives, Uid

(* An atom is defined: it is not an external any more if it has a rule. *)
LEMMA DefineExternals ==
  ASSUME Types, Identities, ExternalsInv, NEW s \in Signs, NEW n \in Names[s], NEW f \in BOOLEAN,
         DefineIn(s, n, f), UNCHANGED <<value, ok, addedFacts>>,
         heads \subseteq heads', f => UidOf(s, n) \in heads' \ frozen',
         frozen' \intersect heads' = {},
         frozen' \subseteq frozen \union ({UidOf(s, n)} \ (heads \union DOMAIN value))
  PROVE  ExternalsInv'
<1>1. Lasting
  BY DefineLasts
<1>2. \A t \in Signs : \A o \in Offsets(t) : o \in DOMAIN atoms'[t] /\ Lives(atoms[t][o], atoms'[t][o])
  BY <1>1 DEF Lasting
<1>3. \A t \in Signs : \A p \in DOMAIN atoms'[t] :
        atoms'[t][p].fact => \/ p \in Offsets(t) /\ atoms[t][p].fact
                             \/ f /\ atoms'[t][p].uid = UidOf(s, n)
  BY DefineLasts
<1>4. FactsGrounded'
  BY <1>2, <1>3 DEF FactsGrounded, Offsets, Uid, Lives, ExternalsInv
<1>5. ASSUME ok, NEW u \in frozen'
      PROVE  \E t \in Signs : \E p \in DOMAIN atoms'[t] :
               atoms'[t][p].defined /\ atoms'[t][p].uid = u /\ ~atoms'[t][p].fact
  <2>1. CASE u \in frozen
    <3>1. \A t \in Signs : \A p \in Offsets(t) :
            atoms'[t][p].fact => atoms[t][p].fact \/ Uid(t, p) # u
      BY <1>2, <1>3, <1>5 DEF Lives, Uid
    <3>. QED  BY <1>1, <1>5, <2>1, <3>1, StayOpen
  <2>2. CASE u = UidOf(s, n) /\ u \notin heads \union DOMAIN value
    <3>1. PICK o \in DOMAIN atoms'[s] :
            /\ atoms'[s][o].uid = UidOf(s, n) /\ atoms'[s][o].defined
            /\ f \/ ~atoms'[s][o].fact \/ (o \in Offsets(s) /\ (atoms'[s][o].fact => atoms[s][o].fact))
      BY DefineLasts
    <3>2. ~f
      BY <1>5, <2>2
    <3>3. o \in Offsets(s) => ~atoms[s][o].fact
      BY <1>2, <2>2, <3>1 DEF ExternalsInv, FactsGrounded, Lives, Uid
    <3>. QED  BY <2>2, <3>1, <3>2, <3>3
  <2>. QED  BY <1>5, <2>1, <2>2
<1>6. ExternalsOpen'
  BY <1>5 DEF ExternalsOpen, Defined, Offsets
<1>. QED  BY <1>4, <1>6 DEF ExternalsInv

(* Externals in calls that add or define atoms. *)
LEMMA GrowthExternals ==
  ASSUME Types, Identities, ExternalsInv, NEW s \in Signs, NEW n \in Names[s], Growth(s, n)
  PROVE  ExternalsInv'
<1>1. CASE ReserveAtom(s, n)
  <2>1. UNCHANGED <<heads, frozen, value, ok, addedFacts>>
    BY <1>1 DEF ReserveAtom, backend, solver, session
  <2>2. Lasting
    BY <1>1, ReserveLasts
  <2>3. \A t \in Signs : \A p \in DOMAIN atoms'[t] :
          atoms'[t][p].fact => p \in Offsets(t) /\ atoms[t][p].fact
    BY <1>1, ReserveLasts
  <2>4. \A t \in Signs : \A o \in Offsets(t) : o \in DOMAIN atoms'[t] /\ Lives(atoms[t][o], atoms'[t][o])
    BY <2>2 DEF Lasting
  <2>5. FactsGrounded'
    BY <2>1, <2>3, <2>4 DEF FactsGrounded, Offsets, Uid, Lives, ExternalsInv
  <2>6. ASSUME ok, NEW u \in frozen
        PROVE  \E t \in Signs : \E p \in DOMAIN atoms'[t] :
                 atoms'[t][p].defined /\ atoms'[t][p].uid = u /\ ~atoms'[t][p].fact
    BY <2>2, <2>3, <2>4, <2>6, StayOpen
  <2>7. ExternalsOpen'
    BY <2>1, <2>6 DEF ExternalsOpen, Defined, Offsets
  <2>. QED  BY <2>1, <2>5, <2>7 DEF ExternalsInv
<1>2. ASSUME DeclareExternal(s, n) PROVE ExternalsInv'
  <2>1. /\ DefineIn(s, n, FALSE) /\ UNCHANGED <<heads, value, ok, addedFacts>>
        /\ frozen' = frozen \union ({UidOf(s, n)} \ (heads \union DOMAIN value))
    BY <1>2 DEF DeclareExternal, solver, session
  <2>2. frozen' \intersect heads' = {}
    BY <2>1 DEF ExternalsInv
  <2>. QED  BY <2>1, <2>2, DefineExternals
<1>3. ASSUME AddAtom(s, n) PROVE ExternalsInv'
  <2>1. DefineIn(s, n, FALSE) /\ UNCHANGED <<heads, frozen, value, ok, addedFacts>>
    BY <1>3 DEF AddAtom, backend, solver
  <2>2. frozen' \intersect heads' = {}
    BY <2>1 DEF ExternalsInv
  <2>. QED  BY <2>1, <2>2, DefineExternals
<1>4. ASSUME NEW f \in BOOLEAN, DefineAtom(s, n, f) PROVE ExternalsInv'
  <2>1. /\ DefineIn(s, n, f) /\ UNCHANGED <<value, ok, addedFacts>>
        /\ heads' = heads \union {UidOf(s, n)} /\ frozen' = frozen \ {UidOf(s, n)}
    BY <1>4 DEF DefineAtom, solver, session
  <2>2. frozen' \intersect heads' = {}
    BY <2>1 DEF ExternalsInv
  <2>. QED  BY <2>1, <2>2, DefineExternals
<1>. QED  BY <1>1, <1>2, <1>3, <1>4 DEF Growth

(* Externals when facts of a session are made facts of the domains. *)
LEMMA OutputExternals ==
  ASSUME Types, ExternalsInv, EndGround \/ EndAddBackend
  PROVE  ExternalsInv'
<1>1. Lasting /\ OutputGround
  BY OutputLasts
<1>2. UNCHANGED <<heads, frozen, value>> /\ addedFacts' \subseteq addedFacts
  BY <1>1 DEF OutputGround, EndGround, EndAddBackend, session
<1>3. ok' => ok
  BY <1>1, Zenon DEF OutputGround
<1>4. \A s \in Signs : \A o \in Offsets(s) :
        /\ atoms'[s][o].fact => atoms[s][o].fact \/ Uid(s, o) \in heads
        /\ Lives(atoms[s][o], atoms'[s][o])
  BY <1>1, OutputLasts DEF ExternalsInv, Lasting
<1>5. \A s \in Signs : DOMAIN atoms'[s] = Offsets(s)
  BY OutputLasts
<1>6. FactsGrounded'
  BY <1>2, <1>4, <1>5 DEF FactsGrounded, Offsets, Uid, Lives, ExternalsInv
<1>7. ASSUME ok, NEW u \in frozen
      PROVE  \E t \in Signs : \E p \in DOMAIN atoms'[t] :
               atoms'[t][p].defined /\ atoms'[t][p].uid = u /\ ~atoms'[t][p].fact
  <2>1. u \notin heads
    BY DEF ExternalsInv
  <2>. QED  BY <1>1, <1>4, <1>7, <2>1, StayOpen
<1>8. ExternalsOpen'
  BY <1>2, <1>3, <1>7 DEF ExternalsOpen, Defined, Offsets
<1>. QED  BY <1>2, <1>6, <1>8 DEF ExternalsInv

(* Externals in calls of the backend. *)
LEMMA BackendExternals ==
  ASSUME Types, ExternalsInv, NEW s \in Signs, NEW o \in Defined(s), BackendCall(Uid(s, o))
  PROVE  ExternalsInv'
<1>1. UNCHANGED <<atoms, value, ok>>
  BY DEF BackendCall, AddExternal, AddRule, data, solver
<1>2. o \in Offsets(s) /\ atoms[s][o].defined
  BY DEF Defined
<1>3. CASE AddExternal(Uid(s, o))
  <2>1. frozen' = frozen \union ({Uid(s, o)} \ (heads \union DOMAIN value)) /\ UNCHANGED <<heads, addedFacts>>
    BY <1>3 DEF AddExternal, session
  <2>2. FactsGrounded'
    BY <1>1, <2>1 DEF FactsGrounded, Offsets, Uid, ExternalsInv
  <2>3. Uid(s, o) \notin heads \union DOMAIN value => ~atoms[s][o].fact
    BY <1>2 DEF ExternalsInv, FactsGrounded
  <2>4. ExternalsOpen'
    BY <1>1, <2>1, <2>3 DEF ExternalsOpen, Defined, Offsets, Uid, ExternalsInv
  <2>. QED  BY <2>1, <2>2, <2>4 DEF ExternalsInv
<1>4. ASSUME NEW f \in BOOLEAN, AddRule(Uid(s, o), f) PROVE ExternalsInv'
  <2>1. /\ heads' = heads \union {Uid(s, o)} /\ frozen' = frozen \ {Uid(s, o)}
        /\ addedFacts' \subseteq addedFacts \union {Uid(s, o)}
    BY <1>4 DEF AddRule
  <2>2. FactsGrounded' /\ ExternalsOpen'
    BY <1>1, <2>1 DEF FactsGrounded, ExternalsOpen, Defined, Offsets, Uid, ExternalsInv
  <2>3. frozen' \intersect heads' = {} /\ addedFacts' \subseteq heads'
    BY <2>1 DEF ExternalsInv
  <2>. QED  BY <2>2, <2>3 DEF ExternalsInv
<1>. QED  BY <1>3, <1>4 DEF BackendCall

(* Externals in all calls. *)
LEMMA StepExternals ==
  ASSUME Types, Identities, ExternalsInv, CallStep
  PROVE  ExternalsInv'
<1>1. CASE Refresh
  BY <1>1, RefreshExternals
<1>2. CASE \E s \in Signs : \E n \in Names[s] : Growth(s, n)
  BY <1>2, GrowthExternals
<1>3. CASE EndGround \/ EndAddBackend
  BY <1>3, OutputExternals
<1>4. CASE Solve
  <2>1. UNCHANGED <<atoms, heads, frozen, addedFacts>> /\ (ok' => ok)
    BY <1>4, SolveFacts DEF data, session
  <2>2. DOMAIN value \subseteq DOMAIN value'
    BY <1>4, SolveFacts
  <2>3. FactsGrounded'
    BY <2>1, <2>2 DEF FactsGrounded, Offsets, Uid, ExternalsInv
  <2>. QED  BY <2>1, <2>3 DEF ExternalsInv, ExternalsOpen, Defined, Offsets
<1>5. CASE \E s \in Signs : \E o \in Defined(s) : BackendCall(Uid(s, o))
  BY <1>5, BackendExternals
<1>6. ASSUME UNCHANGED <<atoms, heads, frozen, addedFacts, value, ok>> PROVE ExternalsInv'
  BY <1>6 DEF ExternalsInv, FactsGrounded, ExternalsOpen, Defined, Offsets, Uid
<1>7. CASE \E s \in Signs : \E o \in Offsets(s) : AddTuple(s, o)
  BY <1>6, <1>7 DEF AddTuple, backend, solver, session
<1>8. CASE \E s \in Signs : Search(s)
  BY <1>6, <1>8 DEF Search, AskForChoice, UpdateIndices, backend, solver, session
<1>9. CASE \E b \in Bounds.cleanupModes : SetEnableCleanup(b)
  BY <1>6, <1>9 DEF SetEnableCleanup, data, backend, solver, session
<1>. QED  BY <1>1, <1>2, <1>3, <1>4, <1>5, <1>7, <1>8, <1>9, Kinds

-----------------------------------------------------------------------------
(* Constraints over an atom and its complement                             *)

(* All atoms are defined and none is new. *)
AllOld == \A s \in Signs : incOffset[s] = Len(atoms[s]) /\ \A o \in Offsets(s) : atoms[s][o].defined

(* With a solve call between ground calls, each ground call cleans up. *)
StepsOfCalls ==
  /\ enableCleanup
  /\ since \in 0..1
  /\ pc # "idle" => since = 1
  /\ pc = "idle" /\ since = 0 => canClean \/ AllOld

(* Then the old atoms of a ground call are all defined, and complements    *)
(* among them are excluded already.                                        *)
OldDefined == pc # "idle" => \A s \in Signs : \A o \in Offsets(s) : o <= incOffset[s] => atoms[s][o].defined

Excluded(p, n) ==
  atoms["pos"][p].name = atoms["neg"][n].name => {Uid("pos", p), Uid("neg", n)} \in constraints

OldExcluded ==
  pc # "idle" =>
    \A p \in Defined("pos"), n \in Defined("neg") :
      p <= incOffset["pos"] /\ n <= incOffset["neg"] => Excluded(p, n)

ComplementsInv == CleanSteps => StepsOfCalls /\ OldDefined /\ OldExcluded /\ ComplementsExcluded

(* A ground call begins with atoms that are all defined and old. *)
LEMMA RefreshSteps ==
  ASSUME Types, StepsOfCalls, CleanSteps, Refresh
  PROVE  /\ StepsOfCalls'
         /\ (pc' # "idle" \/ since' = 0) => AllOld'
<1>1. pc = "idle" /\ enableCleanup' /\ enableCleanup /\ Cleans = canClean
  BY TypeFacts DEF Refresh, StepsOfCalls, Cleans
<1>2. canClean => AllOld'
  <2> SUFFICES ASSUME canClean PROVE AllOld'
    OBVIOUS
  <2>1. CleanupData /\ incOffset' = [s \in Signs |-> Len(atoms'[s])]
    BY <1>1 DEF Refresh
  <2>2. Moved
    BY <2>1, CleanupMoves
  <2>3. \A s \in Signs : \A p \in DOMAIN atoms'[s] : atoms'[s][p].defined
    BY <2>2, MovedFrom
  <2>. QED  BY <2>1, <2>3 DEF AllOld, Offsets
<1>3. ~canClean /\ AllOld => AllOld'
  <2> SUFFICES ASSUME ~canClean, AllOld PROVE AllOld'
    OBVIOUS
  <2>1. UNCHANGED atoms /\ (incOffset' = [s \in Signs |-> Len(atoms'[s])] \/ UNCHANGED incOffset)
    BY DEF Refresh
  <2>. QED  BY <2>1 DEF AllOld, Offsets
<1>4. CASE pc' = "idle" /\ UNCHANGED since
  <2>1. since = 0 => AllOld'
    BY <1>1, <1>2, <1>3 DEF StepsOfCalls
  <2>. QED  BY <1>1, <1>4, <2>1 DEF StepsOfCalls
<1>5. CASE pc' \in {"ground", "backend"} /\ InBounds /\ since' = since + 1
  <2>1. since = 0
    BY <1>5 DEF InBounds, CleanSteps, StepsOfCalls
  <2>2. AllOld'
    BY <1>1, <1>2, <1>3, <2>1 DEF StepsOfCalls
  <2>. QED  BY <1>1, <1>5, <2>1, <2>2 DEF StepsOfCalls
<1>. QED  BY <1>4, <1>5 DEF Refresh

(* A cleanup keeps the names and uids of the atoms it keeps. *)
LEMMA RefreshExcluded ==
  ASSUME Types, Refresh, ComplementsExcluded
  PROVE  \A p \in Defined("pos")', n \in Defined("neg")' : Excluded(p, n)'
<1>1. pc = "idle" /\ UNCHANGED constraints
  BY DEF Refresh
<1>2. CASE UNCHANGED atoms
  BY <1>1, <1>2 DEF ComplementsExcluded, Excluded, Defined, Offsets, Uid
<1>3. CASE CleanupData
  <2>1. Moved /\ "pos" \in Signs /\ "neg" \in Signs
    BY <1>3, CleanupMoves DEF Signs
  <2> SUFFICES ASSUME NEW p \in DOMAIN atoms'["pos"], NEW n \in DOMAIN atoms'["neg"],
                      atoms'["pos"][p].name = atoms'["neg"][n].name
               PROVE  {atoms'["pos"][p].uid, atoms'["neg"][n].uid} \in constraints
    BY <1>1 DEF Excluded, Defined, Offsets, Uid
  <2>2. PICK o \in Offsets("pos") : Lives(atoms["pos"][o], atoms'["pos"][p]) /\ atoms["pos"][o].defined
    BY <2>1, MovedFrom
  <2>3. PICK m \in Offsets("neg") : Lives(atoms["neg"][m], atoms'["neg"][n]) /\ atoms["neg"][m].defined
    BY <2>1, MovedFrom
  <2>4. o \in Defined("pos") /\ m \in Defined("neg")
    BY <2>2, <2>3 DEF Defined
  <2>. QED  BY <1>1, <2>2, <2>3, <2>4 DEF ComplementsExcluded, Lives
<1>. QED  BY <1>2, <1>3 DEF Refresh

(* Complements in calls that begin with update(). *)
LEMMA RefreshComplements ==
  ASSUME Types, ComplementsInv, CleanSteps, Refresh
  PROVE  StepsOfCalls' /\ OldDefined' /\ OldExcluded' /\ ComplementsExcluded'
<1>1. StepsOfCalls /\ ComplementsExcluded
  BY DEF ComplementsInv
<1>2. StepsOfCalls' /\ OldDefined'
  BY <1>1, RefreshSteps DEF OldDefined, AllOld
<1>3. \A p \in Defined("pos")', n \in Defined("neg")' : Excluded(p, n)'
  BY <1>1, RefreshExcluded
<1>4. OldExcluded'
  BY <1>3 DEF OldExcluded
<1>5. ComplementsExcluded'
  BY <1>3 DEF ComplementsExcluded, Excluded, Uid
<1>. QED  BY <1>2, <1>4, <1>5

(* Complements in calls that add or define atoms. *)
LEMMA GrowthComplements ==
  ASSUME Types, Identities, ComplementsInv, CleanSteps, NEW s \in Signs, NEW n \in Names[s], Growth(s, n)
  PROVE  StepsOfCalls' /\ OldDefined' /\ OldExcluded' /\ ComplementsExcluded'
<1>1. /\ Lasting /\ pc \in {"ground", "backend"}
      /\ UNCHANGED <<pc, enableCleanup, since, incOffset, constraints>>
  BY GrowthFacts DEF control, bounds
<1>2. \A t \in Signs : \A o \in DOMAIN atoms'[t] : o <= incOffset[t] =>
        o \in Offsets(t) /\ Lives(atoms[t][o], atoms'[t][o])
  <2> SUFFICES ASSUME NEW t \in Signs, NEW o \in DOMAIN atoms'[t], o <= incOffset[t]
               PROVE  o \in Offsets(t) /\ Lives(atoms[t][o], atoms'[t][o])
    OBVIOUS
  <2>1. incOffset[t] \in Nat /\ Len(atoms[t]) \in Nat /\ incOffset[t] <= Len(atoms[t])
    BY TypeFacts, AtomsTyped
  <2>2. o \in Offsets(t) \/ Fresh(t, o)
    BY <1>1 DEF Lasting
  <2>3. ~Fresh(t, o)
    BY <2>1 DEF Fresh
  <2>. QED  BY <1>1, <2>2, <2>3 DEF Lasting
<1>3. OldDefined'
  BY <1>1, <1>2 DEF OldDefined, Offsets, Lives, ComplementsInv
<1>4. OldExcluded'
  <2> SUFFICES ASSUME NEW p \in DOMAIN atoms'["pos"], NEW m \in DOMAIN atoms'["neg"],
                      p <= incOffset["pos"], m <= incOffset["neg"],
                      atoms'["pos"][p].name = atoms'["neg"][m].name
               PROVE  {atoms'["pos"][p].uid, atoms'["neg"][m].uid} \in constraints
    BY <1>1 DEF OldExcluded, Excluded, Defined, Offsets, Uid
  <2>1. "pos" \in Signs /\ "neg" \in Signs
    BY DEF Signs
  <2>2. /\ p \in Offsets("pos") /\ Lives(atoms["pos"][p], atoms'["pos"][p])
        /\ m \in Offsets("neg") /\ Lives(atoms["neg"][m], atoms'["neg"][m])
    BY <1>2, <2>1
  <2>3. p \in Defined("pos") /\ m \in Defined("neg")
    BY <1>1, <2>1, <2>2 DEF OldDefined, ComplementsInv, Defined
  <2>. QED  BY <1>1, <2>2, <2>3 DEF OldExcluded, Excluded, ComplementsInv, Lives, Uid
<1>5. StepsOfCalls' /\ ComplementsExcluded'
  BY <1>1 DEF StepsOfCalls, ComplementsExcluded, ComplementsInv
<1>. QED  BY <1>3, <1>4, <1>5

(* endGround excludes those with a new atom. *)
LEMMA OutputComplements ==
  ASSUME Types, ComplementsInv, CleanSteps, EndGround \/ EndAddBackend
  PROVE  StepsOfCalls' /\ OldDefined' /\ OldExcluded' /\ ComplementsExcluded'
<1>1. Lasting /\ OutputGround /\ pc # "idle"
  BY OutputLasts DEF EndGround, EndAddBackend
<1>2. /\ pc' = "idle" /\ UNCHANGED <<enableCleanup, since>>
      /\ constraints' = constraints \union NewConstraints
  BY <1>1 DEF OutputGround, bounds
<1>3. StepsOfCalls' /\ OldDefined' /\ OldExcluded'
  BY <1>1, <1>2 DEF StepsOfCalls, OldDefined, OldExcluded, ComplementsInv
<1>4. \A s \in Signs : \A o \in DOMAIN atoms'[s] :
        /\ o \in Offsets(s) /\ Lives(atoms[s][o], atoms'[s][o])
        /\ atoms'[s][o].defined => atoms[s][o].defined
  <2>1. \A s \in Signs : \A o \in DOMAIN atoms'[s] : o \in Offsets(s) /\ Lives(atoms[s][o], atoms'[s][o])
    BY <1>1, OutputLasts DEF Lasting
  <2>2. CASE EndGround
    BY <2>1, <2>2 DEF EndGround
  <2>3. CASE EndAddBackend
    <3>1. atoms' = [s \in Signs |-> [o \in Offsets(s) |->
                     [atoms[s][o] EXCEPT !.fact = @ \/ atoms[s][o].uid \in FactsOfSession]]]
      BY <2>3 DEF EndAddBackend
    <3>2. \A s \in Signs : \A o \in Offsets(s) :
            atoms'[s][o] = [atoms[s][o] EXCEPT !.fact = @ \/ atoms[s][o].uid \in FactsOfSession]
      BY <3>1
    <3>3. \A s \in Signs : \A o \in Offsets(s) : atoms'[s][o].defined = atoms[s][o].defined
      <4> SUFFICES ASSUME NEW s \in Signs, NEW o \in Offsets(s)
                   PROVE  atoms'[s][o].defined = atoms[s][o].defined
        OBVIOUS
      <4>1. PICK f : atoms'[s][o] = [atoms[s][o] EXCEPT !.fact = f]
        BY <3>2, Zenon
      <4>. QED  BY <4>1, AtomsTyped DEF Atom
    <3>. QED  BY <2>1, <3>3
  <2>. QED  BY <2>2, <2>3
<1>5. ComplementsExcluded'
  <2> SUFFICES ASSUME NEW p \in DOMAIN atoms'["pos"], NEW n \in DOMAIN atoms'["neg"],
                      atoms'["pos"][p].defined, atoms'["neg"][n].defined,
                      atoms'["pos"][p].name = atoms'["neg"][n].name
               PROVE  {atoms'["pos"][p].uid, atoms'["neg"][n].uid} \in constraints'
    BY DEF ComplementsExcluded, Defined, Offsets
  <2>1. "pos" \in Signs /\ "neg" \in Signs
    BY DEF Signs
  <2>2. p \in Defined("pos") /\ n \in Defined("neg")
    BY <1>4, <2>1 DEF Defined
  <2>3. /\ atoms'["pos"][p].uid = atoms["pos"][p].uid /\ atoms'["neg"][n].uid = atoms["neg"][n].uid
        /\ atoms["pos"][p].name = atoms["neg"][n].name
    BY <1>4, <2>1 DEF Lives
  <2> DEFINE c == {atoms["pos"][p].uid, atoms["neg"][n].uid}
  <2>4. \A P, N : p \in P /\ n \in N => c \in Complements(P, N)
    <3> SUFFICES ASSUME NEW P, NEW N, p \in P, n \in N PROVE c \in Complements(P, N)
      OBVIOUS
    <3> DEFINE q == <<p, n>>
    <3>1. q \in P \X N /\ q[1] = p /\ q[2] = n
      OBVIOUS
    <3> HIDE DEF q
    <3>2. q \in {r \in P \X N : atoms["pos"][r[1]].name = atoms["neg"][r[2]].name}
      BY <2>3, <3>1
    <3>3. c = {atoms["pos"][q[1]].uid, atoms["neg"][q[2]].uid}
      BY <3>1
    <3> HIDE DEF c
    <3>. QED  BY <3>2, <3>3 DEF Complements
  <2>5. CASE n \in New("neg")
    BY <1>2, <2>2, <2>3, <2>4, <2>5 DEF NewConstraints
  <2>6. CASE n \notin New("neg") /\ p \in New("pos")
    BY <1>2, <2>2, <2>3, <2>4, <2>6 DEF NewConstraints
  <2>7. CASE n \notin New("neg") /\ p \notin New("pos")
    <3>1. p \in Offsets("pos") /\ n \in Offsets("neg")
      BY <2>2 DEF Defined
    <3>2. incOffset["pos"] \in Nat /\ incOffset["neg"] \in Nat /\ p \in Nat /\ n \in Nat
      BY <2>1, <3>1, TypeFacts, AtomsTyped
    <3>3. p <= incOffset["pos"] /\ n <= incOffset["neg"]
      BY <2>7, <3>1, <3>2 DEF New
    <3>. QED  BY <1>1, <1>2, <2>2, <2>3, <3>3 DEF OldExcluded, Excluded, ComplementsInv, Uid
  <2>. QED  BY <2>5, <2>6, <2>7
<1>. QED  BY <1>3, <1>5

(* The scenario never changes, and a program does not get consistent       *)
(* again.                                                                  *)
LEMMA ScenarioStays ==
  ASSUME Types, Identities, CallStep
  PROVE  UNCHANGED scenario /\ (ok' => ok)
<1>1. CASE Refresh
  BY <1>1 DEF Refresh, solver
<1>2. CASE \E s \in Signs : \E n \in Names[s] : Growth(s, n)
  BY <1>2, GrowthFacts DEF bounds, solver
<1>3. CASE EndGround \/ EndAddBackend
  <2>1. OutputGround
    BY <1>3 DEF EndGround, EndAddBackend
  <2>2. ok' => ok
    BY <2>1, Zenon DEF OutputGround
  <2>. QED  BY <2>1, <2>2 DEF OutputGround, bounds
<1>4. CASE Solve
  BY <1>4, SolveFacts
<1>5. CASE \E s \in Signs : \E o \in Offsets(s) : AddTuple(s, o)
  BY <1>5 DEF AddTuple, solver, bounds
<1>6. CASE Quiet
  BY <1>6 DEF Quiet
<1>. QED  BY <1>1, <1>2, <1>3, <1>4, <1>5, <1>6, Kinds, QuietKinds

(* Complements in all calls. *)
LEMMA StepComplements ==
  ASSUME Types, Identities, ComplementsInv, CallStep
  PROVE  ComplementsInv'
<1>1. CASE ~CleanSteps'
  BY <1>1 DEF ComplementsInv
<1>2. UNCHANGED scenario
  BY ScenarioStays
<1>3. CASE CleanSteps
  <2> USE <1>3
  <2> DEFINE Goal == StepsOfCalls' /\ OldDefined' /\ OldExcluded' /\ ComplementsExcluded'
  <2>1. Refresh => Goal
    BY RefreshComplements
  <2>2. (\E s \in Signs : \E n \in Names[s] : Growth(s, n)) => Goal
    BY GrowthComplements
  <2>3. EndGround \/ EndAddBackend => Goal
    BY OutputComplements
  <2>4. ASSUME UNCHANGED <<enableCleanup, since, pc, canClean, atoms, incOffset, constraints>> PROVE Goal
    BY <2>4 DEF ComplementsInv, StepsOfCalls, AllOld, OldDefined, OldExcluded, ComplementsExcluded,
                Excluded, Defined, Offsets, Uid
  <2>5. ASSUME Solve PROVE Goal
    <3>1. UNCHANGED <<enableCleanup, atoms, incOffset, constraints, pc>> /\ canClean' /\ since' = 0 /\ pc = "idle"
      BY <2>5, SolveFacts DEF data
    <3>. QED  BY <3>1 DEF ComplementsInv, StepsOfCalls, AllOld, OldDefined, OldExcluded,
                          ComplementsExcluded, Excluded, Defined, Offsets, Uid
  <2>6. (\E s \in Signs : \E o \in Defined(s) : BackendCall(Uid(s, o))) => Goal
    BY <2>4 DEF BackendCall, AddExternal, AddRule, control, data, bounds
  <2>7. (\E s \in Signs : \E o \in Offsets(s) : AddTuple(s, o)) => Goal
    BY <2>4 DEF AddTuple, control, backend, bounds
  <2>8. (\E s \in Signs : Search(s)) => Goal
    BY <2>4 DEF Search, AskForChoice, UpdateIndices, control, backend, bounds
  <2>9. ~\E b \in Bounds.cleanupModes : SetEnableCleanup(b)
    BY DEF SetEnableCleanup, ComplementsInv, StepsOfCalls, CleanSteps
  <2> HIDE DEF Goal
  <2>10. Goal
    BY <2>1, <2>2, <2>3, <2>5, <2>6, <2>7, <2>8, <2>9, Kinds, Zenon
  <2>. QED  BY <2>10 DEF Goal, ComplementsInv
<1>. QED  BY <1>1, <1>2, <1>3, SameTypes

-----------------------------------------------------------------------------
(* The output table and its atoms                                          *)

(* The entries of an atom in the output table. *)
EntriesOf(s, o) ==
  {k \in DOMAIN table : /\ table[k].sign = s /\ table[k].name = atoms[s][o].name
                        /\ table[k].uid \in {0, atoms[s][o].uid}}

(* All atoms have been shown, except those of this ground call. *)
AllShown ==
  /\ pc = "idle" => \A s \in Signs : showOffset[s] = Len(atoms[s])
  /\ pc # "idle" /\ CleanSteps =>
       \A s \in Signs : \A o \in Offsets(s) : o <= showOffset[s] => atoms[s][o].defined

(* No entry is for an atom that does not exist yet; an entry with the      *)
(* condition of a fact is for one.                                         *)
EntriesBounded == \A k \in DOMAIN table : table[k].uid <= uids

FactEntries ==
  \A k \in DOMAIN table : table[k].uid = 0 =>
    \E o \in Defined(table[k].sign) :
      atoms[table[k].sign][o].fact /\ atoms[table[k].sign][o].name = table[k].name

(* Each defined atom has one entry if it was due already, and none         *)
(* before.                                                                 *)
Shown ==
  \A s \in Signs : \A o \in Offsets(s) :
    IF o > showOffset[s] THEN EntriesOf(s, o) = {}
    ELSE atoms[s][o].defined => \E k : EntriesOf(s, o) = {k}

ShownInv ==
  /\ AllShown
  /\ EntriesBounded
  /\ ok => FactEntries
  /\ CleanSteps /\ ok => Shown

(* The types of entries. *)
LEMMA TableTyped ==
  ASSUME Types
  PROVE  /\ table \in Seq(Entry) /\ Len(table) \in Nat /\ DOMAIN table = 1..Len(table)
         /\ \A k \in DOMAIN table : table[k] \in Entry /\ table[k].sign \in Signs /\ table[k].uid \in Nat
<1>1. table \in Seq(Entry)
  BY TypeFacts
<1>2. \A k \in DOMAIN table : table[k] \in Entry
  BY <1>1
<1>. QED  BY <1>1, <1>2 DEF Entry

(* A cleanup moves what has been shown. *)
LEMMA RefreshShown ==
  ASSUME Types, Identities, Prepared, ComplementsInv, ShownInv, Refresh
  PROVE  ShownInv'
<1>1. /\ pc = "idle" /\ UNCHANGED <<table, uids, ok, scenario>> /\ (CleanSteps' <=> CleanSteps)
      /\ \A s \in Signs : showOffset[s] = Len(atoms[s])
  BY SameTypes DEF Refresh, solver, ShownInv, AllShown
<1>2. \A s \in Signs : showOffset'[s] = Len(atoms'[s])
  <2>1. CASE UNCHANGED <<atoms, showOffset>>
    BY <1>1, <2>1
  <2>2. CASE CleanupData
    <3> DEFINE cleaned == [s \in Signs |-> CleanDomain(atoms[s])]
    <3>1. atoms' = [s \in Signs |-> cleaned[s].atoms] /\ showOffset' = OffsetsAfter(cleaned)
      BY <2>2, Zenon DEF CleanupData
    <3> HIDE DEF cleaned
    <3>. QED  BY <3>1 DEF OffsetsAfter
  <2>. QED  BY <2>1, <2>2 DEF Refresh
<1>3. AllShown'
  <2>1. CASE pc' = "idle"
    BY <1>2, <2>1 DEF AllShown
  <2>2. CASE pc' # "idle" /\ CleanSteps
    <3>1. AllOld'
      BY <2>2, RefreshSteps DEF ComplementsInv
    <3>. QED  BY <2>2, <3>1 DEF AllShown, AllOld
  <2>. QED  BY <1>1, <2>1, <2>2 DEF AllShown
<1>4. EntriesBounded'
  BY <1>1 DEF EntriesBounded, ShownInv
<1>5. ASSUME ok, CleanupData, canClean PROVE FactEntries'
  <2> SUFFICES ASSUME NEW k \in DOMAIN table, table[k].uid = 0
               PROVE  \E p \in DOMAIN atoms'[table[k].sign] :
                        /\ atoms'[table[k].sign][p].defined /\ atoms'[table[k].sign][p].fact
                        /\ atoms'[table[k].sign][p].name = table[k].name
    BY <1>1 DEF FactEntries, Defined, Offsets
  <2> DEFINE s == table[k].sign
  <2>1. s \in Signs
    BY TableTyped
  <2> HIDE DEF s
  <2>2. PICK o \in Defined(s) : atoms[s][o].fact /\ atoms[s][o].name = table[k].name
    BY <1>5 DEF s, ShownInv, FactEntries
  <2>3. o \in Offsets(s) /\ atoms[s][o] \in Atom /\ atoms[s][o].defined
    BY <2>1, AtomsTyped DEF Defined
  <2>4. atoms[s][o].uid \in DOMAIN value /\ value[atoms[s][o].uid] = "true"
    <3>1. atoms[s][o].uid \in 1..uids
      BY <2>1, <2>3 DEF Atom, Identities, UidsBounded, Uid, Types
    <3>. QED  BY <1>5, <2>1, <2>2, <2>3, <3>1 DEF Prepared, Uid
  <2>5. ~Deleted(atoms[s][o])
    BY <2>3, <2>4 DEF Deleted, Truth
  <2>6. Move(s, o) \in DOMAIN atoms'[s] /\ atoms'[s][Move(s, o)] = Kept(atoms[s][o])
    BY <1>5, <2>1, <2>3, <2>5, CleanupMoves DEF Moved
  <2>. QED  BY <2>2, <2>3, <2>6, KeptSame DEF s
<1>6. ASSUME ok, UNCHANGED atoms PROVE FactEntries'
  BY <1>1, <1>6 DEF ShownInv, FactEntries, Defined, Offsets
<1>7. ASSUME CleanSteps, ok PROVE Shown'
  <2> SUFFICES ASSUME NEW s \in Signs, NEW p \in DOMAIN atoms'[s], atoms'[s][p].defined
               PROVE  \E k : EntriesOf(s, p)' = {k}
    <3>1. \A s \in Signs : atoms'[s] \in Seq(Atom)
      <4>1. CASE UNCHANGED atoms
        BY <4>1, AtomsTyped
      <4>2. CASE CleanupData
        BY <4>2, CleanupMoves DEF Moved
      <4>. QED  BY <4>1, <4>2 DEF Refresh
    <3>2. \A s \in Signs : \A p \in DOMAIN atoms'[s] : ~(p > showOffset'[s])
      BY <1>2, <3>1
    <3>. QED  BY <3>2 DEF Shown, Offsets
  <2>1. PICK o \in Offsets(s) : Lives(atoms[s][o], atoms'[s][p]) /\ atoms[s][o].defined
    <3>1. CASE UNCHANGED atoms
      BY <3>1 DEF Lives, Offsets
    <3>2. CASE CleanupData
      BY <3>2, CleanupMoves, MovedFrom
    <3>. QED  BY <3>1, <3>2 DEF Refresh
  <2>2. ~(o > showOffset[s])
    BY <1>1, AtomsTyped
  <2>3. \E k : EntriesOf(s, o) = {k}
    BY <1>7, <2>1, <2>2 DEF ShownInv, Shown
  <2>4. EntriesOf(s, p)' = EntriesOf(s, o)
    BY <1>1, <2>1 DEF EntriesOf, Lives
  <2>. QED  BY <2>3, <2>4
<1>. QED  BY <1>1, <1>3, <1>4, <1>5, <1>6, <1>7 DEF ShownInv, Refresh

(* Atoms that are added or defined while the program is instantiated. *)
LEMMA GrowthShown ==
  ASSUME Types, Identities, ShownInv, NEW s \in Signs, NEW n \in Names[s], Growth(s, n)
  PROVE  ShownInv'
<1>1. /\ Lasting /\ pc \in {"ground", "backend"}
      /\ UNCHANGED <<pc, showOffset, table, ok, scenario>> /\ (CleanSteps' <=> CleanSteps)
  BY GrowthFacts, SameTypes DEF control, solver, bounds
<1>2. \A t \in Signs : \A o \in Offsets(t) : o \in DOMAIN atoms'[t] /\ Lives(atoms[t][o], atoms'[t][o])
  BY <1>1 DEF Lasting
<1>3. \A t \in Signs : \A o \in DOMAIN atoms'[t] :
        \/ o \in Offsets(t)
        \/ Fresh(t, o) /\ o > showOffset[t]
  <2> SUFFICES ASSUME NEW t \in Signs, NEW o \in DOMAIN atoms'[t], o \notin Offsets(t)
               PROVE  Fresh(t, o) /\ o > showOffset[t]
    OBVIOUS
  <2>1. showOffset[t] \in Nat /\ Len(atoms[t]) \in Nat /\ showOffset[t] <= Len(atoms[t])
    BY TypeFacts, AtomsTyped
  <2>2. Fresh(t, o)
    BY <1>1 DEF Lasting
  <2>. QED  BY <2>1, <2>2 DEF Fresh
<1>4. AllShown'
  <2> SUFFICES ASSUME CleanSteps, NEW t \in Signs, NEW o \in DOMAIN atoms'[t], o <= showOffset[t]
               PROVE  atoms'[t][o].defined
    BY <1>1 DEF AllShown, Offsets
  <2>1. o \in Offsets(t)
    <3>1. showOffset[t] \in Nat /\ Len(atoms[t]) \in Nat
      BY TypeFacts, AtomsTyped
    <3>2. ~Fresh(t, o) \/ ~(o > showOffset[t])
      BY <3>1 DEF Fresh
    <3>. QED  BY <1>3, <3>2
  <2>. QED  BY <1>1, <1>2, <2>1 DEF ShownInv, AllShown, Lives
<1>5. EntriesBounded'
  <2>1. uids \in Nat /\ uids' \in Nat /\ uids <= uids'
    BY <1>1 DEF Lasting, Types
  <2>. QED  BY <1>1, <2>1, TableTyped DEF EntriesBounded, ShownInv
<1>6. ASSUME FactEntries PROVE FactEntries'
  <2> SUFFICES ASSUME NEW k \in DOMAIN table, table[k].uid = 0
               PROVE  \E p \in DOMAIN atoms'[table[k].sign] :
                        /\ atoms'[table[k].sign][p].defined /\ atoms'[table[k].sign][p].fact
                        /\ atoms'[table[k].sign][p].name = table[k].name
    BY <1>1 DEF FactEntries, Defined, Offsets
  <2>. QED  BY <1>2, <1>6, TableTyped DEF FactEntries, Defined, Lives
<1>7. ASSUME CleanSteps, ok PROVE Shown'
  <2> SUFFICES ASSUME NEW t \in Signs, NEW p \in DOMAIN atoms'[t]
               PROVE  IF p > showOffset[t] THEN EntriesOf(t, p)' = {}
                      ELSE atoms'[t][p].defined => \E k : EntriesOf(t, p)' = {k}
    BY <1>1 DEF Shown, Offsets
  <2>1. CASE p \in Offsets(t)
    <3>1. EntriesOf(t, p)' = EntriesOf(t, p)
      BY <1>1, <1>2, <2>1 DEF EntriesOf, Lives
    <3>2. IF p > showOffset[t] THEN EntriesOf(t, p) = {}
          ELSE atoms[t][p].defined => \E k : EntriesOf(t, p) = {k}
      BY <1>7, <2>1 DEF ShownInv, Shown
    <3>3. ~(p > showOffset[t]) => atoms[t][p].defined
      <4>1. showOffset[t] \in Nat /\ p \in Nat
        BY <2>1, TypeFacts, AtomsTyped
      <4>. QED  BY <1>1, <1>7, <2>1, <4>1 DEF ShownInv, AllShown
    <3>. QED  BY <3>1, <3>2, <3>3
  <2>2. CASE p \notin Offsets(t)
    <3>1. Fresh(t, p) /\ p > showOffset[t]
      BY <1>3, <2>2
    <3>2. ASSUME NEW k \in DOMAIN table, table[k].sign = t, table[k].name = atoms'[t][p].name,
                 table[k].uid \in {0, atoms'[t][p].uid}
          PROVE  FALSE
      <4>1. table[k].uid \in Nat /\ uids \in Nat /\ table[k].uid <= uids
        BY TableTyped DEF ShownInv, EntriesBounded, Types
      <4>2. table[k].uid = 0
        BY <3>1, <3>2, <4>1 DEF Fresh
      <4>3. PICK o \in Defined(t) : atoms[t][o].name = atoms'[t][p].name
        BY <1>7, <3>2, <4>2 DEF ShownInv, FactEntries
      <4>. QED  BY <3>1, <4>3 DEF Fresh, Named, Defined
    <3>3. EntriesOf(t, p)' = {}
      BY <1>1, <3>2 DEF EntriesOf
    <3>. QED  BY <3>1, <3>3
  <2>. QED  BY <2>1, <2>2
<1>. QED  BY <1>1, <1>4, <1>5, <1>6, <1>7 DEF ShownInv

(* Indices of a concatenation. *)
LEMMA ThreeParts ==
  ASSUME NEW E, NEW S \in Seq(E), NEW A \in Seq(E), NEW B \in Seq(E)
  PROVE  LET U == S \o A \o B IN
         /\ \A k \in DOMAIN S : k \in DOMAIN U /\ U[k] = S[k]
         /\ \A i \in DOMAIN A : /\ Len(S) + i \in DOMAIN U \ DOMAIN S /\ U[Len(S) + i] = A[i]
         /\ \A i \in DOMAIN B : /\ Len(S) + Len(A) + i \in DOMAIN U \ DOMAIN S
                                /\ U[Len(S) + Len(A) + i] = B[i]
         /\ \A k \in DOMAIN U \ DOMAIN S : \/ \E i \in DOMAIN A : k = Len(S) + i
                                           \/ \E i \in DOMAIN B : k = Len(S) + Len(A) + i
<1> DEFINE U == S \o A \o B
           l == Len(S)
           m == Len(A)
           n == Len(B)
<1>1. /\ l \in Nat /\ m \in Nat /\ n \in Nat
      /\ DOMAIN S = 1..l /\ DOMAIN A = 1..m /\ DOMAIN B = 1..n
  OBVIOUS
<1>2. /\ Len(S \o A) = l + m
      /\ \A k \in 1..(l + m) : (S \o A)[k] = IF k <= l THEN S[k] ELSE A[k - l]
  OBVIOUS
<1>3. /\ DOMAIN U = 1..(l + m + n)
      /\ \A k \in 1..(l + m + n) : U[k] = IF k <= l + m THEN (S \o A)[k] ELSE B[k - (l + m)]
  BY <1>2
<1> HIDE DEF U, l, m, n
<1>4. \A k \in 1..(l + m + n) : U[k] = IF k <= l THEN S[k] ELSE IF k <= l + m THEN A[k - l] ELSE B[k - (l + m)]
  <2> SUFFICES ASSUME NEW k \in 1..(l + m + n)
               PROVE  U[k] = IF k <= l THEN S[k] ELSE IF k <= l + m THEN A[k - l] ELSE B[k - (l + m)]
    OBVIOUS
  <2> DEFINE W == S \o A
  <2>1. \A i \in 1..(l + m) : W[i] = IF i <= l THEN S[i] ELSE A[i - l]
    BY <1>2
  <2>2. U[k] = IF k <= l + m THEN W[k] ELSE B[k - (l + m)]
    BY <1>3
  <2> HIDE DEF W
  <2>3. CASE k <= l + m
    <3>1. k \in 1..(l + m)
      BY <1>1, <2>3
    <3>. QED  BY <1>1, <2>1, <2>2, <2>3, <3>1
  <2>4. CASE ~(k <= l + m)
    <3>1. ~(k <= l)
      BY <1>1, <2>4
    <3>. QED  BY <2>2, <2>4, <3>1
  <2>. QED  BY <2>3, <2>4
<1>5. \A k \in DOMAIN S : k \in DOMAIN U /\ U[k] = S[k]
  BY <1>1, <1>3, <1>4
<1>6. \A i \in DOMAIN A : l + i \in DOMAIN U \ DOMAIN S /\ U[l + i] = A[i]
  <2> SUFFICES ASSUME NEW i \in 1..m PROVE l + i \in 1..(l + m + n) /\ ~(l + i <= l) /\ U[l + i] = A[i]
    BY <1>1, <1>3
  <2>1. l + i \in 1..(l + m + n) /\ ~(l + i <= l) /\ l + i <= l + m /\ (l + i) - l = i
    BY <1>1
  <2>. QED  BY <1>4, <2>1
<1>7. \A i \in DOMAIN B : l + m + i \in DOMAIN U \ DOMAIN S /\ U[l + m + i] = B[i]
  <2> SUFFICES ASSUME NEW i \in 1..n PROVE l + m + i \in 1..(l + m + n) /\ ~(l + m + i <= l) /\ U[l + m + i] = B[i]
    BY <1>1, <1>3
  <2>1. /\ l + m + i \in 1..(l + m + n) /\ ~(l + m + i <= l) /\ ~(l + m + i <= l + m)
        /\ (l + m + i) - (l + m) = i
    BY <1>1
  <2>. QED  BY <1>4, <2>1
<1>8. \A k \in DOMAIN U \ DOMAIN S : (\E i \in DOMAIN A : k = l + i) \/ \E i \in DOMAIN B : k = l + m + i
  <2> SUFFICES ASSUME NEW k \in DOMAIN U \ DOMAIN S
               PROVE  (\E i \in 1..m : k = l + i) \/ \E i \in 1..n : k = l + m + i
    BY <1>1
  <2>0. k \in 1..(l + m + n) /\ ~(k <= l)
    BY <1>1, <1>3
  <2>1. CASE k <= l + m
    <3>1. k - l \in 1..m /\ k = l + (k - l)
      BY <1>1, <2>0, <2>1
    <3>. QED  BY <3>1
  <2>2. CASE ~(k <= l + m)
    <3>1. k - (l + m) \in 1..n /\ k = l + m + (k - (l + m))
      BY <1>1, <2>0, <2>2
    <3>. QED  BY <3>1
  <2>. QED  BY <2>1, <2>2
<1>. QED  BY <1>5, <1>6, <1>7, <1>8 DEF U, l, m

(* What endGround adds to the table: entries of the atoms that are due, *)
(* each of them once.                                                   *)
Added == DOMAIN table' \ DOMAIN table

(* Atoms that are due when a ground call ends. *)
DueNow(s, o) == o \in DOMAIN atoms'[s] /\ o > showOffset[s] /\ atoms'[s][o].defined

(* The entries that are added. *)
TableGrows ==
  /\ \A k \in DOMAIN table : k \in DOMAIN table' /\ table'[k] = table[k]
  /\ \A k \in Added : \E s \in Signs : \E o : DueNow(s, o) /\ table'[k] = EntryOf(s, atoms'[s][o])
  /\ \A s \in Signs : \A o : DueNow(s, o) => \E k \in Added : table'[k] = EntryOf(s, atoms'[s][o])
  /\ \A k, l \in Added : table'[k].sign = table'[l].sign /\ table'[k].name = table'[l].name => k = l

(* endGround adds the entries of atoms that are due, each of them once. *)
LEMMA OutputTable ==
  ASSUME Types, Identities, EndGround \/ EndAddBackend
  PROVE  TableGrows
<1>1. Lasting /\ OutputGround
  BY OutputLasts
<1>2. Identities'
  BY <1>1, LastingIdentities
<1>3. \A s \in Signs : /\ atoms'[s] \in Seq(Atom) /\ Len(atoms'[s]) \in Nat
                       /\ DOMAIN atoms'[s] = 1..Len(atoms'[s])
                       /\ \A o \in DOMAIN atoms'[s] : atoms'[s][o] \in Atom
  <2>1. \A s \in Signs : atoms'[s] \in Seq(Atom)
    BY <1>1 DEF Lasting
  <2>. QED  BY <2>1
<1> DEFINE e(s) == NewEntries(s, atoms'[s])
           S == table
           A == e("pos")
           B == e("neg")
           U == S \o A \o B
<1>4. ASSUME NEW s \in Signs PROVE EntriesFor(s, atoms'[s], Len(atoms'[s]), e(s))
  <2>1. \A o, p \in DOMAIN atoms'[s] : atoms'[s][o].name = atoms'[s][p].name => o = p
    BY <1>2 DEF Identities, NamesApart, Offsets
  <2>. QED  BY <1>3, <2>1, NewEntriesExact
<1>5. table' = U
  BY <1>1 DEF OutputGround
<1> HIDE DEF e
<1>6. \A s \in Signs :
        /\ e(s) \in Seq(Entry)
        /\ \A i \in DOMAIN e(s) : \E o : DueNow(s, o) /\ e(s)[i] = EntryOf(s, atoms'[s][o])
        /\ \A o : DueNow(s, o) => \E i \in DOMAIN e(s) : e(s)[i] = EntryOf(s, atoms'[s][o])
        /\ \A i, j \in DOMAIN e(s) : e(s)[i].name = e(s)[j].name => i = j
  BY <1>3, <1>4 DEF EntriesFor, DueNow, Due
<1>7. \A s \in Signs : \A i \in DOMAIN e(s) : e(s)[i].sign = s
  BY <1>3, <1>6, EntryFacts DEF DueNow
<1>8. S \in Seq(Entry) /\ A \in Seq(Entry) /\ B \in Seq(Entry) /\ "pos" \in Signs /\ "neg" \in Signs
  BY <1>6, TypeFacts DEF Signs
<1> DEFINE l == Len(S)
           m == Len(A)
<1>9. /\ \A k \in DOMAIN S : k \in DOMAIN U /\ U[k] = S[k]
      /\ \A i \in DOMAIN A : l + i \in DOMAIN U \ DOMAIN S /\ U[l + i] = A[i]
      /\ \A i \in DOMAIN B : l + m + i \in DOMAIN U \ DOMAIN S /\ U[l + m + i] = B[i]
      /\ \A k \in DOMAIN U \ DOMAIN S : \/ \E i \in DOMAIN A : k = l + i
                                        \/ \E i \in DOMAIN B : k = l + m + i
  BY <1>8, ThreeParts
<1>10. Added = DOMAIN U \ DOMAIN S
  BY <1>5 DEF Added
<1> HIDE DEF U, l, m
<1>11. ASSUME NEW k \in Added
       PROVE  \/ \E i \in DOMAIN A : k = l + i /\ table'[k] = A[i]
              \/ \E i \in DOMAIN B : k = l + m + i /\ table'[k] = B[i]
  BY <1>5, <1>9, <1>10
<1>12. \A k \in Added : \E s \in Signs : \E o : DueNow(s, o) /\ table'[k] = EntryOf(s, atoms'[s][o])
  BY <1>6, <1>8, <1>11
<1>13. \A s \in Signs : \A o : DueNow(s, o) => \E k \in Added : table'[k] = EntryOf(s, atoms'[s][o])
  <2> SUFFICES ASSUME NEW s \in Signs, NEW o, DueNow(s, o)
               PROVE  \E k \in Added : table'[k] = EntryOf(s, atoms'[s][o])
    OBVIOUS
  <2>1. PICK i \in DOMAIN e(s) : e(s)[i] = EntryOf(s, atoms'[s][o])
    BY <1>6
  <2>. QED  BY <1>5, <1>9, <1>10, <2>1 DEF Signs
<1>14. ASSUME NEW k \in Added, NEW h \in Added,
              table'[k].sign = table'[h].sign, table'[k].name = table'[h].name
       PROVE  k = h
  <2> DEFINE InA(q) == \E i \in DOMAIN A : q = l + i /\ table'[q] = A[i]
             InB(q) == \E i \in DOMAIN B : q = l + m + i /\ table'[q] = B[i]
  <2>1. (InA(k) \/ InB(k)) /\ (InA(h) \/ InB(h))
    BY <1>11
  <2>2. \A q : /\ InA(q) => table'[q].sign = "pos"
               /\ InB(q) => table'[q].sign = "neg"
    BY <1>7, <1>8
  <2>3. \A i, j \in DOMAIN A : A[i].name = A[j].name => i = j
    BY <1>6, <1>8
  <2>4. \A i, j \in DOMAIN B : B[i].name = B[j].name => i = j
    BY <1>6, <1>8
  <2>5. CASE InA(k) /\ InA(h)
    BY <1>14, <2>3, <2>5
  <2>6. CASE InB(k) /\ InB(h)
    BY <1>14, <2>4, <2>6
  <2> HIDE DEF InA, InB
  <2>. QED  BY <1>14, <2>1, <2>2, <2>5, <2>6
<1>. QED  BY <1>5, <1>9, <1>12, <1>13, <1>14 DEF TableGrows

(* Everything that is due has been shown then. *)
LEMMA OutputShown ==
  ASSUME Types, Identities, ShownInv, EndGround \/ EndAddBackend
  PROVE  ShownInv'
<1>1. /\ Lasting /\ UNCHANGED uids /\ OutputGround /\ pc # "idle" /\ TableGrows /\ Identities' /\ Types'
      /\ \A s \in Signs : DOMAIN atoms'[s] = Offsets(s)
  BY OutputLasts, OutputTable, OutputTypes DEF EndGround, EndAddBackend
<1>2. pc' = "idle" /\ UNCHANGED scenario /\ (CleanSteps' <=> CleanSteps)
  BY <1>1, SameTypes DEF OutputGround, bounds
<1>3. ok' => ok
  BY <1>1, Zenon DEF OutputGround
<1>4. \A s \in Signs : \A o \in Offsets(s) : Lives(atoms[s][o], atoms'[s][o])
  BY <1>1 DEF Lasting
<1>5. \A s \in Signs : /\ atoms'[s] \in Seq(Atom) /\ DOMAIN atoms'[s] = 1..Len(atoms'[s])
                       /\ Len(atoms'[s]) \in Nat
                       /\ \A o \in DOMAIN atoms'[s] : atoms'[s][o] \in Atom /\ atoms'[s][o].uid \in Nat \ {0}
  <2>1. \A s \in Signs : atoms'[s] \in Seq(Atom)
    BY <1>1 DEF Lasting
  <2>2. \A s \in Signs : \A o \in DOMAIN atoms'[s] : atoms'[s][o] \in Atom
    BY <2>1
  <2>3. \A s \in Signs : \A o \in DOMAIN atoms'[s] : atoms'[s][o].uid \in Nat \ {0}
    BY <2>2 DEF Atom
  <2>. QED  BY <2>1, <2>2, <2>3
<1>6. \A s \in Signs : showOffset'[s] = Len(atoms'[s])
  <2> SUFFICES ASSUME NEW s \in Signs PROVE Len(atoms[s]) = Len(atoms'[s])
    BY <1>1 DEF OutputGround
  <2>1. 1..Len(atoms[s]) = 1..Len(atoms'[s]) /\ Len(atoms[s]) \in Nat /\ Len(atoms'[s]) \in Nat
    BY <1>1, <1>5, AtomsTyped
  <2>. QED  BY <2>1
<1>7. AllShown'
  BY <1>2, <1>6 DEF AllShown
<1>8. ASSUME NEW k \in Added
      PROVE  \E s \in Signs : \E o \in DOMAIN atoms'[s] :
               /\ DueNow(s, o) /\ table'[k].sign = s /\ table'[k].name = atoms'[s][o].name
               /\ table'[k].uid = IF atoms'[s][o].fact THEN 0 ELSE atoms'[s][o].uid
  <2>1. PICK s \in Signs : \E o : DueNow(s, o) /\ table'[k] = EntryOf(s, atoms'[s][o])
    BY <1>1 DEF TableGrows
  <2>2. PICK o : DueNow(s, o) /\ table'[k] = EntryOf(s, atoms'[s][o])
    BY <2>1
  <2>3. o \in DOMAIN atoms'[s] /\ atoms'[s][o] \in Atom
    BY <1>5, <2>2 DEF DueNow
  <2>4. /\ table'[k].sign = s /\ table'[k].name = atoms'[s][o].name
        /\ table'[k].uid = IF atoms'[s][o].fact THEN 0 ELSE atoms'[s][o].uid
    BY <2>2, <2>3, EntryFacts
  <2>. QED  BY <2>2, <2>3, <2>4, Zenon
<1>9. EntriesBounded'
  <2> SUFFICES ASSUME NEW k \in DOMAIN table' PROVE table'[k].uid <= uids
    BY <1>1 DEF EntriesBounded
  <2>1. CASE k \in DOMAIN table
    BY <1>1, <2>1 DEF TableGrows, ShownInv, EntriesBounded
  <2>2. CASE k \in Added
    <3>1. PICK s \in Signs : \E o \in DOMAIN atoms'[s] :
            table'[k].uid = IF atoms'[s][o].fact THEN 0 ELSE atoms'[s][o].uid
      BY <1>8, <2>2
    <3>2. PICK o \in DOMAIN atoms'[s] : table'[k].uid = IF atoms'[s][o].fact THEN 0 ELSE atoms'[s][o].uid
      BY <3>1
    <3>3. atoms'[s][o].uid <= uids
      BY <1>1 DEF Identities, UidsBounded, Uid, Offsets
    <3>. QED  BY <3>2, <3>3 DEF Types
  <2>. QED  BY <2>1, <2>2 DEF Added
<1>10. ASSUME FactEntries PROVE FactEntries'
  <2> SUFFICES ASSUME NEW k \in DOMAIN table', table'[k].uid = 0
               PROVE  \E p \in DOMAIN atoms'[table'[k].sign] :
                        /\ atoms'[table'[k].sign][p].defined /\ atoms'[table'[k].sign][p].fact
                        /\ atoms'[table'[k].sign][p].name = table'[k].name
    BY DEF FactEntries, Defined, Offsets
  <2>1. CASE k \in DOMAIN table
    <3>1. table'[k] = table[k] /\ table[k].sign \in Signs
      BY <1>1, <2>1, TableTyped DEF TableGrows
    <3>. QED  BY <1>1, <1>4, <1>10, <2>1, <3>1 DEF FactEntries, Defined, Lives
  <2>2. CASE k \in Added
    <3>1. PICK s \in Signs : \E o \in DOMAIN atoms'[s] :
            /\ DueNow(s, o) /\ table'[k].sign = s /\ table'[k].name = atoms'[s][o].name
            /\ table'[k].uid = IF atoms'[s][o].fact THEN 0 ELSE atoms'[s][o].uid
      BY <1>8, <2>2
    <3>2. PICK o \in DOMAIN atoms'[s] :
            /\ DueNow(s, o) /\ table'[k].sign = s /\ table'[k].name = atoms'[s][o].name
            /\ table'[k].uid = IF atoms'[s][o].fact THEN 0 ELSE atoms'[s][o].uid
      BY <3>1
    <3>3. atoms'[s][o].fact /\ atoms'[s][o].defined
      BY <1>5, <3>2 DEF DueNow
    <3>. QED  BY <3>2, <3>3
  <2>. QED  BY <2>1, <2>2 DEF Added
<1>11. ASSUME CleanSteps, ok PROVE Shown'
  <2> SUFFICES ASSUME NEW s \in Signs, NEW o \in DOMAIN atoms'[s], atoms'[s][o].defined
               PROVE  \E k : EntriesOf(s, o)' = {k}
    <3>1. \A s \in Signs : \A o \in DOMAIN atoms'[s] : ~(o > showOffset'[s])
      BY <1>5, <1>6
    <3>. QED  BY <3>1 DEF Shown, Offsets
  <2> DEFINE Mine(e) == /\ e.sign = s /\ e.name = atoms'[s][o].name /\ e.uid \in {0, atoms'[s][o].uid}
  <2>1. EntriesOf(s, o)' = {k \in DOMAIN table' : Mine(table'[k])}
    BY DEF EntriesOf
  <2>2. EntriesOf(s, o) = {k \in DOMAIN table : Mine(table[k])}
    BY <1>1, <1>4 DEF EntriesOf, Lives
  <2>3. /\ \A k \in DOMAIN table : k \in DOMAIN table' /\ table'[k] = table[k]
        /\ \A k \in DOMAIN table' : k \in DOMAIN table \/ k \in Added
    BY <1>1 DEF TableGrows, Added
  <2>4. \A k \in Added : table'[k].sign = s /\ table'[k].name = atoms'[s][o].name => o > showOffset[s]
    BY <1>1, <1>8 DEF DueNow, Identities, NamesApart, Offsets
  <2>5. o > showOffset[s] => EntriesOf(s, o) = {}
    BY <1>1, <1>11 DEF ShownInv, Shown
  <2>6. CASE o > showOffset[s]
    <3>1. PICK k \in Added : table'[k] = EntryOf(s, atoms'[s][o])
      BY <1>1, <2>6 DEF TableGrows, DueNow
    <3>2. Mine(table'[k])
      BY <1>5, <3>1, EntryFacts
    <3>3. \A h \in Added : Mine(table'[h]) => h = k
      BY <1>1, <3>2 DEF TableGrows
    <3> HIDE DEF Mine
    <3>4. k \in DOMAIN table'
      BY DEF Added
    <3>. QED  BY <2>1, <2>2, <2>3, <2>5, <2>6, <3>2, <3>3, <3>4
  <2>7. CASE ~(o > showOffset[s])
    <3>1. o \in Offsets(s) /\ atoms[s][o].defined
      <4>1. showOffset[s] \in Nat /\ o \in Nat
        BY <1>5, TypeFacts
      <4>. QED  BY <1>1, <1>11, <2>7, <4>1 DEF ShownInv, AllShown
    <3>2. PICK k : EntriesOf(s, o) = {k}
      BY <1>11, <2>7, <3>1 DEF ShownInv, Shown
    <3>3. \A h \in Added : ~Mine(table'[h])
      BY <2>4, <2>7
    <3> HIDE DEF Mine
    <3>. QED  BY <2>1, <2>2, <2>3, <3>2, <3>3
  <2>. QED  BY <2>6, <2>7
<1>. QED  BY <1>2, <1>3, <1>7, <1>9, <1>10, <1>11 DEF ShownInv

(* The output table in all calls. *)
LEMMA StepShown ==
  ASSUME Types, Identities, Prepared, ComplementsInv, ShownInv, CallStep
  PROVE  ShownInv'
<1>1. CASE Refresh
  BY <1>1, RefreshShown
<1>2. CASE \E s \in Signs : \E n \in Names[s] : Growth(s, n)
  BY <1>2, GrowthShown
<1>3. CASE EndGround \/ EndAddBackend
  BY <1>3, OutputShown
<1>4. ASSUME UNCHANGED <<pc, atoms, showOffset, uids, table, scenario>>, ok' => ok PROVE ShownInv'
  <2>1. CleanSteps' <=> CleanSteps
    BY <1>4, SameTypes
  <2>2. AllShown' /\ EntriesBounded'
    BY <1>4, <2>1 DEF ShownInv, AllShown, EntriesBounded, Offsets
  <2>3. FactEntries => FactEntries'
    BY <1>4 DEF FactEntries, Defined, Offsets
  <2>4. \A s, o : EntriesOf(s, o)' = EntriesOf(s, o)
    BY <1>4 DEF EntriesOf
  <2>5. Shown => Shown'
    BY <1>4, <2>4 DEF Shown, Offsets
  <2>. QED  BY <1>4, <2>1, <2>2, <2>3, <2>5 DEF ShownInv
<1>5. CASE Solve
  <2>1. UNCHANGED <<pc, atoms, showOffset, uids, table, scenario>> /\ (ok' => ok)
    BY <1>5, SolveFacts DEF data
  <2>. QED  BY <1>4, <2>1
<1>6. CASE Quiet
  BY <1>4, <1>6 DEF Quiet
<1>7. CASE \E s \in Signs : \E o \in Offsets(s) : AddTuple(s, o)
  BY <1>4, <1>7 DEF AddTuple, control, backend, solver, bounds
<1>. QED  BY <1>1, <1>2, <1>3, <1>5, <1>6, <1>7, Kinds, QuietKinds

(* One entry for each atom. *)
LEMMA EntriesOnce ==
  ASSUME Types, ShownInv
  PROVE  ShownOnce
<1> SUFFICES ASSUME pc = "idle", ok, CleanSteps, NEW s \in Signs, NEW o \in Defined(s)
             PROVE  Cardinality(EntriesOf(s, o)) = 1
  BY DEF ShownOnce, EntriesOf
<1>1. o \in Offsets(s) /\ atoms[s][o].defined
  BY DEF Defined
<1>2. ~(o > showOffset[s])
  BY <1>1, AtomsTyped DEF ShownInv, AllShown
<1>3. PICK k : EntriesOf(s, o) = {k}
  BY <1>1, <1>2 DEF ShownInv, Shown
<1>. QED  BY <1>3, FS_Singleton

-----------------------------------------------------------------------------
(* The invariant of all calls and what follows from it *)

(* The invariant of the control object. *)
CallsInv ==
  /\ Types
  /\ Identities
  /\ StepsInv
  /\ Prepared
  /\ LiteralsFollow
  /\ ExternalsInv
  /\ ComplementsInv
  /\ ShownInv

(* It holds initially, and all calls preserve it. *)
LEMMA InitCalls == Init => CallsInv
<1> SUFFICES ASSUME Init PROVE CallsInv
  OBVIOUS
<1>1. /\ scenario \in DOMAIN Scenarios /\ pc = "idle" /\ uids = 0 /\ steps = 0 /\ since = 0
      /\ tuples = {} /\ constraints = {} /\ table = <<>> /\ heads = {} /\ frozen = {}
      /\ addedAtoms = {} /\ addedFacts = {} /\ value = [u \in {} |-> "free"]
  BY DEF Init
<1>2. grounded = FALSE /\ canClean = FALSE /\ enableCleanup = TRUE /\ ok = TRUE
  BY Zenon DEF Init
<1>3. /\ atoms = [s \in Signs |-> <<>>] /\ incOffset = [s \in Signs |-> 0]
      /\ showOffset = [s \in Signs |-> 0] /\ choiceIndex = [s \in Signs |-> 0]
  BY Zenon DEF Init
<1>4. \A s \in Signs : Offsets(s) = {} /\ Len(atoms[s]) = 0 /\ incOffset[s] = 0 /\ showOffset[s] = 0
  BY <1>3 DEF Offsets
<1>5. DOMAIN value = {} /\ DOMAIN table = {}
  BY <1>1
<1>6. Types
  <2>1. {grounded, canClean, enableCleanup, ok} \subseteq BOOLEAN
    BY <1>2
  <2>2. atoms \in [Signs -> Seq(Atom)] /\ choiceIndex \in [Signs -> Nat]
    BY <1>3
  <2>3. table \in Seq(Entry) /\ heads \union frozen \union UNION constraints \subseteq 1..uids
    BY <1>1
  <2>. QED  BY <1>1, <1>4, <1>5, <2>1, <2>2, <2>3 DEF Types, TypeOK
<1>7. Identities
  BY <1>4 DEF Identities, UidsBounded, UidsApart, NamesApart
<1>8. StepsInv
  BY InitSteps
<1>9. Prepared /\ LiteralsFollow
  BY <1>1, <1>2 DEF Prepared, LiteralsFollow
<1>10. ExternalsInv
  BY <1>1, <1>4 DEF ExternalsInv, FactsGrounded, ExternalsOpen
<1>11. ComplementsInv
  BY <1>1, <1>2, <1>4 DEF ComplementsInv, StepsOfCalls, AllOld, OldDefined, OldExcluded,
                          ComplementsExcluded, Defined, Signs
<1>12. ShownInv
  BY <1>1, <1>4, <1>5 DEF ShownInv, AllShown, EntriesBounded, FactEntries, Shown
<1>. QED  BY <1>6, <1>7, <1>8, <1>9, <1>10, <1>11, <1>12 DEF CallsInv

LEMMA CallSteps == StepsInv /\ CallStep => StepsInv'
<1> SUFFICES ASSUME StepsInv, CallStep PROVE StepsInv'
  OBVIOUS
<1>1. CASE Next
  BY <1>1, NextSteps
<1>2. CASE \E i, r : AssignQuery(i, r)
  <2>1. Update(Cleans) /\ pc = "idle" /\ UNCHANGED <<pc, ok>> /\ grounded' = (grounded \/ ok)
    BY <1>2 DEF AssignQuery, solver
  <2>. QED  BY <2>1, AssignedSteps
<1>. QED  BY <1>1, <1>2 DEF CallStep

LEMMA NextCalls == CallsInv /\ CallStep => CallsInv'
<1> SUFFICES ASSUME CallsInv, CallStep PROVE CallsInv'
  OBVIOUS
<1>1. Types /\ Identities /\ StepsInv /\ Prepared /\ LiteralsFollow /\ ExternalsInv /\ ComplementsInv /\ ShownInv
  BY DEF CallsInv
<1>2. Types' /\ Identities'
  BY <1>1, StepTypes
<1>3. StepsInv' /\ Prepared' /\ LiteralsFollow'
  BY <1>1, CallSteps, StepPrepared, StepLiterals
<1>4. ExternalsInv' /\ ComplementsInv' /\ ShownInv'
  BY <1>1, StepExternals, StepComplements, StepShown
<1>. QED  BY <1>2, <1>3, <1>4 DEF CallsInv

LEMMA UnchangedCalls == CallsInv /\ UNCHANGED vars => CallsInv'
<1> SUFFICES ASSUME CallsInv, UNCHANGED vars PROVE CallsInv'
  OBVIOUS
<1>1. UNCHANGED <<pc, grounded, canClean, enableCleanup, atoms, incOffset, showOffset, choiceIndex, tuples, uids>>
  BY DEF vars, control, data
<1>2. UNCHANGED <<steps, constraints, table, heads, frozen, value, ok, addedAtoms, addedFacts, since, scenario>>
  BY DEF vars, backend, solver, session, bounds
<1>3. CleanSteps' <=> CleanSteps
  BY <1>2, SameTypes
<1>4. Types'
  BY <1>1, <1>2, TypesNext, TypeFacts DEF Types, CallsInv
<1>5. Identities' /\ StepsInv' /\ Prepared' /\ LiteralsFollow'
  BY <1>1, <1>2 DEF CallsInv, Identities, UidsBounded, UidsApart, NamesApart, StepsInv, Prepared,
                    LiteralsFollow, Offsets, Uid, Truth
<1>6. ExternalsInv'
  BY <1>1, <1>2 DEF CallsInv, ExternalsInv, FactsGrounded, ExternalsOpen, Defined, Offsets, Uid
<1>7. ComplementsInv'
  BY <1>1, <1>2, <1>3 DEF CallsInv, ComplementsInv, StepsOfCalls, AllOld, OldDefined, OldExcluded,
                          ComplementsExcluded, Excluded, Defined, Offsets, Uid
<1>8. ShownInv'
  <2>1. AllShown' /\ EntriesBounded'
    BY <1>1, <1>2, <1>3 DEF CallsInv, ShownInv, AllShown, EntriesBounded, Offsets
  <2>2. FactEntries => FactEntries'
    BY <1>1, <1>2 DEF FactEntries, Defined, Offsets
  <2>3. \A s, o : EntriesOf(s, o)' = EntriesOf(s, o)
    BY <1>1, <1>2 DEF EntriesOf
  <2>4. Shown => Shown'
    BY <1>1, <1>2, <2>3 DEF Shown, Offsets
  <2>. QED  BY <1>2, <1>3, <2>1, <2>2, <2>4 DEF CallsInv, ShownInv
<1>. QED  BY <1>4, <1>5, <1>6, <1>7, <1>8 DEF CallsInv

(* What the invariant says about the state, and about calls. *)
LEMMA CallsPromise ==
  ASSUME CallsInv
  PROVE  TypeOK /\ LiteralsFollow /\ ExternalsOpen /\ ComplementsOfSteps /\ ShownOnce
<1>1. TypeOK /\ LiteralsFollow /\ ExternalsOpen
  BY DEF CallsInv, Types, ExternalsInv
<1>2. ComplementsOfSteps
  BY DEF CallsInv, ComplementsInv, ComplementsOfSteps
<1>3. ShownOnce
  BY EntriesOnce DEF CallsInv
<1>. QED  BY <1>1, <1>2, <1>3

LEMMA CallsKeep == CallsInv /\ CallStep => KeepsDefined
BY StepKeeps DEF CallsInv

LEMMA InvariantCalls == Spec => []CallsInv
<1>1. CallsInv /\ [Next]_vars => CallsInv'
  BY NextCalls, UnchangedCalls DEF CallStep
<1>. QED  BY InitCalls, <1>1, PTL DEF Spec

(* All states have the types of TypeOK: offsets stay within their          *)
(* domains, and the solver and the backend only know uids of atoms that    *)
(* exist.                                                                  *)
THEOREM CallsTyped == Spec => []TypeOK
BY InvariantCalls, CallsPromise, PTL

(* A literal that the translator keeps denotes the atom it was made for,   *)
(* whatever cleanups come in between (Translator::simplify,                *)
(* PredicateLiteral::simplify, and the mapping of                          *)
(* AbstractDomain::cleanup).                                               *)
THEOREM LiteralsFollowAtoms == Spec => []LiteralsFollow
BY InvariantCalls, CallsPromise, PTL

(* An external that can still get a definition is neither deleted nor      *)
(* made a fact (the callback of ClingoControl::cleanup,                    *)
(* ExternalStatement::report, ClingoControl::endAddBackend).               *)
THEOREM ExternalsStayOpen == Spec => []ExternalsOpen
BY InvariantCalls, CallsPromise, PTL

(* If there is a solve call between any two ground calls, no answer set    *)
(* has an atom and its classical complement (OutputBase::endGround), for   *)
(* any names and any number of calls.                                      *)
THEOREM ComplementsAreExcluded == Spec => []ComplementsOfSteps
BY InvariantCalls, CallsPromise, PTL

(* If there is a solve call between any two ground calls, the output       *)
(* table has one entry for every defined atom (Translator::output, the     *)
(* offsets of PredicateDomain::cleanup and OutputBase::endGround).         *)
THEOREM AtomsShownOnce == Spec => []ShownOnce
BY InvariantCalls, CallsPromise, PTL

(* No call loses a defined atom that may still be true, or a literal kept  *)
(* for it (canClean_ in ClingoControl::update, prepare and cleanup).       *)
THEOREM DefinedAreKept == Spec => DefinedKept
<1>1. CallsInv /\ [Next]_vars => [KeepsDefined]_vars
  BY CallsKeep DEF CallStep
<1>. QED  BY <1>1, InvariantCalls, PTL DEF Spec, DefinedKept, KeepsDefined

(* The incremental mode makes calls of the control object only. *)
LEMMA IncCalls ==
  ASSUME IncNext
  PROVE  CallStep \/ UNCHANGED vars
<1>1. CASE User
  BY <1>1 DEF User, CallStep
<1>2. CASE Check \/ Stop
  BY <1>2 DEF Check, Stop
<1>3. CASE Release \/ Assign
  BY <1>3 DEF Release, Assign, CallStep
<1>4. CASE Ground \/ FinishGround \/ SolveStep
  <2>1. BeginGround \/ RefuseGround \/ EndGround \/ Solve
    BY <1>4 DEF Ground, FinishGround, SolveStep
  <2>. QED  BY <2>1 DEF Next, CallStep
<1>5. CASE Instantiate
  <2>1. PICK n \in Names["pos"] : DeclareExternal("pos", n) \/ ReserveAtom("pos", n) \/ \E f \in BOOLEAN : DefineAtom("pos", n, f)
    BY <1>5 DEF Instantiate
  <2>2. "pos" \in Signs
    BY DEF Signs
  <2>3. CASE DeclareExternal("pos", n)
    BY <2>2, <2>3 DEF Next, CallStep
  <2>4. CASE ReserveAtom("pos", n)
    BY <2>2, <2>4 DEF Next, CallStep
  <2>5. CASE \E f \in BOOLEAN : DefineAtom("pos", n, f)
    BY <2>2, <2>5 DEF Next, CallStep
  <2>. QED  BY <2>1, <2>3, <2>4, <2>5
<1>. QED  BY <1>1, <1>2, <1>3, <1>4, <1>5 DEF IncNext

(* So the invariant of all calls holds for the incremental mode. *)
LEMMA IncInvariantCalls == IncSpec => []CallsInv
<1>1. IncInit => CallsInv
  BY InitCalls DEF IncInit
<1>2. CallsInv /\ [IncNext]_<<vars, loop>> => CallsInv'
  BY IncCalls, NextCalls, UnchangedCalls
<1>. QED  BY <1>1, <1>2, PTL DEF IncSpec

(* The incremental mode has the properties of the control object. *)
THEOREM IncPromises ==
  IncSpec => [](TypeOK /\ LiteralsFollow /\ ExternalsOpen /\ ComplementsOfSteps /\ ShownOnce)
BY IncInvariantCalls, CallsPromise, PTL

(* No call of the incremental mode loses a defined atom that may still be  *)
(* true.                                                                   *)
THEOREM IncDefinedAreKept == IncSpec => DefinedKept
<1>1. CallsInv /\ [IncNext]_<<vars, loop>> => [KeepsDefined]_vars
  BY CallsKeep, IncCalls
<1>. QED  BY <1>1, IncInvariantCalls, PTL DEF IncSpec, DefinedKept, KeepsDefined

-----------------------------------------------------------------------------
(* The queries of the incremental mode                                     *)

(* Of the externals, only the i-th query is left. *)
OnlyQuery(i) ==
  \E o \in Defined("pos") : atoms["pos"][o].name = Queries[i] /\ frozen = {Uid("pos", o)}

(* No external is left. *)
NoExternals == frozen = {} /\ trueExternals = {}

(* The calls of a step after its ground call has begun. *)
InStep == at \in {"instantiate", "assign", "solve"}

(* The number of queries that may have an atom. *)
Declared == IF InStep THEN step + 1 ELSE step

(* Only the first d queries have atoms. *)
QueriesUpTo(d) ==
  \A o \in Offsets("pos"), i \in DOMAIN Queries : atoms["pos"][o].name = Queries[i] => i <= d

(* What each call of the loop finds. *)
LoopQueries ==
  /\ QueriesUpTo(Declared)
  /\ Len(parts) = Declared
  /\ at = "check" => IF step = 0 THEN NoExternals ELSE OnlyQuery(step) /\ trueExternals = frozen
  /\ at = "release" => OnlyQuery(step) /\ trueExternals = frozen
  /\ at = "ground" => NoExternals
  /\ at \in {"instantiate", "assign"} => trueExternals = {}
  /\ at = "instantiate" =>
       IF Named("pos", Queries[step + 1]) = {} THEN frozen = {} ELSE OnlyQuery(step + 1)
  /\ at \in {"assign", "solve"} => OnlyQuery(step + 1)
  /\ at = "solve" => trueExternals = frozen

(* The programs form a sequence. *)
PartsTyped == \E P : parts \in Seq(P)

(* The queries differ, and there are enough of them. *)
QueryInv ==
  at # "user" =>
    /\ Queries \in Seq(Names["pos"]) /\ imax <= Len(Queries)
    /\ \A i, j \in DOMAIN Queries : Queries[i] = Queries[j] => i = j
    /\ PartsTyped
    /\ ok /\ at # "done" => LoopQueries

(* It holds before the first step. *)
LEMMA InitQueries == IncInit => QueryInv
<1> SUFFICES ASSUME IncInit, at # "user" PROVE QueryInv
  BY DEF QueryInv
<1>1. /\ scenario \in DOMAIN Scenarios /\ Driven /\ at = "check" /\ step = 0 /\ trueExternals = {} /\ parts = <<>>
      /\ imax \in 0..Len(Queries) /\ frozen = {}
  BY DEF IncInit, Init
<1>2. /\ Queries \in Seq(Names["pos"])
      /\ \A i, j \in DOMAIN Queries : Queries[i] = Queries[j] => i = j
  BY <1>1, ScenariosAssumption DEF Queries, Names, Bounds
<1>3. imax <= Len(Queries)
  BY <1>1, <1>2
<1>4. Offsets("pos") = {}
  BY DEF IncInit, Init, Offsets, Signs
<1>5. PartsTyped
  <2>1. parts \in Seq({})
    BY <1>1
  <2>. QED  BY <2>1 DEF PartsTyped
<1>6. LoopQueries
  BY <1>1, <1>4 DEF LoopQueries, QueriesUpTo, Declared, InStep, NoExternals
<1>. QED  BY <1>2, <1>3, <1>5, <1>6 DEF QueryInv

(* update() keeps the atoms of externals and adds none. *)
LEMMA RefreshNames ==
  ASSUME Types, Refresh
  PROVE  \A p \in DOMAIN atoms'["pos"] : \E o \in Offsets("pos") : atoms["pos"][o].name = atoms'["pos"][p].name
<1>1. CASE UNCHANGED atoms
  BY <1>1 DEF Offsets
<1>2. CASE CleanupData
  <2>1. Moved /\ "pos" \in Signs
    BY <1>2, CleanupMoves DEF Signs
  <2>. QED  BY <2>1, MovedFrom DEF Lives
<1>. QED  BY <1>1, <1>2 DEF Refresh

(* In particular the external that is left. *)
LEMMA RefreshExternal ==
  ASSUME Types, Refresh, NEW o \in Defined("pos"), Uid("pos", o) \in frozen
  PROVE  \E p \in DOMAIN atoms'["pos"] :
           /\ atoms'["pos"][p].name = atoms["pos"][o].name
           /\ atoms'["pos"][p].uid = Uid("pos", o) /\ atoms'["pos"][p].defined
<1>1. o \in Offsets("pos") /\ atoms["pos"][o].defined /\ "pos" \in Signs
  BY DEF Defined, Signs
<1>2. CASE UNCHANGED atoms
  BY <1>1, <1>2 DEF Offsets, Uid
<1>3. CASE CleanupData
  <2>1. Moved /\ atoms["pos"][o] \in Atom
    BY <1>1, <1>3, CleanupMoves, AtomsTyped
  <2>2. Move("pos", o) \in DOMAIN atoms'["pos"] /\ atoms'["pos"][Move("pos", o)] = Kept(atoms["pos"][o])
    BY <1>1, <2>1 DEF Moved, Deleted, Uid
  <2>. QED  BY <1>1, <2>1, <2>2, KeptSame DEF Uid
<1>. QED  BY <1>2, <1>3 DEF Refresh

(* What the calls of assignExternal in the loop leave. *)
LEMMA AssignedQuery ==
  ASSUME Types, ok, NEW i, NEW r \in BOOLEAN, AssignQuery(i, r), OnlyQuery(i + 1)
  PROVE  /\ ok' = ok /\ UNCHANGED scenario
         /\ frozen \intersect Found(i) = frozen
         /\ frozen' = frozen => OnlyQuery(i + 1)'
         /\ frozen' = IF r THEN frozen \ Found(i) ELSE frozen
         /\ trueExternals' = IF r THEN trueExternals \ Found(i)
                             ELSE trueExternals \union (Found(i) \intersect frozen)
<1>1. Refresh
  BY Refreshes
<1>2. PICK o \in Defined("pos") : atoms["pos"][o].name = Queries[i + 1] /\ frozen = {Uid("pos", o)}
  BY DEF OnlyQuery
<1>3. PICK p \in DOMAIN atoms'["pos"] :
        /\ atoms'["pos"][p].name = Queries[i + 1]
        /\ atoms'["pos"][p].uid = Uid("pos", o) /\ atoms'["pos"][p].defined
  BY <1>1, <1>2, RefreshExternal
<1>4. UNCHANGED <<ok, scenario>> /\ Queries' = Queries
  BY DEF AssignQuery, solver, bounds, Queries, Bounds
<1>5. Uid("pos", o) \in Found(i)
  BY <1>3 DEF Found
<1>6. frozen' = frozen => OnlyQuery(i + 1)'
  BY <1>2, <1>3, <1>4 DEF OnlyQuery, Defined, Offsets, Uid
<1>. QED  BY <1>2, <1>4, <1>5, <1>6 DEF AssignQuery

(* No other atoms than those that a ground call names are added. *)
LEMMA NamesGrow ==
  ASSUME Types, Identities, NEW s \in Signs, NEW n \in Names[s], Growth(s, n)
  PROVE  \A t \in Signs : \A p \in DOMAIN atoms'[t] : p \in Offsets(t) \/ (t = s /\ atoms'[t][p].name = n)
<1>1. Lasting /\ uids \in Nat
  BY GrowthFacts, AtomsTyped
<1>2. ASSUME NEW a \in Atom, a.name = n, a.uid = uids + 1, Named(s, n) = {},
             atoms' = [atoms EXCEPT ![s] = Append(@, a)], uids' = uids + 1
      PROVE  \A t \in Signs : \A p \in DOMAIN atoms'[t] : p \in Offsets(t) \/ (t = s /\ atoms'[t][p].name = n)
  <2>1. \A t \in Signs : \A p \in DOMAIN atoms'[t] :
          \/ p \in Offsets(t) /\ atoms'[t][p] = atoms[t][p]
          \/ t = s /\ p = Len(atoms[s]) + 1 /\ atoms'[t][p] = a
    BY <1>2, AppendLasts
  <2>. QED  BY <1>2, <2>1
<1>3. n \in AllNames /\ uids + 1 \in Nat \ {0}
  BY <1>1 DEF AllNames
<1>4. CASE ReserveAtom(s, n)
  <2>1. PICK a : a = NewAtom(n)
    OBVIOUS
  <2>2. a = [name |-> n, defined |-> FALSE, fact |-> FALSE, uid |-> uids + 1]
    BY <2>1 DEF NewAtom
  <2>3. a \in Atom /\ a.name = n /\ a.uid = uids + 1
    BY <1>3, <2>2 DEF Atom
  <2>4. Named(s, n) = {} /\ atoms' = [atoms EXCEPT ![s] = Append(@, a)] /\ uids' = uids + 1
    BY <1>4, <2>1, Zenon DEF ReserveAtom
  <2>. QED  BY <1>2, <2>3, <2>4
<1>5. ASSUME NEW f \in BOOLEAN, DefineIn(s, n, f)
      PROVE  \A t \in Signs : \A p \in DOMAIN atoms'[t] : p \in Offsets(t) \/ (t = s /\ atoms'[t][p].name = n)
  <2>1. CASE Named(s, n) = {}
    <3>1. PICK a : a = [NewAtom(n) EXCEPT !.defined = TRUE, !.fact = f]
      OBVIOUS
    <3>2. a = [name |-> n, defined |-> TRUE, fact |-> f, uid |-> uids + 1]
      BY <3>1 DEF NewAtom
    <3>3. a \in Atom /\ a.name = n /\ a.uid = uids + 1
      BY <1>3, <1>5, <3>2 DEF Atom
    <3>4. atoms' = [atoms EXCEPT ![s] = Append(@, a)] /\ uids' = uids + 1
      BY <1>5, <2>1, <3>1, Zenon DEF DefineIn
    <3>. QED  BY <1>2, <2>1, <3>3, <3>4
  <2>2. CASE Named(s, n) # {}
    <3>1. uids' = uids
      BY <1>5, <2>2 DEF DefineIn
    <3>. QED  BY <1>1, <3>1 DEF Lasting, Fresh
  <2>. QED  BY <2>1, <2>2
<1>6. CASE DeclareExternal(s, n) \/ AddAtom(s, n)
  <2>1. DefineIn(s, n, FALSE)
    BY <1>6 DEF DeclareExternal, AddAtom
  <2>. QED  BY <1>5, <2>1
<1>7. CASE \E f \in BOOLEAN : DefineAtom(s, n, f)
  BY <1>5, <1>7 DEF DefineAtom
<1>. QED  BY <1>4, <1>6, <1>7 DEF Growth

(* The atom that is defined. *)
LEMMA NowDefined ==
  ASSUME Types, Identities, NEW s \in Signs, NEW n \in Names[s], NEW f \in BOOLEAN, DefineIn(s, n, f)
  PROVE  \E o \in DOMAIN atoms'[s] :
           atoms'[s][o].name = n /\ atoms'[s][o].uid = UidOf(s, n) /\ atoms'[s][o].defined
<1>1. PICK o \in DOMAIN atoms'[s] :
        atoms'[s][o].name = n /\ atoms'[s][o].uid = UidOf(s, n) /\ atoms'[s][o].defined
  BY DefineLasts
<1>. QED  BY <1>1

(* The instantiation declares the query of the step, and other atoms do    *)
(* not interfere.                                                          *)
LEMMA InstantiatedQuery ==
  ASSUME Types, Identities, LoopQueries, LoopInv, Instantiate, ok,
         Queries \in Seq(Names["pos"]), imax <= Len(Queries),
         \A i, j \in DOMAIN Queries : Queries[i] = Queries[j] => i = j
  PROVE  LoopQueries'
<1>1. at = "instantiate" /\ UNCHANGED <<at, step, parts, trueExternals>> /\ "pos" \in Signs
  BY DEF Instantiate, loop, Signs
<1> DEFINE q == step + 1
           N == Queries[q]
<1>2. q \in DOMAIN Queries /\ step \in Nat
  BY <1>1 DEF LoopInv
<1>3. PICK n \in Names["pos"] :
        \/ n = N /\ DeclareExternal("pos", n)
        \/ n \notin QueryNames /\ (ReserveAtom("pos", n) \/ \E f \in BOOLEAN : DefineAtom("pos", n, f))
  BY DEF Instantiate
<1>4. Growth("pos", n)
  BY <1>3 DEF Growth
<1>5. /\ Lasting /\ UNCHANGED scenario
      /\ \A p \in DOMAIN atoms'["pos"] : p \in Offsets("pos") \/ atoms'["pos"][p].name = n
      /\ \A o \in Offsets("pos") : o \in DOMAIN atoms'["pos"] /\ Lives(atoms["pos"][o], atoms'["pos"][o])
  BY <1>1, <1>4, GrowthFacts, NamesGrow DEF bounds, Lasting
<1>6. Queries' = Queries
  BY <1>5 DEF Queries, Bounds
<1>7. n = N \/ \A i \in DOMAIN Queries : Queries[i] # n
  BY <1>3 DEF QueryNames
<1>8. QueriesUpTo(q)'
  <2> SUFFICES ASSUME NEW p \in DOMAIN atoms'["pos"], NEW i \in DOMAIN Queries,
                      atoms'["pos"][p].name = Queries[i]
               PROVE  i <= q
    BY <1>1, <1>6 DEF QueriesUpTo, Offsets
  <2>1. CASE p \in Offsets("pos")
    BY <1>1, <1>5, <2>1 DEF LoopQueries, QueriesUpTo, Declared, InStep, Lives
  <2>2. CASE atoms'["pos"][p].name = n
    <3>1. i = q
      BY <1>2, <1>7, <2>2
    <3>. QED  BY <1>2, <3>1
  <2>. QED  BY <1>5, <2>1, <2>2
<1>9. IF Named("pos", N) = {} THEN frozen = {} ELSE OnlyQuery(q)
  BY <1>1 DEF LoopQueries
<1>10. IF Named("pos", N)' = {} THEN frozen' = {} ELSE OnlyQuery(q)'
  <2>1. CASE n = N /\ DeclareExternal("pos", n)
    <3>1. /\ DefineIn("pos", n, FALSE)
          /\ frozen' = frozen \union ({UidOf("pos", n)} \ (heads \union DOMAIN value))
      BY <2>1 DEF DeclareExternal
    <3>2. PICK p \in DOMAIN atoms'["pos"] :
            atoms'["pos"][p].name = n /\ atoms'["pos"][p].uid = UidOf("pos", n) /\ atoms'["pos"][p].defined
      BY <1>1, <3>1, NowDefined
    <3>3. p \in Named("pos", N)'
      BY <1>1, <1>6, <2>1, <3>2 DEF Named, Offsets
    <3>4. frozen' = {UidOf("pos", n)}
      <4>1. CASE Named("pos", n) = {}
        <5>1. UidOf("pos", n) = uids + 1 /\ frozen = {}
          BY <1>9, <2>1, <4>1 DEF UidOf
        <5>2. uids + 1 \notin heads \union DOMAIN value
          <6>1. heads \subseteq 1..uids /\ DOMAIN value \subseteq 1..uids /\ uids \in Nat
            BY TypeFacts, AtomsTyped
          <6>2. uids + 1 \notin 1..uids
            BY <6>1
          <6>. QED  BY <6>1, <6>2
        <5>. QED  BY <3>1, <5>1, <5>2
      <4>2. CASE Named("pos", n) # {}
        <5>1. PICK o \in Defined("pos") : atoms["pos"][o].name = N /\ frozen = {Uid("pos", o)}
          BY <1>9, <2>1, <4>2 DEF OnlyQuery
        <5>2. o \in Named("pos", n)
          BY <2>1, <5>1 DEF Named, Defined
        <5>3. UidOf("pos", n) = Uid("pos", o)
          BY <1>1, <5>2, NamedUid
        <5>. QED  BY <3>1, <5>1, <5>3
      <4>. QED  BY <4>1, <4>2
    <3>5. OnlyQuery(q)'
      BY <1>1, <1>6, <2>1, <3>2, <3>4 DEF OnlyQuery, Defined, Offsets, Uid
    <3>. QED  BY <3>3, <3>5
  <2>2. CASE n \notin QueryNames /\ (ReserveAtom("pos", n) \/ \E f \in BOOLEAN : DefineAtom("pos", n, f))
    <3>1. n # N
      BY <1>2, <2>2 DEF QueryNames
    <3>2. Named("pos", N)' = {} <=> Named("pos", N) = {}
      <4>1. \A p \in Offsets("pos") : p \in DOMAIN atoms'["pos"] /\ atoms'["pos"][p].name = atoms["pos"][p].name
        BY <1>5 DEF Lives
      <4>. QED  BY <1>1, <1>5, <1>6, <3>1, <4>1 DEF Named, Offsets
    <3>3. frozen' = frozen \/ frozen' = frozen \ {UidOf("pos", n)}
      BY <2>2 DEF ReserveAtom, DefineAtom, backend
    <3>4. CASE Named("pos", N) = {}
      BY <1>9, <3>2, <3>3, <3>4
    <3>5. CASE Named("pos", N) # {}
      <4>1. PICK o \in Defined("pos") : atoms["pos"][o].name = N /\ frozen = {Uid("pos", o)}
        BY <1>9, <3>5 DEF OnlyQuery
      <4>2. o \in Offsets("pos") /\ atoms["pos"][o].defined
        BY <4>1 DEF Defined
      <4>3. UidOf("pos", n) # Uid("pos", o)
        <5>1. CASE Named("pos", n) = {}
          <6>1. UidOf("pos", n) = uids + 1
            BY <5>1 DEF UidOf
          <6>2. Uid("pos", o) <= uids /\ Uid("pos", o) \in Nat /\ uids \in Nat
            BY <1>1, <4>2, AtomsTyped DEF Identities, UidsBounded, Uid, Atom
          <6>. QED  BY <6>1, <6>2
        <5>2. CASE Named("pos", n) # {}
          <6>1. PICK p \in Named("pos", n) : TRUE
            BY <5>2
          <6>2. UidOf("pos", n) = Uid("pos", p) /\ p \in Offsets("pos") /\ p # o
            BY <1>1, <3>1, <4>1, <6>1, NamedUid DEF Named
          <6>. QED  BY <1>1, <4>2, <6>2 DEF Identities, UidsApart
        <5>. QED  BY <5>1, <5>2
      <4>4. frozen' = frozen
        BY <3>3, <4>1, <4>3
      <4>5. OnlyQuery(q)'
        BY <1>1, <1>5, <1>6, <4>1, <4>2, <4>4 DEF OnlyQuery, Defined, Offsets, Uid, Lives
      <4>. QED  BY <3>2, <3>5, <4>5
    <3>. QED  BY <3>4, <3>5
  <2>. QED  BY <1>3, <2>1, <2>2
<1>11. QueriesUpTo(Declared)' /\ Len(parts') = Declared'
  <2>1. Declared = q /\ Declared' = q
    BY <1>1 DEF Declared, InStep
  <2>2. q' = q
    BY <1>1
  <2>. QED  BY <1>1, <1>8, <2>1, <2>2 DEF LoopQueries, QueriesUpTo
<1>12. trueExternals' = {} /\ at' = "instantiate"
  BY <1>1 DEF LoopQueries
<1>. QED  BY <1>10, <1>11, <1>12 DEF LoopQueries

(* check_run() decides which call is next. *)
LEMMA CheckQueries ==
  ASSUME LoopQueries, LoopInv, Check, at' # "done"
  PROVE  LoopQueries'
<1>1. /\ at = "check" /\ UNCHANGED <<vars, step, trueExternals, parts>> /\ step \in Nat
      /\ at' = CASE ~CheckRun -> "done" [] CheckRun /\ step > 0 -> "release" [] OTHER -> "ground"
  BY DEF Check, Goto, LoopInv
<1>2. UNCHANGED <<atoms, frozen, scenario>>
  BY <1>1 DEF vars, data, backend, bounds
<1>3. Queries' = Queries
  BY <1>2 DEF Queries, Bounds
<1>4. (at' = "release" /\ step # 0) \/ (at' = "ground" /\ step = 0)
  BY <1>1
<1>5. Declared' = step /\ Declared = step
  BY <1>1, <1>4 DEF Declared, InStep
<1>6. QueriesUpTo(Declared)' /\ Len(parts') = Declared'
  BY <1>1, <1>2, <1>3, <1>5 DEF LoopQueries, QueriesUpTo, Offsets
<1>7. CASE at' = "release" /\ step # 0
  <2>1. OnlyQuery(step)' /\ trueExternals' = frozen'
    BY <1>1, <1>2, <1>3, <1>7 DEF LoopQueries, OnlyQuery, Defined, Offsets, Uid
  <2>. QED  BY <1>6, <1>7, <2>1 DEF LoopQueries
<1>8. CASE at' = "ground" /\ step = 0
  <2>1. NoExternals'
    BY <1>1, <1>2, <1>8 DEF LoopQueries, NoExternals
  <2>. QED  BY <1>6, <1>8, <2>1 DEF LoopQueries
<1>. QED  BY <1>4, <1>7, <1>8

(* No query gets an atom by update(). *)
LEMMA RefreshedNames ==
  ASSUME Types, Refresh, NEW d, QueriesUpTo(d)
  PROVE  /\ Queries' = Queries
         /\ \A p \in DOMAIN atoms'["pos"], i \in DOMAIN Queries : atoms'["pos"][p].name = Queries[i] => i <= d
<1>1. Queries' = Queries
  BY DEF Queries, Bounds, Refresh
<1>. QED  BY <1>1, RefreshNames DEF QueriesUpTo

(* The query of the last step is released. *)
LEMMA ReleasedQuery ==
  ASSUME Types, LoopQueries, LoopInv, Release, ok
  PROVE  LoopQueries'
<1>1. /\ at = "release" /\ at' = "ground" /\ AssignQuery(Released, TRUE) /\ UNCHANGED <<step, parts>> /\ step \in Nat
  BY DEF Release, Goto, LoopInv
<1>2. OnlyQuery(Released + 1) /\ trueExternals = frozen /\ Released + 1 = step
  <2>1. Released + 1 = step
    BY <1>1 DEF Released
  <2>. QED  BY <1>1, <2>1 DEF LoopQueries
<1>3. NoExternals'
  BY <1>1, <1>2, AssignedQuery DEF NoExternals
<1>4. Declared = step /\ Declared' = step
  BY <1>1 DEF Declared, InStep
<1>5. Refresh
  BY <1>1, Refreshes
<1>6. QueriesUpTo(Declared)'
  BY <1>4, <1>5, RefreshedNames DEF LoopQueries, QueriesUpTo, Offsets
<1>7. Len(parts') = Declared'
  BY <1>1, <1>4 DEF LoopQueries
<1>. QED  BY <1>1, <1>3, <1>6, <1>7 DEF LoopQueries

(* The ground call begins. *)
LEMMA GroundedQueries ==
  ASSUME Types, LoopQueries, LoopInv, Ground, ok, Queries \in Seq(Names["pos"]),
         imax <= Len(Queries), PartsTyped
  PROVE  LoopQueries'
<1>1. /\ at = "ground" /\ at' = "instantiate" /\ BeginGround /\ UNCHANGED <<step, trueExternals>> /\ step \in Nat
      /\ parts' = Append(parts, StepParts)
  BY DEF Ground, Goto, LoopInv, RefuseGround
<1>2. Refresh /\ frozen' = frozen
  BY <1>1, Refreshes DEF BeginGround
<1>3. Declared = step /\ Declared' = step + 1
  BY <1>1 DEF Declared, InStep
<1>4. /\ Queries' = Queries
      /\ \A p \in DOMAIN atoms'["pos"], i \in DOMAIN Queries : atoms'["pos"][p].name = Queries[i] => i <= step
  BY <1>2, <1>3, RefreshedNames DEF LoopQueries
<1>5. QueriesUpTo(Declared)'
  <2>1. \A i \in DOMAIN Queries : i <= step => i <= step + 1
    <3>1. \A i \in DOMAIN Queries : i \in Nat
      OBVIOUS
    <3>. QED  BY <1>1, <3>1
  <2>. QED  BY <1>3, <1>4, <2>1 DEF QueriesUpTo, Offsets
<1>6. Len(parts') = Declared'
  <2>1. Len(parts') = Len(parts) + 1
    <3>1. PICK P : parts \in Seq(P)
      BY DEF PartsTyped
    <3>. QED  BY <1>1, <3>1
  <2>. QED  BY <1>3, <2>1 DEF LoopQueries
<1>7. NoExternals'
  BY <1>1, <1>2 DEF LoopQueries, NoExternals
<1>8. Named("pos", Queries[step + 1])' = {}
  <2>1. step + 1 \in DOMAIN Queries /\ ~(step + 1 <= step)
    BY <1>1 DEF LoopInv
  <2>. QED  BY <1>1, <1>4, <2>1 DEF Named, Offsets
<1>. QED  BY <1>1, <1>5, <1>6, <1>7, <1>8 DEF LoopQueries, NoExternals

(* It ends once the query of the step is declared. *)
LEMMA FinishedQueries ==
  ASSUME LoopQueries, FinishGround, ok'
  PROVE  LoopQueries'
<1>1. /\ at = "instantiate" /\ at' = "assign" /\ Named("pos", Queries[step + 1]) # {}
      /\ UNCHANGED <<step, parts, trueExternals, atoms, frozen, scenario>>
  BY DEF FinishGround, EndGround, OutputGround, Goto, bounds
<1>2. Queries' = Queries
  BY <1>1 DEF Queries, Bounds
<1>3. Declared = step + 1 /\ Declared' = step + 1
  BY <1>1 DEF Declared, InStep
<1>4. QueriesUpTo(Declared)' /\ Len(parts') = Declared' /\ trueExternals' = {}
  BY <1>1, <1>2, <1>3 DEF LoopQueries, QueriesUpTo, Offsets
<1>5. OnlyQuery(step + 1)'
  BY <1>1, <1>2 DEF LoopQueries, OnlyQuery, Defined, Offsets, Uid
<1>. QED  BY <1>1, <1>4, <1>5 DEF LoopQueries

(* The query of the step is assigned true. *)
LEMMA AssignedQueries ==
  ASSUME Types, LoopQueries, LoopInv, Assign, ok
  PROVE  LoopQueries'
<1>1. /\ at = "assign" /\ at' = "solve" /\ AssignQuery(step, FALSE) /\ UNCHANGED <<step, parts>> /\ step \in Nat
  BY DEF Assign, Goto, LoopInv
<1>2. OnlyQuery(step + 1) /\ trueExternals = {}
  BY <1>1 DEF LoopQueries
<1>3. frozen' = frozen /\ trueExternals' = frozen'
  BY <1>1, <1>2, AssignedQuery
<1>4. OnlyQuery(step + 1)'
  BY <1>1, <1>2, <1>3, AssignedQuery
<1>5. Declared = step + 1 /\ Declared' = step + 1
  BY <1>1 DEF Declared, InStep
<1>6. Refresh
  BY <1>1, Refreshes
<1>7. QueriesUpTo(Declared)'
  BY <1>5, <1>6, RefreshedNames DEF LoopQueries, QueriesUpTo, Offsets
<1>8. Len(parts') = Declared'
  BY <1>1, <1>5 DEF LoopQueries
<1>. QED  BY <1>1, <1>3, <1>4, <1>7, <1>8 DEF LoopQueries

(* The step is solved. *)
LEMMA SolvedQueries ==
  ASSUME Types, Identities, LoopQueries, LoopInv, SolveStep
  PROVE  LoopQueries'
<1>1. at = "solve" /\ at' = "check" /\ Solve /\ step' = step + 1 /\ UNCHANGED <<parts, trueExternals>> /\ step \in Nat
  BY DEF SolveStep, Goto, LoopInv
<1>2. UNCHANGED <<atoms, frozen, scenario>>
  BY <1>1, SolveFacts DEF data
<1>3. Queries' = Queries
  BY <1>2 DEF Queries, Bounds
<1>4. Declared = step + 1 /\ Declared' = step + 1
  BY <1>1 DEF Declared, InStep
<1>5. QueriesUpTo(Declared)' /\ Len(parts') = Declared'
  BY <1>1, <1>2, <1>3, <1>4 DEF LoopQueries, QueriesUpTo, Offsets
<1>6. step' # 0 /\ OnlyQuery(step)' /\ trueExternals' = frozen'
  BY <1>1, <1>2, <1>3 DEF LoopQueries, OnlyQuery, Defined, Offsets, Uid
<1>. QED  BY <1>1, <1>5, <1>6 DEF LoopQueries

(* All calls of the loop. *)
LEMMA NextQueries == CallsInv /\ LoopInv /\ QueryInv /\ IncNext => QueryInv'
<1> SUFFICES ASSUME CallsInv, LoopInv, QueryInv, IncNext PROVE QueryInv'
  OBVIOUS
<1>1. CASE at = "user"
  <2>1. User
    BY <1>1 DEF IncNext, Check, Release, Ground, Instantiate, FinishGround, Assign, SolveStep, Stop
  <2>. QED  BY <1>1, <2>1 DEF User, loop, QueryInv
<1>2. CASE at # "user"
  <2>1. /\ Queries \in Seq(Names["pos"]) /\ imax <= Len(Queries) /\ PartsTyped
        /\ \A i, j \in DOMAIN Queries : Queries[i] = Queries[j] => i = j
        /\ ok /\ at # "done" => LoopQueries
    BY <1>2 DEF QueryInv
  <2>2. Types /\ Identities
    BY DEF CallsInv
  <2>3. CallStep \/ UNCHANGED vars
    BY IncCalls
  <2>4. UNCHANGED scenario /\ (ok' => ok)
    BY <2>2, <2>3, ScenarioStays DEF vars, bounds, solver
  <2>5. UNCHANGED imax
    BY <1>2 DEF IncNext, User, Check, Release, Ground, Instantiate, FinishGround, Assign, SolveStep, Stop, Goto, loop
  <2>6. /\ Queries' = Queries /\ Names' = Names /\ imax' <= Len(Queries')
    BY <2>1, <2>4, <2>5 DEF Queries, Names, Bounds
  <2>7. PartsTyped'
    <3>1. parts' = parts \/ parts' = Append(parts, StepParts)
      BY <1>2 DEF IncNext, User, Check, Release, Ground, Instantiate, FinishGround, Assign, SolveStep, Stop, loop
    <3>2. PICK P : parts \in Seq(P)
      BY <2>1 DEF PartsTyped
    <3>3. parts' \in Seq(P \union {StepParts})
      BY <3>1, <3>2
    <3>. QED  BY <3>3 DEF PartsTyped
  <2>9. ok' /\ at' # "done" => LoopQueries'
    <3> SUFFICES ASSUME ok', at' # "done" PROVE LoopQueries'
      OBVIOUS
    <3>1. CASE Check
      BY <2>1, <2>4, <3>1, CheckQueries DEF Check
    <3>2. CASE Release
      BY <2>1, <2>2, <2>4, <3>2, ReleasedQuery DEF Release
    <3>3. CASE Ground
      BY <2>1, <2>2, <2>4, <3>3, GroundedQueries DEF Ground
    <3>4. CASE Instantiate
      BY <2>1, <2>2, <2>4, <3>4, InstantiatedQuery DEF Instantiate
    <3>5. CASE FinishGround
      BY <2>1, <2>4, <3>5, FinishedQueries DEF FinishGround
    <3>6. CASE Assign
      BY <2>1, <2>2, <2>4, <3>6, AssignedQueries DEF Assign
    <3>7. CASE SolveStep
      BY <2>1, <2>2, <2>4, <3>7, SolvedQueries DEF SolveStep
    <3>8. ~Stop /\ ~User
      BY <1>2 DEF Stop, User, loop
    <3>. QED  BY <3>1, <3>2, <3>3, <3>4, <3>5, <3>6, <3>7, <3>8 DEF IncNext
  <2>. QED  BY <2>1, <2>6, <2>7, <2>9 DEF QueryInv
<1>. QED  BY <1>1, <1>2

LEMMA QueryPromised == LoopInv /\ QueryInv => QueryOfStep
<1> SUFFICES ASSUME LoopInv, QueryInv, at = "solve", ok PROVE Len(parts) = step + 1 /\ OnlyQuery(step + 1) /\ trueExternals = frozen
  BY DEF QueryOfStep, OnlyQuery, Uid
<1>. QED  BY DEF QueryInv, LoopQueries, Declared, InStep

(* The invariant of the incremental mode. *)
IncInv == CallsInv /\ LoopInv /\ QueryInv

LEMMA UnchangedInc == IncInv /\ UNCHANGED <<vars, loop>> => IncInv'
<1> SUFFICES ASSUME IncInv, UNCHANGED <<vars, loop>> PROVE IncInv'
  OBVIOUS
<1>1. CallsInv'
  BY UnchangedCalls DEF IncInv
<1>2. LoopInv'
  BY DEF IncInv, loop, LoopInv, GoesOn, CheckRun
<1>3. UNCHANGED <<atoms, frozen, ok, scenario, imax, step, at, parts, trueExternals>>
  BY DEF vars, data, backend, solver, bounds, loop
<1>4. Queries' = Queries /\ Names' = Names
  BY <1>3 DEF Queries, Names, Bounds
<1>5. \A i : OnlyQuery(i)' <=> OnlyQuery(i)
  BY <1>3, <1>4 DEF OnlyQuery, Defined, Offsets, Uid
<1>6. LoopQueries => LoopQueries'
  BY <1>3, <1>4, <1>5 DEF LoopQueries, QueriesUpTo, Declared, InStep, NoExternals, Named, Offsets
<1>7. QueryInv'
  BY <1>3, <1>4, <1>6 DEF IncInv, QueryInv, PartsTyped
<1>. QED  BY <1>1, <1>2, <1>7 DEF IncInv

(* When a step is solved, its query is the only external and true, and     *)
(* the programs of all steps so far are grounded once (incmode.cc), for    *)
(* any number of steps and any results.                                    *)
THEOREM QueriesInStep == IncSpec => []QueryOfStep
<1>1. IncInit => IncInv
  BY InitCalls, InitLoop, InitQueries DEF IncInit, IncInv
<1>2. IncInv /\ [IncNext]_<<vars, loop>> => IncInv'
  <2>1. IncInv /\ IncNext => IncInv'
    BY IncCalls, NextCalls, UnchangedCalls, NextLoop, NextQueries DEF IncInv
  <2>. QED  BY <2>1, UnchangedInc
<1>3. IncInv => QueryOfStep
  BY QueryPromised DEF IncInv
<1>. QED  BY <1>1, <1>2, <1>3, PTL DEF IncSpec
=============================================================================
