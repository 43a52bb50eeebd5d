------------------------------- MODULE IncMode -------------------------------
(***************************************************************************)
(* What drives the control object (ClingoControl::main in libclingo/src/   *)
(* clingocontrol.cc): an application or script, which makes any calls, or  *)
(* the built-in incremental mode (libclingo/src/incmode.cc).               *)
(*                                                                         *)
(* The incremental mode adds "#external query(t)." to the program check(t) *)
(* and repeats: release the query of the last step, ground the programs    *)
(* of the step, assign true to its query, and solve.                       *)
(***************************************************************************)
EXTENDS MultiShot

Results == {"SAT", "UNSAT", "UNKNOWN"}

VARIABLES
  imax, imin, istop,      (* constants of the program *)
  step,                   (* the number of the step *)
  at,                     (* the next call of the loop, or "user" *)
  trueExternals,          (* uids of externals that were assigned true *)
  parts,                  (* the programs of this step and earlier ones *)
  results                 (* history: what the solve calls returned *)

loop == <<imax, imin, istop, step, at, trueExternals, parts, results>>

Queries == Bounds.queries

QueryNames == {Queries[i] : i \in DOMAIN Queries}

Driven == Queries # <<>>

IncInit ==
  /\ Init
  /\ IF Driven THEN /\ imax \in 0..Len(Queries)
                    /\ imin \in 0..Len(Queries)
                    /\ istop \in Results
     ELSE imax = 0 /\ imin = 0 /\ istop = "SAT"
  /\ step = 0
  /\ at = IF Driven THEN "check" ELSE "user"
  /\ trueExternals = {}
  /\ parts = <<>>
  /\ results = <<>>

(* check_run; before it a slip that asks for the result too early. *)
RunFromMin == step < imax /\ (step = 0 \/ step + 1 < imin \/ results[step] # istop)

CheckRun == step < imax /\ (step = 0 \/ step < imin \/ results[step] # istop)

Goto(call) == at' = call /\ UNCHANGED <<imax, imin, istop>>

Check ==
  /\ at = "check"
  /\ Goto(CASE ~CheckRun -> "done" [] CheckRun /\ step > 0 -> "release" [] OTHER -> "ground")
  /\ UNCHANGED <<vars, step, trueExternals, parts, results>>

(* The atoms that assignExternal finds after update(). *)
Found(i) == {a.uid : a \in {b \in {atoms'["pos"][o] : o \in DOMAIN atoms'["pos"]} : b.name = Queries[i + 1]}}

(* The query that the loop releases; before it a slip: that of the step.   *)
ReleasedStep == step

Released == step - 1

(* ClingoControl::assignExternal for a symbol, which calls update() first. *)
AssignQuery(i, released) ==
  /\ pc = "idle"
  /\ Update(Cleans)
  /\ IncAfterUpdate(Cleans)
  /\ canClean' = FlagAfterUpdate
  /\ grounded' = (grounded \/ ok)
  /\ frozen' = IF ok /\ released THEN frozen \ Found(i) ELSE frozen
  /\ trueExternals' = IF ~ok THEN trueExternals
                      ELSE IF released THEN trueExternals \ Found(i)
                      ELSE trueExternals \union (Found(i) \intersect frozen)
  /\ UNCHANGED <<pc, enableCleanup, choiceIndex, uids, constraints, table, heads, solver, session,
                 bounds>>

Release ==
  /\ at = "release"
  /\ AssignQuery(Released, TRUE)
  /\ Goto("ground")
  /\ UNCHANGED <<step, parts, results>>

(* The programs that a step adds. *)
StepParts == {<<"check", step>>} \union {IF step > 0 THEN <<"step", step>> ELSE <<"base">>}

Ground ==
  /\ at = "ground"
  /\ \/ BeginGround /\ parts' = Append(parts, StepParts)
     \/ RefuseGround /\ UNCHANGED parts
  /\ Goto(IF ok THEN "instantiate" ELSE "assign")
  /\ UNCHANGED <<step, trueExternals, results>>

(* The instantiation of check(t) declares the query; that of the other     *)
(* programs defines and reserves atoms of its own.                         *)
Instantiate ==
  /\ at = "instantiate"
  /\ \E n \in Names["pos"] :
       \/ n = Queries[step + 1] /\ DeclareExternal("pos", n)
       \/ n \notin QueryNames /\ (ReserveAtom("pos", n) \/ \E f \in BOOLEAN : DefineAtom("pos", n, f))
  /\ UNCHANGED loop

FinishGround ==
  /\ at = "instantiate"
  /\ Named("pos", Queries[step + 1]) # {}
  /\ EndGround
  /\ Goto("assign")
  /\ UNCHANGED <<step, trueExternals, parts, results>>

Assign ==
  /\ at = "assign"
  /\ AssignQuery(step, FALSE)
  /\ Goto("solve")
  /\ UNCHANGED <<step, parts, results>>

(* Solving under the assumption that queries have the assigned values may  *)
(* have any result; if it finds the program to be inconsistent, UNSAT.     *)
SolveStep ==
  /\ at = "solve"
  /\ Solve
  /\ \E r \in IF ok' THEN Results ELSE {"UNSAT"} : results' = Append(results, r)
  /\ step' = step + 1
  /\ Goto("check")
  /\ UNCHANGED <<trueExternals, parts>>

(* main() returns. *)
Stop == at = "done" /\ UNCHANGED <<vars, loop>>

User == at = "user" /\ Next /\ UNCHANGED loop

IncNext ==
  \/ User
  \/ Check
  \/ Release
  \/ Ground
  \/ Instantiate
  \/ FinishGround
  \/ Assign
  \/ SolveStep
  \/ Stop

IncSpec == IncInit /\ [][IncNext]_<<vars, loop>>

-----------------------------------------------------------------------------
(* Properties *)

(* When a step is solved, the programs of all steps so far are grounded    *)
(* once, and of all queries only the one of this step is an external: it   *)
(* is true, and those of earlier steps cannot come back.                   *)
QueryOfStep ==
  at = "solve" /\ ok =>
    /\ Len(parts) = step + 1
    /\ \E o \in Defined("pos") :
         /\ atoms["pos"][o].name = Queries[step + 1]
         /\ frozen = {atoms["pos"][o].uid}
         /\ trueExternals = frozen

(* The mode stops after imax steps, or before if a step that is not below  *)
(* imin has the result it was told to stop at; and it does not miss one.   *)
StopsInTime ==
  /\ step <= imax
  /\ \A k \in 1..step : k >= imin /\ results[k] = istop => k = step /\ at \in {"check", "done"}
  /\ at = "done" => step = imax \/ (step >= imin /\ results[step] = istop)
=============================================================================
