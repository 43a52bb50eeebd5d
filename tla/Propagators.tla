----------------------------- MODULE Propagators -----------------------------
(***************************************************************************)
(* Callbacks of user code while solving with several threads: propagators  *)
(* and heuristics, the event handler and the model printer, with the lock  *)
(* that they share (ClingoPropagatorLock in libclingo/clingo/              *)
(* clingocontrol.hh, registerPropagator, prepare, solve, decide, onModel,  *)
(* onUnsat and onFinish in libclingo/src/clingocontrol.cc, ClingoApp in    *)
(* libclingo/src/clingo_app.cc).                                           *)
(*                                                                         *)
(* The solver is external.  A solver thread calls propagators and the      *)
(* heuristic whenever it likes, around each call it uses the lock that it  *)
(* was given when they were registered, if any; models and bounds are      *)
(* reported by one thread at a time.  A callback that is left by an        *)
(* exception releases the lock like one that returns.                      *)
(***************************************************************************)
EXTENDS Naturals, Sequences, FiniteSets

CONSTANTS
  Thread,           (* the threads of the solver *)
  NoThread,         (* stands for none of them *)
  HasPrinter,       (* the application prints models itself *)
  MaxPropagators    (* bounds the number of propagators *)

ASSUME ThreadAssumption == IsFiniteSet(Thread) /\ NoThread \notin Thread
ASSUME PrinterAssumption == HasPrinter \in BOOLEAN
ASSUME MaxPropagatorsAssumption == MaxPropagators \in Nat

VARIABLES
  props,            (* props_: flags of the propagators in their order *)
  seq,              (* seq_: how often the lock was given out *)
  factory,          (* the lock the heuristic creator was given *)
  mutex,            (* mut_ points to a mutex *)
  owner,            (* the thread that has locked it *)
  handler,          (* eventHandler_ is set *)
  running,          (* the threads of the present solve call *)
  pc,               (* where each thread is *)
  call              (* the callback it is in, or about to enter *)

control == <<props, seq, factory>>
vars == <<control, mutex, owner, handler, running, pc, call>>

Propagator == [sequential : BOOLEAN, heuristic : BOOLEAN]

Reports == {"on_model", "on_unsat", "print_model"}

(* at is the position of a propagator, zero if it is none that is called. *)
Call == [kind : {"propagate", "decide"} \union Reports, at : Nat]

NoCall == [kind |-> "on_model", at |-> 0]

TypeOK ==
  /\ props \in Seq(Propagator)
  /\ seq \in Nat
  /\ factory \in {"none", "free", "locked"}
  /\ mutex \in BOOLEAN
  /\ owner \in Thread \union {NoThread}
  /\ handler \in BOOLEAN
  /\ running \in SUBSET Thread
  /\ pc \in [Thread -> {"search", "lock", "call", "unlock"}]
  /\ call \in [Thread -> Call]

Init ==
  /\ props = <<>>
  /\ seq = 0
  /\ factory = "none"
  /\ mutex = FALSE
  /\ owner = NoThread
  /\ handler = FALSE
  /\ running = {}
  /\ pc = [t \in Thread |-> "search"]
  /\ call = [t \in Thread |-> NoCall]

-----------------------------------------------------------------------------
(* Between solve calls *)

Idle == running = {}

(* How often registerPropagator gives out the lock. *)
Added(p, first) == IF ~p.sequential THEN 0 ELSE IF p.heuristic /\ first THEN 2 ELSE 1

(* ClingoControl::registerPropagator: the creator of heuristics is set for *)
(* the first propagator that has one and serves all of them.               *)
Register(p) ==
  /\ Idle
  /\ Len(props) < MaxPropagators
  /\ props' = Append(props, p)
  /\ seq' = seq + Added(p, factory = "none")
  /\ factory' = IF p.heuristic /\ factory = "none"
                THEN IF p.sequential THEN "locked" ELSE "free"
                ELSE factory
  /\ UNCHANGED <<mutex, owner, handler, running, pc, call>>

(* ClingoPropagatorLock::init; before it a slip at the boundary. *)
NeedsMutexOffByOne(n) == n > 2 /\ seq > 0

NeedsMutex(n) == n >= 2 /\ seq > 0

(* ClingoControl::prepare left by an exception of a propagator's init. *)
PrepareFails ==
  /\ Idle
  /\ props # <<>>
  /\ handler' = FALSE
  /\ UNCHANGED <<control, mutex, owner, running, pc, call>>

(* ClingoControl::prepare and solve: the lock is set up only if there are  *)
(* propagators, for the number of threads configured for this call.        *)
Solve(ts, h) ==
  /\ Idle
  /\ mutex' = IF props = <<>> THEN mutex ELSE NeedsMutex(Cardinality(ts))
  /\ handler' = h
  /\ running' = ts
  /\ UNCHANGED <<control, owner, pc, call>>

-----------------------------------------------------------------------------
(* Solver threads *)

IsHeuristic(i) == props[i].heuristic

Heuristics == {i \in DOMAIN props : IsHeuristic(i)}

LeastOf(S) == {i \in S : \A j \in S : i <= j}

(* Whether the call takes the lock: propagators as they were registered,   *)
(* decide as the first of them, reports always.                            *)
Locks(c) ==
  CASE c.kind = "propagate" -> props[c.at].sequential
    [] c.kind = "decide"    -> factory = "locked"
    [] OTHER                -> TRUE

Reporting(t) == pc[t] # "search" /\ call[t].kind \in Reports

Start(t, c) ==
  /\ t \in running
  /\ pc[t] = "search"
  /\ call' = [call EXCEPT ![t] = c]
  /\ pc' = [pc EXCEPT ![t] = IF Locks(c) THEN "lock" ELSE "call"]
  /\ UNCHANGED <<control, mutex, owner, handler, running>>

(* A propagator's propagate, check or undo. *)
Propagate(t) == \E i \in DOMAIN props : Start(t, [kind |-> "propagate", at |-> i])

(* ClingoControl::decide begins with the first heuristic. *)
Decide(t) == \E i \in LeastOf(Heuristics) : Start(t, [kind |-> "decide", at |-> i])

(* ClingoControl::onModel and onUnsat *)
Report(t) ==
  /\ handler
  /\ \A u \in Thread : ~Reporting(u)
  /\ \E k \in {"on_model", "on_unsat"} : Start(t, [kind |-> k, at |-> 0])

(* ClingoPropagatorLock::lock *)
Lock(t) ==
  /\ pc[t] = "lock"
  /\ mutex => owner = NoThread
  /\ owner' = IF mutex THEN t ELSE owner
  /\ pc' = [pc EXCEPT ![t] = "call"]
  /\ UNCHANGED <<control, mutex, handler, running, call>>

(* ClingoControl::decide: the heuristic has no say, the next one is asked. *)
AskNext(t) ==
  /\ pc[t] = "call"
  /\ call[t].kind = "decide"
  /\ \E next \in LeastOf({i \in Heuristics : i > call[t].at}) :
       call' = [call EXCEPT ![t].at = next]
  /\ UNCHANGED <<control, mutex, owner, handler, running, pc>>

Return(t) ==
  /\ pc[t] = "call"
  /\ pc' = [pc EXCEPT ![t] = IF Locks(call[t]) THEN "unlock" ELSE "search"]
  /\ UNCHANGED <<control, mutex, owner, handler, running, call>>

(* The mutex after unlock; before it a slip: reports keep it. *)
OwnerKept(t) == IF mutex /\ call[t].kind \notin Reports THEN NoThread ELSE owner

OwnerAfter(t) == IF mutex THEN NoThread ELSE owner

(* ClingoPropagatorLock::unlock.  A model is printed after it has been     *)
(* passed to the handler (ClingoApp::onModel, printModelValues).           *)
Unlock(t) ==
  /\ pc[t] = "unlock"
  /\ owner' = OwnerAfter(t)
  /\ IF call[t].kind = "on_model" /\ HasPrinter
     THEN /\ pc' = [pc EXCEPT ![t] = "lock"]
          /\ call' = [call EXCEPT ![t].kind = "print_model"]
     ELSE /\ pc' = [pc EXCEPT ![t] = "search"]
          /\ UNCHANGED call
  /\ UNCHANGED <<control, mutex, handler, running>>

(* The search ends for a thread.  After the last one, ClingoControl::      *)
(* onFinish drops the event handler.                                       *)
Finish(t) ==
  /\ t \in running
  /\ pc[t] = "search"
  /\ running' = running \ {t}
  /\ handler' = (handler /\ running' # {})
  /\ UNCHANGED <<control, mutex, owner, pc, call>>

Between ==
  \/ \E p \in Propagator : Register(p)
  \/ PrepareFails
  \/ \E ts \in SUBSET Thread \ {{}}, h \in BOOLEAN : Solve(ts, h)

Proceed(t) == Lock(t) \/ AskNext(t) \/ Return(t) \/ Unlock(t)

Search(t) == Propagate(t) \/ Decide(t) \/ Report(t) \/ Finish(t)

Next == Between \/ \E t \in Thread : Proceed(t) \/ Search(t)

(* A thread that waits gets a mutex that is free, callbacks return, and    *)
(* the lock is released.                                                   *)
Spec ==
  /\ Init
  /\ [][Next]_vars
  /\ \A t \in Thread : WF_vars(Lock(t)) /\ WF_vars(Return(t)) /\ WF_vars(Unlock(t))

-----------------------------------------------------------------------------
(* Properties *)

Sequential(t) ==
  /\ pc[t] = "call"
  /\ call[t].kind \notin Reports
  /\ props[call[t].at].sequential

InReport(t) == pc[t] = "call" /\ call[t].kind \in Reports

(* Callbacks of sequential propagators exclude each other and those of the *)
(* event handler and the printer, across all propagators; decide is among  *)
(* them if the first propagator with a heuristic is sequential.            *)
Covered(t) == Sequential(t) /\ (call[t].kind = "decide" => factory = "locked")

Exclusion ==
  \A t, u \in Thread : t # u /\ Covered(t) => ~Covered(u) /\ ~InReport(u)

(* The mutex is neither created nor dropped under a thread: whoever has    *)
(* passed lock holds it when it exists, so that unlock is called by its    *)
(* owner, and nobody holds it outside of calls.                            *)
Guarded(t) == pc[t] \in {"call", "unlock"} /\ Locks(call[t])

HeldInside == \A t \in Thread : owner = t <=> (mutex /\ Guarded(t))

(* While threads wait for the lock, calls that need it go on, whatever     *)
(* number of threads and propagators each solve call has.                  *)
Progress == (\E t \in Thread : pc[t] = "lock") ~> (\E t \in Thread : Guarded(t))
=============================================================================
