-------------------------- MODULE PropagatorsProofs --------------------------
(***************************************************************************)
(* Proofs about Propagators for any number of threads and propagators.     *)
(*                                                                         *)
(* The inductive invariant adds to HeldInside what it depends on: threads  *)
(* are in calls only during a solve call, calls refer to propagators that  *)
(* exist, the lock was counted for whoever was given it, and the mutex     *)
(* exists as long as two threads run and the lock was given out.           *)
(***************************************************************************)
EXTENDS Propagators, TLAPS, FiniteSetTheorems

CallsSound ==
  \A t \in Thread :
    /\ pc[t] # "search" => t \in running
    /\ pc[t] # "search" /\ call[t].kind \notin Reports => call[t].at \in DOMAIN props
    /\ pc[t] \in {"lock", "unlock"} => Locks(call[t])

Counted ==
  /\ (\E i \in DOMAIN props : props[i].sequential) => seq > 0
  /\ factory = "locked" => seq > 0
  /\ seq > 0 => props # <<>>

MutexSound == Cardinality(running) >= 2 /\ seq > 0 => mutex

IInv == TypeOK /\ CallsSound /\ Counted /\ MutexSound /\ HeldInside

-----------------------------------------------------------------------------
(* Two threads that run are at least two. *)
LEMMA TwoThreads ==
  ASSUME NEW S, IsFiniteSet(S), NEW t \in S, NEW u \in S, t # u
  PROVE  Cardinality(S) >= 2
<1>1. IsFiniteSet({t}) /\ Cardinality({t}) = 1
  BY FS_Singleton
<1>2. IsFiniteSet({t} \union {u}) /\ Cardinality({t} \union {u}) = 2
  BY <1>1, FS_AddElement
<1>3. {t} \union {u} \subseteq S
  OBVIOUS
<1>4. Cardinality({t} \union {u}) <= Cardinality(S)
  BY <1>3, FS_Subset
<1>. QED  BY <1>2, <1>4, FS_CardinalityType

(* Threads run only if there are finitely many of them. *)
LEMMA RunningFinite ==
  ASSUME NEW S \in SUBSET Thread
  PROVE  IsFiniteSet(S) /\ Cardinality(S) \in Nat
BY ThreadAssumption, FS_Subset, FS_CardinalityType

(* The mutual exclusion follows: two threads in such callbacks both hold   *)
(* the lock, and there is a mutex because both run.                        *)
LEMMA ExclusionFromIInv == IInv => Exclusion
<1>. SUFFICES ASSUME IInv, NEW t \in Thread, NEW u \in Thread, t # u, Covered(t),
                     Covered(u) \/ InReport(u)
              PROVE  FALSE
  BY DEF Exclusion
<1>. USE DEF IInv
<1>1. t \in running /\ u \in running
  BY DEF CallsSound, Covered, Sequential, InReport
<1>2. Guarded(t) /\ Guarded(u)
  BY DEF Covered, Sequential, InReport, Guarded, Locks, Reports, TypeOK, Call
<1>3. seq > 0
  BY DEF Counted, CallsSound, Covered, Sequential
<1>4. mutex
  BY <1>1, <1>3, TwoThreads, RunningFinite DEF MutexSound, TypeOK
<1>. QED  BY <1>2, <1>4 DEF HeldInside

LEMMA InitIInv == Init => IInv
<1>. SUFFICES ASSUME Init PROVE IInv
  OBVIOUS
<1>1. TypeOK
  <2>1. NoCall \in Call
    BY DEF NoCall, Call, Reports
  <2>2. props \in Seq(Propagator) /\ seq \in Nat
    BY DEF Init
  <2>. QED  BY <2>1, <2>2 DEF Init, TypeOK
<1>2. CallsSound /\ Counted /\ HeldInside
  BY ThreadAssumption DEF Init, CallsSound, Counted, HeldInside, Guarded
<1>3. MutexSound
  BY FS_EmptySet DEF Init, MutexSound
<1>. QED  BY <1>1, <1>2, <1>3 DEF IInv

-----------------------------------------------------------------------------
(* Between solve calls no thread is in a call. *)
LEMMA RegisterIInv ==
  ASSUME IInv, NEW p \in Propagator, Register(p)
  PROVE  IInv'
<1>. USE DEF IInv, Register, control
<1>1. \A t \in Thread : pc[t] = "search"
  BY DEF CallsSound, Idle
<1>2. seq' \in Nat /\ seq' >= seq /\ (p.sequential => seq' > 0)
  BY DEF TypeOK, Added, Propagator
<1>3. props' \in Seq(Propagator) /\ props' # <<>>
  BY DEF TypeOK
<1>4. TypeOK'
  BY <1>2, <1>3 DEF TypeOK, Propagator
<1>5. CallsSound'
  BY <1>1 DEF CallsSound
<1>6. Counted'
  <2>1. ASSUME NEW i \in DOMAIN props', props'[i].sequential  PROVE seq' > 0
    <3>1. CASE i \in DOMAIN props
      <4>1. props'[i] = props[i]
        BY <3>1 DEF TypeOK
      <4>. QED  BY <4>1, <3>1, <2>1, <1>2 DEF Counted, TypeOK
    <3>2. CASE i \notin DOMAIN props
      <4>1. props'[i] = p
        BY <3>2, <2>1 DEF TypeOK
      <4>. QED  BY <4>1, <2>1, <1>2
    <3>. QED  BY <3>1, <3>2
  <2>2. factory' = "locked" => seq' > 0
    BY <1>2 DEF Counted, TypeOK
  <2>. QED  BY <2>1, <2>2, <1>3 DEF Counted
<1>7. MutexSound'
  <2>1. Cardinality(running') = 0
    BY FS_EmptySet DEF Idle
  <2>. QED  BY <2>1 DEF MutexSound
<1>8. HeldInside'
  BY <1>1 DEF HeldInside, Guarded
<1>. QED  BY <1>4, <1>5, <1>6, <1>7, <1>8

LEMMA SolveIInv ==
  ASSUME IInv, NEW ts \in SUBSET Thread \ {{}}, NEW h \in BOOLEAN, Solve(ts, h)
  PROVE  IInv'
<1>. USE DEF IInv, Solve, control
<1>1. \A t \in Thread : pc[t] = "search"
  BY DEF CallsSound, Idle
<1>2. TypeOK'
  BY RunningFinite DEF TypeOK, NeedsMutex
<1>3. CallsSound' /\ Counted'
  BY <1>1 DEF CallsSound, Counted, Locks
<1>4. MutexSound'
  BY DEF MutexSound, NeedsMutex, Counted
<1>5. HeldInside'
  BY <1>1 DEF HeldInside, Guarded
<1>. QED  BY <1>2, <1>3, <1>4, <1>5

LEMMA PrepareFailsIInv ==
  ASSUME IInv, PrepareFails
  PROVE  IInv'
BY DEF IInv, PrepareFails, control, TypeOK, CallsSound, Counted, MutexSound, HeldInside, Guarded, Locks

-----------------------------------------------------------------------------
(* Starting a call takes no lock yet. *)
LEMMA StartIInv ==
  ASSUME IInv, NEW t \in Thread, NEW c \in Call, Start(t, c),
         c.kind \notin Reports => c.at \in DOMAIN props
  PROVE  IInv'
<1>. USE DEF IInv, Start, control
<1>1. TypeOK'
  BY DEF TypeOK
<1>2. call'[t] = c /\ pc'[t] = (IF Locks(c) THEN "lock" ELSE "call")
  BY DEF TypeOK
<1>3. \A u \in Thread : u # t => call'[u] = call[u] /\ pc'[u] = pc[u]
  BY DEF TypeOK
<1>4. CallsSound'
  BY <1>2, <1>3 DEF CallsSound, Locks
<1>5. Counted' /\ MutexSound'
  BY DEF Counted, MutexSound
<1>6. HeldInside'
  BY <1>2, <1>3 DEF HeldInside, Guarded, Locks
<1>. QED  BY <1>1, <1>4, <1>5, <1>6

LEMMA LockIInv ==
  ASSUME IInv, NEW t \in Thread, Lock(t)
  PROVE  IInv'
<1>. USE DEF IInv, Lock, control
<1>1. TypeOK'
  BY DEF TypeOK
<1>2. pc'[t] = "call" /\ call' = call /\ Locks(call[t])
  BY DEF TypeOK, CallsSound
<1>3. \A u \in Thread : u # t => pc'[u] = pc[u]
  BY DEF TypeOK
<1>4. CallsSound'
  BY <1>2, <1>3 DEF CallsSound, Locks
<1>5. Counted' /\ MutexSound'
  BY DEF Counted, MutexSound
<1>6. HeldInside'
  <2>1. \A c : Locks(c)' <=> Locks(c)
    BY DEF Locks
  <2>2. CASE mutex
    <3>1. \A u \in Thread : owner # u
      BY <2>2, ThreadAssumption
    <3>2. \A u \in Thread : ~Guarded(u)
      BY <2>2, <3>1 DEF HeldInside
    <3>. QED  BY <1>2, <1>3, <2>1, <2>2, <3>2 DEF HeldInside, Guarded
  <2>3. CASE ~mutex
    BY <1>2, <1>3, <2>3 DEF HeldInside
  <2>. QED  BY <2>2, <2>3
<1>. QED  BY <1>1, <1>4, <1>5, <1>6

LEMMA AskNextIInv ==
  ASSUME IInv, NEW t \in Thread, AskNext(t)
  PROVE  IInv'
<1>. USE DEF IInv, AskNext, control
<1>1. PICK next \in DOMAIN props : call' = [call EXCEPT ![t].at = next]
  BY DEF LeastOf, Heuristics
<1>2. next \in Nat
  BY DEF TypeOK
<1>3. call'[t] = [kind |-> "decide", at |-> next] /\ call'[t] \in Call
  BY <1>1, <1>2 DEF TypeOK, Call
<1>4. \A u \in Thread : u # t => call'[u] = call[u]
  BY <1>1 DEF TypeOK
<1>5. TypeOK'
  <2>1. call' \in [Thread -> Call]
    BY <1>1, <1>3, <1>4 DEF TypeOK
  <2>. QED  BY <2>1 DEF TypeOK
<1>6. CallsSound'
  BY <1>1, <1>3, <1>4 DEF CallsSound, Locks
<1>7. Counted' /\ MutexSound'
  BY DEF Counted, MutexSound
<1>8. HeldInside'
  BY <1>3, <1>4 DEF HeldInside, Guarded, Locks
<1>. QED  BY <1>5, <1>6, <1>7, <1>8

LEMMA ReturnIInv ==
  ASSUME IInv, NEW t \in Thread, Return(t)
  PROVE  IInv'
<1>. USE DEF IInv, Return, control
<1>1. TypeOK'
  BY DEF TypeOK
<1>2. pc'[t] = (IF Locks(call[t]) THEN "unlock" ELSE "search") /\ call' = call
  BY DEF TypeOK
<1>3. \A u \in Thread : u # t => pc'[u] = pc[u]
  BY DEF TypeOK
<1>4. \A c : Locks(c)' <=> Locks(c)
  BY DEF Locks
<1>5. CallsSound'
  BY <1>2, <1>3, <1>4 DEF CallsSound
<1>6. Counted' /\ MutexSound'
  BY DEF Counted, MutexSound
<1>7. HeldInside'
  BY <1>2, <1>3, <1>4 DEF HeldInside, Guarded
<1>. QED  BY <1>1, <1>5, <1>6, <1>7

LEMMA UnlockIInv ==
  ASSUME IInv, NEW t \in Thread, Unlock(t)
  PROVE  IInv'
<1>. USE DEF IInv, control
<1>1. pc[t] = "unlock" /\ Guarded(t)
  BY DEF Unlock, CallsSound, Guarded
<1>2. pc'[t] \in {"lock", "search"} /\ (pc'[t] = "lock" => call'[t].kind = "print_model")
  BY DEF Unlock, TypeOK, Call
<1>3. call'[t] \in Call /\ \A u \in Thread : u # t => pc'[u] = pc[u] /\ call'[u] = call[u]
  BY DEF Unlock, TypeOK, Call, Reports
<1>4. TypeOK'
  <2>1. pc' \in [Thread -> {"search", "lock", "call", "unlock"}]
    BY DEF Unlock, TypeOK
  <2>2. call' \in [Thread -> Call]
    BY <1>3 DEF Unlock, TypeOK
  <2>. QED  BY <2>1, <2>2 DEF Unlock, TypeOK, OwnerAfter
<1>5. \A c : Locks(c)' <=> Locks(c)
  BY DEF Locks, Unlock
<1>6. Locks(call'[t]) \/ pc'[t] = "search"
  BY <1>2 DEF Locks
<1>7. CallsSound'
  BY <1>1, <1>2, <1>3, <1>5, <1>6 DEF CallsSound, Unlock, Reports
<1>8. Counted' /\ MutexSound'
  BY DEF Counted, MutexSound, Unlock
<1>9. HeldInside'
  <2>1. ~Guarded(t)'
    BY <1>2 DEF Guarded
  <2>2. ASSUME NEW u \in Thread, u # t  PROVE Guarded(u)' <=> Guarded(u)
    BY <2>2, <1>3, <1>5 DEF Guarded
  <2>3. CASE mutex
    <3>1. owner = t /\ owner' = NoThread /\ mutex'
      BY <1>1, <2>3 DEF HeldInside, Unlock, OwnerAfter
    <3>2. \A u \in Thread : u # t => ~Guarded(u)
      BY <3>1, <2>3 DEF HeldInside
    <3>. QED  BY <2>1, <2>2, <3>1, <3>2, ThreadAssumption DEF HeldInside
  <2>4. CASE ~mutex
    BY <2>4 DEF HeldInside, Unlock, OwnerAfter
  <2>. QED  BY <2>3, <2>4
<1>. QED  BY <1>4, <1>7, <1>8, <1>9

LEMMA FinishIInv ==
  ASSUME IInv, NEW t \in Thread, Finish(t)
  PROVE  IInv'
<1>. USE DEF IInv, Finish, control
<1>1. TypeOK'
  BY DEF TypeOK
<1>2. CallsSound' /\ Counted' /\ HeldInside'
  BY DEF CallsSound, Counted, HeldInside, Guarded, Locks
<1>3. MutexSound'
  <2>1. running' \subseteq running /\ IsFiniteSet(running)
    BY RunningFinite DEF TypeOK
  <2>2. Cardinality(running') <= Cardinality(running)
    BY <2>1, FS_Subset
  <2>3. Cardinality(running') \in Nat /\ Cardinality(running) \in Nat
    BY RunningFinite, <2>1 DEF TypeOK
  <2>. QED  BY <2>2, <2>3 DEF MutexSound, TypeOK
<1>. QED  BY <1>1, <1>2, <1>3

LEMMA NextIInv == IInv /\ [Next]_vars => IInv'
<1>. SUFFICES ASSUME IInv, [Next]_vars PROVE IInv'
  OBVIOUS
<1>1. ASSUME NEW p \in Propagator, Register(p)  PROVE IInv'
  BY <1>1, RegisterIInv
<1>2. CASE PrepareFails
  BY <1>2, PrepareFailsIInv
<1>3. ASSUME NEW ts \in SUBSET Thread \ {{}}, NEW h \in BOOLEAN, Solve(ts, h)  PROVE IInv'
  BY <1>3, SolveIInv
<1>4. ASSUME NEW t \in Thread, Proceed(t)  PROVE IInv'
  BY <1>4, LockIInv, AskNextIInv, ReturnIInv, UnlockIInv DEF Proceed
<1>5. ASSUME NEW t \in Thread, Propagate(t)  PROVE IInv'
  <2>1. PICK i \in DOMAIN props : Start(t, [kind |-> "propagate", at |-> i])
    BY <1>5 DEF Propagate
  <2>2. [kind |-> "propagate", at |-> i] \in Call
    BY DEF Call, IInv, TypeOK
  <2>. QED  BY <2>1, <2>2, StartIInv
<1>6. ASSUME NEW t \in Thread, Decide(t)  PROVE IInv'
  <2>1. PICK i \in DOMAIN props : Start(t, [kind |-> "decide", at |-> i])
    BY <1>6 DEF Decide, LeastOf, Heuristics
  <2>2. [kind |-> "decide", at |-> i] \in Call
    BY DEF Call, IInv, TypeOK
  <2>. QED  BY <2>1, <2>2, StartIInv
<1>7. ASSUME NEW t \in Thread, Report(t)  PROVE IInv'
  <2>1. PICK k \in {"on_model", "on_unsat"} : Start(t, [kind |-> k, at |-> 0])
    BY <1>7 DEF Report
  <2>2. [kind |-> k, at |-> 0] \in Call /\ k \in Reports
    BY DEF Call, Reports
  <2>. QED  BY <2>1, <2>2, StartIInv
<1>8. ASSUME NEW t \in Thread, Finish(t)  PROVE IInv'
  BY <1>8, FinishIInv
<1>9. CASE UNCHANGED vars
  BY <1>9 DEF IInv, TypeOK, CallsSound, Counted, MutexSound, HeldInside, Guarded, Locks,
              vars, control
<1>. QED  BY <1>1, <1>2, <1>3, <1>4, <1>5, <1>6, <1>7, <1>8, <1>9 DEF Next, Between, Search

-----------------------------------------------------------------------------
(* Types, for any number of threads and propagators. *)
THEOREM PropagatorTypes == Spec => []TypeOK
<1>1. IInv => TypeOK
  BY DEF IInv
<1>. QED  BY <1>1, InitIInv, NextIInv, PTL DEF Spec

(* The lock is held by whoever is in a call that takes it, and by nobody   *)
(* else: it is released by its owner, and is neither created nor dropped   *)
(* while a thread relies on it.                                            *)
THEOREM LockHeldInside == Spec => []HeldInside
<1>1. IInv => HeldInside
  BY DEF IInv
<1>. QED  BY <1>1, InitIInv, NextIInv, PTL DEF Spec

(* Callbacks of sequential propagators, of the event handler and of the    *)
(* printer exclude each other.                                             *)
THEOREM CallbacksExclusive == Spec => []Exclusion
BY ExclusionFromIInv, InitIInv, NextIInv, PTL DEF Spec
=============================================================================
