----------------------- MODULE GrounderCompleteProofs -----------------------
(***************************************************************************)
(* Proof that the grounder leaves out no instance (Complete of Grounder),  *)
(* for any statements and programs and for every schedule.                 *)
(*                                                                         *)
(* An instance whose body can be true is reported when its statement is    *)
(* initialized, or later by the instantiator of the body literal whose     *)
(* atom came last (CInv): until then the atom is in a domain that is       *)
(* queued, the instantiator is queued, or it runs and has not passed the   *)
(* instance over.  That rests on what is known of the time before:         *)
(*                                                                         *)
(*   AInv  the order of the components: what a component reports for good  *)
(*         are its heads, and each positive body literal that recurs in it *)
(*         has an instantiator of its own;                                 *)
(*   BInv  the facts: what is defined and no fact is the head of a         *)
(*         statement that is not positive, or a choice that hasChoice has  *)
(*         still to see.  So the literals that are not important have only *)
(*         facts, and one that is dropped or backjumped over stays true;   *)
(*   RInv  the rounds of the fixpoint: which generations are those of the  *)
(*         running round, and which indices of the next one are sorted in. *)
(*                                                                         *)
(* The grounder has two ways to miss a choice that the backend gave (the   *)
(* findings `backend` and `reserved` of the README), and with it instances *)
(* that matter.  ChoicesSeen says that neither happens.                    *)
(***************************************************************************)
EXTENDS GrounderProofs, WellFoundedInduction, FiniteSetTheorems

-----------------------------------------------------------------------------
(* Which symbols a domain defines, and which are facts of it *)

DefinedIn(d, s) == \E o \in Offsets(d) : d.atoms[o].sym = s /\ d.atoms[o].gen > 0
FactIn(d, s) == \E o \in Offsets(d) : d.atoms[o].sym = s /\ d.atoms[o].fact

(* Atoms stay where they are, ... *)
KeepsOffsets(d, e) ==
  /\ Offsets(d) \subseteq Offsets(e)
  /\ \A o \in Offsets(d) : e.atoms[o].sym = d.atoms[o].sym

(* ... the symbols in S are defined, and those in F become facts. *)
Derives(d, e, S, F) ==
  /\ KeepsOffsets(d, e)
  /\ \A s : /\ DefinedIn(e, s) <=> DefinedIn(d, s) \/ s \in S
            /\ FactIn(e, s) <=> FactIn(d, s) \/ s \in F

LEMMA DerivesNothing ==
  ASSUME NEW d, NEW e, Offsets(e) = Offsets(d),
         \A o \in Offsets(d) : /\ e.atoms[o].sym = d.atoms[o].sym
                               /\ e.atoms[o].gen > 0 <=> d.atoms[o].gen > 0
                               /\ e.atoms[o].fact <=> d.atoms[o].fact
  PROVE  Derives(d, e, {}, {})
BY DEF Derives, KeepsOffsets, DefinedIn, FactIn

LEMMA DerivesBoth ==
  ASSUME NEW d, NEW e, NEW f, NEW S, NEW F, NEW G,
         Derives(d, e, S, F), Derives(e, f, {}, G)
  PROVE  Derives(d, f, S, F \union G)
BY DEF Derives, KeepsOffsets

LEMMA DerivesReserve ==
  ASSUME NEW p, NEW d, DomainOK(p, d), NEW s \in UsedSyms
  PROVE  Derives(d, Reserve(d, s), {}, {})
<1> DEFINE e == Reserve(d, s)
<1>1. d \in DP!DomainRecord /\ DP!DomOK(d)
  BY DEF DomainOK, DP!DomOK
<1>2. CASE Contains(d, s)
  BY <1>2, DerivesNothing DEF Reserve
<1>3. CASE ~Contains(d, s)
  <2>1. DP!Reserve(d, s) = e /\ DP!Contains(d, s) = Contains(d, s) /\ DP!Offsets(d) = Offsets(d)
        /\ DP!NewAtom(s) = NewAtom(s)
    BY SameReserve, SameLookups
  <2> HIDE DEF e
  <2>2. /\ Len(e.atoms) = Len(d.atoms) + 1
        /\ \A o \in Offsets(d) : e.atoms[o] = d.atoms[o]
        /\ e.atoms[Len(e.atoms)] = NewAtom(s)
    BY <1>1, <1>3, <2>1, DP!ReserveFields
  <2>3. Len(d.atoms) \in Nat
    BY <1>1, DomainParts
  <2>4. Offsets(e) = Offsets(d) \union {Len(e.atoms)} /\ Len(e.atoms) \notin Offsets(d)
    BY <2>2, <2>3 DEF Offsets
  <2>5. ~(e.atoms[Len(e.atoms)].gen > 0) /\ ~e.atoms[Len(e.atoms)].fact
    BY <2>2 DEF NewAtom
  <2>6. ASSUME NEW t PROVE (DefinedIn(e, t) <=> DefinedIn(d, t)) /\ (FactIn(e, t) <=> FactIn(d, t))
    BY <2>2, <2>4, <2>5 DEF DefinedIn, FactIn
  <2>7. KeepsOffsets(d, e)
    BY <2>2, <2>4 DEF KeepsOffsets
  <2>. QED  BY <2>6, <2>7 DEF Derives, e
<1>. QED  BY <1>2, <1>3

LEMMA DerivesDefine ==
  ASSUME NEW p, NEW d, DomainOK(p, d), NEW s \in UsedSyms, PredOf(s) = p
  PROVE  Derives(d, Define(d, s), {s}, {})
<1> DEFINE r == Reserve(d, s)
           o == Find(r, s)
           e == Define(d, s)
<1>1. Becomes(p, d, r, {}) /\ DP!DomOK(r) /\ Contains(r, s)
  <2>1. DP!Reserve(d, s) = r /\ (\A f : DP!Contains(f, s) = Contains(f, s)) /\ DP!DomOK(d)
    BY SameReserve, SameLookups DEF DomainOK
  <2> HIDE DEF r
  <2>2. DP!DomOK(r) /\ Contains(r, s)
    BY <2>1, DP!ReserveOK
  <2>. QED  BY <2>2, ReserveStep DEF r
<1>2. Derives(d, r, {}, {})
  BY DerivesReserve
<1>3. o \in Offsets(r) /\ r.atoms[o].sym = s
  BY <1>1, FindContained
<1>4. e = DefineOffset(r, o)
  BY DEF Define
<1>5. Derives(r, e, {s}, {})
  <2>1. CASE IsDefined(r, o)
    <3>1. e = r /\ DefinedIn(r, s)
      BY <1>3, <1>4, <2>1 DEF DefineOffset, DefinedIn, IsDefined
    <3> HIDE DEF e, r
    <3>. QED  BY <3>1 DEF Derives, KeepsOffsets
  <2>2. CASE ~IsDefined(r, o)
    <3>1. r \in DP!DomainRecord /\ r.generation \in Nat
      BY <1>1, DomainParts DEF DP!DomOK
    <3>2. DP!DefineOffset(r, o) = DefineOffset(r, o) /\ DP!IsDefined(r, o) = IsDefined(r, o)
          /\ DP!Offsets(r) = Offsets(r)
      BY SameLookups DEF DP!DefineOffset, DefineOffset
    <3>3. /\ Len(e.atoms) = Len(r.atoms)
          /\ \A q \in Offsets(r) : q # o => e.atoms[q] = r.atoms[q]
          /\ e.atoms[o] = [r.atoms[o] EXCEPT !.gen = r.generation + 2]
      BY <1>3, <1>4, <2>2, <3>1, <3>2, DP!DefineFields
    <3>4. r.atoms[o] \in DP!AtomRecord
      BY <1>1, <1>3, DomainParts
    <3>5. e.atoms[o].sym = s /\ e.atoms[o].gen > 0 /\ e.atoms[o].fact = r.atoms[o].fact
      BY <1>3, <3>1, <3>3, <3>4 DEF DP!AtomRecord
    <3>6. Offsets(e) = Offsets(r)
      BY <3>3 DEF Offsets
    <3> HIDE DEF e, o, r
    <3>7. ASSUME NEW t
          PROVE  (DefinedIn(e, t) <=> DefinedIn(r, t) \/ t = s) /\ (FactIn(e, t) <=> FactIn(r, t))
      <4>1. DefinedIn(e, t) => DefinedIn(r, t) \/ t = s
        BY Zenon, <3>3, <3>5, <3>6 DEF DefinedIn
      <4>2. DefinedIn(r, t) \/ t = s => DefinedIn(e, t)
        BY Zenon, <1>3, <3>3, <3>5, <3>6 DEF DefinedIn
      <4>3. FactIn(e, t) <=> FactIn(r, t)
        BY Zenon, <1>3, <3>3, <3>5, <3>6 DEF FactIn
      <4>. QED  BY <4>1, <4>2, <4>3
    <3>8. KeepsOffsets(r, e)
      BY <1>3, <3>3, <3>5, <3>6 DEF KeepsOffsets
    <3>. QED  BY <3>7, <3>8 DEF Derives
  <2>. QED  BY <2>1, <2>2
<1> HIDE DEF e, r
<1>6. Derives(d, e, {s}, {})
  BY <1>2, <1>5 DEF Derives, KeepsOffsets
<1>. QED  BY <1>6 DEF e

LEMMA DerivesFact ==
  ASSUME NEW p, NEW d, DomainOK(p, d), NEW h, Contains(d, h)
  PROVE  Derives(d, SetFact(d, Find(d, h)), {}, {h})
<1> DEFINE o == Find(d, h)
           e == SetFact(d, o)
<1>1. o \in Offsets(d) /\ d.atoms[o].sym = h
  BY FindContained
<1> HIDE DEF o
<1>2. /\ Len(e.atoms) = Len(d.atoms)
      /\ \A q \in Offsets(d) : e.atoms[q].sym = d.atoms[q].sym /\ e.atoms[q].gen = d.atoms[q].gen
  BY <1>1, SetFactStep
<1>3. \A q \in Offsets(d) : IF q = o THEN e.atoms[q].fact ELSE e.atoms[q].fact = d.atoms[q].fact
  <2>1. d \in DP!DomainRecord /\ DOMAIN d.atoms = Offsets(d)
        /\ \A q \in Offsets(d) : d.atoms[q] \in DP!AtomRecord
    BY DomainParts DEF DomainOK, DP!DomOK
  <2>2. e.atoms = [d.atoms EXCEPT ![o].fact = TRUE]
    BY <2>1 DEF SetFact, DP!DomainRecord
  <2> HIDE DEF e
  <2>. QED  BY <2>1, <2>2 DEF DP!AtomRecord
<1>4. Offsets(e) = Offsets(d)
  BY <1>2 DEF Offsets
<1> HIDE DEF e
<1>5. ASSUME NEW t
      PROVE  (DefinedIn(e, t) <=> DefinedIn(d, t)) /\ (FactIn(e, t) <=> FactIn(d, t) \/ t = h)
  <2>1. DefinedIn(e, t) <=> DefinedIn(d, t)
    BY <1>2, <1>4 DEF DefinedIn
  <2>2. FactIn(e, t) => FactIn(d, t) \/ t = h
    BY <1>1, <1>2, <1>3, <1>4 DEF FactIn
  <2>3. FactIn(d, t) \/ t = h => FactIn(e, t)
    BY <1>1, <1>2, <1>3, <1>4 DEF FactIn
  <2>. QED  BY <2>1, <2>2, <2>3
<1>6. KeepsOffsets(d, e)
  BY <1>2, <1>4 DEF KeepsOffsets
<1>. QED  BY <1>5, <1>6 DEF Derives, e, o

(* The steps that change neither. *)
LEMMA DerivesSteps ==
  ASSUME NEW p, NEW d, DomainOK(p, d)
  PROVE  /\ Derives(d, d, {}, {})
         /\ Derives(d, InitDomain(d), {}, {})
         /\ Derives(d, [d EXCEPT !.generation = @ + 1], {}, {})
         /\ Derives(d, AdvanceDomain(d), {}, {})
         /\ \A os : Derives(d, MarkDelayed(d, os), {}, {})
         /\ \A os : Derives(d, EnqueueDomain(MarkDelayed(d, os)), {}, {})
<1>1. /\ d \in DP!DomainRecord /\ DP!DomOK(d) /\ Len(d.atoms) \in Nat
      /\ \A o \in Offsets(d) : d.atoms[o] \in DP!AtomRecord /\ d.atoms[o].gen \in Nat
  BY Zenon, DomainParts DEF DomainOK, DP!DomOK
<1>2. Derives(d, d, {}, {})
  BY DerivesNothing
<1>3. Derives(d, InitDomain(d), {}, {})
  <2> DEFINE e == InitDomain(d)
  <2>1. DP!InitDomain(d) = e /\ (\A f : DP!Offsets(f) = Offsets(f))
    BY SameInit, SameLookups
  <2>2. /\ Len(e.atoms) = Len(d.atoms)
        /\ \A o \in Offsets(d) : e.atoms[o].sym = d.atoms[o].sym /\ e.atoms[o].fact = d.atoms[o].fact
    BY Zenon, <1>1, InitFields
  <2> HIDE DEF e
  <2>3. \A o \in Offsets(d) : e.atoms[o].gen > 0 <=> d.atoms[o].gen > 0
    BY <1>1, <2>1, DP!InitDomainOK DEF DP!Grows
  <2>4. Offsets(e) = Offsets(d)
    BY <2>2 DEF Offsets
  <2>. QED  BY <2>2, <2>3, <2>4, DerivesNothing DEF e
<1>4. ASSUME NEW c, c \in DP!DomainRecord, NEW e, e.atoms = c.atoms PROVE Derives(c, e, {}, {})
  BY <1>4, DerivesNothing DEF Offsets
<1>5. /\ Derives(d, [d EXCEPT !.generation = @ + 1], {}, {})
      /\ Derives(d, AdvanceDomain(d), {}, {})
  <2>1. /\ [d EXCEPT !.generation = @ + 1].atoms = d.atoms
        /\ AdvanceDomain(d).atoms = d.atoms
    BY <1>1 DEF AdvanceDomain, DP!DomainRecord
  <2>. QED  BY Zenon, <1>1, <1>4, <2>1
<1>6. ASSUME NEW os
      PROVE  Derives(d, MarkDelayed(d, os), {}, {}) /\ MarkDelayed(d, os) \in DP!DomainRecord
  <2> DEFINE e == MarkDelayed(d, os)
  <2>1. DP!MarkDelayed(d, os) = e /\ (\A f : DP!Offsets(f) = Offsets(f))
    BY SameMark, SameLookups
  <2>2. e.atoms = [o \in Offsets(d) |-> IF o \in os /\ ~IsDefined(d, o)
                     THEN [d.atoms[o] EXCEPT !.delayed = TRUE] ELSE d.atoms[o]]
    BY <1>1 DEF MarkDelayed, DP!DomainRecord
  <2> HIDE DEF e
  <2>3. /\ e \in DP!DomainRecord
        /\ Offsets(e) = Offsets(d)
        /\ \A o \in Offsets(d) : e.atoms[o].sym = d.atoms[o].sym /\ e.atoms[o].gen = d.atoms[o].gen
    BY <1>1, <2>1, DP!MarkOK DEF DP!Grows, DP!DomOK
  <2>4. \A o \in Offsets(d) : e.atoms[o].fact = d.atoms[o].fact
    BY <1>1, <2>2 DEF DP!AtomRecord
  <2>5. Derives(d, e, {}, {})
    BY <2>3, <2>4, DerivesNothing
  <2>. QED  BY <2>3, <2>5 DEF e
<1>7. ASSUME NEW os PROVE Derives(d, EnqueueDomain(MarkDelayed(d, os)), {}, {})
  <2> DEFINE m == MarkDelayed(d, os)
  <2>1. Derives(d, m, {}, {}) /\ m \in DP!DomainRecord
    BY <1>6
  <2> HIDE DEF m
  <2>2. EnqueueDomain(m).atoms = m.atoms
    BY <2>1 DEF EnqueueDomain, DP!DomainRecord
  <2>3. Derives(m, EnqueueDomain(m), {}, {})
    BY <1>4, <2>1, <2>2
  <2>4. Derives(d, EnqueueDomain(m), {}, {})
    BY <2>1, <2>3 DEF Derives, KeepsOffsets
  <2>. QED  BY <2>4 DEF m
<1>. QED  BY <1>2, <1>3, <1>5, <1>6, <1>7

(* What the grounder looks up. *)
LEMMA LookupsOf ==
  ASSUME NEW d, Distinct(d), NEW s
  PROVE  /\ Contains(d, s) /\ d.atoms[Find(d, s)].gen > 0 <=> DefinedIn(d, s)
         /\ Contains(d, s) /\ d.atoms[Find(d, s)].fact <=> FactIn(d, s)
<1>1. Contains(d, s) => Find(d, s) \in Offsets(d) /\ d.atoms[Find(d, s)].sym = s
  BY FindContained
<1>2. \A o \in Offsets(d) : d.atoms[o].sym = s => Contains(d, s) /\ o = Find(d, s)
  BY <1>1 DEF Distinct, Contains
<1>3. DefinedIn(d, s) <=> Contains(d, s) /\ d.atoms[Find(d, s)].gen > 0
  BY <1>1, <1>2 DEF DefinedIn
<1>4. FactIn(d, s) <=> Contains(d, s) /\ d.atoms[Find(d, s)].fact
  BY <1>1, <1>2 DEF FactIn
<1>. QED  BY <1>3, <1>4

LEMMA SymLookups ==
  ASSUME DomInv, NEW s \in UsedSyms
  PROVE  /\ IsDefinedSym(s) <=> DefinedIn(dom[PredOf(s)], s)
         /\ IsFactSym(s) <=> FactIn(dom[PredOf(s)], s)
<1>1. Distinct(dom[PredOf(s)])
  BY SymPred DEF DomInv, DomainOK
<1>. QED  BY <1>1, LookupsOf DEF IsDefinedSym, IsFactSym, Has, AtomOf

(* A step defines the symbols in S, and those in F become facts. *)
Effect(S, F) ==
  /\ \A p \in Preds : KeepsOffsets(dom[p], dom'[p])
  /\ \A s \in UsedSyms : /\ IsDefinedSym(s)' <=> IsDefinedSym(s) \/ s \in S
                         /\ IsFactSym(s)' <=> IsFactSym(s) \/ s \in F

LEMMA EffectOfDomains ==
  ASSUME DomInv, DomInv', NEW S, NEW F,
         \A p \in Preds : KeepsOffsets(dom[p], dom'[p]),
         \A p \in Preds : \A s : PredOf(s) = p =>
           /\ DefinedIn(dom'[p], s) <=> DefinedIn(dom[p], s) \/ s \in S
           /\ FactIn(dom'[p], s) <=> FactIn(dom[p], s) \/ s \in F
  PROVE  Effect(S, F)
<1>1. ASSUME NEW s \in UsedSyms
      PROVE  /\ IsDefinedSym(s)' <=> DefinedIn(dom'[PredOf(s)], s)
             /\ IsFactSym(s)' <=> FactIn(dom'[PredOf(s)], s)
  <2>1. Distinct(dom'[PredOf(s)])
    BY SymPred DEF DomInv, DomainOK
  <2>. QED  BY <2>1, LookupsOf DEF IsDefinedSym, IsFactSym, Has, AtomOf
<1>. QED  BY <1>1, SymLookups, SymPred DEF Effect

LEMMA OneEffect ==
  ASSUME DomInv, DomInv', NEW q \in Preds, NEW e, dom' = [dom EXCEPT ![q] = e],
         NEW S, NEW F, Derives(dom[q], e, S, F), \A s \in S \union F : PredOf(s) = q
  PROVE  Effect(S, F)
<1>1. DOMAIN dom = Preds
  BY DEF DomInv
<1>2. dom'[q] = e /\ \A p \in Preds : p # q => dom'[p] = dom[p]
  BY Zenon, <1>1
<1>3. ASSUME NEW p \in Preds, NEW s, PredOf(s) = p
      PROVE  /\ DefinedIn(dom'[p], s) <=> DefinedIn(dom[p], s) \/ s \in S
             /\ FactIn(dom'[p], s) <=> FactIn(dom[p], s) \/ s \in F
  <2>1. CASE p = q
    BY <1>2, <2>1 DEF Derives
  <2>2. CASE p # q
    <3>1. s \notin S \union F
      BY <1>3, <2>2
    <3>. QED  BY <1>2, <2>2, <3>1
  <2>. QED  BY <2>1, <2>2
<1>4. ASSUME NEW p \in Preds PROVE KeepsOffsets(dom[p], dom'[p])
  <2>1. CASE p = q
    BY <1>2, <2>1 DEF Derives
  <2>2. CASE p # q
    BY <1>2, <2>2 DEF KeepsOffsets
  <2>. QED  BY <2>1, <2>2
<1>. QED  BY <1>3, <1>4, EffectOfDomains

LEMMA AllEffect ==
  ASSUME DomInv, DomInv', \A p \in Preds : Derives(dom[p], dom'[p], {}, {})
  PROVE  Effect({}, {})
<1>1. ASSUME NEW p \in Preds, NEW s, PredOf(s) = p
      PROVE  /\ DefinedIn(dom'[p], s) <=> DefinedIn(dom[p], s) \/ s \in {}
             /\ FactIn(dom'[p], s) <=> FactIn(dom[p], s) \/ s \in {}
  BY DEF Derives
<1>2. \A p \in Preds : KeepsOffsets(dom[p], dom'[p])
  BY DEF Derives
<1>. QED  BY <1>1, <1>2, EffectOfDomains

LEMMA SameEffect ==
  ASSUME DomInv, dom' = dom
  PROVE  Effect({}, {})
BY DEF Effect, KeepsOffsets, IsDefinedSym, IsFactSym, Has, AtomOf

(* The steps of the grounder after which no more is defined or a fact. *)
LEMMA NoEffect ==
  ASSUME GInv, GInv', LInv, HInv,
         \/ UNCHANGED vars
         \/ BeginAddBackend \/ BeginPrepare \/ Prepared
         \/ \E c \in {deps[s].comp : s \in DOMAIN deps} : StartComponent(c)
         \/ \E s \in comp : Linearize(s)
         \/ RegisterLiteral \/ EnqueueComponent
         \/ BeginIteration
         \/ \E x \in current : RunInstantiator(x)
         \/ \E i \in left : TryInstance(i) \/ Backjump(i)
         \/ MatchNegative \/ Mismatch
         \/ ReportBody
         \/ \E x \in ran : Propagate(x)
         \/ EndIteration \/ EndComponent
         \/ NextCall \/ Return
  PROVE  Effect({}, {})
<1>1. DomInv /\ DomInv' /\ DOMAIN dom = Preds /\ \A p \in Preds : DomainOK(p, dom[p])
  BY DEF GInv, DomInv
<1>2. CASE dom' = dom
  BY <1>1, <1>2, SameEffect
<1>3. CASE BeginAddBackend \/ Prepared
  <2>1. \A p \in Preds : dom'[p] = [dom[p] EXCEPT !.generation = @ + 1]
    BY <1>1, <1>3 DEF BeginAddBackend, Prepared, NextGeneration
  <2>2. \A p \in Preds : Derives(dom[p], dom'[p], {}, {})
    BY Zenon, <1>1, <2>1, DerivesSteps
  <2>. QED  BY <1>1, <2>2, AllEffect
<1>4. CASE RegisterLiteral
  <2>1. PICK u \in agenda :
          \E ix : /\ u \in Updaters(insts)
                  /\ \/ dom' = dom
                     \/ dom' = [dom EXCEPT ![KeyPred(KeyOf(u))] = PassedBy(dom[KeyPred(KeyOf(u))], ix)]
    BY Zenon, <1>4, RegisteredLiteral
  <2>2. PICK ix : \/ dom' = dom
                  \/ dom' = [dom EXCEPT ![KeyPred(KeyOf(u))] = PassedBy(dom[KeyPred(KeyOf(u))], ix)]
    BY <2>1
  <2> DEFINE p == KeyPred(KeyOf(u))
             e == PassedBy(dom[p], ix)
  <2>3. p \in Preds
    BY <2>1, UpdaterKey
  <2>4. Derives(dom[p], e, {}, {})
    BY Zenon, <1>1, <2>3, DerivesSteps DEF PassedBy
  <2>5. dom' = dom \/ dom' = [dom EXCEPT ![p] = e]
    BY <2>2
  <2>6. \A s \in {} \union {} : PredOf(s) = p
    OBVIOUS
  <2> HIDE DEF p, e
  <2>. QED  BY <1>1, <1>2, <2>3, <2>4, <2>5, <2>6, OneEffect
<1>5. CASE EnqueueComponent
  <2>1. \A p \in Preds : dom'[p] = IF p \in CompPreds THEN InitDomain(dom[p]) ELSE dom[p]
    BY <1>1, <1>5 DEF EnqueueComponent
  <2>2. ASSUME NEW p \in Preds PROVE Derives(dom[p], dom'[p], {}, {})
    BY Zenon, <1>1, <2>1, DerivesSteps
  <2>. QED  BY <1>1, <2>2, AllEffect
<1>6. CASE MatchNegative
  <2>1. PICK s \in UsedSyms :
          /\ PredOf(s) \in Preds
          /\ dom' = dom \/ dom' = [dom EXCEPT ![PredOf(s)] = Reserve(dom[PredOf(s)], s)]
    BY <1>6, MatchNegativeEffect
  <2> DEFINE p == PredOf(s)
             e == Reserve(dom[p], s)
  <2>2. Derives(dom[p], e, {}, {}) /\ p \in Preds
    BY <1>1, <2>1, DerivesReserve
  <2>3. dom' = dom \/ dom' = [dom EXCEPT ![p] = e]
    BY <2>1
  <2>4. \A t \in {} \union {} : PredOf(t) = p
    OBVIOUS
  <2> HIDE DEF p, e
  <2>. QED  BY <1>1, <1>2, <2>2, <2>3, <2>4, OneEffect
<1>7. CASE \E x \in ran : Propagate(x)
  <2>1. PICK x \in ran : Propagate(x)
    BY <1>7
  <2>2. \A p \in Preds : dom'[p] =
          IF p \in HeadPreds(x.stm)
          THEN EnqueueDomain(MarkDelayed(dom[p], Passed(p, PropKeys(x.stm)))) ELSE dom[p]
    BY <2>1, PropagateEffect
  <2>3. ASSUME NEW p \in Preds PROVE Derives(dom[p], dom'[p], {}, {})
    BY Zenon, <1>1, <2>2, DerivesSteps
  <2>. QED  BY <1>1, <2>3, AllEffect
<1>8. CASE EndIteration \/ EndComponent
  <2>1. AdvanceEnqueuedDomains
    BY <1>8 DEF EndIteration, EndComponent
  <2>2. \A p \in Preds : dom'[p] = IF dom[p].enqueued > 0 THEN AdvanceDomain(dom[p]) ELSE dom[p]
    BY <1>1, <2>1, AdvanceStep
  <2>3. ASSUME NEW p \in Preds PROVE Derives(dom[p], dom'[p], {}, {})
    BY Zenon, <1>1, <2>2, DerivesSteps
  <2>. QED  BY <1>1, <2>3, AllEffect
<1>9. \/ UNCHANGED vars \/ BeginPrepare
      \/ \E c \in {deps[s].comp : s \in DOMAIN deps} : StartComponent(c)
      \/ \E s \in comp : Linearize(s)
      \/ BeginIteration
      \/ \E x \in current : RunInstantiator(x)
      \/ \E i \in left : TryInstance(i) \/ Backjump(i)
      \/ Mismatch \/ ReportBody
      \/ NextCall \/ Return
      => dom' = dom
  BY Zenon DEF vars, BeginPrepare, StartComponent, Linearize, BeginIteration, RunInstantiator,
         TryInstance, Backjump, Mismatch, ReportBody, NextCall, Return
<1>. QED  BY Zenon, <1>2, <1>3, <1>4, <1>5, <1>6, <1>7, <1>8, <1>9

(* Those that define a symbol, or make it a fact. *)
LEMMA DefiningEffects ==
  ASSUME GInv, GInv', NEW s \in todo
  PROVE  /\ AddAtom(s) => Effect({s}, {})
         /\ DefineFact(s) => Effect({s}, {s})
<1> DEFINE p == PredOf(s)
           d == Define(dom[p], s)
           e == SetFact(d, Find(d, s))
<1>1. s \in UsedSyms /\ p \in Preds
  BY SymPred DEF GInv, CallInv, UsedSyms
<1>2. DomInv /\ DomInv' /\ DomainOK(p, dom[p])
  BY <1>1 DEF GInv, DomInv
<1>3. Derives(dom[p], d, {s}, {}) /\ DomainOK(p, d) /\ Contains(d, s)
  BY <1>1, <1>2, DerivesDefine, DefineStep DEF Becomes
<1>4. Derives(dom[p], e, {s}, {s})
  <2> HIDE DEF d, p
  <2>1. Derives(d, e, {}, {s})
    BY <1>3, DerivesFact
  <2>. QED  BY <1>3, <2>1 DEF Derives, KeepsOffsets
<1>5. /\ AddAtom(s) => dom' = [dom EXCEPT ![p] = d]
      /\ DefineFact(s) => dom' = [dom EXCEPT ![p] = e]
  BY DEF AddAtom, DefineFact
<1>6. (\A t \in {s} \union {} : PredOf(t) = p) /\ (\A t \in {s} \union {s} : PredOf(t) = p)
  OBVIOUS
<1> HIDE DEF p, d, e
<1>. QED  BY <1>1, <1>2, <1>3, <1>4, <1>5, <1>6, OneEffect

-----------------------------------------------------------------------------
(* What the steps of an instance do to it *)

OneWork == \A v, w \in work' : v = w

(* An instance is tried, ... *)
Tries(x, i) ==
  \A v \in work' :
    /\ v.inst = i /\ v.stage = "match" /\ v.defs = <<>> /\ v.heads = <<>>
    /\ v.complete <=> Fails(x, i) = {}
    /\ v.probes = Probes(x, i)

(* ... a negative literal of it is looked up, ... *)
IsFound(x, k, s) ==
  IF Statements[x.stm].naf[k] = "not" THEN ~IsFactSym(s)
  ELSE IsRecursive(x.stm, k) \/ IsDefinedSym(s)

LooksUp(x, w, k) ==
  LET s == BodySym(x.stm, w.inst, k)
  IN /\ w.stage = "match" /\ k \in Negative(x.stm)
     /\ \A v \in work' :
          /\ v.inst = w.inst /\ v.stage = "match" /\ v.complete = w.complete
          /\ v.probes = w.probes \ {k} /\ v.defs = w.defs /\ v.heads = w.heads
     /\ work' # {} <=> IsFound(x, k, s)
     /\ closed \subseteq closed'
     /\ ~IsRecursive(x.stm, k) /\ ~IsDefinedSym(s) => s \in closed'

(* ... its body is reported, and a head and the end of it. *)
ReportsBody(x, w) ==
  /\ w.stage = "match" /\ w.probes = {} /\ w.complete
  /\ \A v \in work' :
       /\ v.inst = w.inst /\ v.stage = "head" /\ v.defs = w.defs /\ v.heads = w.heads
       /\ (\A k \in Body(x.stm) : IsTrue(x.stm, k, BodySym(x.stm, w.inst, k))) => v.fact
  /\ seen' = seen \union {w.inst}
  /\ matched' = matched \union {<<x.stm, w.inst>>}

ReportsHead(x, w, s) ==
  /\ w.stage = "head" /\ Len(w.defs) < Len(Heads(x.stm, w.inst))
  /\ Effect({s}, {})
  /\ \A v \in work' :
       /\ v.inst = w.inst /\ v.stage = "head" /\ v.fact = w.fact
       /\ v.defs = Append(w.defs, s)
       /\ v.heads = IF IsFactSym(s) THEN w.heads ELSE Append(w.heads, s)
  /\ work' # {} <=> ~IsFactSym(s) \/ Statements[x.stm].kind = "choice"

ReportsRule(x, w) ==
  /\ w.stage = "head" /\ Len(w.defs) = Len(Heads(x.stm, w.inst))
  /\ IF Statements[x.stm].kind # "choice" /\ w.fact /\ Len(w.heads) = 1
     THEN Effect({}, {w.heads[1]}) ELSE Effect({}, {})

LEMMA TryWork ==
  ASSUME GInv, NEW i \in left, TryInstance(i)
  PROVE  /\ OneWork
         /\ \E x \in running : Tries(x, i)
<1>1. PICK x \in running :
        work' = {[inst |-> i, stage |-> "match", complete |-> Fails(x, i) = {},
                  probes |-> Probes(x, i), body |-> {}, fact |-> TRUE, defs |-> <<>>,
                  heads |-> <<>>]}
  BY DEF TryInstance
<1>2. ASSUME NEW f, NEW ps,
             work' = {[inst |-> i, stage |-> "match", complete |-> f,
                       probes |-> ps, body |-> {}, fact |-> TRUE, defs |-> <<>>, heads |-> <<>>]}
      PROVE  OneWork /\ \A v \in work' :
               /\ v.inst = i /\ v.stage = "match" /\ v.defs = <<>> /\ v.heads = <<>>
               /\ v.complete = f /\ v.probes = ps
  BY <1>2 DEF OneWork
<1>3. OneWork /\ \A v \in work' :
               /\ v.inst = i /\ v.stage = "match" /\ v.defs = <<>> /\ v.heads = <<>>
               /\ v.complete = (Fails(x, i) = {}) /\ v.probes = Probes(x, i)
  BY Zenon, <1>1, <1>2
<1>. QED  BY Zenon, <1>3 DEF Tries

LEMMA MatchNegativeWork ==
  ASSUME GInv, MatchNegative
  PROVE  /\ OneWork
         /\ \E x \in running, w \in work : \E k \in w.probes : LooksUp(x, w, k)
<1>1. PICK x \in running, w \in work : \E k \in w.probes :
       /\ w.stage = "match"
       /\ \A j \in w.probes : x.order[k] <= x.order[j]
       /\ LET s == BodySym(x.stm, w.inst, k)
              naf == Statements[x.stm].naf[k]
              found == IF naf = "not" THEN ~IsFactSym(s)
                       ELSE IsRecursive(x.stm, k) \/ IsDefinedSym(s)
          IN /\ work' = IF found THEN {[w EXCEPT !.probes = @ \ {k}]} ELSE {}
             /\ IF IsRecursive(x.stm, k)
                THEN /\ dom' = [dom EXCEPT ![PredOf(s)] = Reserve(@, s)]
                     /\ UNCHANGED closed
                ELSE /\ closed' = IF IsDefinedSym(s) THEN closed ELSE closed \union {s}
                     /\ UNCHANGED dom
  BY Zenon DEF MatchNegative
<1>2. PICK k \in w.probes :
       /\ w.stage = "match"
       /\ LET s == BodySym(x.stm, w.inst, k)
              naf == Statements[x.stm].naf[k]
              found == IF naf = "not" THEN ~IsFactSym(s)
                       ELSE IsRecursive(x.stm, k) \/ IsDefinedSym(s)
          IN /\ work' = IF found THEN {[w EXCEPT !.probes = @ \ {k}]} ELSE {}
             /\ IF IsRecursive(x.stm, k)
                THEN /\ dom' = [dom EXCEPT ![PredOf(s)] = Reserve(@, s)]
                     /\ UNCHANGED closed
                ELSE /\ closed' = IF IsDefinedSym(s) THEN closed ELSE closed \union {s}
                     /\ UNCHANGED dom
  BY Zenon, <1>1
<1> DEFINE s == BodySym(x.stm, w.inst, k)
           found == IF Statements[x.stm].naf[k] = "not" THEN ~IsFactSym(s)
                    ELSE IsRecursive(x.stm, k) \/ IsDefinedSym(s)
           v == [w EXCEPT !.probes = @ \ {k}]
<1>3. WorkFields \subseteq DOMAIN w /\ k \in Negative(x.stm)
  BY DEF GInv, WorkInv
<1>4. /\ v.inst = w.inst /\ v.stage = w.stage /\ v.complete = w.complete
      /\ v.probes = w.probes \ {k} /\ v.defs = w.defs /\ v.heads = w.heads
  BY <1>3 DEF WorkFields
<1>5. /\ found => work' = {v}
      /\ ~found => work' = {}
      /\ closed \subseteq closed'
      /\ ~IsRecursive(x.stm, k) /\ ~IsDefinedSym(s) => s \in closed'
  BY <1>2
<1>6. OneWork
  <2> HIDE DEF v, found
  <2>. QED  BY <1>5 DEF OneWork
<1>7. /\ \A u \in work' : /\ u.inst = w.inst /\ u.stage = "match" /\ u.complete = w.complete
                          /\ u.probes = w.probes \ {k} /\ u.defs = w.defs /\ u.heads = w.heads
      /\ work' # {} <=> found
  <2>1. w.stage = "match"
    BY <1>2
  <2> HIDE DEF v, found
  <2>. QED  BY <1>4, <1>5, <2>1
<1>8. w.stage = "match"
  BY <1>2
<1>. QED  BY Zenon, <1>3, <1>5, <1>6, <1>7, <1>8 DEF LooksUp, IsFound

LEMMA ReportBodyWork ==
  ASSUME GInv, ReportBody
  PROVE  /\ OneWork
         /\ \E x \in running, w \in work : ReportsBody(x, w)
<1>1. PICK x \in running, w \in work :
        /\ w.stage = "match" /\ w.probes = {} /\ w.complete
        /\ LET sym(k) == BodySym(x.stm, w.inst, k)
               true == {k \in Body(x.stm) : IsTrue(x.stm, k, sym(k))}
               out == {k \in Body(x.stm) :
                         IsOutput(x.stm, k, sym(k)) /\ (program \in KeepingFacts \/ k \notin true)}
           IN work' = {[w EXCEPT !.stage = "head", !.fact = (true = Body(x.stm)),
                                 !.body = {Lit(Statements[x.stm].naf[k], sym(k)) : k \in out}]}
        /\ seen' = seen \union {w.inst}
        /\ matched' = matched \union {<<x.stm, w.inst>>}
  BY Zenon DEF ReportBody
<1> DEFINE all == {k \in Body(x.stm) : IsTrue(x.stm, k, BodySym(x.stm, w.inst, k))}
<1>2. \E b : work' = {[w EXCEPT !.stage = "head", !.fact = (all = Body(x.stm)), !.body = b]}
  BY Zenon, <1>1
<1>3. WorkFields \subseteq DOMAIN w
  BY DEF GInv, WorkInv
<1>4. ASSUME NEW f, NEW b, work' = {[w EXCEPT !.stage = "head", !.fact = f, !.body = b]}
      PROVE  /\ OneWork
             /\ \A v \in work' :
                  /\ v.inst = w.inst /\ v.stage = "head" /\ v.defs = w.defs /\ v.heads = w.heads
                  /\ v.fact = f
  BY <1>3, <1>4 DEF WorkFields, OneWork
<1>a. PICK b : work' = {[w EXCEPT !.stage = "head", !.fact = (all = Body(x.stm)), !.body = b]}
  BY Zenon, <1>2
<1> DEFINE f == (all = Body(x.stm))
<1>b. work' = {[w EXCEPT !.stage = "head", !.fact = f, !.body = b]}
  BY Zenon, <1>a
<1> HIDE DEF f
<1>5. /\ OneWork
      /\ \A v \in work' :
           /\ v.inst = w.inst /\ v.stage = "head" /\ v.defs = w.defs /\ v.heads = w.heads
           /\ v.fact = f
  BY Zenon, <1>4, <1>b
<1>6. (\A k \in Body(x.stm) : IsTrue(x.stm, k, BodySym(x.stm, w.inst, k))) => f
  BY DEF f
<1>8. /\ w.stage = "match" /\ w.probes = {} /\ w.complete
      /\ seen' = seen \union {w.inst}
      /\ matched' = matched \union {<<x.stm, w.inst>>}
  BY Zenon, <1>1
<1>9. \A v \in work' :
        /\ v.inst = w.inst /\ v.stage = "head" /\ v.defs = w.defs /\ v.heads = w.heads
        /\ (\A k \in Body(x.stm) : IsTrue(x.stm, k, BodySym(x.stm, w.inst, k))) => v.fact
  BY Zenon, <1>5, <1>6
<1>. QED  BY Zenon, <1>5, <1>8, <1>9 DEF ReportsBody

LEMMA ReportHeadWork ==
  ASSUME GInv, GInv', ReportHead
  PROVE  /\ OneWork
         /\ \E x \in running, w \in work : \E s \in HeadSyms(x.stm) : ReportsHead(x, w, s)
<1>1. PICK x \in running, w \in work :
       /\ w.stage = "head"
       /\ Len(w.defs) < Len(Heads(x.stm, w.inst))
       /\ LET s == Heads(x.stm, w.inst)[Len(w.defs) + 1]
              next == [w EXCEPT !.defs = Append(@, s)]
          IN /\ dom' = [dom EXCEPT ![PredOf(s)] = Define(@, s)]
             /\ work' = IF ~IsFactSym(s) THEN {[next EXCEPT !.heads = Append(@, s)]}
                        ELSE IF Statements[x.stm].kind = "choice" THEN {next} ELSE {}
  BY Zenon DEF ReportHead
<1> DEFINE s == Heads(x.stm, w.inst)[Len(w.defs) + 1]
           next == [w EXCEPT !.defs = Append(w.defs, s)]
           both == [w EXCEPT !.defs = Append(w.defs, s), !.heads = Append(w.heads, s)]
<1>2. /\ x.stm \in Part.stms /\ w.inst \in Instances(x.stm) /\ WorkFields \subseteq DOMAIN w
      /\ w.defs \in Seq(HeadSyms(x.stm))
  BY DEF GInv, QueueInv, CallInv, WorkInv
<1>3. Heads(x.stm, w.inst) \in Seq(HeadSyms(x.stm))
  BY <1>2, StatementSyms DEF GInv
<1>4. s \in HeadSyms(x.stm)
  <2>1. Len(w.defs) \in Nat /\ Len(Heads(x.stm, w.inst)) \in Nat
    BY <1>2, <1>3
  <2>2. Len(w.defs) + 1 \in 1..Len(Heads(x.stm, w.inst))
    BY <1>1, <2>1
  <2>. QED  BY <1>3, <2>2
<1>5. s \in UsedSyms /\ PredOf(s) \in Preds
  BY <1>2, <1>4, StatementSyms, SymPred DEF GInv
<1>6. /\ dom' = [dom EXCEPT ![PredOf(s)] = Define(dom[PredOf(s)], s)]
      /\ work' = IF ~IsFactSym(s) THEN {both}
                 ELSE IF Statements[x.stm].kind = "choice" THEN {next} ELSE {}
  <2>1. [[w EXCEPT !.defs = Append(@, s)] EXCEPT !.heads = Append(@, s)] = both
    BY <1>2 DEF WorkFields
  <2>. QED  BY <1>1, <2>1
<1>7. /\ next.inst = w.inst /\ next.stage = w.stage /\ next.fact = w.fact
      /\ next.defs = Append(w.defs, s) /\ next.heads = w.heads
      /\ both.inst = w.inst /\ both.stage = w.stage /\ both.fact = w.fact
      /\ both.defs = Append(w.defs, s) /\ both.heads = Append(w.heads, s)
  BY <1>2 DEF WorkFields
<1>a. w.stage = "head" /\ Len(w.defs) < Len(Heads(x.stm, w.inst))
  BY <1>1
<1> HIDE DEF s, next, both
<1>8. Effect({s}, {})
  <2> DEFINE p == PredOf(s)
             e == Define(dom[p], s)
  <2>1. Derives(dom[p], e, {s}, {}) /\ p \in Preds
    BY <1>5, DerivesDefine DEF GInv, DomInv
  <2>2. dom' = [dom EXCEPT ![p] = e]
    BY <1>6
  <2>3. \A t \in {s} \union {} : PredOf(t) = p
    OBVIOUS
  <2> HIDE DEF p, e
  <2>. QED  BY Zenon, <2>1, <2>2, <2>3, OneEffect DEF GInv
<1>9. OneWork
  BY <1>6 DEF OneWork
<1>10. \A v \in work' :
         /\ v.inst = w.inst /\ v.stage = "head" /\ v.fact = w.fact
         /\ v.defs = Append(w.defs, s)
         /\ v.heads = IF IsFactSym(s) THEN w.heads ELSE Append(w.heads, s)
  BY Zenon, <1>6, <1>7, <1>a
<1>11. work' # {} <=> ~IsFactSym(s) \/ Statements[x.stm].kind = "choice"
  BY <1>6
<1>. QED  BY Zenon, <1>4, <1>a, <1>8, <1>9, <1>10, <1>11 DEF ReportsHead

LEMMA ReportRuleWork ==
  ASSUME GInv, GInv', ReportRule
  PROVE  /\ work' = {}
         /\ \E x \in running, w \in work : ReportsRule(x, w)
<1>1. PICK x \in running, w \in work :
       /\ w.stage = "head"
       /\ Len(w.defs) = Len(Heads(x.stm, w.inst))
       /\ LET choice == Statements[x.stm].kind = "choice"
              h == Head(w.heads)
              isFact == ~choice /\ w.fact /\ Len(w.heads) = 1
          IN dom' = IF isFact
                    THEN [dom EXCEPT ![PredOf(h)] = SetFact(@, Find(@, h))] ELSE dom
  BY Zenon DEF ReportRule
<1> DEFINE h == Head(w.heads)
           isFact == Statements[x.stm].kind # "choice" /\ w.fact /\ Len(w.heads) = 1
<1>2. work' = {}
  BY DEF ReportRule
<1>3. /\ x.stm \in Part.stms /\ w.heads \in Seq(HeadSyms(x.stm))
      /\ \A n \in DOMAIN w.heads : Has(w.heads[n])
  BY DEF GInv, QueueInv, CallInv, WorkInv
<1>4. ASSUME isFact PROVE Effect({}, {w.heads[1]})
  <2>1. h = w.heads[1] /\ 1 \in DOMAIN w.heads
    BY <1>3, <1>4
  <2>2. h \in UsedSyms /\ PredOf(h) \in Preds /\ Contains(dom[PredOf(h)], h)
    BY <1>3, <2>1, StatementSyms, SymPred DEF GInv, Has
  <2> DEFINE p == PredOf(h)
             e == SetFact(dom[p], Find(dom[p], h))
  <2>3. dom' = [dom EXCEPT ![p] = e]
    BY <1>1, <1>4
  <2>4. Derives(dom[p], e, {}, {h}) /\ p \in Preds
    BY <2>2, DerivesFact DEF GInv, DomInv
  <2>5. \A t \in {} \union {h} : PredOf(t) = p
    OBVIOUS
  <2> HIDE DEF p, e, h
  <2>6. Effect({}, {h})
    BY Zenon, <2>3, <2>4, <2>5, OneEffect DEF GInv
  <2>. QED  BY <2>1, <2>6
<1>5. ASSUME ~isFact PROVE Effect({}, {})
  BY <1>1, <1>5, SameEffect DEF GInv
<1>. QED  BY Zenon, <1>1, <1>2, <1>4, <1>5 DEF ReportsRule

-----------------------------------------------------------------------------
(* Positive statements and components *)

LEMMA ClosureFacts ==
  ASSUME NEW stms, NEW next, NEW s \in stms
  PROVE  /\ s \in Closure(stms, next, s)
         /\ \A t \in Closure(stms, next, s) : next[t] \cap stms = next[t] =>
              next[t] \subseteq Closure(stms, next, s)
         /\ \A t \in Closure(stms, next, s) : Closure(stms, next, t) \subseteq Closure(stms, next, s)
<1>1. s \in Closure(stms, next, s)
  BY DEF Closure
<1>2. ASSUME NEW t \in Closure(stms, next, s), next[t] \cap stms = next[t], NEW u \in next[t]
      PROVE  u \in Closure(stms, next, s)
  <2>1. ASSUME NEW c \in SUBSET stms, s \in c, \A v \in c : next[v] \subseteq c
        PROVE  u \in c
    <3>1. t \in c
      BY <2>1 DEF Closure
    <3>. QED  BY <1>2, <2>1, <3>1
  <2>2. u \in stms
    BY <1>2
  <2>. QED  BY <2>1, <2>2 DEF Closure
<1>3. ASSUME NEW t \in Closure(stms, next, s), NEW u \in Closure(stms, next, t)
      PROVE  u \in Closure(stms, next, s)
  <2>1. ASSUME NEW c \in SUBSET stms, s \in c, \A v \in c : next[v] \subseteq c
        PROVE  u \in c
    <3>1. t \in c
      BY <2>1 DEF Closure
    <3>. QED  BY <2>1, <3>1 DEF Closure
  <2>2. u \in stms
    BY DEF Closure
  <2>. QED  BY <2>1, <2>2 DEF Closure
<1>. QED  BY <1>1, <1>2, <1>3

LEMMA DependsOf ==
  ASSUME NEW stms, NEW s
  PROVE  /\ Depends(stms, s) \subseteq stms
         /\ DependsPositively(stms, s) \subseteq Depends(stms, s)
         /\ \A k \in Body(s) : DefinedBy(stms, s, k) \subseteq Depends(stms, s)
         /\ \A k \in Positive(s) : DefinedBy(stms, s, k) \subseteq DependsPositively(stms, s)
BY DEF Depends, DependsPositively, DefinedBy, Positive

(* A statement belongs to its component. *)
LEMMA OwnComponent ==
  ASSUME NEW stms, NEW s \in stms
  PROVE  s \in NegSCC(stms, s) /\ s \in PosSCC(stms, s)
<1>1. s \in Reach(stms, s)
  BY ClosureFacts DEF Reach
<1>2. s \in NegSCC(stms, s)
  BY <1>1 DEF NegSCC
<1> DEFINE scc == NegSCC(stms, s)
<1>3. s \in Closure(scc, [v \in scc |-> DependsPositively(scc, v)], s)
  BY <1>2, ClosureFacts
<1>. QED  BY <1>2, <1>3 DEF PosSCC

(* What a positive statement depends on is positive. *)
LEMMA PositiveProviders ==
  ASSUME NEW stms, NEW s \in stms, IsPositive(stms, s), NEW t \in Depends(stms, s)
  PROVE  t \in stms /\ IsPositive(stms, t)
<1> DEFINE next == [u \in stms |-> Depends(stms, u)]
<1>1. t \in stms /\ next[s] = Depends(stms, s)
  BY DependsOf
<1>2. next[s] \cap stms = next[s]
  BY <1>1, DependsOf
<1>3. \A u : Reach(stms, u) = Closure(stms, next, u)
  BY DEF Reach
<1> HIDE DEF next
<1>4. t \in Reach(stms, s) /\ Reach(stms, t) \subseteq Reach(stms, s)
  BY <1>1, <1>2, <1>3, ClosureFacts
<1>. QED  BY <1>1, <1>4 DEF IsPositive

LEMMA PositiveStatement ==
  ASSUME NEW stms, NEW s \in stms, IsPositive(stms, s)
  PROVE  /\ IsNormal(s)
         /\ \A k \in Body(s) : LitSyms(s, k) \intersect nheads = {}
         /\ \A k \in Negative(s) : DefinedBy(NegSCC(stms, s), s, k) = {}
<1>1. s \in Reach(stms, s)
  BY ClosureFacts DEF Reach
<1>. QED  BY <1>1 DEF IsPositive

LEMMA AnalysisOf ==
  ASSUME NEW stms, NEW s \in stms
  PROVE  /\ Analyze(stms)[s].scc = NegSCC(stms, s)
         /\ Analyze(stms)[s].comp = PosSCC(stms, s)
         /\ Analyze(stms)[s].positive = IsPositive(stms, s)
BY DEF Analyze

-----------------------------------------------------------------------------
(* The statements of a component and their instantiators *)

(* What the backend has added as choices, up to the running call. *)
Given == UNION {Programs[program][n].choices : n \in 1..step}

(* The search of hasChoice has not gone past the atom of a symbol. *)
NotPassed(s) == Find(dom[PredOf(s)], s) > choiceIndex[PredOf(s)]

(* Two ways in which a grounder does not see what the backend gave as a    *)
(* choice are left out: a component that counts as positive does not ask   *)
(* (finding `backend` of the README), and an atom that was reserved in an  *)
(* earlier call may have been passed before it is given (`reserved`).      *)
ChoicesSeen ==
  /\ \A stm \in comp : deps[stm].positive =>
       \A k \in Body(stm) : LitSyms(stm, k) \intersect Given = {}
  /\ pc = "backend" => \A s \in todo : Has(s) /\ ~IsDefinedSym(s) => NotPassed(s)

TodoInv == pc = "backend" => todo \subseteq Part.choices

(* The instance that is reported: its heads one after the other. *)
SingleWork == \A v, w \in work : v = w

HeadsInv ==
  \A x \in running, w \in work :
    /\ w.stage \in {"match", "head"}
    /\ w.stage = "match" => w.defs = <<>> /\ w.heads = <<>>
    /\ Statements[x.stm].kind = "rule" => w.heads = w.defs
    /\ Len(w.defs) <= Len(Heads(x.stm, w.inst))

(* A statement has all of its instantiators. *)
CoverInv ==
  \A stm \in Linearized : \A t \in BinderTypes(stm) :
    \E x \in insts : x.stm = stm /\ x.types = t

(* What is not important is provided by positive statements. *)
ImportantInv ==
  \A x \in insts :
    /\ deps[x.stm].positive => x.important = {}
    /\ \A k \in Body(x.stm) \ x.important :
         deps[x.stm].positive \/ IsPositivelyStratified(x.stm, k)

(* A component is grounded after what it depends on, except for the rest   *)
(* of its strongly connected component.                                    *)
StratInv == \A stm \in comp : Depends(Part.stms, stm) \subseteq done \union deps[stm].scc
DoneInv == \A stm \in done : DependsPositively(Part.stms, stm) \subseteq done

StmInv == CoverInv /\ ImportantInv /\ StratInv /\ DoneInv
AInv == TodoInv /\ SingleWork /\ HeadsInv /\ StmInv

LEMMA SameTypes ==
  ASSUME UNCHANGED <<program, step, done>>
  PROVE  \A stm : BinderTypes(stm)' = BinderTypes(stm)
<1>1. \A stm, k : IsRecursive(stm, k)' = IsRecursive(stm, k)
  BY SameRecursion
<1>. QED  BY <1>1 DEF BinderTypes

LEMMA SameStmInv ==
  ASSUME StmInv, UNCHANGED <<program, step, nheads, deps, done, comp, insts>>
  PROVE  StmInv'
<1>1. CoverInv'
  BY SameTypes DEF StmInv, CoverInv, Linearized
<1>2. ImportantInv'
  BY Zenon DEF StmInv, ImportantInv, IsPositivelyStratified, Part
<1>3. StratInv' /\ DoneInv'
  BY Zenon DEF StmInv, StratInv, DoneInv, Part
<1>. QED  BY <1>1, <1>2, <1>3 DEF StmInv

LEMMA NoComponentStmInv ==
  ASSUME insts' = {}, comp' = {}, DoneInv'
  PROVE  StmInv'
BY DEF StmInv, CoverInv, ImportantInv, StratInv, Linearized

LEMMA StmInvStep ==
  ASSUME GInv, LInv, NInv, StmInv, [Next]_vars
  PROVE  StmInv'
<1>1. CASE UNCHANGED <<program, step, nheads, deps, done, comp, insts>>
  BY <1>1, SameStmInv
<1>2. CASE BeginPrepare
  <2>1. pc \in {"call", "backend"} /\ UNCHANGED <<done, comp, insts>>
    BY <1>2 DEF BeginPrepare
  <2>2. comp' = {} /\ insts' = {} /\ done' = {}
    BY <2>1 DEF GInv, PhaseInv
  <2>. QED  BY <2>2, NoComponentStmInv DEF DoneInv
<1>3. ASSUME NEW c \in {deps[s].comp : s \in DOMAIN deps}, StartComponent(c)
      PROVE  StmInv'
  <2>1. /\ pc = "ground" /\ comp' = c /\ insts' = {} /\ UNCHANGED <<program, step, deps, done>>
        /\ \A s \in c : Ready(s)
    BY <1>3 DEF StartComponent, callVars
  <2>2. Part' = Part /\ deps = Analyze(Part.stms)
    BY <2>1 DEF Part, GInv, PhaseInv
  <2>3. c \subseteq Part.stms
    <3>1. DOMAIN deps = Part.stms
      BY <2>2 DEF Analyze
    <3>. QED  BY <2>2, <3>1, AnalysisOf, ComponentStatements
  <2>4. ASSUME NEW stm \in c PROVE Depends(Part.stms, stm) \subseteq done \union deps[stm].scc
    <3>1. stm \in deps[stm].comp
      BY <2>2, <2>3, AnalysisOf, OwnComponent
    <3>. QED  BY <2>1, <3>1 DEF Ready
  <2>5. StratInv' /\ DoneInv'
    BY <2>1, <2>2, <2>4 DEF StratInv, StmInv, DoneInv
  <2>. QED  BY <2>1, <2>5 DEF StmInv, CoverInv, ImportantInv, Linearized
<1>4. ASSUME NEW s \in comp, Linearize(s) PROVE StmInv'
  <2>1. PICK xs \in SUBSET Instantiators(s) :
          /\ \A t \in BinderTypes(s) : \E x \in xs : {y \in xs : y.types = t} = {x}
          /\ insts' = insts \union xs
    BY <1>4 DEF Linearize
  <2>2. UNCHANGED <<program, step, nheads, deps, done, comp>> /\ pc = "linearize"
    BY <1>4 DEF Linearize, callVars
  <2>3. CoverInv'
    <3>1. \A stm : BinderTypes(stm)' = BinderTypes(stm)
      BY <2>2, SameTypes
    <3>2. \A x \in xs : x.stm = s
      BY <2>1, InstantiatorStatement
    <3>3. \A t \in BinderTypes(s) : \E x \in xs : x.stm = s /\ x.types = t
      BY <2>1, <3>2
    <3>4. \A stm \in Linearized' : stm = s \/ stm \in Linearized
      BY <2>1, <3>2 DEF Linearized
    <3>. QED  BY <2>1, <3>1, <3>3, <3>4 DEF StmInv, CoverInv
  <2>4. ImportantInv'
    <3>1. \A stm, k : IsPositivelyStratified(stm, k)' = IsPositivelyStratified(stm, k)
      BY Zenon, <2>2 DEF IsPositivelyStratified, Part
    <3>2. ASSUME NEW x \in xs PROVE x.stm = s /\ x.important = Important(s)
      BY <2>1 DEF Instantiators
    <3>3. /\ deps[s].positive => Important(s) = {}
          /\ \A k \in Body(s) \ Important(s) : deps[s].positive \/ IsPositivelyStratified(s, k)
      BY DEF Important
    <3>4. \A x \in xs :
            /\ deps[x.stm].positive => x.important = {}
            /\ \A k \in Body(x.stm) \ x.important :
                 deps[x.stm].positive \/ IsPositivelyStratified(x.stm, k)
      BY <3>2, <3>3
    <3>. QED  BY <2>1, <2>2, <3>1, <3>4 DEF StmInv, ImportantInv
  <2>5. StratInv' /\ DoneInv'
    BY Zenon, <2>2 DEF StmInv, StratInv, DoneInv, Part
  <2>. QED  BY <2>3, <2>4, <2>5 DEF StmInv
<1>5. CASE EndComponent
  <2>1. /\ done' = done \union comp /\ comp' = {} /\ insts' = {} /\ UNCHANGED <<program, step>>
    BY <1>5 DEF EndComponent, callVars
  <2>2. Part' = Part
    BY <2>1 DEF Part
  <2>3. DoneInv'
    BY <2>1, <2>2 DEF DoneInv, StmInv, NInv, CompInv
  <2>. QED  BY <2>1, <2>3, NoComponentStmInv
<1>6. CASE NextCall
  <2>1. pc = "ground" /\ done' = {} /\ UNCHANGED <<comp, insts>>
    BY <1>6 DEF NextCall
  <2>2. comp' = {} /\ insts' = {}
    BY <2>1 DEF GInv, PhaseInv
  <2>. QED  BY <2>1, <2>2, NoComponentStmInv DEF DoneInv
<1>. QED  BY Zenon, <1>1, <1>2, <1>3, <1>4, <1>5, <1>6 DEF Next, vars, callVars, compVars, BeginAddBackend,
       Prepared, AddAtom, DefineFact, RegisterLiteral, EnqueueComponent, BeginIteration,
       RunInstantiator, TryInstance, Backjump, MatchNegative, Mismatch, ReportBody, ReportHead,
       ReportRule, Propagate, EndIteration, Return

LEMMA SameHeads ==
  ASSUME SingleWork, HeadsInv, work' \subseteq work, running' \subseteq running \/ work' = {}
  PROVE  SingleWork' /\ HeadsInv'
BY DEF SingleWork, HeadsInv

(* The steps of the instance that is reported. *)
LEMMA WorkHeads ==
  ASSUME GInv, GInv', SingleWork, HeadsInv,
         (\E i \in left : TryInstance(i)) \/ MatchNegative \/ ReportBody \/ ReportHead \/ ReportRule
  PROVE  SingleWork' /\ HeadsInv'
<1>1. running' = running
  BY Zenon DEF TryInstance, MatchNegative, ReportBody, ReportHead, ReportRule, instVars
<1>2. /\ \A x, y \in running : x = y
      /\ \A x \in running : x.stm \in Part.stms
      /\ \A x \in running, w \in work : w.inst \in Instances(x.stm)
  BY DEF GInv, QueueInv, CallInv, WorkInv
<1>3. \A x \in running : \A i \in Instances(x.stm) : Len(Heads(x.stm, i)) \in Nat
  BY <1>2, StatementSyms DEF GInv
<1>4. ASSUME NEW i \in left, TryInstance(i) PROVE SingleWork' /\ HeadsInv'
  <2>1. OneWork /\ \A v \in work' : v.inst = i /\ v.stage = "match" /\ v.defs = <<>> /\ v.heads = <<>>
    BY Zenon, <1>4, TryWork DEF Tries
  <2>2. \A x \in running : i \in Instances(x.stm)
    BY DEF GInv, WorkInv
  <2>3. \A x \in running : 0 <= Len(Heads(x.stm, i))
    BY <1>3, <2>2
  <2>4. Len(<<>>) = 0
    OBVIOUS
  <2>. QED  BY <1>1, <2>1, <2>3, <2>4 DEF OneWork, SingleWork, HeadsInv
<1>5. CASE MatchNegative
  <2>a. PICK x \in running, w \in work : \E k \in w.probes : LooksUp(x, w, k)
    BY <1>5, MatchNegativeWork
  <2>1. \A v \in work' : /\ v.inst = w.inst /\ v.stage = "match" /\ w.stage = "match"
                         /\ v.defs = w.defs /\ v.heads = w.heads
    BY <2>a DEF LooksUp
  <2>2. OneWork
    BY <1>5, MatchNegativeWork
  <2>. QED  BY Zenon, <1>1, <1>2, <2>1, <2>2 DEF OneWork, SingleWork, HeadsInv
<1>6. CASE ReportBody
  <2>a. PICK x \in running, w \in work : ReportsBody(x, w)
    BY <1>6, ReportBodyWork
  <2>1. \A v \in work' : /\ v.inst = w.inst /\ v.stage = "head" /\ w.stage = "match"
                         /\ v.defs = w.defs /\ v.heads = w.heads
    BY <2>a DEF ReportsBody
  <2>2. OneWork
    BY <1>6, ReportBodyWork
  <2>3. "head" # "match"
    OBVIOUS
  <2>. QED  BY <1>1, <1>2, <2>1, <2>2, <2>3 DEF OneWork, SingleWork, HeadsInv
<1>7. CASE ReportHead
  <2>1. PICK x \in running, w \in work : \E s \in HeadSyms(x.stm) : ReportsHead(x, w, s)
    BY <1>7, ReportHeadWork
  <2>a. PICK s \in HeadSyms(x.stm) : ReportsHead(x, w, s)
    BY <2>1
  <2>2. /\ Len(w.defs) < Len(Heads(x.stm, w.inst))
        /\ \A v \in work' :
             /\ v.inst = w.inst /\ v.stage = "head"
             /\ v.defs = Append(w.defs, s)
             /\ v.heads = IF IsFactSym(s) THEN w.heads ELSE Append(w.heads, s)
        /\ work' # {} <=> ~IsFactSym(s) \/ Statements[x.stm].kind = "choice"
    BY <2>a DEF ReportsHead
  <2>3. OneWork
    BY <1>7, ReportHeadWork
  <2>4. w.defs \in Seq(HeadSyms(x.stm)) /\ Len(Heads(x.stm, w.inst)) \in Nat
    BY <1>2, <1>3 DEF GInv, WorkInv
  <2>5. Len(Append(w.defs, s)) = Len(w.defs) + 1 /\ Len(w.defs) \in Nat
    BY <2>4
  <2>6. Len(Append(w.defs, s)) <= Len(Heads(x.stm, w.inst))
    BY <2>2, <2>4, <2>5
  <2>7. Statements[x.stm].kind = "rule" => w.heads = w.defs
    BY DEF HeadsInv
  <2>8. ASSUME NEW v \in work', Statements[x.stm].kind = "rule" PROVE v.heads = v.defs
    <3>1. ~IsFactSym(s)
      BY <2>2, <2>8
    <3>. QED  BY Zenon, <2>2, <2>7, <2>8, <3>1
  <2>9. \A y \in running : y = x
    BY <1>2
  <2>10. \A v \in work' : v.stage = "head" /\ Len(v.defs) <= Len(Heads(x.stm, v.inst))
    BY <2>2, <2>6
  <2>. QED  BY <1>1, <2>3, <2>8, <2>9, <2>10 DEF OneWork, SingleWork, HeadsInv
<1>8. CASE ReportRule
  BY <1>8, ReportRuleWork DEF SingleWork, HeadsInv
<1>. QED  BY <1>4, <1>5, <1>6, <1>7, <1>8

LEMMA InitAInv == Init => AInv
BY DEF Init, AInv, TodoInv, SingleWork, HeadsInv, StmInv, CoverInv, ImportantInv, StratInv, DoneInv, Linearized

LEMMA AInvStep ==
  ASSUME GInv, LInv, NInv, AInv, [Next]_vars
  PROVE  AInv'
<1>1. GInv'
  BY GInvStep
<1>2. StmInv'
  BY StmInvStep DEF AInv
<1>3. TodoInv'
  <2>1. CASE BeginAddBackend
    BY <2>1 DEF BeginAddBackend, TodoInv, Part
  <2>2. ASSUME NEW s \in todo, AddAtom(s) PROVE TodoInv'
    BY <2>2 DEF AddAtom, TodoInv, AInv, Part
  <2>3. CASE UNCHANGED vars
    BY <2>3 DEF TodoInv, AInv, Part, vars, callVars
  <2>4. CASE ~BeginAddBackend /\ ~(\E s \in todo : AddAtom(s)) /\ ~UNCHANGED vars
    <3>1. pc' # "backend"
      BY Zenon, <2>4 DEF Next, BeginPrepare, DefineFact, Prepared, StartComponent, Linearize,
           RegisterLiteral, EnqueueComponent, BeginIteration, RunInstantiator, TryInstance, Backjump,
           MatchNegative, Mismatch, ReportBody, ReportHead, ReportRule, Propagate, EndIteration,
           EndComponent, NextCall, Return, GInv, QueueInv, PhaseInv
    <3>. QED  BY <3>1 DEF TodoInv
  <2>. QED  BY <2>1, <2>2, <2>3, <2>4
<1>4. SingleWork' /\ HeadsInv'
  <2>1. CASE (\E i \in left : TryInstance(i)) \/ MatchNegative \/ ReportBody \/ ReportHead \/ ReportRule
    BY <1>1, <2>1, WorkHeads DEF AInv
  <2>2. CASE ~((\E i \in left : TryInstance(i)) \/ MatchNegative \/ ReportBody \/ ReportHead \/ ReportRule)
    <3>1. work' \subseteq work /\ (running' \subseteq running \/ work' = {})
      <4>1. \/ UNCHANGED <<running, work>>
            \/ work' = {}
            \/ work' = work /\ running' = {}
            \/ work = {} /\ work' = work
        BY Zenon, <2>2 DEF Next, vars, BeginAddBackend, AddAtom, BeginPrepare, DefineFact, Prepared,
           StartComponent, Linearize,
           RegisterLiteral, EnqueueComponent, BeginIteration, RunInstantiator, Backjump,
           Mismatch, Propagate, EndIteration, EndComponent, NextCall, Return, instVars
      <4>. QED  BY <4>1
    <3>. QED  BY <3>1, SameHeads DEF AInv
  <2>. QED  BY <2>1, <2>2
<1>. QED  BY <1>2, <1>3, <1>4 DEF AInv

-----------------------------------------------------------------------------
(* What an index holds and what it lacks *)

(* Defined atoms with a symbol of a literal. *)
MatchedBy(d, syms) == {o \in Offsets(d) : d.atoms[o].gen > 0 /\ d.atoms[o].sym \in syms}

LEMMA IndexSplit ==
  ASSUME NEW p, NEW d, DomainOK(p, d), NEW ix, DP!IdxOK(d, ix)
  PROVE  /\ Fresh(d, ix) = MatchedBy(d, ix.match) \ Content(ix)
         /\ Content(ix) \subseteq MatchedBy(d, ix.match)
<1>1. DP!DomOK(d)
  BY DEF DomainOK
<1>2. DP!Fresh(d, ix) = Fresh(d, ix) /\ DP!Content(ix) = Content(ix) /\ DP!Offsets(d) = Offsets(d)
  BY SameFresh, SameContent, SameLookups
<1>3. /\ DP!Fresh(d, ix) = DP!Matched(d, ix) \ DP!Content(ix)
      /\ DP!Content(ix) \subseteq DP!Matched(d, ix)
  BY <1>1, DP!FreshSplit
<1>4. DP!Matched(d, ix) = MatchedBy(d, ix.match)
  BY <1>2 DEF DP!Matched, MatchedBy
<1>. QED  BY <1>2, <1>3, <1>4

LEMMA UpdaterIndex ==
  ASSUME GInv, LInv, HInv, NEW u \in Updaters(insts) \ agenda
  PROVE  LET p == KeyPred(KeyOf(u))
             ix == index[KeyOf(u)]
             syms == LitSyms(u[1].stm, u[2])
         IN /\ p \in Preds /\ DomainOK(p, dom[p]) /\ KeyOf(u) \in DOMAIN index
            /\ DP!IdxOK(dom[p], ix) /\ DP!BatchesDisjoint(ix) /\ ix.match = syms
            /\ \A s \in syms : PredOf(s) = p
            /\ Fresh(dom[p], ix) = MatchedBy(dom[p], syms) \ Content(ix)
            /\ Content(ix) \subseteq MatchedBy(dom[p], syms)
<1> DEFINE p == KeyPred(KeyOf(u))
           ix == index[KeyOf(u)]
<1>1. /\ p \in Preds /\ KeyMatch(KeyOf(u)) = LitSyms(u[1].stm, u[2])
      /\ \A s \in KeyMatch(KeyOf(u)) : PredOf(s) = p
  BY UpdaterKey
<1>2. KeyOf(u) \in DOMAIN index
  BY DEF HInv, IdxInv
<1>3. ix.match = KeyMatch(KeyOf(u)) /\ DP!IdxOK(dom[p], ix) /\ DP!BatchesDisjoint(ix)
  BY <1>2 DEF HInv, IdxInv
<1>4. DomainOK(p, dom[p])
  BY <1>1 DEF GInv, DomInv
<1> HIDE DEF p, ix
<1>5. /\ Fresh(dom[p], ix) = MatchedBy(dom[p], ix.match) \ Content(ix)
      /\ Content(ix) \subseteq MatchedBy(dom[p], ix.match)
  BY <1>3, <1>4, IndexSplit
<1>. QED  BY <1>1, <1>2, <1>3, <1>4, <1>5 DEF p, ix

(* A positive literal only matches what is defined. *)
LEMMA MatchesDefined ==
  ASSUME GInv, LInv, HInv, agenda = {}, NEW x \in insts, NEW k \in Positive(x.stm),
         NEW i \in Instances(x.stm), Matches(x, k, BodySym(x.stm, i, k))
  PROVE  IsDefinedSym(BodySym(x.stm, i, k))
<1> DEFINE s == BodySym(x.stm, i, k)
           p == PredOf(s)
           d == dom[p]
           b == x.binders[k]
           ix == index[b.key]
           t == x.types[k]
<1>1. /\ x.stm \in Part.stms /\ IsInstantiator(x) /\ k \in Body(x.stm)
  BY DEF GInv, QueueInv, LInv, CallInv, Positive
<1>2. s \in LitSyms(x.stm, k) /\ s \in UsedSyms /\ p \in Preds
  BY <1>1, StatementSyms, SymPred DEF GInv
<1>3. t \in {"NEW", "OLD", "ALL"}
  BY <1>1, LiteralTypes
<1>4. b.kind \in {"index", "posmatcher", "matcher"}
  BY <1>1 DEF IsInstantiator, Binder
<1>5. Matches(x, k, s)
  OBVIOUS
<1>6. \E o \in Offsets(d) : d.atoms[o].sym = s /\ d.atoms[o].gen > 0
  <2>1. CASE b.kind = "index"
    <3> DEFINE u == <<x, k>>
    <3>1. u \in Updaters(insts) \ agenda
      BY <2>1 DEF Updaters
    <3>2. u[1] = x /\ u[2] = k /\ KeyOf(u) = b.key
      BY DEF KeyOf
    <3> HIDE DEF u
    <3>3. /\ \A q \in LitSyms(x.stm, k) : PredOf(q) = KeyPred(b.key)
          /\ Content(ix) \subseteq MatchedBy(dom[KeyPred(b.key)], LitSyms(x.stm, k))
      BY <3>1, <3>2, UpdaterIndex
    <3> HIDE DEF s, b, t
    <3>4. PICK o : /\ d.atoms[o].sym = s
                   /\ o \in (CASE t = "NEW" -> LookupNew(d, ix)
                               [] t = "OLD" -> LookupOld(d, ix)
                               [] t = "ALL" -> LookupAll(ix))
      BY Zenon, <1>5, <2>1 DEF Matches, b, t
    <3>5. o \in Content(ix)
      BY <1>3, <3>4 DEF LookupNew, LookupOld, LookupAll
    <3>6. KeyPred(b.key) = p
      BY <1>2, <3>3
    <3>. QED  BY <3>3, <3>4, <3>5, <3>6 DEF MatchedBy
  <2>2. CASE b.kind = "posmatcher"
    <3> HIDE DEF s
    <3>1. PICK o : /\ d.atoms[o].sym = s
                   /\ o \in (CASE t = "NEW" -> MatchNew(d, {s})
                               [] t = "OLD" -> MatchOld(d, {s})
                               [] t = "ALL" -> MatchAll(d, {s}))
      BY Zenon, <1>5, <2>2 DEF Matches
    <3>. QED  BY <1>3, <3>1 DEF MatchNew, MatchOld, MatchAll, IsDefined
  <2>3. CASE b.kind = "matcher"
    <3> HIDE DEF s
    <3>1. PICK o : /\ d.atoms[o].sym = s
                   /\ o \in {q \in Offsets(d) : IsDefined(d, q)}
      BY Zenon, <1>5, <2>3 DEF Matches
    <3>. QED  BY <3>1 DEF IsDefined
  <2>. QED  BY <1>4, <2>1, <2>2, <2>3
<1> HIDE DEF s
<1>. QED  BY <1>2, <1>6, SymLookups DEF DefinedIn, GInv, s

-----------------------------------------------------------------------------
(* Where hasChoice continues to search *)

ChoiceInv ==
  /\ DOMAIN choiceIndex = Preds
  /\ \A p \in Preds : choiceIndex[p] \in {0} \union Offsets(dom[p])

(* Every nonempty set of numbers has a first one. *)
LEMMA FirstNumber ==
  ASSUME NEW ks, ks \subseteq Nat, ks # {}
  PROVE  \E n \in ks : \A k \in ks : n <= k
<1> DEFINE below == {ss \in Nat \X Nat : ss[1] < ss[2]}
<1>1. IsWellFoundedOn(below, Nat)
  BY NatLessThanWellFounded DEF OpToRel
<1> HIDE DEF below
<1>2. PICK n \in ks : \A k \in ks : ~(<<k, n>> \in below)
  BY Zenon, <1>1, WFMin
<1>3. ASSUME NEW k \in ks PROVE n <= k
  <2>1. k \in Nat /\ n \in Nat /\ ~(<<k, n>> \in below)
    BY <1>2
  <2>2. ~(k < n)
    BY <2>1 DEF below
  <2>. QED  BY <2>1, <2>2
<1>. QED  BY <1>3

(* A search ends before the first choice, or at the end of the domain. *)
LEMMA ChoiceSearch ==
  ASSUME GInv, ChoiceInv, NEW p \in Preds
  PROVE  /\ ChoiceIndexAfter(p) \in {0} \union Offsets(dom[p])
         /\ \A o \in Choices(p) : o > ChoiceIndexAfter(p)
<1>1. Len(dom[p].atoms) \in Nat
  BY DomainParts DEF GInv, DomInv, DomainOK
<1>2. Choices(p) \subseteq Offsets(dom[p]) /\ Offsets(dom[p]) = 1..Len(dom[p].atoms)
  BY DEF Choices, Offsets
<1>3. CASE HasChoice(p)
  <2>1. Choices(p) # {} /\ Choices(p) \subseteq Nat
    BY <1>2, <1>3 DEF HasChoice
  <2>2. \E n \in Choices(p) : \A o \in Choices(p) : n <= o
    BY <2>1, FirstNumber
  <2>3. /\ Seqs!Min(Choices(p)) \in Choices(p)
        /\ \A o \in Choices(p) : Seqs!Min(Choices(p)) <= o
    BY <2>2 DEF Seqs!Min
  <2>4. ChoiceIndexAfter(p) = Seqs!Min(Choices(p)) - 1
    BY <1>3 DEF ChoiceIndexAfter
  <2> HIDE DEF Seqs!Min
  <2>. QED  BY <1>1, <1>2, <2>1, <2>3, <2>4
<1>4. CASE ~HasChoice(p)
  BY <1>1, <1>2, <1>4 DEF HasChoice, ChoiceIndexAfter
<1>. QED  BY <1>3, <1>4

(* The search goes on only where it found no choice, and starts again when *)
(* an index of the predicate is updated.                                   *)
LEMMA ChoiceIndexSteps ==
  ASSUME GInv, LInv, HInv, ChoiceInv, [Next]_vars
  PROVE  /\ DOMAIN choiceIndex' = Preds
         /\ \A p \in Preds :
              \/ choiceIndex'[p] \in {0, choiceIndex[p]}
              \/ dom' = dom /\ choiceIndex'[p] = ChoiceIndexAfter(p)
<1>1. DOMAIN choiceIndex = Preds
  BY DEF ChoiceInv
<1>2. CASE \E s \in comp : Linearize(s)
  <2>1. PICK s \in comp : Linearize(s)
    BY <1>2
  <2>2. /\ dom' = dom
        /\ choiceIndex' = [p \in Preds |->
             IF p \in AskedPreds(s) THEN ChoiceIndexAfter(p) ELSE choiceIndex[p]]
    BY <1>1, <2>1 DEF Linearize
  <2>. QED  BY <2>2
<1>3. CASE RegisterLiteral
  <2>1. \E key : choiceIndex' \in {[choiceIndex EXCEPT ![KeyPred(key)] = 0], choiceIndex}
    BY Zenon, <1>3 DEF RegisterLiteral
  <2>. QED  BY <1>1, <2>1
<1>4. CASE \E x \in ran : Propagate(x)
  <2>1. \E S : choiceIndex' = [p \in Preds |-> IF p \in S THEN 0 ELSE choiceIndex[p]]
    <3>1. PICK x \in ran : Propagate(x)
      BY <1>4
    <3> DEFINE keys == {e.key : e \in {e \in enqueueVec : e.stm = x.stm}}
               S == {p \in Preds : \E key \in keys : KeyPred(key) = p}
    <3>2. choiceIndex' = [p \in Preds |->
             IF \E key \in keys : KeyPred(key) = p THEN 0 ELSE choiceIndex[p]]
      BY Zenon, <1>1, <3>1 DEF Propagate
    <3> HIDE DEF keys
    <3>3. choiceIndex' = [p \in Preds |-> IF p \in S THEN 0 ELSE choiceIndex[p]]
      BY <3>2
    <3>. QED  BY <3>3
  <2>. QED  BY <2>1
<1>5. CASE ~(\E s \in comp : Linearize(s)) /\ ~RegisterLiteral /\ ~\E x \in ran : Propagate(x)
  <2>1. choiceIndex' = choiceIndex
    BY Zenon, <1>5 DEF Next, vars, indexVars, BeginAddBackend, AddAtom, BeginPrepare, DefineFact,
         Prepared, StartComponent, EnqueueComponent, BeginIteration, RunInstantiator, TryInstance,
         Backjump, MatchNegative, Mismatch, ReportBody, ReportHead, ReportRule, EndIteration,
         EndComponent, NextCall, Return
  <2>. QED  BY <1>1, <2>1
<1>. QED  BY <1>2, <1>3, <1>4, <1>5

(* Every step defines symbols and makes symbols facts, and does no more to *)
(* the domains that statements could see.                                  *)
LEMMA AnyEffect ==
  ASSUME GInv, GInv', LInv, HInv, AInv, [Next]_vars
  PROVE  \E S, F : Effect(S, F)
<1>1. CASE ReportHead
  <2>1. PICK x \in running, w \in work : \E s \in HeadSyms(x.stm) : ReportsHead(x, w, s)
    BY <1>1, ReportHeadWork
  <2>. QED  BY <2>1 DEF ReportsHead
<1>2. CASE ReportRule
  BY Zenon, <1>2, ReportRuleWork DEF ReportsRule
<1>3. CASE \E s \in todo : AddAtom(s) \/ DefineFact(s)
  BY <1>3, DefiningEffects
<1>4. CASE ~ReportHead /\ ~ReportRule /\ ~\E s \in todo : AddAtom(s) \/ DefineFact(s)
  <2>1. Effect({}, {})
    BY Zenon, <1>4, NoEffect DEF Next
  <2>. QED  BY <2>1
<1>. QED  BY <1>1, <1>2, <1>3, <1>4

LEMMA ChoiceInvStep ==
  ASSUME GInv, GInv', LInv, HInv, AInv, ChoiceInv, [Next]_vars
  PROVE  ChoiceInv'
<1>1. \A p \in Preds : Offsets(dom[p]) \subseteq Offsets(dom'[p])
  BY AnyEffect DEF Effect, KeepsOffsets
<1>2. ASSUME NEW p \in Preds PROVE choiceIndex'[p] \in {0} \union Offsets(dom'[p])
  <2>1. choiceIndex[p] \in {0} \union Offsets(dom[p])
    BY DEF ChoiceInv
  <2>2. ChoiceIndexAfter(p) \in {0} \union Offsets(dom[p])
    BY ChoiceSearch
  <2>. QED  BY <1>1, <2>1, <2>2, ChoiceIndexSteps
<1>. QED  BY <1>2, ChoiceIndexSteps DEF ChoiceInv

LEMMA InitChoiceInv == Init => ChoiceInv
BY DEF Init, ChoiceInv

(* The state of the grounder is well-typed: instantiators belong to the    *)
(* component, at most one of them runs, with at most one instance, and the *)
(* search for choices stays inside of the domain.                          *)
THEOREM GrounderTypeOK == Spec => []TypeOK
<1> DEFINE I == GInv /\ LInv /\ HInv /\ NInv /\ AInv /\ ChoiceInv
<1>1. Init => I
  BY InitGInv, InitLInv, InitHInv, InitNInv, InitAInv, InitChoiceInv
<1>2. I /\ [Next]_vars => I'
  BY GInvStep, LInvStep, HInvStep, NInvStep, AInvStep, ChoiceInvStep
<1>3. I => TypeOK
  <2> SUFFICES ASSUME I PROVE TypeOK
    OBVIOUS
  <2>1. /\ program \in DOMAIN Programs
        /\ step \in DOMAIN Programs[program]
        /\ pc \in {"call", "backend", "prepare", "ground", "linearize", "process", "iterate", "done"}
        /\ done \union comp \subseteq Part.stms
        /\ Linearized \subseteq comp
        /\ pc \in {"process", "iterate"} => Linearized = comp
        /\ queued \union current \union running \union ran \subseteq insts
    BY DEF GInv, CallInv, PhaseInv, QueueInv, LInv, Linearized
  <2>2. ASSUME NEW p \in Preds
        PROVE  /\ dom[p].enqueued \in 0..2
               /\ choiceIndex[p] \in 0..Len(dom[p].atoms)
               /\ \A o \in Offsets(dom[p]) : PredOf(dom[p].atoms[o].sym) = p
    <3>1. DomainOK(p, dom[p])
      BY DEF GInv, DomInv
    <3>2. dom[p].enqueued \in 0..2 /\ Len(dom[p].atoms) \in Nat
      BY <3>1, DomainParts DEF DomainOK
    <3>3. choiceIndex[p] \in {0} \union Offsets(dom[p])
      BY DEF ChoiceInv
    <3>4. choiceIndex[p] \in 0..Len(dom[p].atoms)
      BY <3>2, <3>3 DEF Offsets
    <3>. QED  BY <3>1, <3>2, <3>4 DEF DomainOK
  <2>3. ASSUME NEW S, \A x, y \in S : x = y PROVE Cardinality(S) <= 1
    <3>1. CASE S = {}
      BY <3>1, FS_EmptySet
    <3>2. CASE S # {}
      <4>1. PICK x \in S : S = {x}
        BY <2>3, <3>2
      <4>2. Cardinality({x}) = 1
        BY FS_Singleton
      <4>. QED  BY <4>1, <4>2
    <3>. QED  BY <3>1, <3>2
  <2>4. Cardinality(running) <= 1 /\ Cardinality(work) <= 1
    BY <2>3 DEF GInv, QueueInv, AInv, SingleWork
  <2>. QED  BY <2>1, <2>2, <2>4 DEF TypeOK
<1>. QED  BY <1>1, <1>2, <1>3, PTL DEF Spec

(* Atoms stay where they are. *)
LEMMA FindStays ==
  ASSUME GInv, GInv', NEW S, NEW F, Effect(S, F), NEW s \in UsedSyms, Has(s)
  PROVE  /\ Find(dom'[PredOf(s)], s) = Find(dom[PredOf(s)], s)
         /\ Find(dom[PredOf(s)], s) \in Offsets(dom[PredOf(s)])
<1> DEFINE d == dom[PredOf(s)]
           e == dom'[PredOf(s)]
<1>1. Contains(d, s) /\ PredOf(s) \in Preds
  BY SymPred DEF Has
<1>2. KeepsOffsets(d, e) /\ Distinct(e)
  BY <1>1 DEF Effect, GInv, DomInv, DomainOK
<1> HIDE DEF d, e
<1>3. Find(d, s) \in Offsets(d) /\ d.atoms[Find(d, s)].sym = s
  BY <1>1, FindContained
<1>4. Find(d, s) \in Offsets(e) /\ e.atoms[Find(d, s)].sym = s
  BY <1>2, <1>3 DEF KeepsOffsets
<1>5. Find(e, s) \in Offsets(e) /\ e.atoms[Find(e, s)].sym = s
  BY <1>4, FindContained DEF Contains
<1>. QED  BY <1>2, <1>3, <1>4, <1>5 DEF Distinct, d, e

(* A choice that the backend gave stays in sight until it is a fact. *)
GivenStays ==
  \A s \in UsedSyms : IsDefinedSym(s) /\ ~IsFactSym(s) /\ s \in Given /\ NotPassed(s) =>
    s \in Given' /\ NotPassed(s)'

LEMMA SameProgram ==
  ASSUME [Next]_vars
  PROVE  program' = program
BY Zenon DEF Next, vars, callVars, BeginAddBackend, AddAtom, BeginPrepare, DefineFact, Prepared,
   StartComponent, Linearize, RegisterLiteral, EnqueueComponent, BeginIteration, RunInstantiator,
   TryInstance, Backjump, MatchNegative, Mismatch, ReportBody, ReportHead, ReportRule, Propagate,
   EndIteration, EndComponent, NextCall, Return

LEMMA SameGiven ==
  ASSUME GInv, [Next]_vars
  PROVE  Given \subseteq Given' /\ program' = program
<1>1. program' = program
  BY SameProgram
<1>2. step' \in {step, step + 1}
  BY Zenon DEF Next, vars, callVars, BeginAddBackend, AddAtom, BeginPrepare, DefineFact, Prepared,
     StartComponent, Linearize, RegisterLiteral, EnqueueComponent, BeginIteration, RunInstantiator,
     TryInstance, Backjump, MatchNegative, Mismatch, ReportBody, ReportHead, ReportRule, Propagate,
     EndIteration, EndComponent, NextCall, Return
<1>3. step \in Nat
  <2>1. Programs[program] \in Seq({Programs[program][n] : n \in DOMAIN Programs[program]})
    BY ProgramsAssumption DEF GInv, CallInv
  <2>. QED  BY <2>1 DEF GInv, CallInv
<1>4. 1..step \subseteq 1..step'
  BY <1>2, <1>3
<1>. QED  BY <1>1, <1>4 DEF Given

LEMMA ChoicesStay ==
  ASSUME GInv, GInv', LInv, HInv, AInv, ChoiceInv, [Next]_vars
  PROVE  GivenStays
<1> SUFFICES ASSUME NEW s \in UsedSyms, IsDefinedSym(s), ~IsFactSym(s), s \in Given, NotPassed(s)
             PROVE  s \in Given' /\ NotPassed(s)'
  BY DEF GivenStays
<1> DEFINE p == PredOf(s)
           o == Find(dom[p], s)
<1>1. s \in Given'
  BY SameGiven
<1>2. Find(dom'[p], s) = o /\ o \in Offsets(dom[p])
  BY AnyEffect, FindStays DEF IsDefinedSym
<1>3. p \in Preds /\ o > choiceIndex[p] /\ dom[p].atoms[o].gen > 0 /\ ~dom[p].atoms[o].fact
  BY SymPred DEF NotPassed, IsDefinedSym, IsFactSym, AtomOf
<1>4. o \in Choices(p)
  BY <1>2, <1>3 DEF Choices, IsDefined
<1>5. o > 0
  BY <1>2 DEF Offsets
<1> HIDE DEF p, o
<1>6. o > ChoiceIndexAfter(p)
  BY <1>3, <1>4, ChoiceSearch
<1>7. o > choiceIndex'[p]
  BY <1>3, <1>5, <1>6, ChoiceIndexSteps
<1>. QED  BY <1>1, <1>2, <1>7 DEF NotPassed, p, o

-----------------------------------------------------------------------------
(* Facts *)

(* A literal that is true for good. *)
Safe(stm, k, s) ==
  IF Statements[stm].naf[k] = "not" THEN s \in closed /\ ~IsRecursive(stm, k) ELSE IsFactSym(s)

(* What is defined and no fact is derived by a statement that is not       *)
(* positive or is a choice that hasChoice has still to see, or it is about *)
(* to become a fact.                                                       *)
MayBeOpen(s) ==
  \/ s \in nheads
  \/ s \in Given /\ NotPassed(s)
  \/ \E t \in done \union comp : ~deps[t].positive /\ s \in HeadSyms(t)
  \/ \E w \in work : w.stage = "head" /\ \E n \in DOMAIN w.heads : w.heads[n] = s

FactInv == \A s \in UsedSyms : IsDefinedSym(s) /\ ~IsFactSym(s) => MayBeOpen(s)

FactWork == \A x \in running, w \in work : deps[x.stm].positive /\ w.stage = "head" => w.fact

(* What is not important for a statement that is not positive has only     *)
(* facts.                                                                  *)
UnimportantInv ==
  \A x \in insts : ~deps[x.stm].positive =>
    \A k \in Body(x.stm) \ x.important : \A s \in LitSyms(x.stm, k) :
      IsDefinedSym(s) => IsFactSym(s)

(* The literals of the instance that is matched. *)
ProbesOK(x, i, ps) ==
  /\ \A k \in Positive(x.stm) : IsDefinedSym(BodySym(x.stm, i, k))
  /\ \A k \in Negative(x.stm) \ ps : k \notin x.important => Safe(x.stm, k, BodySym(x.stm, i, k))

ProbeInv ==
  \A x \in running, w \in work :
    w.stage = "match" /\ w.complete => ProbesOK(x, w.inst, w.probes)

(* Those of the instances that were reported. *)
SeenOK(x, j) ==
  /\ <<x.stm, j>> \in matched /\ j \in Instances(x.stm)
  /\ \A k \in Body(x.stm) \ x.important : Safe(x.stm, k, BodySym(x.stm, j, k))

SeenInv == \A x \in running, j \in seen : SeenOK(x, j)

BInv == ChoiceInv /\ FactInv /\ UnimportantInv /\ FactWork /\ ProbeInv /\ SeenInv

(* What is provided by positive statements of other components is not      *)
(* recursive, ...                                                          *)
LEMMA StratifiedLiteral ==
  ASSUME GInv, StratInv, NEW stm \in comp, NEW k \in Body(stm),
         IsPositivelyStratified(stm, k) \/ (deps[stm].positive /\ k \in Negative(stm))
  PROVE  ~IsRecursive(stm, k)
<1>1. stm \in Part.stms /\ deps = Analyze(Part.stms)
  BY DEF GInv, CallInv, PhaseInv
<1>2. deps[stm].scc = NegSCC(Part.stms, stm) /\ deps[stm].positive = IsPositive(Part.stms, stm)
  BY <1>1, AnalysisOf
<1>3. ASSUME NEW t \in DefinedBy(Part.stms \ done, stm, k) PROVE FALSE
  <2>1. t \in DefinedBy(Part.stms, stm, k) /\ t \notin done
    BY DEF DefinedBy
  <2>2. t \in deps[stm].scc
    BY <2>1, DependsOf DEF StratInv
  <2>3. CASE IsPositivelyStratified(stm, k)
    BY <2>1, <2>2, <2>3 DEF IsPositivelyStratified
  <2>4. CASE deps[stm].positive /\ k \in Negative(stm)
    <3>1. DefinedBy(NegSCC(Part.stms, stm), stm, k) = {}
      BY Zenon, <1>1, <1>2, <2>4, PositiveStatement
    <3>. QED  BY <1>2, <2>1, <2>2, <3>1 DEF DefinedBy
  <2>. QED  BY <2>3, <2>4
<1>. QED  BY <1>3 DEF IsRecursive

(* ... and a fact when it is defined and no choice. *)
LEMMA StratifiedFact ==
  ASSUME GInv, FactInv, \A w \in work : w.stage # "head",
         NEW stm \in comp, NEW k \in Body(stm),
         IsPositivelyStratified(stm, k) \/ deps[stm].positive,
         NEW s \in LitSyms(stm, k), IsDefinedSym(s), ~(s \in Given /\ NotPassed(s))
  PROVE  IsFactSym(s)
<1>1. stm \in Part.stms /\ deps = Analyze(Part.stms) /\ done \union comp \subseteq Part.stms
  BY DEF GInv, CallInv, PhaseInv
<1>2. deps[stm].positive = IsPositive(Part.stms, stm)
  BY <1>1, AnalysisOf
<1>3. s \in UsedSyms
  BY <1>1, StatementSyms DEF GInv
<1>4. SUFFICES ASSUME MayBeOpen(s) PROVE FALSE
  BY <1>3 DEF FactInv
<1>5. s \notin nheads
  BY <1>1, <1>2, PositiveStatement DEF IsPositivelyStratified
<1>6. ASSUME NEW t \in done \union comp, ~deps[t].positive, s \in HeadSyms(t) PROVE FALSE
  <2>1. t \in Part.stms /\ t \in DOMAIN Statements /\ stm \in DOMAIN Statements
    BY <1>1, StatementSyms DEF GInv
  <2>2. t \in DefinedBy(Part.stms, stm, k)
    BY <1>6, <2>1, Tables DEF DefinedBy
  <2>3. CASE IsPositivelyStratified(stm, k)
    BY <1>6, <2>2, <2>3 DEF IsPositivelyStratified
  <2>4. CASE deps[stm].positive
    <3>1. IsPositive(Part.stms, t)
      BY Zenon, <1>1, <1>2, <2>2, <2>4, DependsOf, PositiveProviders
    <3>. QED  BY <1>1, <1>6, <2>1, <3>1, AnalysisOf
  <2>. QED  BY <2>3, <2>4
<1>. QED  BY <1>4, <1>5, <1>6 DEF MayBeOpen

(* What is true for good stays it. *)
LEMMA SafeStays ==
  ASSUME NEW S, NEW F, Effect(S, F), UNCHANGED <<program, step, done>>, closed \subseteq closed',
         NEW stm, NEW k, NEW s \in UsedSyms, Safe(stm, k, s)
  PROVE  Safe(stm, k, s)'
<1>1. IsRecursive(stm, k)' = IsRecursive(stm, k)
  BY SameRecursion
<1>2. IsFactSym(s) => IsFactSym(s)'
  BY DEF Effect
<1>. QED  BY <1>1, <1>2 DEF Safe

LEMMA FactFrame ==
  ASSUME FactInv, NEW S, NEW F, Effect(S, F),
         \A s \in UsedSyms : s \in S => MayBeOpen(s)' \/ s \in F \/ IsFactSym(s),
         \A s \in UsedSyms : MayBeOpen(s) /\ IsDefinedSym(s) /\ ~IsFactSym(s) =>
            MayBeOpen(s)' \/ s \in F
  PROVE  FactInv'
<1>1. ASSUME NEW s \in UsedSyms, IsDefinedSym(s)', ~IsFactSym(s)' PROVE MayBeOpen(s)'
  <2>1. (IsDefinedSym(s) \/ s \in S) /\ ~IsFactSym(s) /\ s \notin F
    BY <1>1 DEF Effect
  <2>. QED  BY <2>1 DEF FactInv
<1>. QED  BY <1>1 DEF FactInv

(* Steps that leave the statements alone and no head half reported. *)
LEMMA FactQuiet ==
  ASSUME FactInv, Effect({}, {}), GivenStays, nheads \subseteq nheads',
         \A t \in done \union comp :
            ~deps[t].positive => t \in done' \union comp' /\ deps'[t] = deps[t],
         \A w \in work : w.stage = "head" => w \in work'
  PROVE  FactInv'
<1>1. ASSUME NEW s \in UsedSyms, MayBeOpen(s), IsDefinedSym(s), ~IsFactSym(s)
      PROVE  MayBeOpen(s)'
  <2>1. CASE s \in nheads \/ (s \in Given /\ NotPassed(s))
    BY <1>1, <2>1 DEF MayBeOpen, GivenStays
  <2>2. CASE \E t \in done \union comp : ~deps[t].positive /\ s \in HeadSyms(t)
    BY <2>2 DEF MayBeOpen
  <2>3. CASE \E w \in work : w.stage = "head" /\ \E n \in DOMAIN w.heads : w.heads[n] = s
    BY <2>3 DEF MayBeOpen
  <2>. QED  BY <1>1, <2>1, <2>2, <2>3 DEF MayBeOpen
<1>. QED  BY <1>1, FactFrame

LEMMA FactQuietSteps ==
  ASSUME GInv, GInv', LInv, HInv, AInv, FactInv, GivenStays,
         \/ UNCHANGED vars
         \/ BeginAddBackend \/ Prepared
         \/ \E s \in comp : Linearize(s)
         \/ RegisterLiteral \/ EnqueueComponent
         \/ BeginIteration
         \/ \E x \in current : RunInstantiator(x)
         \/ \E i \in left : TryInstance(i) \/ Backjump(i)
         \/ MatchNegative \/ Mismatch
         \/ ReportBody
         \/ \E x \in ran : Propagate(x)
         \/ EndIteration \/ Return
  PROVE  FactInv'
<1>1. Effect({}, {})
  BY NoEffect
<1>2. UNCHANGED <<program, nheads, deps, done, comp>>
  BY Zenon DEF vars, callVars, compVars, BeginAddBackend, Prepared, Linearize, RegisterLiteral,
       EnqueueComponent, BeginIteration, RunInstantiator, TryInstance, Backjump, MatchNegative,
       Mismatch, ReportBody, Propagate, EndIteration, Return
<1>3. \A w \in work : w.stage = "head" => w \in work'
  <2>1. CASE MatchNegative
    <3>1. PICK x \in running, w \in work : \E k \in w.probes : LooksUp(x, w, k)
      BY <2>1, MatchNegativeWork
    <3>2. w.stage = "match"
      BY <3>1 DEF LooksUp
    <3>. QED  BY <3>2 DEF AInv, SingleWork
  <2>2. CASE ReportBody
    <3>1. PICK x \in running, w \in work : ReportsBody(x, w)
      BY <2>2, ReportBodyWork
    <3>2. w.stage = "match"
      BY <3>1 DEF ReportsBody
    <3>. QED  BY <3>2 DEF AInv, SingleWork
  <2>3. CASE Mismatch
    <3>1. PICK w \in work : w.stage = "match"
      BY <2>3 DEF Mismatch
    <3>. QED  BY <3>1 DEF AInv, SingleWork
  <2>4. CASE ~MatchNegative /\ ~ReportBody /\ ~Mismatch
    <3>1. work' = work \/ work = {}
      BY Zenon, <2>4 DEF vars, instVars, BeginAddBackend, Prepared, Linearize, RegisterLiteral,
           EnqueueComponent, BeginIteration, RunInstantiator, TryInstance, Backjump,
           Propagate, EndIteration, Return
    <3>. QED  BY <3>1
  <2>. QED  BY <2>1, <2>2, <2>3, <2>4
<1>. QED  BY <1>1, <1>2, <1>3, FactQuiet

(* A choice that is added is in sight. *)
LEMMA AddedChoice ==
  ASSUME GInv, GInv', AInv, ChoiceInv, ChoicesSeen, NEW s \in todo, AddAtom(s), Effect({s}, {}),
         s \in UsedSyms, ~IsDefinedSym(s)
  PROVE  s \in Given' /\ NotPassed(s)'
<1> DEFINE p == PredOf(s)
<1>1. /\ pc = "backend" /\ UNCHANGED <<program, step, choiceIndex>>
  BY DEF AddAtom, indexVars
<1>2. s \in Given'
  <2>1. s \in Programs[program][step].choices
    BY <1>1 DEF AInv, TodoInv, Part
  <2>2. step \in 1..step
    <3>1. Programs[program] \in Seq({Programs[program][n] : n \in DOMAIN Programs[program]})
      BY ProgramsAssumption DEF GInv, CallInv
    <3>. QED  BY <3>1 DEF GInv, CallInv
  <2>3. s \in Given
    BY <2>1, <2>2 DEF Given
  <2>. QED  BY <1>1, <2>3 DEF Given
<1>3. p \in Preds /\ choiceIndex[p] \in {0} \union Offsets(dom[p]) /\ choiceIndex' = choiceIndex
  BY <1>1, SymPred DEF ChoiceInv
<1>4. CASE Has(s)
  <2>1. Find(dom[p], s) > choiceIndex[p]
    BY <1>1, <1>4 DEF ChoicesSeen, NotPassed
  <2>. QED  BY <1>2, <1>3, <1>4, <2>1, FindStays DEF NotPassed
<1>5. CASE ~Has(s)
  <2> DEFINE d == dom[p]
             e == dom'[p]
             o == Find(e, s)
  <2>1. ~Contains(d, s) /\ Contains(e, s)
    BY <1>5 DEF Effect, IsDefinedSym, Has
  <2>2. KeepsOffsets(d, e)
    BY <1>3 DEF Effect
  <2>3. Len(d.atoms) \in Nat /\ Len(e.atoms) \in Nat
    BY <1>3, DomainParts DEF GInv, DomInv, DomainOK
  <2>4. choiceIndex'[p] \in {0} \union Offsets(d)
    BY <1>3
  <2> HIDE DEF d, e
  <2>5. o \in Offsets(e) /\ e.atoms[o].sym = s
    BY <2>1, FindContained
  <2>6. o \notin Offsets(d)
    BY <2>1, <2>2, <2>5 DEF KeepsOffsets, Contains
  <2> HIDE DEF o
  <2>7. o > choiceIndex'[p]
    BY <2>3, <2>4, <2>5, <2>6 DEF Offsets
  <2>. QED  BY <1>2, <2>7 DEF NotPassed, o, e
<1>. QED  BY <1>4, <1>5

LEMMA FactCallSteps ==
  ASSUME GInv, GInv', LInv, HInv, AInv, ChoiceInv, FactInv, ChoicesSeen, GivenStays,
         \/ BeginPrepare
         \/ \E c \in {deps[s].comp : s \in DOMAIN deps} : StartComponent(c)
         \/ EndComponent \/ NextCall
         \/ \E s \in todo : AddAtom(s) \/ DefineFact(s)
  PROVE  FactInv'
<1>1. CASE BeginPrepare
  <2>1. pc \in {"call", "backend"} /\ UNCHANGED <<program, nheads, work>>
    BY <1>1 DEF BeginPrepare, instVars
  <2>2. done = {} /\ comp = {}
    BY <2>1 DEF GInv, PhaseInv
  <2>3. Effect({}, {})
    BY <1>1, NoEffect
  <2>. QED  BY <2>1, <2>2, <2>3, FactQuiet
<1>2. ASSUME NEW c \in {deps[s].comp : s \in DOMAIN deps}, StartComponent(c) PROVE FactInv'
  <2>1. pc = "ground" /\ UNCHANGED <<program, nheads, deps, done, work>>
    BY <1>2 DEF StartComponent, callVars, instVars
  <2>2. comp = {}
    BY <2>1 DEF GInv, PhaseInv
  <2>3. Effect({}, {})
    BY <1>2, NoEffect
  <2>. QED  BY <2>1, <2>2, <2>3, FactQuiet
<1>3. CASE EndComponent
  <2>1. done' = done \union comp /\ UNCHANGED <<program, nheads, deps, work>>
    BY <1>3 DEF EndComponent, callVars, instVars
  <2>2. Effect({}, {})
    BY <1>3, NoEffect
  <2>. QED  BY <2>1, <2>2, FactQuiet
<1>4. CASE NextCall
  <2>1. /\ pc = "ground" /\ UNCHANGED <<program, deps, work>>
        /\ nheads' = nheads \union UNION {HeadSyms(s) : s \in {s \in done : ~deps[s].positive}}
    BY <1>4 DEF NextCall, instVars
  <2>2. comp = {}
    BY <2>1 DEF GInv, PhaseInv
  <2>3. Effect({}, {})
    BY <1>4, NoEffect
  <2>4. \A s : (\E t \in done \union comp : ~deps[t].positive /\ s \in HeadSyms(t)) => s \in nheads'
    BY <2>1, <2>2
  <2>5. ASSUME NEW s \in UsedSyms, MayBeOpen(s), IsDefinedSym(s), ~IsFactSym(s)
        PROVE  MayBeOpen(s)'
    BY <2>1, <2>4, <2>5 DEF MayBeOpen, GivenStays
  <2>. QED  BY <2>3, <2>5, FactFrame
<1>5. ASSUME NEW s \in todo, AddAtom(s) \/ DefineFact(s) PROVE FactInv'
  <2>1. UNCHANGED <<program, nheads, deps, done, comp, work>>
    BY <1>5 DEF AddAtom, DefineFact, compVars, instVars
  <2>2. \A q \in UsedSyms : MayBeOpen(q) /\ IsDefinedSym(q) /\ ~IsFactSym(q) => MayBeOpen(q)'
    BY <2>1 DEF MayBeOpen, GivenStays
  <2>3. CASE AddAtom(s)
    <3>1. Effect({s}, {})
      BY <2>3, DefiningEffects
    <3>2. s \in UsedSyms => MayBeOpen(s)' \/ IsFactSym(s)
      BY <2>2, <2>3, <3>1, AddedChoice DEF FactInv, MayBeOpen
    <3>. QED  BY <2>2, <3>1, <3>2, FactFrame
  <2>4. CASE DefineFact(s)
    <3>1. Effect({s}, {s})
      BY <2>4, DefiningEffects
    <3>. QED  BY <2>2, <3>1, FactFrame
  <2>. QED  BY <1>5, <2>3, <2>4
<1>. QED  BY <1>1, <1>2, <1>3, <1>4, <1>5

(* A positive statement has one head, and it is to become a fact. *)
LEMMA PositiveRule ==
  ASSUME GInv, NEW stm \in comp, deps[stm].positive
  PROVE  /\ Statements[stm].kind = "rule"
         /\ \A i \in Instances(stm) : Len(Heads(stm, i)) = 1
<1>1. stm \in Part.stms /\ deps = Analyze(Part.stms)
  BY DEF GInv, CallInv, PhaseInv
<1>2. IsPositive(Part.stms, stm)
  BY <1>1, AnalysisOf
<1>. QED  BY <1>1, <1>2, PositiveStatement DEF IsNormal

LEMMA FactReportSteps ==
  ASSUME GInv, GInv', LInv, HInv, AInv, FactInv, FactWork, GivenStays, ReportHead \/ ReportRule
  PROVE  FactInv'
<1>1. UNCHANGED <<program, nheads, deps, done, comp>>
  BY Zenon DEF ReportHead, ReportRule, callVars, compVars
<1>2. /\ \A x \in running : x.stm \in comp
      /\ \A x \in running, w \in work : w.inst \in Instances(x.stm) /\ w.heads \in Seq(HeadSyms(x.stm))
                                        /\ w.defs \in Seq(HeadSyms(x.stm))
      /\ \A v, w \in work : v = w
  BY DEF GInv, QueueInv, WorkInv, AInv, SingleWork
<1>3. \A s \in UsedSyms : MayBeOpen(s) /\ IsDefinedSym(s) /\ ~IsFactSym(s) =>
        \/ MayBeOpen(s)'
        \/ \E w \in work : w.stage = "head" /\ \E n \in DOMAIN w.heads : w.heads[n] = s
  BY <1>1 DEF MayBeOpen, GivenStays
<1>4. ASSUME NEW x \in running, ~deps[x.stm].positive, NEW s \in HeadSyms(x.stm) PROVE MayBeOpen(s)'
  BY <1>1, <1>2, <1>4 DEF MayBeOpen
<1>5. CASE ReportHead
  <2>1. PICK x \in running, w \in work : \E s \in HeadSyms(x.stm) : ReportsHead(x, w, s)
    BY <1>5, ReportHeadWork
  <2>2. PICK s \in HeadSyms(x.stm) : ReportsHead(x, w, s)
    BY <2>1
  <2>3. /\ w.stage = "head" /\ Len(w.defs) < Len(Heads(x.stm, w.inst))
        /\ Effect({s}, {})
        /\ \A v \in work' :
             /\ v.stage = "head"
             /\ v.heads = IF IsFactSym(s) THEN w.heads ELSE Append(w.heads, s)
        /\ work' # {} <=> ~IsFactSym(s) \/ Statements[x.stm].kind = "choice"
    BY <2>2 DEF ReportsHead
  <2>4. w.heads \in Seq(HeadSyms(x.stm))
    BY <1>2
  <2>5. ASSUME NEW v \in work'
        PROVE  /\ \A n \in DOMAIN w.heads : n \in DOMAIN v.heads /\ v.heads[n] = w.heads[n]
               /\ ~IsFactSym(s) => \E n \in DOMAIN v.heads : v.heads[n] = s
    <3>1. /\ \A n \in DOMAIN w.heads : n \in DOMAIN Append(w.heads, s) /\ Append(w.heads, s)[n] = w.heads[n]
          /\ Len(w.heads) + 1 \in DOMAIN Append(w.heads, s) /\ Append(w.heads, s)[Len(w.heads) + 1] = s
      BY <2>4
    <3>. QED  BY Zenon, <2>3, <3>1
  <2>6. \A q \in UsedSyms : q \in {s} => MayBeOpen(q)' \/ q \in {} \/ IsFactSym(q)
    <3>1. CASE ~IsFactSym(s)
      BY <2>3, <2>5, <3>1 DEF MayBeOpen
    <3>. QED  BY <3>1
  <2>7. ASSUME NEW q \in UsedSyms, MayBeOpen(q), IsDefinedSym(q), ~IsFactSym(q)
        PROVE  MayBeOpen(q)' \/ q \in {}
    <3>1. SUFFICES ASSUME NEW n \in DOMAIN w.heads, w.heads[n] = q PROVE MayBeOpen(q)'
      BY <1>2, <1>3, <2>7
    <3>2. CASE work' # {}
      BY <2>3, <2>5, <3>1, <3>2 DEF MayBeOpen
    <3>3. CASE work' = {}
      <4>1. CASE deps[x.stm].positive
        <5>1. Statements[x.stm].kind = "rule" /\ Len(Heads(x.stm, w.inst)) = 1
          BY <1>2, <4>1, PositiveRule
        <5>2. Len(w.defs) \in Nat /\ w.defs \in Seq(HeadSyms(x.stm))
          BY <1>2
        <5>3. w.defs = <<>>
          BY <2>3, <5>1, <5>2
        <5>4. w.heads = w.defs
          BY <5>1 DEF AInv, HeadsInv
        <5>. QED  BY <3>1, <5>3, <5>4
      <4>2. CASE ~deps[x.stm].positive
        BY <1>4, <2>4, <3>1, <4>2
      <4>. QED  BY <4>1, <4>2
    <3>. QED  BY <3>2, <3>3
  <2>. QED  BY <2>3, <2>6, <2>7, FactFrame
<1>6. CASE ReportRule
  <2>1. PICK x \in running, w \in work : ReportsRule(x, w)
    BY <1>6, ReportRuleWork
  <2> DEFINE isFact == Statements[x.stm].kind # "choice" /\ w.fact /\ Len(w.heads) = 1
             F == IF isFact THEN {w.heads[1]} ELSE {}
  <2>2. w.stage = "head" /\ Len(w.defs) = Len(Heads(x.stm, w.inst)) /\ Effect({}, F)
    BY <2>1 DEF ReportsRule
  <2>3. ASSUME NEW q \in UsedSyms, MayBeOpen(q), IsDefinedSym(q), ~IsFactSym(q)
        PROVE  MayBeOpen(q)' \/ q \in F
    <3>1. SUFFICES ASSUME NEW n \in DOMAIN w.heads, w.heads[n] = q PROVE MayBeOpen(q)' \/ q \in F
      BY <1>2, <1>3, <2>3
    <3>2. CASE deps[x.stm].positive
      <4>1. Statements[x.stm].kind = "rule" /\ Len(Heads(x.stm, w.inst)) = 1
        BY <1>2, <3>2, PositiveRule
      <4>2. w.heads = w.defs /\ w.fact
        BY <2>2, <3>2, <4>1 DEF AInv, HeadsInv, FactWork
      <4>3. Len(w.heads) = 1 /\ DOMAIN w.heads = 1..1
        BY <1>2, <2>2, <4>1, <4>2
      <4>4. isFact
        BY <4>1, <4>2, <4>3
      <4>5. n = 1
        BY <4>3
      <4>. QED  BY <3>1, <4>4, <4>5
    <3>3. CASE ~deps[x.stm].positive
      <4>1. w.heads \in Seq(HeadSyms(x.stm))
        BY <1>2
      <4>2. q \in HeadSyms(x.stm)
        BY <3>1, <4>1
      <4>. QED  BY <1>4, <3>3, <4>2
    <3>. QED  BY <3>2, <3>3
  <2> HIDE DEF F
  <2>. QED  BY <2>2, <2>3, FactFrame
<1>. QED  BY <1>5, <1>6

LEMMA MatchStays ==
  ASSUME GInv, NEW S, NEW F, Effect(S, F), UNCHANGED <<program, step, done>>,
         closed \subseteq closed', matched \subseteq matched', NEW x \in running
  PROVE  /\ \A i \in Instances(x.stm) : \A ps : ProbesOK(x, i, ps) => ProbesOK(x, i, ps)'
         /\ \A j : SeenOK(x, j) => SeenOK(x, j)'
<1>1. x.stm \in Part.stms
  BY DEF GInv, QueueInv, CallInv
<1>2. \A i \in Instances(x.stm), k \in Body(x.stm) : BodySym(x.stm, i, k) \in UsedSyms
  BY <1>1, StatementSyms DEF GInv
<1>3. ASSUME NEW i \in Instances(x.stm), NEW k \in Body(x.stm), Safe(x.stm, k, BodySym(x.stm, i, k))
      PROVE  Safe(x.stm, k, BodySym(x.stm, i, k))'
  BY <1>2, <1>3, SafeStays
<1>4. \A s \in UsedSyms : IsDefinedSym(s) => IsDefinedSym(s)'
  BY DEF Effect
<1>5. ASSUME NEW i \in Instances(x.stm), NEW ps, ProbesOK(x, i, ps) PROVE ProbesOK(x, i, ps)'
  <2>1. Positive(x.stm) \subseteq Body(x.stm) /\ Negative(x.stm) \subseteq Body(x.stm)
    BY DEF Positive, Negative
  <2>2. \A k \in Positive(x.stm) : IsDefinedSym(BodySym(x.stm, i, k))'
    BY <1>2, <1>4, <1>5, <2>1 DEF ProbesOK
  <2>3. \A k \in Negative(x.stm) \ ps : k \notin x.important => Safe(x.stm, k, BodySym(x.stm, i, k))'
    BY <1>3, <1>5, <2>1 DEF ProbesOK
  <2>. QED  BY <2>2, <2>3 DEF ProbesOK
<1>6. ASSUME NEW j, SeenOK(x, j) PROVE SeenOK(x, j)'
  BY <1>3, <1>6 DEF SeenOK
<1>. QED  BY <1>5, <1>6

LEMMA MatchFrame ==
  ASSUME GInv, FactWork, ProbeInv, SeenInv, NEW S, NEW F, Effect(S, F),
         UNCHANGED <<program, step, done, deps>>, closed \subseteq closed', matched \subseteq matched',
         running' \subseteq running, work' \subseteq work, seen' \subseteq seen
  PROVE  FactWork' /\ ProbeInv' /\ SeenInv'
<1>1. FactWork'
  BY DEF FactWork
<1>2. \A x \in running, w \in work : w.inst \in Instances(x.stm)
  BY DEF GInv, WorkInv
<1>3. ProbeInv'
  BY <1>2, MatchStays DEF ProbeInv
<1>4. SeenInv'
  BY MatchStays DEF SeenInv
<1>. QED  BY <1>1, <1>3, <1>4

LEMMA NoMatch ==
  ASSUME running' = {} \/ (work' = {} /\ seen' = {})
  PROVE  FactWork' /\ ProbeInv' /\ SeenInv'
BY DEF FactWork, ProbeInv, SeenInv

(* The steps that do not concern the instance that is matched. *)
LEMMA MatchQuietSteps ==
  ASSUME GInv, GInv', LInv, HInv, FactWork, ProbeInv, SeenInv, [Next]_vars,
         ~\E i \in left : TryInstance(i),
         ~MatchNegative, ~ReportBody, ~ReportHead
  PROVE  FactWork' /\ ProbeInv' /\ SeenInv'
<1>1. CASE \/ UNCHANGED vars
           \/ \E i \in left : Backjump(i)
           \/ Mismatch \/ ReportRule
  <2>1. \E S, F : Effect(S, F)
    <3>1. CASE ReportRule
      BY Zenon, <3>1, ReportRuleWork DEF ReportsRule
    <3>2. CASE ~ReportRule
      BY <1>1, <3>2, NoEffect
    <3>. QED  BY <3>1, <3>2
  <2>2. UNCHANGED <<program, step, done, deps, closed, matched, running, seen>>
    BY Zenon, <1>1 DEF vars, callVars, compVars, history, instVars, Backjump, Mismatch, ReportRule
  <2>3. work' = work \/ work' = {}
    BY Zenon, <1>1 DEF vars, instVars, Backjump, Mismatch, ReportRule
  <2>. QED  BY <2>1, <2>2, <2>3, MatchFrame
<1>2. CASE \E x \in current : RunInstantiator(x)
  BY <1>2, NoMatch DEF RunInstantiator
<1>3. CASE \E x \in ran : Propagate(x)
  BY <1>3, NoMatch DEF Propagate
<1>4. CASE \/ BeginAddBackend \/ BeginPrepare \/ Prepared
           \/ \E s \in todo : AddAtom(s) \/ DefineFact(s)
           \/ \E c \in {deps[s].comp : s \in DOMAIN deps} : StartComponent(c)
           \/ \E s \in comp : Linearize(s)
           \/ RegisterLiteral \/ EnqueueComponent
           \/ BeginIteration
           \/ EndIteration \/ EndComponent
           \/ NextCall \/ Return
  <2>1. /\ running' = running
        /\ pc # "iterate" \/ ran = {}
    BY Zenon, <1>4 DEF BeginAddBackend, BeginPrepare, Prepared, AddAtom, DefineFact, StartComponent,
         Linearize, RegisterLiteral, EnqueueComponent, BeginIteration, EndIteration, EndComponent,
         NextCall, Return, instVars
  <2>2. running = {}
    BY <2>1 DEF GInv, PhaseInv, QueueInv
  <2>. QED  BY <2>1, <2>2, NoMatch
<1>. QED  BY Zenon, <1>1, <1>2, <1>3, <1>4 DEF Next

(* What is important, and the literals of a positive statement. *)
LEMMA UnimportantLiteral ==
  ASSUME GInv, StmInv, NEW x \in running, NEW k \in Body(x.stm), k \notin x.important
  PROVE  /\ x.stm \in comp
         /\ deps[x.stm].positive \/ IsPositivelyStratified(x.stm, k)
         /\ k \in Negative(x.stm) => ~IsRecursive(x.stm, k)
<1>1. x \in insts /\ x.stm \in comp
  BY DEF GInv, QueueInv
<1>2. deps[x.stm].positive \/ IsPositivelyStratified(x.stm, k)
  BY <1>1 DEF StmInv, ImportantInv
<1>. QED  BY <1>1, <1>2, StratifiedLiteral DEF StmInv

(* What is defined for a literal that is not important is a fact. *)
LEMMA UnimportantFact ==
  ASSUME GInv, StmInv, ChoicesSeen, FactInv, UnimportantInv, \A w \in work : w.stage # "head",
         NEW x \in running, NEW k \in Body(x.stm), k \notin x.important,
         NEW s \in LitSyms(x.stm, k), IsDefinedSym(s)
  PROVE  IsFactSym(s)
<1>1. x \in insts /\ x.stm \in comp
  BY DEF GInv, QueueInv
<1>2. CASE deps[x.stm].positive
  <2>1. s \notin Given
    BY <1>1, <1>2 DEF ChoicesSeen
  <2>. QED  BY <1>1, <1>2, <2>1, StratifiedFact
<1>3. CASE ~deps[x.stm].positive
  BY <1>1, <1>3 DEF UnimportantInv
<1>. QED  BY <1>2, <1>3

LEMMA MatchNegativeProbes ==
  ASSUME GInv, GInv', LInv, HInv, AInv, ChoicesSeen, FactInv, UnimportantInv, FactWork, ProbeInv,
         SeenInv, MatchNegative
  PROVE  FactWork' /\ ProbeInv' /\ SeenInv'
<1>1. PICK x \in running, w \in work : \E k \in w.probes : LooksUp(x, w, k)
  BY MatchNegativeWork
<1>2. PICK k \in w.probes : LooksUp(x, w, k)
  BY <1>1
<1> DEFINE s == BodySym(x.stm, w.inst, k)
<1>3. /\ w.stage = "match" /\ k \in Negative(x.stm)
      /\ \A v \in work' :
           /\ v.inst = w.inst /\ v.stage = "match" /\ v.complete = w.complete
           /\ v.probes = w.probes \ {k}
      /\ work' # {} <=> IsFound(x, k, s)
      /\ closed \subseteq closed'
      /\ ~IsRecursive(x.stm, k) /\ ~IsDefinedSym(s) => s \in closed'
  BY <1>2 DEF LooksUp
<1>4. UNCHANGED <<program, step, done, deps, matched, running, seen>>
  BY DEF MatchNegative, callVars, compVars
<1>5. Effect({}, {})
  BY NoEffect
<1>6. /\ x.stm \in Part.stms /\ w.inst \in Instances(x.stm) /\ k \in Body(x.stm)
      /\ \A y \in running : y = x
      /\ \A v \in work : v = w
  BY <1>3 DEF GInv, QueueInv, CallInv, WorkInv, Negative, AInv, SingleWork
<1>7. FactWork'
  <2>1. "match" # "head"
    OBVIOUS
  <2>. QED  BY <1>3, <2>1 DEF FactWork
<1>8. SeenInv'
  BY <1>3, <1>4, <1>5, MatchStays DEF SeenInv
<1>9. ASSUME NEW v \in work', v.complete PROVE ProbesOK(x, v.inst, v.probes)'
  <2>1. w.complete /\ v.inst = w.inst /\ v.probes = w.probes \ {k} /\ IsFound(x, k, s)
    BY <1>3, <1>9
  <2>2. ProbesOK(x, w.inst, w.probes)'
    <3>1. ProbesOK(x, w.inst, w.probes)
      BY <1>3, <2>1 DEF ProbeInv
    <3>. QED  BY <1>3, <1>4, <1>5, <1>6, <3>1, MatchStays
  <2>3. ASSUME k \notin x.important PROVE Safe(x.stm, k, s)'
    <3>1. ~IsRecursive(x.stm, k)
      BY <1>3, <1>6, <2>3, UnimportantLiteral DEF AInv
    <3>2. s \in LitSyms(x.stm, k) /\ s \in UsedSyms
      BY <1>6, StatementSyms DEF GInv
    <3>3. IsDefinedSym(s) => IsFactSym(s)
      <4>1. "match" # "head"
        OBVIOUS
      <4>2. \A v2 \in work : v2.stage # "head"
        BY <1>3, <1>6, <4>1
      <4> HIDE DEF s
      <4>. QED  BY <1>6, <2>3, <3>2, <4>2, UnimportantFact DEF AInv
    <3>4. IsRecursive(x.stm, k)' = IsRecursive(x.stm, k)
      BY <1>4, SameRecursion
    <3>5. CASE Statements[x.stm].naf[k] = "not"
      <4>1. s \in closed'
        BY <1>3, <2>1, <3>1, <3>3, <3>5 DEF IsFound
      <4>. QED  BY <3>1, <3>4, <3>5, <4>1 DEF Safe
    <3>6. CASE Statements[x.stm].naf[k] # "not"
      <4>1. IsFactSym(s)
        BY <2>1, <3>1, <3>3, <3>6 DEF IsFound
      <4>2. IsFactSym(s)'
        BY <1>5, <3>2, <4>1 DEF Effect
      <4>. QED  BY <3>6, <4>2 DEF Safe
    <3>. QED  BY <3>5, <3>6
  <2>. QED  BY <2>1, <2>2, <2>3 DEF ProbesOK
<1>10. ProbeInv'
  BY <1>4, <1>6, <1>9 DEF ProbeInv
<1>. QED  BY <1>7, <1>8, <1>10

LEMMA TryInstanceProbes ==
  ASSUME GInv, GInv', LInv, HInv, NInv, SeenInv, NEW i \in left, TryInstance(i)
  PROVE  FactWork' /\ ProbeInv' /\ SeenInv'
<1>1. PICK x \in running : Tries(x, i)
  BY TryWork
<1>2. /\ \A v \in work' : /\ v.inst = i /\ v.stage = "match"
                          /\ v.complete <=> Fails(x, i) = {}
                          /\ v.probes = Probes(x, i)
  BY <1>1 DEF Tries
<1>3. UNCHANGED <<program, step, done, deps, closed, matched, running, seen>>
  BY DEF TryInstance, callVars, compVars, history
<1>4. Effect({}, {})
  BY NoEffect
<1>5. /\ x \in insts /\ x.stm \in Part.stms /\ i \in Instances(x.stm)
      /\ \A y \in running : y = x
  BY DEF GInv, QueueInv, CallInv, WorkInv
<1>6. agenda = {}
  <2>1. running # {} => pc = "iterate"
    BY DEF GInv, PhaseInv, QueueInv
  <2>2. pc # "linearize"
    BY <1>1, <2>1
  <2>. QED  BY <2>2 DEF LInv, RegInv
<1>7. FactWork'
  <2>1. "match" # "head"
    OBVIOUS
  <2>. QED  BY <1>2, <2>1 DEF FactWork
<1>8. SeenInv'
  BY <1>3, <1>4, MatchStays DEF SeenInv
<1>9. ASSUME Fails(x, i) = {} PROVE ProbesOK(x, i, Probes(x, i))
  <2>1. \A k \in Positive(x.stm) : Matches(x, k, BodySym(x.stm, i, k))
    BY <1>9 DEF Fails
  <2>2. \A k \in Positive(x.stm) : IsDefinedSym(BodySym(x.stm, i, k))
    BY <1>5, <1>6, <2>1, MatchesDefined
  <2>3. Probes(x, i) = Negative(x.stm)
    BY <1>9 DEF Probes
  <2>. QED  BY <2>2, <2>3 DEF ProbesOK
<1>10. ASSUME NEW v \in work', v.complete PROVE ProbesOK(x, v.inst, v.probes)'
  <2>1. ProbesOK(x, i, Probes(x, i)) /\ v.inst = i /\ v.probes = Probes(x, i)
    BY <1>2, <1>9, <1>10
  <2>2. \A ps : ProbesOK(x, i, ps) => ProbesOK(x, i, ps)'
    BY <1>3, <1>4, <1>5, MatchStays
  <2> DEFINE q == Probes(x, i)
  <2>3. \A ps : ProbesOK(x, i, ps)' <=>
          /\ \A k \in Positive(x.stm) : IsDefinedSym(BodySym(x.stm, i, k))'
          /\ \A k \in Negative(x.stm) \ ps : k \notin x.important => Safe(x.stm, k, BodySym(x.stm, i, k))'
    BY DEF ProbesOK
  <2> HIDE DEF q
  <2>4. /\ \A k \in Positive(x.stm) : IsDefinedSym(BodySym(x.stm, i, k))'
        /\ \A k \in Negative(x.stm) \ q : k \notin x.important => Safe(x.stm, k, BodySym(x.stm, i, k))'
    BY <2>1, <2>2, <2>3 DEF q
  <2>. QED  BY <2>1, <2>4 DEF ProbesOK, q
<1>11. ProbeInv'
  BY <1>3, <1>5, <1>10 DEF ProbeInv
<1>. QED  BY <1>7, <1>8, <1>11

(* A literal that is true for good is not output. *)
LEMMA SafeTrue ==
  ASSUME GInv, NEW stm, NEW k, NEW s \in UsedSyms, Safe(stm, k, s)
  PROVE  IsTrue(stm, k, s)
<1>1. CASE Statements[stm].naf[k] = "not"
  <2>1. s \in closed /\ ~IsRecursive(stm, k)
    BY <1>1 DEF Safe
  <2>2. ~IsDefinedSym(s)
    BY <2>1, UndefinedSym DEF GInv, ClosedInv
  <2>. QED  BY <1>1, <2>1, <2>2 DEF IsTrue, IsOutput
<1>2. CASE Statements[stm].naf[k] # "not"
  BY <1>2 DEF Safe, IsTrue
<1>. QED  BY <1>1, <1>2

LEMMA ReportBodyProbes ==
  ASSUME GInv, GInv', LInv, HInv, AInv, ChoicesSeen, FactInv, UnimportantInv, ProbeInv, SeenInv,
         ReportBody
  PROVE  FactWork' /\ ProbeInv' /\ SeenInv'
<1>1. PICK x \in running, w \in work : ReportsBody(x, w)
  BY ReportBodyWork
<1>2. /\ w.stage = "match" /\ w.probes = {} /\ w.complete
      /\ \A v \in work' :
           /\ v.inst = w.inst /\ v.stage = "head"
           /\ (\A k \in Body(x.stm) : IsTrue(x.stm, k, BodySym(x.stm, w.inst, k))) => v.fact
      /\ seen' = seen \union {w.inst}
      /\ matched' = matched \union {<<x.stm, w.inst>>}
  BY <1>1 DEF ReportsBody
<1>3. UNCHANGED <<program, step, done, deps, closed, running>>
  BY Zenon DEF ReportBody, callVars, compVars
<1>4. Effect({}, {})
  BY NoEffect
<1>5. /\ x \in insts /\ x.stm \in Part.stms /\ x.stm \in comp /\ w.inst \in Instances(x.stm)
      /\ \A y \in running : y = x
      /\ \A v \in work : v = w
  BY DEF GInv, QueueInv, CallInv, WorkInv, AInv, SingleWork
<1>6. \A v \in work : v.stage # "head"
  <2>1. "match" # "head"
    OBVIOUS
  <2>. QED  BY <1>2, <1>5, <2>1
<1>7. ASSUME NEW k \in Body(x.stm), k \notin x.important
      PROVE  Safe(x.stm, k, BodySym(x.stm, w.inst, k))
  <2> DEFINE s == BodySym(x.stm, w.inst, k)
  <2>1. ProbesOK(x, w.inst, {})
    BY Zenon, <1>2 DEF ProbeInv
  <2>2. s \in LitSyms(x.stm, k) /\ s \in UsedSyms
    BY <1>5, StatementSyms DEF GInv
  <2>3. CASE k \in Negative(x.stm)
    BY <1>7, <2>1, <2>3 DEF ProbesOK
  <2>4. CASE k \in Positive(x.stm)
    <3>1. IsDefinedSym(s)
      BY <2>1, <2>4 DEF ProbesOK
    <3> HIDE DEF s
    <3>2. IsFactSym(s)
      BY <1>6, <1>7, <2>2, <3>1, UnimportantFact DEF AInv
    <3>. QED  BY <2>4, <3>2 DEF Safe, Positive, s
  <2>. QED  BY <2>3, <2>4 DEF Negative
<1>8. FactWork'
  <2>1. ASSUME deps[x.stm].positive
        PROVE  \A k \in Body(x.stm) : IsTrue(x.stm, k, BodySym(x.stm, w.inst, k))
    <3>1. x.important = {}
      BY <1>5, <2>1 DEF AInv, StmInv, ImportantInv
    <3>2. \A k \in Body(x.stm) : BodySym(x.stm, w.inst, k) \in UsedSyms
      BY <1>5, StatementSyms DEF GInv
    <3>. QED  BY <1>7, <3>1, <3>2, SafeTrue
  <2>. QED  BY <1>2, <1>3, <1>5, <2>1 DEF FactWork
<1>9. ProbeInv'
  <2>1. "match" # "head"
    OBVIOUS
  <2>. QED  BY <1>2, <2>1 DEF ProbeInv
<1>10. matched \subseteq matched'
  BY <1>2
<1>11. SeenOK(x, w.inst)'
  <2>1. \A k \in Body(x.stm) \ x.important : Safe(x.stm, k, BodySym(x.stm, w.inst, k))'
    <3>1. \A k \in Body(x.stm) : BodySym(x.stm, w.inst, k) \in UsedSyms
      BY <1>5, StatementSyms DEF GInv
    <3>. QED  BY <1>3, <1>4, <1>7, <3>1, SafeStays
  <2>. QED  BY <1>2, <1>5, <2>1 DEF SeenOK
<1>12. \A j \in seen : SeenOK(x, j)'
  BY <1>3, <1>4, <1>10, MatchStays DEF SeenInv
<1>13. SeenInv'
  BY <1>2, <1>3, <1>5, <1>11, <1>12 DEF SeenInv
<1>. QED  BY <1>8, <1>9, <1>13

LEMMA ReportHeadProbes ==
  ASSUME GInv, GInv', LInv, HInv, AInv, FactWork, SeenInv, ReportHead
  PROVE  FactWork' /\ ProbeInv' /\ SeenInv'
<1>1. PICK x \in running, w \in work : \E s \in HeadSyms(x.stm) : ReportsHead(x, w, s)
  BY ReportHeadWork
<1>2. PICK s \in HeadSyms(x.stm) : ReportsHead(x, w, s)
  BY <1>1
<1>3. /\ w.stage = "head" /\ Effect({s}, {})
      /\ \A v \in work' : v.inst = w.inst /\ v.stage = "head" /\ v.fact = w.fact
  BY <1>2 DEF ReportsHead
<1>4. UNCHANGED <<program, step, done, deps, closed, matched, running, seen>>
  BY DEF ReportHead, callVars, compVars, history
<1>5. FactWork'
  BY <1>3, <1>4 DEF FactWork
<1>6. ProbeInv'
  <2>1. "match" # "head"
    OBVIOUS
  <2>. QED  BY <1>3, <2>1 DEF ProbeInv
<1>7. SeenInv'
  BY <1>3, <1>4, MatchStays DEF SeenInv
<1>. QED  BY <1>5, <1>6, <1>7

(* The literals that are not important are chosen when a statement is      *)
(* linearized, ...                                                         *)
LEMMA LinearizeUnimportant ==
  ASSUME GInv, GInv', LInv, HInv, FactInv, UnimportantInv, NEW stm \in comp, Linearize(stm)
  PROVE  UnimportantInv'
<1>1. PICK xs \in SUBSET Instantiators(stm) : insts' = insts \union xs
  BY DEF Linearize
<1>2. Effect({}, {}) /\ deps' = deps /\ pc = "linearize"
  BY NoEffect DEF Linearize
<1>3. work = {}
  <2>1. ran = {}
    BY <1>2 DEF GInv, PhaseInv
  <2>. QED  BY <2>1 DEF GInv, QueueInv
<1>4. stm \in Part.stms /\ stm \in DOMAIN Statements
  BY StatementSyms DEF GInv, CallInv
<1>5. ASSUME NEW k \in Body(stm), k \notin Important(stm), ~deps[stm].positive,
             NEW s \in LitSyms(stm, k), IsDefinedSym(s), ~IsFactSym(s)
      PROVE  FALSE
  <2>1. IsPositivelyStratified(stm, k) /\ Choices(LitPred(stm, k)) = {}
    BY <1>5 DEF Important, HasChoice
  <2>2. PredOf(s) = LitPred(stm, k) /\ s \in UsedSyms
    BY <1>4, LiteralPred, StatementSyms DEF GInv
  <2>3. ~NotPassed(s)
    <3> DEFINE p == PredOf(s)
               o == Find(dom[p], s)
    <3>1. Contains(dom[p], s) /\ dom[p].atoms[o].gen > 0 /\ ~dom[p].atoms[o].fact
      BY <1>5 DEF IsDefinedSym, IsFactSym, Has, AtomOf
    <3>2. o \in Offsets(dom[p])
      BY <3>1, FindContained
    <3>. QED  BY <2>1, <2>2, <3>1, <3>2 DEF Choices, IsDefined, NotPassed
  <2>4. IsFactSym(s)
    BY <1>3, <1>5, <2>1, <2>3, StratifiedFact
  <2>. QED  BY <1>5, <2>4
<1>6. ASSUME NEW x \in insts', ~deps[x.stm].positive, NEW k \in Body(x.stm) \ x.important,
             NEW s \in LitSyms(x.stm, k)
      PROVE  IsDefinedSym(s) => IsFactSym(s)
  <2>1. CASE x \in insts
    BY <1>6, <2>1 DEF UnimportantInv
  <2>2. CASE x \in xs
    <3>1. x.stm = stm /\ x.important = Important(stm)
      BY <2>2 DEF Instantiators
    <3>. QED  BY <1>5, <1>6, <3>1
  <2>. QED  BY <1>1, <2>1, <2>2
<1>7. \A x \in insts' : x.stm \in Part.stms
  BY <1>1, <1>4, InstantiatorStatement DEF GInv, QueueInv, CallInv
<1>8. \A x \in insts' : \A k \in Body(x.stm) : LitSyms(x.stm, k) \subseteq UsedSyms
  BY <1>7, StatementSyms DEF GInv
<1>. QED  BY <1>2, <1>6, <1>8 DEF UnimportantInv, Effect

(* ... and get no more symbols then: what provides for them is grounded.   *)
LEMMA UnimportantStep ==
  ASSUME GInv, GInv', LInv, HInv, AInv, FactInv, UnimportantInv, [Next]_vars
  PROVE  UnimportantInv'
<1>1. CASE \E stm \in comp : Linearize(stm)
  BY <1>1, LinearizeUnimportant
<1>2. ASSUME NEW S, NEW F, Effect(S, F), deps' = deps, insts' = insts,
             \A x \in insts : ~deps[x.stm].positive =>
               \A k \in Body(x.stm) \ x.important : LitSyms(x.stm, k) \intersect S = {}
      PROVE  UnimportantInv'
  <2>1. \A x \in insts : \A k \in Body(x.stm) : LitSyms(x.stm, k) \subseteq UsedSyms
    BY StatementSyms DEF GInv, QueueInv, CallInv
  <2>. QED  BY <1>2, <2>1 DEF UnimportantInv, Effect
<1>3. CASE ReportHead
  <2>1. PICK x \in running, w \in work : \E s \in HeadSyms(x.stm) : ReportsHead(x, w, s)
    BY <1>3, ReportHeadWork
  <2>2. PICK s \in HeadSyms(x.stm) : ReportsHead(x, w, s)
    BY <2>1
  <2>3. Effect({s}, {})
    BY <2>2 DEF ReportsHead
  <2>4. ASSUME NEW y \in insts, ~deps[y.stm].positive, NEW k \in Body(y.stm) \ y.important
        PROVE  s \notin LitSyms(y.stm, k)
    <3>1. x.stm \in comp /\ y.stm \in comp
      BY DEF GInv, QueueInv
    <3>2. x.stm \in Part.stms \ done /\ y.stm \in Part.stms
      BY <3>1 DEF GInv, CallInv
    <3>3. IsPositivelyStratified(y.stm, k)
      BY <2>4 DEF AInv, StmInv, ImportantInv
    <3>4. ~IsRecursive(y.stm, k)
      BY <3>1, <3>3, StratifiedLiteral DEF AInv, StmInv
    <3>. QED  BY <3>2, <3>4, NotRecursive DEF GInv
  <2>5. deps' = deps /\ insts' = insts
    BY <1>3 DEF ReportHead, compVars
  <2>. QED  BY <1>2, <2>3, <2>4, <2>5
<1>4. CASE insts' = {}
  BY <1>4 DEF UnimportantInv
<1>5. CASE ~ReportHead /\ insts' # {} /\ ~\E stm \in comp : Linearize(stm)
  <2>1. pc' \in {"linearize", "process", "iterate"}
    BY <1>5 DEF GInv, PhaseInv
  <2>2. ~(\E s \in todo : AddAtom(s) \/ DefineFact(s)) /\ ~NextCall /\ ~BeginPrepare /\ ~EndComponent
    <3>1. \A s \in todo : (AddAtom(s) \/ DefineFact(s)) => pc' \notin {"linearize", "process", "iterate"}
      BY DEF AddAtom, DefineFact
    <3>2. NextCall \/ BeginPrepare \/ EndComponent => pc' \notin {"linearize", "process", "iterate"}
      BY DEF NextCall, BeginPrepare, EndComponent
    <3>. QED  BY <2>1, <3>1, <3>2
  <2>3. \E F : Effect({}, F)
    <3>1. CASE ReportRule
      BY Zenon, <3>1, ReportRuleWork DEF ReportsRule
    <3>2. CASE ~ReportRule
      BY Zenon, <1>5, <2>2, <3>2, NoEffect DEF Next
    <3>. QED  BY <3>1, <3>2
  <2>4. deps' = deps /\ insts' = insts
    BY Zenon, <1>5, <2>2 DEF Next, vars, compVars, BeginAddBackend, Prepared, StartComponent,
         RegisterLiteral, EnqueueComponent, BeginIteration, RunInstantiator, TryInstance, Backjump,
         MatchNegative, Mismatch, ReportBody, ReportRule, Propagate, EndIteration, Return
  <2>. QED  BY <1>2, <2>3, <2>4
<1>. QED  BY <1>1, <1>3, <1>4, <1>5

LEMMA InitBInv == Init => BInv
<1> SUFFICES ASSUME Init PROVE BInv
  OBVIOUS
<1>1. \A s \in UsedSyms : ~IsDefinedSym(s)
  <2>1. Offsets(EmptyDomain) = {}
    BY DEF EmptyDomain, Offsets
  <2>2. GInv
    BY InitGInv
  <2>3. ASSUME NEW s \in UsedSyms PROVE dom[PredOf(s)] = EmptyDomain
    BY SymPred DEF Init
  <2>. QED  BY <2>1, <2>2, <2>3, SymLookups DEF GInv, DefinedIn
<1>2. running = {} /\ seen = {} /\ insts = {}
  BY DEF Init
<1>3. ChoiceInv
  BY DEF Init, ChoiceInv
<1>. QED  BY <1>1, <1>2, <1>3 DEF BInv, FactInv, UnimportantInv, FactWork, ProbeInv, SeenInv

LEMMA BInvStep ==
  ASSUME GInv, LInv, HInv, NInv, AInv, BInv, ChoicesSeen, [Next]_vars
  PROVE  BInv'
<1>1. ChoiceInv' /\ UnimportantInv'
  BY GInvStep, ChoiceInvStep, UnimportantStep DEF BInv
<1> SUFFICES FactInv' /\ FactWork' /\ ProbeInv' /\ SeenInv'
  BY <1>1 DEF BInv
<1>2. GInv' /\ ChoiceInv /\ FactInv /\ UnimportantInv /\ FactWork /\ ProbeInv /\ SeenInv /\ GivenStays
  BY GInvStep, ChoicesStay DEF BInv
<1>3. FactInv'
  <2>1. CASE UNCHANGED vars \/ BeginAddBackend \/ Prepared \/ (\E s \in comp : Linearize(s))
    BY <1>2, <2>1, FactQuietSteps
  <2>2. CASE RegisterLiteral \/ EnqueueComponent \/ BeginIteration \/ EndIteration \/ Return
    BY <1>2, <2>2, FactQuietSteps
  <2>3. CASE (\E x \in current : RunInstantiator(x)) \/ (\E i \in left : TryInstance(i) \/ Backjump(i))
    BY <1>2, <2>3, FactQuietSteps
  <2>4. CASE MatchNegative \/ Mismatch \/ ReportBody \/ (\E x \in ran : Propagate(x))
    BY <1>2, <2>4, FactQuietSteps
  <2>5. CASE \/ BeginPrepare \/ EndComponent \/ NextCall
             \/ \E c \in {deps[s].comp : s \in DOMAIN deps} : StartComponent(c)
             \/ \E s \in todo : AddAtom(s) \/ DefineFact(s)
    BY <1>2, <2>5, FactCallSteps
  <2>6. CASE ReportHead \/ ReportRule
    BY <1>2, <2>6, FactReportSteps
  <2>. QED  BY Zenon, <2>1, <2>2, <2>3, <2>4, <2>5, <2>6 DEF Next
<1>4. CASE \E i \in left : TryInstance(i)
  BY <1>2, <1>3, <1>4, TryInstanceProbes
<1>5. CASE MatchNegative
  BY <1>2, <1>3, <1>5, MatchNegativeProbes
<1>6. CASE ReportBody
  BY <1>2, <1>3, <1>6, ReportBodyProbes
<1>7. CASE ReportHead
  BY <1>2, <1>3, <1>7, ReportHeadProbes
<1>8. CASE ~(\E i \in left : TryInstance(i)) /\ ~MatchNegative /\ ~ReportBody /\ ~ReportHead
  BY <1>2, <1>3, <1>8, MatchQuietSteps
<1>. QED  BY <1>4, <1>5, <1>6, <1>7, <1>8

-----------------------------------------------------------------------------
(* Generations of atoms, and what an instantiator finds by them *)

(* What a step that keeps generations does to an atom. *)
LEMMA KeptGens ==
  ASSUME NEW p, NEW d, DomainOK(p, d), NEW e, NEW S, Becomes(p, d, e, S),
         DP!KeepsGenerations(d, e)
  PROVE  /\ DomainOK(p, e) /\ e.generation = d.generation /\ d.generation \in Nat
         /\ \A o \in Offsets(d) : /\ o \in Offsets(e) /\ e.atoms[o].sym = d.atoms[o].sym
                                  /\ d.atoms[o].gen \in Nat
                                  /\ d.atoms[o].gen > 0 => e.atoms[o].gen = d.atoms[o].gen
         /\ \A o \in Offsets(e) :
              /\ e.atoms[o].gen \in Nat
              /\ e.atoms[o].gen > 0 =>
                   \/ o \in Offsets(d) /\ e.atoms[o].gen = d.atoms[o].gen
                   \/ /\ e.atoms[o].gen = d.generation + 2 /\ e.atoms[o].sym \in S
                      /\ o \in Offsets(d) => d.atoms[o].gen = 0
<1>1. /\ DomainOK(p, e) /\ DP!Grows(d, e) /\ DP!DomOK(d) /\ DP!DomOK(e)
      /\ DP!Offsets(d) = Offsets(d) /\ DP!Offsets(e) = Offsets(e)
  BY SameLookups DEF Becomes, DomainOK
<1>2. /\ d.generation \in Nat /\ Len(d.atoms) \in Nat /\ Len(e.atoms) \in Nat
      /\ \A o \in Offsets(d) : d.atoms[o].gen \in Nat
      /\ \A o \in Offsets(e) : e.atoms[o].gen \in Nat
  BY <1>1, DomainParts
<1>3. /\ e.generation = d.generation
      /\ \A o \in Offsets(e) :
           \/ e.atoms[o].gen = 0
           \/ o \in Offsets(d) /\ e.atoms[o].gen = d.atoms[o].gen
           \/ e.atoms[o].gen = d.generation + 2 /\ (o \in Offsets(d) => d.atoms[o].gen = 0)
  BY <1>1 DEF DP!KeepsGenerations
<1>4. ASSUME NEW o \in Offsets(d)
      PROVE  /\ o \in Offsets(e) /\ e.atoms[o].sym = d.atoms[o].sym
             /\ d.atoms[o].gen > 0 => e.atoms[o].gen > 0
  BY <1>1, <1>2 DEF DP!Grows, Offsets
<1>5. ASSUME NEW o \in Offsets(d), d.atoms[o].gen > 0 PROVE e.atoms[o].gen = d.atoms[o].gen
  BY <1>2, <1>3, <1>4, <1>5
<1>6. ASSUME NEW o \in Offsets(e), e.atoms[o].gen > 0
      PROVE  \/ o \in Offsets(d) /\ e.atoms[o].gen = d.atoms[o].gen
             \/ /\ e.atoms[o].gen = d.generation + 2 /\ e.atoms[o].sym \in S
                /\ o \in Offsets(d) => d.atoms[o].gen = 0
  BY <1>2, <1>3, <1>6, NewlyDefined
<1>. QED  BY <1>1, <1>2, <1>3, <1>4, <1>5, <1>6

(* The batches of an index are in the order of the generations, and what   *)
(* it has still to import is of the next one.                              *)
Sorted(d, ix) ==
  /\ \A o \in Fresh(d, ix) : d.atoms[o].gen >= d.generation + 2
  /\ \A b, c \in DOMAIN ix.batches : b <= c =>
       \A o \in ix.batches[b], q \in ix.batches[c] : d.atoms[o].gen <= d.atoms[q].gen

(* What an index holds are defined atoms. *)
LEMMA BatchAtoms ==
  ASSUME NEW p, NEW d, DomainOK(p, d), NEW ix, DP!IdxOK(d, ix),
         NEW b \in DOMAIN ix.batches, NEW o \in ix.batches[b]
  PROVE  o \in Content(ix) /\ o \in Offsets(d) /\ d.atoms[o].gen > 0 /\ d.atoms[o].gen \in Nat
<1>1. o \in Content(ix)
  BY DEF Content
<1>2. o \in MatchedBy(d, ix.match)
  BY <1>1, IndexSplit
<1>3. \A q \in Offsets(d) : d.atoms[q].gen \in Nat
  BY DomainParts DEF DomainOK
<1>. QED  BY <1>1, <1>2, <1>3 DEF MatchedBy

LEMMA SortedKept ==
  ASSUME NEW p, NEW d, DomainOK(p, d), NEW e, NEW S, Becomes(p, d, e, S),
         DP!KeepsGenerations(d, e), NEW ix, DP!IdxOK(d, ix), Sorted(d, ix)
  PROVE  Sorted(e, ix)
<1>1. DP!IdxOK(e, ix) /\ DomainOK(p, e)
  BY FreshBecomes DEF Becomes
<1>2. ASSUME NEW o \in Fresh(e, ix) PROVE e.atoms[o].gen >= e.generation + 2
  <2>1. /\ o \in Offsets(e) /\ e.atoms[o].gen > 0 /\ e.atoms[o].sym \in ix.match
        /\ o \notin Content(ix)
    BY <1>1, <1>2, IndexSplit DEF MatchedBy
  <2>2. CASE o \in Offsets(d) /\ e.atoms[o].gen = d.atoms[o].gen
    <3>1. o \in MatchedBy(d, ix.match)
      BY <2>1, <2>2, KeptGens DEF MatchedBy
    <3>2. o \in Fresh(d, ix)
      BY <2>1, <3>1, IndexSplit
    <3>3. d.atoms[o].gen >= d.generation + 2
      BY <3>2 DEF Sorted
    <3>. QED  BY <2>2, <3>3, KeptGens
  <2>3. CASE e.atoms[o].gen = d.generation + 2
    <3>1. e.generation = d.generation /\ d.generation \in Nat
      BY KeptGens
    <3>. QED  BY <2>3, <3>1
  <2>. QED  BY <2>1, <2>2, <2>3, KeptGens
<1>3. ASSUME NEW b \in DOMAIN ix.batches, NEW c \in DOMAIN ix.batches, b <= c,
             NEW o \in ix.batches[b], NEW q \in ix.batches[c]
      PROVE  e.atoms[o].gen <= e.atoms[q].gen
  <2>1. d.atoms[o].gen <= d.atoms[q].gen
    BY <1>3 DEF Sorted
  <2>2. /\ o \in Offsets(d) /\ d.atoms[o].gen > 0
        /\ q \in Offsets(d) /\ d.atoms[q].gen > 0
    BY BatchAtoms
  <2>3. e.atoms[o].gen = d.atoms[o].gen /\ e.atoms[q].gen = d.atoms[q].gen
    BY <2>2, KeptGens
  <2>. QED  BY <2>1, <2>3
<1>. QED  BY <1>2, <1>3 DEF Sorted

LEMMA SortedUpdate ==
  ASSUME NEW p, NEW d, DomainOK(p, d), NEW ix, DP!IdxOK(d, ix), DP!BatchesDisjoint(ix),
         Sorted(d, ix), \A o \in Offsets(d) : d.atoms[o].gen <= d.generation + 2,
         NEW os, \A o \in Offsets(d) : o > ix.imported => o \in os
  PROVE  Sorted(EnqueueDomain(MarkDelayed(d, os)), UpdateIndex(d, ix))
<1> DEFINE e == EnqueueDomain(MarkDelayed(d, os))
           u == UpdateIndex(d, ix)
<1>1. Fresh(e, u) = {}
  BY UpdatedIndex
<1>2. /\ DP!UpdateIndex(d, ix) = u /\ DP!Fresh(d, ix) = Fresh(d, ix) /\ DP!DomOK(d)
  BY SameUpdate, SameFresh DEF DomainOK
<1>3. Offsets(e) = Offsets(d) /\ \A o \in Offsets(d) : e.atoms[o].gen = d.atoms[o].gen
  BY EnqueuedDomain
<1> HIDE DEF u, e
<1>4. /\ Len(ix.batches) \in Nat
      /\ DOMAIN ix.batches = 1..Len(ix.batches)
      /\ DOMAIN u.batches = 1..Len(u.batches)
      /\ \A b \in DOMAIN ix.batches : u.batches[b] = ix.batches[b]
      /\ \A b \in DOMAIN u.batches :
           b \in DOMAIN ix.batches
             \/ (b = Len(ix.batches) + 1 /\ u.batches[b] = Fresh(d, ix))
  BY <1>2, DP!UpdateBatches
<1>5. \A o \in Fresh(d, ix) : o \in Offsets(d) /\ d.atoms[o].gen = d.generation + 2
  <2>1. Fresh(d, ix) \subseteq Offsets(d)
    BY IndexSplit DEF MatchedBy
  <2>2. d.generation \in Nat /\ \A o \in Offsets(d) : d.atoms[o].gen \in Nat
    BY DomainParts DEF DomainOK
  <2>. QED  BY <2>1, <2>2 DEF Sorted
<1>6. ASSUME NEW b \in DOMAIN u.batches, NEW c \in DOMAIN u.batches, b <= c,
             NEW o \in u.batches[b], NEW q \in u.batches[c]
      PROVE  e.atoms[o].gen <= e.atoms[q].gen
  <2>1. CASE b \in DOMAIN ix.batches /\ c \in DOMAIN ix.batches
    <3>1. o \in ix.batches[b] /\ q \in ix.batches[c]
      BY <1>4, <2>1
    <3>2. d.atoms[o].gen <= d.atoms[q].gen /\ o \in Offsets(d) /\ q \in Offsets(d)
      BY <1>6, <2>1, <3>1, BatchAtoms DEF Sorted
    <3>. QED  BY <1>3, <3>2
  <2>2. CASE b \in DOMAIN ix.batches /\ c \notin DOMAIN ix.batches
    <3>1. o \in ix.batches[b] /\ q \in Fresh(d, ix)
      BY <1>4, <2>2
    <3>2. o \in Offsets(d) /\ d.atoms[o].gen <= d.generation + 2
      BY <2>2, <3>1, BatchAtoms
    <3>. QED  BY <1>3, <1>5, <3>1, <3>2
  <2>3. CASE b \notin DOMAIN ix.batches
    <3>1. b = Len(ix.batches) + 1 /\ o \in Fresh(d, ix)
      BY <1>4, <2>3
    <3>2. c \notin DOMAIN ix.batches
      BY <1>4, <1>6, <3>1
    <3>3. q \in Fresh(d, ix)
      BY <1>4, <3>2
    <3>. QED  BY <1>3, <1>5, <3>1, <3>3, DomainParts DEF DomainOK
  <2>. QED  BY <2>1, <2>2, <2>3
<1>. QED  BY <1>1, <1>6 DEF Sorted, u, e

(* An index without anything to import, over atoms that stay. *)
LEMMA SortedPassed ==
  ASSUME NEW d, NEW e, e.atoms = d.atoms, NEW ix, Sorted(d, ix), Fresh(e, ix) = {}
  PROVE  Sorted(e, ix)
BY DEF Sorted

LEMMA SortedInit ==
  ASSUME NEW p, NEW e, DomainOK(p, e), NEW ix, DP!IdxOK(e, ix), Fresh(e, ix) = {},
         \A o \in Offsets(e) : e.atoms[o].gen <= 1
  PROVE  Sorted(e, ix)
<1>1. ASSUME NEW b \in DOMAIN ix.batches, NEW o \in ix.batches[b] PROVE e.atoms[o].gen = 1
  BY BatchAtoms
<1>. QED  BY <1>1 DEF Sorted

(* What a NEW, OLD, or ALL lookup finds in it. *)
LEMMA SortedLookups ==
  ASSUME NEW p, NEW d, DomainOK(p, d), NEW ix, DP!IdxOK(d, ix), Sorted(d, ix),
         NEW o \in Content(ix)
  PROVE  /\ d.atoms[o].gen = d.generation + 1 => o \in LookupNew(d, ix)
         /\ d.atoms[o].gen <= d.generation => o \in LookupOld(d, ix)
<1>1. /\ d.generation \in Nat
      /\ \A q \in Content(ix) : q \in Offsets(d) /\ d.atoms[q].gen \in Nat
  <2>1. Content(ix) \subseteq Offsets(d)
    BY IndexSplit DEF MatchedBy
  <2>. QED  BY <2>1, DomainParts DEF DomainOK
<1>2. ASSUME NEW q, NEW r, q \in Content(ix), r \in Content(ix), EntryBefore(d, ix, q, r)
      PROVE  d.atoms[q].gen <= d.atoms[r].gen
  <2>1. PICK b, c \in DOMAIN ix.batches : q \in ix.batches[b] /\ r \in ix.batches[c] /\ (b < c \/ b = c)
    BY <1>2 DEF EntryBefore
  <2>2. b \in Int /\ c \in Int
    <3>1. DP!DomOK(d)
      BY DEF DomainOK
    <3>2. DOMAIN ix.batches = 1..Len(ix.batches) /\ Len(ix.batches) \in Nat
      BY <3>1, DP!UpdateBatches
    <3>. QED  BY <3>2
  <2>3. b <= c
    BY <2>1, <2>2
  <2>. QED  BY <2>1, <2>3 DEF Sorted
<1>3. ASSUME d.atoms[o].gen = d.generation + 1 PROVE o \in LookupNew(d, ix)
  <2>1. \A r \in Content(ix) : EntryBefore(d, ix, o, r) => d.atoms[r].gen - 1 >= d.generation
    BY <1>1, <1>2, <1>3
  <2>. QED  BY <1>1, <1>3, <2>1 DEF LookupNew, Generation
<1>4. ASSUME d.atoms[o].gen <= d.generation PROVE o \in LookupOld(d, ix)
  <2>1. \A q \in Content(ix) : EntryBefore(d, ix, q, o) => d.atoms[q].gen - 1 < d.generation
    BY <1>1, <1>2, <1>4
  <2>. QED  BY <1>1, <1>4, <2>1 DEF LookupOld, Generation
<1>. QED  BY <1>3, <1>4

-----------------------------------------------------------------------------
(* What an iteration leaves for the next one *)

(* An atom of the next generation with a symbol of a NEW literal is not    *)
(* imported, and waits for a head, unless its instantiator is queued.      *)
NextInv ==
  pc = "iterate" =>
    \A u \in Updaters(insts) : u[1].types[u[2]] = "NEW" /\ u[1] \notin queued =>
      LET d == dom[KeyPred(KeyOf(u))]
      IN \A o \in Offsets(d) :
           d.atoms[o].gen = d.generation + 2 /\ d.atoms[o].sym \in LitSyms(u[1].stm, u[2]) =>
             /\ o \notin Content(index[KeyOf(u)])
             /\ \E y \in ran : d.atoms[o].sym \in HeadSyms(y.stm)

(* A domain with atoms of the current generation is enqueued, or a head    *)
(* enqueues it in this iteration.                                          *)
NowInv ==
  pc \in {"process", "iterate"} =>
    \A p \in CompPreds : \A o \in Offsets(dom[p]) :
      dom[p].atoms[o].gen = dom[p].generation + 1 =>
        \/ dom[p].enqueued >= 1
        \/ \E y \in (IF pc = "process" THEN queued ELSE ran) : p \in HeadPreds(y.stm)

SortInv ==
  pc \in {"process", "iterate"} =>
    \A u \in Updaters(insts) : ~IsMatcher(KeyOf(u)) /\ KeyPred(KeyOf(u)) \in CompPreds =>
      Sorted(dom[KeyPred(KeyOf(u))], index[KeyOf(u)])

RInv == NextInv /\ NowInv /\ SortInv

(* The literal of an updater that is NEW is provided by the component. *)
LEMMA NewUpdater ==
  ASSUME GInv, LInv, CompInv, NEW u \in Updaters(insts), u[1].types[u[2]] = "NEW"
  PROVE  /\ u[2] \in Recursive(u[1].stm)
         /\ KeyPred(KeyOf(u)) = LitPred(u[1].stm, u[2])
         /\ KeyPred(KeyOf(u)) \in CompPreds
<1>1. /\ u[1] \in insts /\ u[1].stm \in comp /\ u[1].stm \in Part.stms
      /\ u[2] \in Positive(u[1].stm)
      /\ KeyMatch(KeyOf(u)) = LitSyms(u[1].stm, u[2])
      /\ \A s \in KeyMatch(KeyOf(u)) : PredOf(s) = KeyPred(KeyOf(u))
  BY UpdaterKey
<1>2. IsInstantiator(u[1])
  BY <1>1 DEF LInv
<1>3. u[2] \in Recursive(u[1].stm)
  BY <1>1, <1>2, LiteralTypes
<1>4. LitPred(u[1].stm, u[2]) \in CompPreds
  BY <1>1, <1>3, RecursiveLiteral
<1>5. u[1].stm \in DOMAIN Statements /\ u[2] \in Body(u[1].stm)
  BY <1>1, PartStatements DEF GInv, Positive
<1>6. KeyPred(KeyOf(u)) = LitPred(u[1].stm, u[2])
  BY <1>1, <1>5, LiteralPred
<1>. QED  BY <1>3, <1>4, <1>6

(* Steps that define at most heads of what runs. *)
CalmWork == \E S : DomainsCalm(S) /\ \A s \in S : \E x \in ran : s \in HeadSyms(x.stm)

LEMMA SameCalmWork ==
  ASSUME GInv, dom' = dom
  PROVE  CalmWork
BY SameCalm DEF CalmWork, GInv

LEMMA WorkCalm ==
  ASSUME GInv, LInv, HInv,
         \/ UNCHANGED vars
         \/ \E x \in current : RunInstantiator(x)
         \/ \E i \in left : TryInstance(i) \/ Backjump(i)
         \/ MatchNegative \/ Mismatch
         \/ ReportBody \/ ReportHead \/ ReportRule
  PROVE  /\ CalmWork
         /\ UNCHANGED <<program, step, done, comp, insts, agenda, index, queued, ran, pc>>
<1>1. CASE UNCHANGED vars
  <2>1. UNCHANGED <<program, step, done, comp, insts, agenda, index, queued, ran, pc, dom>>
    BY <1>1 DEF vars, callVars, compVars, indexVars, queueVars
  <2>. QED  BY <2>1, SameCalmWork
<1>2. CASE \/ \E x \in current : RunInstantiator(x)
           \/ \E i \in left : TryInstance(i) \/ Backjump(i)
           \/ Mismatch \/ ReportBody
  <2>1. UNCHANGED <<program, step, done, comp, insts, agenda, index, queued, ran, pc, dom>>
    BY Zenon, <1>2 DEF RunInstantiator, TryInstance, Backjump, Mismatch, ReportBody,
       callVars, compVars, indexVars, queueVars
  <2>. QED  BY <2>1, SameCalmWork
<1>3. CASE MatchNegative
  <2>1. UNCHANGED <<program, step, done, comp, insts, agenda, index, queued, ran, pc>>
    BY Zenon, <1>3 DEF MatchNegative, callVars, compVars, indexVars, queueVars
  <2>2. PICK s \in UsedSyms :
          /\ PredOf(s) \in Preds
          /\ dom' = dom \/ dom' = [dom EXCEPT ![PredOf(s)] = Reserve(dom[PredOf(s)], s)]
    BY <1>3, MatchNegativeEffect
  <2>3. Calm(PredOf(s), dom[PredOf(s)], Reserve(dom[PredOf(s)], s), {})
    BY Zenon, <2>2, CalmOperations DEF GInv, DomInv
  <2>4. DomainsCalm({})
    BY <2>2, <2>3, OneCalm, SameCalm DEF GInv
  <2>. QED  BY <2>1, <2>4 DEF CalmWork
<1>4. CASE ReportHead
  <2>1. UNCHANGED <<program, step, done, comp, insts, agenda, index, queued, ran, pc>>
    BY Zenon, <1>4 DEF ReportHead, callVars, compVars, indexVars, queueVars
  <2>2. PICK x \in ran : \E s \in HeadSyms(x.stm) :
          /\ s \in UsedSyms /\ PredOf(s) \in Preds
          /\ dom' = [dom EXCEPT ![PredOf(s)] = Define(dom[PredOf(s)], s)]
    BY <1>4, ReportHeadEffect
  <2>3. PICK s \in HeadSyms(x.stm) :
          /\ s \in UsedSyms /\ PredOf(s) \in Preds
          /\ dom' = [dom EXCEPT ![PredOf(s)] = Define(dom[PredOf(s)], s)]
    BY Zenon, <2>2
  <2>4. Calm(PredOf(s), dom[PredOf(s)], Define(dom[PredOf(s)], s), {s})
    BY <2>3, CalmOperations DEF GInv, DomInv
  <2>5. DomainsCalm({s})
    BY Zenon, <2>3, <2>4, OneCalm DEF GInv
  <2>6. \A t \in {s} : \E y \in ran : t \in HeadSyms(y.stm)
    BY <2>3
  <2>. QED  BY Zenon, <2>1, <2>5, <2>6 DEF CalmWork
<1>5. CASE ReportRule
  <2>1. UNCHANGED <<program, step, done, comp, insts, agenda, index, queued, ran, pc>>
    BY Zenon, <1>5 DEF ReportRule, callVars, compVars, indexVars, queueVars
  <2>2. DomainsCalm({})
    <3>1. CASE dom' # dom
      <4>1. PICK h \in UsedSyms :
              /\ PredOf(h) \in Preds /\ Contains(dom[PredOf(h)], h)
              /\ dom' = [dom EXCEPT ![PredOf(h)] =
                           SetFact(dom[PredOf(h)], Find(dom[PredOf(h)], h))]
        BY <1>5, <3>1, ReportRuleEffect
      <4> DEFINE d == dom[PredOf(h)]
      <4>2. Calm(PredOf(h), d, SetFact(d, Find(d, h)), {})
        BY <4>1, FindContained, CalmOperations DEF GInv, DomInv
      <4>. QED  BY Zenon, <4>1, <4>2, OneCalm DEF GInv
    <3>. QED  BY <3>1, SameCalm DEF GInv
  <2>. QED  BY <2>1, <2>2 DEF CalmWork
<1>. QED  BY <1>1, <1>2, <1>3, <1>4, <1>5

LEMMA CalmRStep ==
  ASSUME GInv, LInv, HInv, CompInv, RInv, CalmWork,
         UNCHANGED <<comp, insts, agenda, index, queued, ran, pc>>
  PROVE  RInv'
<1>1. PICK S : DomainsCalm(S) /\ \A s \in S : \E x \in ran : s \in HeadSyms(x.stm)
  BY DEF CalmWork
<1>2. ASSUME NEW p \in Preds
      PROVE  /\ DomainOK(p, dom[p]) /\ Becomes(p, dom[p], dom'[p], S)
             /\ DP!KeepsGenerations(dom[p], dom'[p])
             /\ dom'[p].enqueued = dom[p].enqueued
  BY <1>1 DEF GInv, DomInv, DomainsCalm, Calm
<1>3. CompPreds' = CompPreds /\ CompPreds \subseteq Preds
  BY CompPredsOf DEF CompPreds, GInv
<1>4. Updaters(insts)' = Updaters(insts) /\ (pc \in {"process", "iterate"} => agenda = {})
  BY DEF Updaters, LInv, RegInv
<1>5. NextInv'
  <2>1. ASSUME pc = "iterate", NEW u \in Updaters(insts), u[1].types[u[2]] = "NEW",
               u[1] \notin queued,
               NEW o \in Offsets(dom'[KeyPred(KeyOf(u))]),
               LET e == dom'[KeyPred(KeyOf(u))] IN
                 e.atoms[o].gen = e.generation + 2 /\ e.atoms[o].sym \in LitSyms(u[1].stm, u[2])
        PROVE  /\ o \notin Content(index[KeyOf(u)])
               /\ \E y \in ran : dom'[KeyPred(KeyOf(u))].atoms[o].sym \in HeadSyms(y.stm)
    <3> DEFINE p == KeyPred(KeyOf(u))
               d == dom[p]
               e == dom'[p]
               ix == index[KeyOf(u)]
    <3>1. p \in Preds /\ Content(ix) \subseteq MatchedBy(d, LitSyms(u[1].stm, u[2]))
      BY <1>4, <2>1, UpdaterIndex
    <3>2. /\ DomainOK(p, d) /\ Becomes(p, d, e, S) /\ DP!KeepsGenerations(d, e)
      BY <1>2, <3>1
    <3>3. e.atoms[o].gen = e.generation + 2 /\ e.atoms[o].sym \in LitSyms(u[1].stm, u[2])
          /\ o \in Offsets(e)
      BY <2>1
    <3>4. NextInv /\ pc = "iterate"
      BY <2>1 DEF RInv
    <3>5. o \in Offsets(d) /\ d.atoms[o].gen = d.generation + 2
            /\ d.atoms[o].sym \in LitSyms(u[1].stm, u[2]) =>
            /\ o \notin Content(ix)
            /\ \E y \in ran : d.atoms[o].sym \in HeadSyms(y.stm)
      BY <2>1, <3>4 DEF NextInv
    <3> HIDE DEF d, e, ix, p
    <3>6. e.generation = d.generation /\ d.generation \in Nat /\ e.atoms[o].gen > 0
      BY <3>2, <3>3, KeptGens
    <3>7. CASE o \in Offsets(d) /\ e.atoms[o].gen = d.atoms[o].gen
      <4>1. e.atoms[o].sym = d.atoms[o].sym
        BY <3>2, <3>7, KeptGens
      <4>2. /\ o \notin Content(ix) /\ \E y \in ran : e.atoms[o].sym \in HeadSyms(y.stm)
        BY <3>3, <3>5, <3>6, <3>7, <4>1
      <4>. QED  BY <4>2 DEF e, p, ix
    <3>8. CASE e.atoms[o].sym \in S /\ (o \in Offsets(d) => d.atoms[o].gen = 0)
      <4>1. o \notin Content(ix)
        BY <3>1, <3>8 DEF MatchedBy
      <4>2. \E y \in ran : e.atoms[o].sym \in HeadSyms(y.stm)
        BY <1>1, <3>8
      <4>. QED  BY <4>1, <4>2 DEF e, p, ix
    <3>. QED  BY <3>2, <3>3, <3>6, <3>7, <3>8, KeptGens
  <2>. QED  BY <1>4, <2>1 DEF NextInv
<1>6. NowInv'
  <2>1. ASSUME pc \in {"process", "iterate"}, NEW p \in CompPreds, NEW o \in Offsets(dom'[p]),
               dom'[p].atoms[o].gen = dom'[p].generation + 1
        PROVE  \/ dom'[p].enqueued >= 1
               \/ \E y \in (IF pc = "process" THEN queued ELSE ran) : p \in HeadPreds(y.stm)
    <3> DEFINE d == dom[p]
               e == dom'[p]
    <3>1. /\ DomainOK(p, d) /\ Becomes(p, d, e, S) /\ DP!KeepsGenerations(d, e)
          /\ e.enqueued = d.enqueued
      BY <1>2, <1>3
    <3>2. o \in Offsets(e) /\ e.atoms[o].gen = e.generation + 1
      BY <2>1
    <3>3. o \in Offsets(d) /\ d.atoms[o].gen = d.generation + 1 =>
            \/ d.enqueued >= 1
            \/ \E y \in (IF pc = "process" THEN queued ELSE ran) : p \in HeadPreds(y.stm)
      BY <2>1 DEF RInv, NowInv
    <3> HIDE DEF d, e
    <3>4. o \in Offsets(d) /\ d.atoms[o].gen = d.generation + 1
      <4>1. e.generation = d.generation /\ d.generation \in Nat /\ e.atoms[o].gen > 0
        BY <3>1, <3>2, KeptGens
      <4>2. e.atoms[o].gen # d.generation + 2
        BY <3>2, <4>1
      <4>. QED  BY <3>1, <3>2, <4>1, <4>2, KeptGens
    <3>5. \/ e.enqueued >= 1
          \/ \E y \in (IF pc = "process" THEN queued ELSE ran) : p \in HeadPreds(y.stm)
      BY <3>1, <3>3, <3>4
    <3>. QED  BY <3>5 DEF e
  <2>. QED  BY <1>3, <2>1 DEF NowInv
<1>7. SortInv'
  <2>1. ASSUME pc \in {"process", "iterate"}, NEW u \in Updaters(insts), ~IsMatcher(KeyOf(u)),
               KeyPred(KeyOf(u)) \in CompPreds
        PROVE  Sorted(dom'[KeyPred(KeyOf(u))], index[KeyOf(u)])
    <3> DEFINE p == KeyPred(KeyOf(u))
    <3>1. DP!IdxOK(dom[p], index[KeyOf(u)]) /\ p \in Preds
      BY <1>4, <2>1, UpdaterIndex
    <3>2. Sorted(dom[p], index[KeyOf(u)])
      BY <2>1 DEF RInv, SortInv
    <3> HIDE DEF p
    <3>3. Sorted(dom'[p], index[KeyOf(u)])
      BY <1>2, <3>1, <3>2, SortedKept
    <3>. QED  BY <3>3 DEF p
  <2>. QED  BY <1>3, <1>4, <2>1 DEF SortInv
<1>. QED  BY <1>5, <1>6, <1>7 DEF RInv

LEMMA BeginIterationRStep ==
  ASSUME GInv, LInv, HInv, CompInv, RInv, BeginIteration
  PROVE  RInv'
<1>1. /\ UNCHANGED <<comp, insts, agenda, dom, index>>
      /\ pc = "process" /\ pc' = "iterate" /\ ran' = queued /\ queued' = {}
  BY DEF BeginIteration, compVars, indexVars
<1>2. CompPreds' = CompPreds /\ Updaters(insts)' = Updaters(insts)
  BY <1>1 DEF CompPreds, Updaters
<1>3. ran = {}
  BY <1>1 DEF GInv, PhaseInv
<1>4. NextInv'
  <2>1. ASSUME NEW u \in Updaters(insts), u[1].types[u[2]] = "NEW",
               NEW o \in Offsets(dom[KeyPred(KeyOf(u))])
        PROVE  dom[KeyPred(KeyOf(u))].atoms[o].gen # dom[KeyPred(KeyOf(u))].generation + 2
    <3> DEFINE p == KeyPred(KeyOf(u))
    <3>1. p \in CompPreds
      BY <2>1, NewUpdater
    <3>2. p \in Preds
      BY <3>1, CompPredsOf DEF GInv
    <3>3. dom[p].generation \in Nat
      BY <3>2, DomainParts DEF GInv, DomInv, DomainOK
    <3>4. ~(dom[p].atoms[o].gen > dom[p].generation + 1)
      BY <1>1, <1>3, <3>1, OpenAtoms
    <3>. QED  BY <3>3, <3>4
  <2>. QED  BY <1>1, <1>2, <2>1 DEF NextInv
<1>5. NowInv'
  BY <1>1, <1>2 DEF RInv, NowInv
<1>6. SortInv'
  BY <1>1, <1>2 DEF RInv, SortInv
<1>. QED  BY <1>4, <1>5, <1>6 DEF RInv

LEMMA EnqueueComponentRStep ==
  ASSUME GInv, GInv', LInv, LInv', HInv, HInv', EnqueueComponent
  PROVE  RInv'
<1>1. /\ UNCHANGED <<comp, insts, agenda, index, ran>> /\ agenda = {} /\ Linearized = comp
      /\ pc = "linearize" /\ pc' = "process" /\ queued' = insts
      /\ dom' = [p \in DOMAIN dom |-> IF p \in CompPreds THEN InitDomain(dom[p]) ELSE dom[p]]
  BY DEF EnqueueComponent, compVars, indexVars, instVars
<1>2. CompPreds' = CompPreds /\ Updaters(insts)' = Updaters(insts) /\ CompPreds \subseteq Preds
  BY <1>1, CompPredsOf DEF CompPreds, Updaters, GInv
<1>3. ran' = {}
  BY <1>1 DEF GInv, PhaseInv
<1>4. NextInv'
  BY <1>1 DEF NextInv
<1>5. NowInv'
  <2>1. ASSUME NEW p \in CompPreds PROVE \E y \in queued' : p \in HeadPreds(y.stm)
    <3>1. PICK s \in comp : p \in HeadPreds(s)
      BY DEF CompPreds
    <3>. QED  BY <1>1, <3>1 DEF Linearized
  <2>. QED  BY <1>1, <1>2, <2>1 DEF NowInv
<1>6. SortInv'
  <2>1. ASSUME NEW u \in Updaters(insts), ~IsMatcher(KeyOf(u)), KeyPred(KeyOf(u)) \in CompPreds
        PROVE  Sorted(dom'[KeyPred(KeyOf(u))], index'[KeyOf(u)])
    <3> DEFINE p == KeyPred(KeyOf(u))
               e == dom'[p]
               ix == index'[KeyOf(u)]
    <3>1. p \in Preds /\ DomainOK(p, dom[p])
      BY <1>2, <2>1 DEF GInv, DomInv
    <3>2. e = InitDomain(dom[p]) /\ DomainOK(p, e)
      <4>1. DOMAIN dom = Preds
        BY DEF GInv, DomInv
      <4>2. DomainOK(p, e)
        BY <3>1 DEF GInv, DomInv
      <4>. QED  BY <1>1, <2>1, <3>1, <4>1, <4>2
    <3>3. DP!IdxOK(e, ix)
      <4>1. \A v \in (Updaters(insts) \ agenda)' : KeyOf(v) \in DOMAIN index'
        BY DEF HInv, IdxInv
      <4>2. KeyOf(u) \in DOMAIN index'
        BY <1>1, <1>2, <4>1
      <4>. QED  BY <4>2 DEF HInv, IdxInv
    <3>4. Fresh(e, ix) = {}
      <4>1. u \in (Updaters(insts) \ agenda)'
        BY <1>1, <1>2
      <4>. QED  BY <1>3, <2>1, <4>1 DEF HInv, FreshInv
    <3>5. \A o \in Offsets(e) : e.atoms[o].gen <= 1
      <4> HIDE DEF p, e
      <4>1. DP!InitDomain(dom[p]) = e /\ DP!Offsets(e) = Offsets(e) /\ DP!DomOK(dom[p])
        BY <3>1, <3>2, SameInit, SameLookups DEF DomainOK
      <4>. QED  BY <4>1, DP!InitDomainOK
    <3> HIDE DEF p, e, ix
    <3>6. Sorted(e, ix)
      BY <3>2, <3>3, <3>4, <3>5, SortedInit
    <3>. QED  BY <3>6 DEF p, e, ix
  <2>. QED  BY <1>2, <2>1 DEF SortInv
<1>. QED  BY <1>4, <1>5, <1>6 DEF RInv

LEMMA EndIterationRStep ==
  ASSUME GInv, GInv', LInv, HInv, HInv', RInv, EndIteration
  PROVE  RInv'
<1>1. /\ UNCHANGED <<comp, insts, agenda, index, queued>> /\ AdvanceEnqueuedDomains
      /\ pc = "iterate" /\ pc' = "process" /\ ran = {} /\ agenda = {}
  <2>1. /\ UNCHANGED <<comp, insts, agenda, index, queued>> /\ AdvanceEnqueuedDomains
        /\ pc = "iterate" /\ pc' = "process" /\ ran = {}
    BY DEF EndIteration, compVars, indexVars, queueVars
  <2>. QED  BY <2>1 DEF LInv, RegInv
<1>2. CompPreds' = CompPreds /\ Updaters(insts)' = Updaters(insts) /\ CompPreds \subseteq Preds
  BY <1>1, CompPredsOf DEF CompPreds, Updaters, GInv
<1>3. NextInv'
  BY <1>1 DEF NextInv
<1>4. NowInv'
  <2>1. ASSUME NEW p \in CompPreds, NEW o \in Offsets(dom'[p]),
               dom'[p].atoms[o].gen = dom'[p].generation + 1
        PROVE  dom'[p].enqueued >= 1
    <3> DEFINE d == dom[p]
               e == dom'[p]
    <3>1. /\ e.atoms = d.atoms /\ d.enqueued \in 0..2 /\ d.generation \in Nat
          /\ e.enqueued = IF d.enqueued > 0 THEN d.enqueued - 1 ELSE 0
          /\ e.generation = IF d.enqueued > 0 THEN d.generation + 1 ELSE d.generation
      BY <1>1, <1>2, AdvanceStep DEF GInv
    <3>2. o \in Offsets(d) /\ d.atoms[o].gen = e.generation + 1
      BY <2>1, <3>1 DEF Offsets
    <3>3. CASE d.enqueued = 0
      <4>1. d.atoms[o].gen = d.generation + 1
        BY <3>1, <3>2, <3>3
      <4>2. d.enqueued >= 1
        BY <1>1, <3>2, <4>1 DEF RInv, NowInv
      <4>. QED  BY <3>3, <4>2
    <3>4. CASE d.enqueued = 1
      <4>1. d.atoms[o].gen = d.generation + 2
        BY <3>1, <3>2, <3>4
      <4>2. d.enqueued = 2
        BY <1>1, <3>1, <3>2, <4>1, OpenAtoms
      <4>. QED  BY <3>4, <4>2
    <3>5. CASE d.enqueued = 2
      BY <3>1, <3>5
    <3>. QED  BY <3>1, <3>3, <3>4, <3>5
  <2>. QED  BY <1>2, <2>1 DEF NowInv
<1>5. SortInv'
  <2>1. ASSUME NEW u \in Updaters(insts), ~IsMatcher(KeyOf(u)), KeyPred(KeyOf(u)) \in CompPreds
        PROVE  Sorted(dom'[KeyPred(KeyOf(u))], index[KeyOf(u)])
    <3> DEFINE p == KeyPred(KeyOf(u))
               d == dom[p]
               e == dom'[p]
               ix == index[KeyOf(u)]
    <3>1. e.atoms = d.atoms
      BY <1>1, <1>2, <2>1, AdvanceStep DEF GInv
    <3>2. Sorted(d, ix)
      BY <1>1, <2>1 DEF RInv, SortInv
    <3>3. Fresh(e, ix) = {}
      <4>1. u \in (Updaters(insts) \ agenda)' /\ ran' = {}
        BY <1>1, <1>2 DEF GInv, PhaseInv
      <4>. QED  BY <1>1, <2>1, <4>1 DEF HInv, FreshInv
    <3> HIDE DEF p, d, e, ix
    <3>4. Sorted(e, ix)
      BY <3>1, <3>2, <3>3, SortedPassed
    <3>. QED  BY <3>4 DEF p, e, ix
  <2>. QED  BY <1>1, <1>2, <2>1 DEF SortInv
<1>. QED  BY <1>3, <1>4, <1>5 DEF RInv

LEMMA PropagateRStep ==
  ASSUME GInv, LInv, HInv, CompInv, RInv, NEW x \in ran, Propagate(x)
  PROVE  RInv'
<1> DEFINE keys == PropKeys(x.stm)
<1>1. /\ UNCHANGED <<comp, insts, agenda, pc>> /\ ran' = ran \ {x}
      /\ pc = "iterate" /\ x.stm \in comp
      /\ HeadPreds(x.stm) \subseteq CompPreds /\ CompPreds \subseteq Preds
      /\ \A p \in Preds : dom'[p] =
           IF p \in HeadPreds(x.stm) THEN EnqueueDomain(MarkDelayed(dom[p], Passed(p, keys)))
           ELSE dom[p]
      /\ index' = [key \in DOMAIN index |->
           IF key \in keys THEN UpdateIndex(dom[KeyPred(key)], index[key]) ELSE index[key]]
  BY PropagateEffect
<1>2. /\ \A key \in keys : key \in DOMAIN index /\ KeyPred(key) \in HeadPreds(x.stm)
      /\ \A u \in Updaters(insts) \ agenda : \A s \in HeadSyms(x.stm) :
           s \in KeyMatch(KeyOf(u)) => KeyOf(u) \in keys
  BY <1>1, PropagateKeys
<1> HIDE DEF keys
<1>3. ASSUME NEW p \in Preds
      PROVE  /\ DomainOK(p, dom[p]) /\ Becomes(p, dom[p], dom'[p], {})
             /\ Offsets(dom'[p]) = Offsets(dom[p])
             /\ dom'[p].generation = dom[p].generation
             /\ dom'[p].enqueued = IF p \in HeadPreds(x.stm) THEN 2 ELSE dom[p].enqueued
             /\ \A o \in Offsets(dom[p]) : /\ dom'[p].atoms[o].gen = dom[p].atoms[o].gen
                                           /\ dom'[p].atoms[o].sym = dom[p].atoms[o].sym
  <2>1. DomainOK(p, dom[p])
    BY DEF GInv, DomInv
  <2>2. CASE p \in HeadPreds(x.stm)
    <3>1. dom'[p] = EnqueueDomain(MarkDelayed(dom[p], Passed(p, keys)))
      BY <1>1, <2>2
    <3>. QED  BY <2>1, <2>2, <3>1, EnqueuedDomain
  <2>3. CASE p \notin HeadPreds(x.stm)
    BY Zenon, <1>1, <2>1, <2>3, CounterSteps
  <2>. QED  BY <2>2, <2>3
<1>4. /\ CompPreds' = CompPreds /\ Updaters(insts)' = Updaters(insts) /\ agenda = {}
      /\ \A u \in Updaters(insts) : u \in Updaters(insts) \ agenda
  BY <1>1 DEF CompPreds, Updaters, LInv, RegInv
<1>5. ASSUME NEW u \in Updaters(insts)
      PROVE  LET p == KeyPred(KeyOf(u)) IN
             /\ p \in Preds /\ KeyOf(u) \in DOMAIN index
             /\ DP!IdxOK(dom[p], index[KeyOf(u)]) /\ DP!BatchesDisjoint(index[KeyOf(u)])
             /\ Fresh(dom[p], index[KeyOf(u)]) =
                  MatchedBy(dom[p], LitSyms(u[1].stm, u[2])) \ Content(index[KeyOf(u)])
  BY <1>4, UpdaterIndex
(* An instantiator that is not queued finds nothing new. *)
<1>6. ASSUME NEW u \in Updaters(insts), u[1].types[u[2]] = "NEW", u[1] \notin queued',
             NEW o \in Offsets(dom[KeyPred(KeyOf(u))]),
             dom[KeyPred(KeyOf(u))].atoms[o].gen = dom[KeyPred(KeyOf(u))].generation + 2,
             dom[KeyPred(KeyOf(u))].atoms[o].sym \in LitSyms(u[1].stm, u[2])
      PROVE  /\ o \notin Content(index'[KeyOf(u)])
             /\ \E y \in ran' : dom[KeyPred(KeyOf(u))].atoms[o].sym \in HeadSyms(y.stm)
  <2> DEFINE p == KeyPred(KeyOf(u))
             s == dom[p].atoms[o].sym
             ix == index[KeyOf(u)]
  <2>1. queued \subseteq queued'
    BY DEF Propagate
  <2>2. o \notin Content(ix) /\ \E y \in ran : s \in HeadSyms(y.stm)
    BY <1>1, <1>6, <2>1 DEF RInv, NextInv
  <2>3. o \in Fresh(dom[p], ix)
    <3>1. dom[p].generation \in Nat /\ dom[p].atoms[o].gen \in Nat
      BY <1>3, <1>5, DomainParts DEF DomainOK
    <3>2. o \in MatchedBy(dom[p], LitSyms(u[1].stm, u[2]))
      BY <1>6, <3>1 DEF MatchedBy
    <3>. QED  BY <1>5, <2>2, <3>2
  <2>4. /\ u[1].stm \in DOMAIN Statements /\ u[2] \in Body(u[1].stm) /\ x.stm \in DOMAIN Statements
        /\ KeyMatch(KeyOf(u)) = LitSyms(u[1].stm, u[2])
    <3>1. /\ u[1].stm \in Part.stms /\ u[2] \in Positive(u[1].stm)
          /\ KeyMatch(KeyOf(u)) = LitSyms(u[1].stm, u[2])
      BY UpdaterKey
    <3>. QED  BY <1>1, <3>1, PartStatements DEF GInv, CallInv, Positive
  <2>5. x.stm \notin DefinedBy(comp, u[1].stm, u[2])
    <3> SUFFICES ASSUME x.stm \in DefinedBy(comp, u[1].stm, u[2]) PROVE FALSE
      OBVIOUS
    <3> DEFINE e == Entry(u, x.stm)
    <3>1. e \in enqueueVec /\ e.stm = x.stm /\ e.key = KeyOf(u) /\ e.insts = {u[1]}
      <4>1. e \in Entries(Updaters(insts) \ agenda)
        BY <1>4 DEF Entries
      <4>2. e.stm = x.stm /\ e.key = KeyOf(u) /\ e.insts = {u[1]}
        BY <1>6 DEF Entry, KeyOf
      <4>. QED  BY <4>1, <4>2 DEF LInv, RegInv
    <3> HIDE DEF e
    <3>2. Fresh(dom[KeyPred(e.key)], index[e.key]) # {}
      BY <2>3, <3>1
    <3>3. u[1] \in queued'
      BY Zenon, <3>1, <3>2 DEF Propagate, FoundNew
    <3>. QED  BY <1>6, <3>3
  <2>6. HeadSyms(x.stm) \intersect LitSyms(u[1].stm, u[2]) = {}
    BY <1>1, <2>4, <2>5, Tables DEF DefinedBy
  <2>7. \E y \in ran' : s \in HeadSyms(y.stm)
    BY <1>1, <1>6, <2>2, <2>6
  <2>8. KeyOf(u) \notin keys
    <3> SUFFICES ASSUME KeyOf(u) \in keys PROVE FALSE
      OBVIOUS
    <3>1. PICK f \in enqueueVec : f.stm = x.stm /\ f.key = KeyOf(u)
      BY DEF keys, PropKeys
    <3>2. PICK v \in Updaters(insts) : \E t \in DefinedBy(comp, v[1].stm, v[2]) : f = Entry(v, t)
      BY DEF LInv, RegInv, Entries
    <3>3. x.stm \in DefinedBy(comp, v[1].stm, v[2]) /\ KeyOf(v) = KeyOf(u)
      BY <3>1, <3>2 DEF Entry, KeyOf
    <3>4. /\ v[1].stm \in Part.stms /\ v[2] \in Positive(v[1].stm)
          /\ KeyMatch(KeyOf(v)) = LitSyms(v[1].stm, v[2])
      BY UpdaterKey
    <3>5. v[1].stm \in DOMAIN Statements /\ v[2] \in Body(v[1].stm)
      BY <3>4, PartStatements DEF GInv, Positive
    <3>6. HeadSyms(x.stm) \intersect LitSyms(v[1].stm, v[2]) # {}
      BY <2>4, <3>3, <3>5, Tables DEF DefinedBy
    <3>. QED  BY <2>4, <2>6, <3>3, <3>4, <3>6
  <2>9. o \notin Content(index'[KeyOf(u)])
    BY <1>1, <1>5, <2>2, <2>8
  <2>. QED  BY <2>7, <2>9
<1>7. NextInv'
  <2>1. ASSUME NEW u \in Updaters(insts), u[1].types[u[2]] = "NEW", u[1] \notin queued',
               NEW o \in Offsets(dom'[KeyPred(KeyOf(u))]),
               LET e == dom'[KeyPred(KeyOf(u))] IN
                 e.atoms[o].gen = e.generation + 2 /\ e.atoms[o].sym \in LitSyms(u[1].stm, u[2])
        PROVE  /\ o \notin Content(index'[KeyOf(u)])
               /\ \E y \in ran' : dom'[KeyPred(KeyOf(u))].atoms[o].sym \in HeadSyms(y.stm)
    <3> DEFINE p == KeyPred(KeyOf(u))
    <3>1. p \in Preds
      BY <1>5
    <3>2. /\ o \in Offsets(dom[p]) /\ dom[p].atoms[o].gen = dom[p].generation + 2
          /\ dom'[p].atoms[o].sym = dom[p].atoms[o].sym
      BY <1>3, <2>1, <3>1
    <3>. QED  BY <1>6, <2>1, <3>2
  <2>. QED  BY <1>4, <2>1 DEF NextInv
<1>8. NowInv'
  <2>1. ASSUME NEW p \in CompPreds, NEW o \in Offsets(dom'[p]),
               dom'[p].atoms[o].gen = dom'[p].generation + 1
        PROVE  dom'[p].enqueued >= 1 \/ \E y \in ran' : p \in HeadPreds(y.stm)
    <3>1. /\ p \in Preds /\ o \in Offsets(dom[p])
          /\ dom[p].atoms[o].gen = dom[p].generation + 1
          /\ dom'[p].enqueued = IF p \in HeadPreds(x.stm) THEN 2 ELSE dom[p].enqueued
      BY <1>1, <1>3, <2>1
    <3>2. dom[p].enqueued >= 1 \/ \E y \in ran : p \in HeadPreds(y.stm)
      BY <1>1, <3>1 DEF RInv, NowInv
    <3>. QED  BY <1>1, <3>1, <3>2
  <2>. QED  BY <1>1, <1>4, <2>1 DEF NowInv
<1>9. SortInv'
  <2>1. ASSUME NEW u \in Updaters(insts), ~IsMatcher(KeyOf(u)), KeyPred(KeyOf(u)) \in CompPreds
        PROVE  Sorted(dom'[KeyPred(KeyOf(u))], index'[KeyOf(u)])
    <3> DEFINE p == KeyPred(KeyOf(u))
               d == dom[p]
               ix == index[KeyOf(u)]
    <3>1. /\ p \in Preds /\ p \in CompPreds /\ DP!IdxOK(d, ix) /\ DP!BatchesDisjoint(ix)
          /\ DomainOK(p, d) /\ KeyOf(u) \in DOMAIN index
      BY <1>3, <1>5, <2>1
    <3>2. Sorted(d, ix)
      BY <1>1, <2>1 DEF RInv, SortInv
    <3>3. CASE KeyOf(u) \in keys
      <4> DEFINE os == Passed(p, keys)
      <4>1. index'[KeyOf(u)] = UpdateIndex(d, ix) /\ p \in HeadPreds(x.stm)
        BY <1>1, <1>2, <3>3
      <4>2. dom'[p] = EnqueueDomain(MarkDelayed(d, os))
        BY <1>1, <3>1, <4>1
      <4>3. \A o \in Offsets(d) : o > ix.imported => o \in os
        BY <3>3 DEF Passed
      <4>4. \A o \in Offsets(d) : d.atoms[o].gen <= d.generation + 2
        BY <1>1, <3>1 DEF HInv, GenInv
      <4> HIDE DEF p, d, ix, os
      <4>5. Sorted(EnqueueDomain(MarkDelayed(d, os)), UpdateIndex(d, ix))
        BY <3>1, <3>2, <4>3, <4>4, SortedUpdate
      <4>. QED  BY <4>1, <4>2, <4>5 DEF p
    <3>4. CASE KeyOf(u) \notin keys
      <4> DEFINE e == dom'[p]
      <4>1. index'[KeyOf(u)] = ix
        BY <1>1, <3>1, <3>4
      <4>2. DP!KeepsGenerations(d, e) /\ Becomes(p, d, e, {})
        <5>1. /\ Becomes(p, d, e, {}) /\ Offsets(e) = Offsets(d) /\ e.generation = d.generation
              /\ \A o \in Offsets(d) : e.atoms[o].gen = d.atoms[o].gen
          BY <1>3, <3>1
        <5>2. DP!Offsets(d) = Offsets(d) /\ DP!Offsets(e) = Offsets(e)
          BY SameLookups
        <5> HIDE DEF e, d, p
        <5>. QED  BY <5>1, <5>2 DEF DP!KeepsGenerations
      <4> HIDE DEF p, d, ix, e
      <4>3. Sorted(e, ix)
        BY <3>1, <3>2, <4>2, SortedKept
      <4>. QED  BY <4>1, <4>3 DEF e, p
    <3>. QED  BY <3>3, <3>4
  <2>. QED  BY <1>4, <2>1 DEF SortInv, CompPreds
<1>. QED  BY <1>7, <1>8, <1>9 DEF RInv

LEMMA OutsideRStep ==
  ASSUME pc' \notin {"process", "iterate"}
  PROVE  RInv'
BY DEF RInv, NextInv, NowInv, SortInv

LEMMA InitRInv == Init => RInv
BY DEF Init, RInv, NextInv, NowInv, SortInv

LEMMA RInvStep ==
  ASSUME GInv, LInv, HInv, NInv, RInv, [Next]_vars
  PROVE  RInv'
<1>1. GInv' /\ LInv' /\ HInv' /\ CompInv
  BY GInvStep, LInvStep, HInvStep DEF NInv
<1>2. CASE \/ UNCHANGED vars
           \/ \E x \in current : RunInstantiator(x)
           \/ \E i \in left : TryInstance(i) \/ Backjump(i)
           \/ MatchNegative \/ Mismatch
           \/ ReportBody \/ ReportHead \/ ReportRule
  <2>1. /\ CalmWork
        /\ UNCHANGED <<program, step, done, comp, insts, agenda, index, queued, ran, pc>>
    BY <1>2, WorkCalm
  <2>. QED  BY Zenon, <1>1, <2>1, CalmRStep
<1>3. CASE BeginAddBackend \/ BeginPrepare \/ Prepared \/ NextCall \/ Return
  <2>1. pc' \notin {"process", "iterate"}
    BY <1>3 DEF BeginAddBackend, BeginPrepare, Prepared, NextCall, Return
  <2>. QED  BY <2>1, OutsideRStep
<1>4. CASE \/ \E s \in todo : AddAtom(s) \/ DefineFact(s)
           \/ \E c \in {deps[s].comp : s \in DOMAIN deps} : StartComponent(c)
           \/ EndComponent
  <2>1. pc' \notin {"process", "iterate"}
    BY <1>4 DEF AddAtom, DefineFact, StartComponent, EndComponent
  <2>. QED  BY <2>1, OutsideRStep
<1>5. CASE (\E s \in comp : Linearize(s)) \/ RegisterLiteral
  <2>1. pc' \notin {"process", "iterate"}
    BY Zenon, <1>5 DEF Linearize, RegisterLiteral
  <2>. QED  BY <2>1, OutsideRStep
<1>6. CASE EnqueueComponent \/ BeginIteration \/ EndIteration
  BY <1>1, <1>6, EnqueueComponentRStep, BeginIterationRStep, EndIterationRStep
<1>7. CASE \E x \in ran : Propagate(x)
  BY <1>1, <1>7, PropagateRStep
<1>. QED  BY Zenon, <1>2, <1>3, <1>4, <1>5, <1>6, <1>7 DEF Next

-----------------------------------------------------------------------------
(* What fits an instantiator is matched by it *)

(* A recursive literal, ... *)
LEMMA RecursiveMatches ==
  ASSUME GInv, LInv, HInv, CompInv, SortInv, pc = "iterate",
         NEW x \in insts, NEW i \in Instances(x.stm), Fits(x, i), NEW k \in Recursive(x.stm)
  PROVE  Matches(x, k, BodySym(x.stm, i, k))
<1> DEFINE s == BodySym(x.stm, i, k)
           p == LitPred(x.stm, k)
           d == dom[p]
           b == x.binders[k]
           ix == index[b.key]
           t == x.types[k]
<1>1. /\ x.stm \in comp /\ IsInstantiator(x) /\ agenda = {}
  BY DEF GInv, QueueInv, LInv, RegInv
<1>2. /\ k \in Positive(x.stm) /\ p \in CompPreds /\ p \in Preds /\ PredOf(s) = p
      /\ s \in LitSyms(x.stm, k)
  BY <1>1, RecursiveLiteral
<1>3. t \in {"NEW", "OLD", "ALL"}
  BY <1>1, <1>2, LiteralTypes
<1>4. DomainOK(p, d) /\ d.generation \in Nat /\ \A o \in Offsets(d) : d.atoms[o].gen \in Nat
  BY <1>2, DomainParts DEF GInv, DomInv, DomainOK
<1>5. \/ b.kind = "index" /\ b.key \in DOMAIN index /\ KeyPred(b.key) = p
      \/ b.kind = "posmatcher"
  BY <1>1, RecursiveBinder
<1>6. /\ IsOld(s) \/ IsNow(s)
      /\ t = "NEW" => IsNow(s)
      /\ t = "OLD" => IsOld(s)
  BY DEF Fits, Visible
<1>7. \E o \in Offsets(d) :
        /\ d.atoms[o].sym = s /\ d.atoms[o].gen \in 1..d.generation + 1
        /\ t = "NEW" => d.atoms[o].gen = d.generation + 1
        /\ t = "OLD" => d.atoms[o].gen <= d.generation
  <2>1. IsOld(s) = OldIn(d, s) /\ IsNow(s) = NowIn(d, s)
    BY <1>2 DEF IsOld, IsNow
  <2> HIDE DEF s, d, t
  <2>2. CASE OldIn(d, s) /\ t # "NEW"
    <3>1. PICK o \in Offsets(d) : d.atoms[o].sym = s /\ d.atoms[o].gen \in 1..d.generation
      BY <2>2 DEF OldIn
    <3>. QED  BY <1>4, <2>2, <3>1
  <2>3. CASE NowIn(d, s) /\ t # "OLD"
    <3>1. PICK o \in Offsets(d) : d.atoms[o].sym = s /\ d.atoms[o].gen = d.generation + 1
      BY <2>3 DEF NowIn
    <3>. QED  BY <1>4, <2>3, <3>1
  <2>. QED  BY <1>6, <2>1, <2>2, <2>3
<1>8. PICK o \in Offsets(d) :
        /\ d.atoms[o].sym = s /\ d.atoms[o].gen \in 1..d.generation + 1
        /\ t = "NEW" => d.atoms[o].gen = d.generation + 1
        /\ t = "OLD" => d.atoms[o].gen <= d.generation
  BY <1>7
<1>9. CASE b.kind = "index" /\ b.key \in DOMAIN index /\ KeyPred(b.key) = p
  <2> DEFINE u == <<x, k>>
  <2>1. u \in Updaters(insts) /\ u[1] = x /\ u[2] = k /\ KeyOf(u) = b.key
    BY <1>2, <1>9 DEF Updaters, KeyOf
  <2> HIDE DEF u
  <2>2. ~IsMatcher(b.key)
    BY <1>9, <2>1, UpdaterKey
  <2>3. Sorted(d, ix)
    BY <1>2, <1>9, <2>1, <2>2 DEF SortInv
  <2>4. /\ DP!IdxOK(d, ix)
        /\ Fresh(d, ix) = MatchedBy(d, LitSyms(x.stm, k)) \ Content(ix)
    BY <1>1, <1>9, <2>1, UpdaterIndex
  <2>5. o \in Content(ix)
    <3>1. o \in MatchedBy(d, LitSyms(x.stm, k))
      BY <1>2, <1>4, <1>8 DEF MatchedBy
    <3>2. o \notin Fresh(d, ix)
      BY <1>4, <1>8, <2>3 DEF Sorted
    <3>. QED  BY <2>4, <3>1, <3>2
  <2> HIDE DEF d, ix
  <2>6. /\ d.atoms[o].gen = d.generation + 1 => o \in LookupNew(d, ix)
        /\ d.atoms[o].gen <= d.generation => o \in LookupOld(d, ix)
        /\ o \in LookupAll(ix)
    BY <1>4, <2>3, <2>4, <2>5, SortedLookups DEF LookupAll
  <2>7. o \in (CASE t = "NEW" -> LookupNew(d, ix)
                 [] t = "OLD" -> LookupOld(d, ix)
                 [] t = "ALL" -> LookupAll(ix))
    BY <1>3, <1>8, <2>6
  <2> HIDE DEF t, s
  <2>8. dom[PredOf(s)] = d
    BY <1>2 DEF d
  <2>. QED  BY Zenon, <1>8, <1>9, <2>7, <2>8 DEF Matches, t, ix, s
<1>10. CASE b.kind = "posmatcher"
  <2>1. /\ t = "NEW" => o \in MatchNew(d, {s})
        /\ t = "OLD" => o \in MatchOld(d, {s})
        /\ t = "ALL" => o \in MatchAll(d, {s})
    <3>1. /\ o \in Offsets(d) /\ d.atoms[o].sym \in {s} /\ d.atoms[o].gen > 0
          /\ d.atoms[o].gen - 1 <= d.generation
          /\ t = "NEW" => d.atoms[o].gen - 1 = d.generation
          /\ t = "OLD" => d.atoms[o].gen - 1 < d.generation
      BY <1>4, <1>8
    <3>. QED  BY <3>1 DEF MatchNew, MatchOld, MatchAll, Generation, IsDefined
  <2>2. o \in (CASE t = "NEW" -> MatchNew(d, {s})
                 [] t = "OLD" -> MatchOld(d, {s})
                 [] t = "ALL" -> MatchAll(d, {s}))
    BY <1>3, <2>1
  <2> HIDE DEF t, s, d
  <2>3. dom[PredOf(s)] = d
    BY <1>2 DEF d
  <2>4. d.atoms[o].sym = s /\ b.kind = "posmatcher"
    BY <1>8, <1>10
  <2>. QED  BY Zenon, <2>2, <2>3, <2>4 DEF Matches, t, s
<1>. QED  BY <1>5, <1>9, <1>10

(* ... and one whose symbols are all there. *)
LEMMA StaticMatches ==
  ASSUME GInv, LInv, HInv, pc = "iterate",
         NEW x \in insts, NEW i \in Instances(x.stm),
         NEW k \in Positive(x.stm), k \notin Recursive(x.stm), IsDefinedSym(BodySym(x.stm, i, k))
  PROVE  Matches(x, k, BodySym(x.stm, i, k))
<1> DEFINE s == BodySym(x.stm, i, k)
           p == PredOf(s)
           d == dom[p]
           b == x.binders[k]
           ix == index[b.key]
<1>1. /\ x.stm \in comp /\ IsInstantiator(x) /\ agenda = {} /\ x.stm \in Part.stms
      /\ k \in Body(x.stm) /\ ~IsRecursive(x.stm, k)
  BY DEF GInv, QueueInv, LInv, RegInv, CallInv, Positive, Recursive
<1>2. s \in LitSyms(x.stm, k)
  BY <1>1, StatementSyms DEF GInv
<1>3. x.types[k] = "ALL"
  BY <1>1, LiteralTypes
<1>4. b = Binder(x.stm, x.order, k)
  BY <1>1 DEF IsInstantiator
<1>5. b.kind = "index" \/ b.kind = "matcher"
  BY <1>1, <1>4 DEF Binder
<1>6. PICK o \in Offsets(d) : d.atoms[o].sym = s /\ d.atoms[o].gen > 0
  BY FindContained DEF IsDefinedSym, Has, AtomOf
<1>7. CASE b.kind = "index"
  <2> DEFINE u == <<x, k>>
  <2>1. u \in Updaters(insts) /\ u[1] = x /\ u[2] = k /\ KeyOf(u) = b.key
    BY <1>7 DEF Updaters, KeyOf
  <2> HIDE DEF u
  <2>2. /\ KeyPred(b.key) = p /\ ~IsMatcher(b.key)
        /\ Fresh(d, ix) = MatchedBy(d, LitSyms(x.stm, k)) \ Content(ix)
    <3>1. u \in Updaters(insts) \ agenda
      BY <1>1, <2>1
    <3>2. KeyPred(b.key) = p
      BY <1>2, <2>1, <3>1, UpdaterIndex
    <3>3. ~IsMatcher(b.key)
      BY <1>7, <2>1, UpdaterKey
    <3>4. Fresh(dom[KeyPred(b.key)], ix)
            = MatchedBy(dom[KeyPred(b.key)], LitSyms(x.stm, k)) \ Content(ix)
      BY <2>1, <3>1, UpdaterIndex
    <3>. QED  BY <3>2, <3>3, <3>4
  <2>3. o \in Content(ix)
    <3>1. o \in MatchedBy(d, LitSyms(x.stm, k))
      BY <1>2, <1>6 DEF MatchedBy
    <3>2. o \notin Fresh(d, ix)
      <4> SUFFICES ASSUME o \in Fresh(d, ix) PROVE FALSE
        OBVIOUS
      <4>1. PICK y \in ran : d.atoms[o].sym \in HeadSyms(y.stm)
        BY <1>1, <2>1, <2>2 DEF HInv, FreshInv
      <4>2. y.stm \in Part.stms \ done
        BY DEF GInv, QueueInv, CallInv
      <4>. QED  BY <1>1, <1>2, <1>6, <4>1, <4>2, NotRecursive DEF GInv
    <3>. QED  BY <2>2, <3>1, <3>2
  <2>4. o \in LookupAll(ix) /\ b.kind = "index"
    BY <1>7, <2>3 DEF LookupAll
  <2>5. o \in (CASE x.types[k] = "NEW" -> LookupNew(d, ix)
                 [] x.types[k] = "OLD" -> LookupOld(d, ix)
                 [] x.types[k] = "ALL" -> LookupAll(ix))
    BY <1>3, <2>4
  <2>. QED  BY Zenon, <1>6, <2>4, <2>5 DEF Matches
<1>8. CASE b.kind = "matcher"
  <2>1. o \in {q \in Offsets(d) : IsDefined(d, q)}
    BY <1>6 DEF IsDefined
  <2>. QED  BY Zenon, <1>6, <1>8, <2>1 DEF Matches
<1>. QED  BY <1>5, <1>7, <1>8

-----------------------------------------------------------------------------
(* Everything that can be matched is reported *)

(* Every instance whose literals may all be true, ... *)
Open(stm, i) ==
  \A k \in Body(stm) :
    LET s == BodySym(stm, i, k)
    IN IF Statements[stm].naf[k] = "not" THEN ~IsFactSym(s)
       ELSE (k \in Positive(stm) \/ ~IsRecursive(stm, k)) => IsDefinedSym(s)

(* ... was reported, or stands behind one that was, ... *)
Covered(stm, i) ==
  \E j \in Instances(stm) :
    /\ <<stm, j>> \in matched
    /\ Heads(stm, i) = Heads(stm, j)
    /\ \A k \in Body(stm) :
         BodySym(stm, i, k) = BodySym(stm, j, k) \/ Safe(stm, k, BodySym(stm, j, k))

(* ... or is still to be tried: by an instantiator that is queued, or runs *)
(* in the iteration, or is queued by an atom of the next generation.       *)
InWork(x, i) == i \in left \/ \E w \in work : w.inst = i /\ w.stage = "match" /\ w.complete

Pending(stm, i) ==
  IF pc = "process" THEN \E x \in queued : x.stm = stm /\ Fits(x, i)
  ELSE \/ ~Visible(stm, i)
       \/ \E x \in current : x.stm = stm /\ Fits(x, i)
       \/ \E x \in running : x.stm = stm /\ Fits(x, i) /\ InWork(x, i)

PendingInv ==
  pc \in {"process", "iterate"} =>
    \A stm \in comp : \A i \in Instances(stm) :
      Open(stm, i) => Covered(stm, i) \/ Pending(stm, i)

DoneCovered ==
  \A stm \in done : \A i \in Instances(stm) : Open(stm, i) => Covered(stm, i)

CInv == PendingInv /\ DoneCovered

LEMMA FitsMatches ==
  ASSUME GInv, LInv, HInv, CompInv, SortInv, pc = "iterate",
         NEW x \in insts, NEW i \in Instances(x.stm), Fits(x, i), Open(x.stm, i)
  PROVE  Fails(x, i) = {}
<1>1. ASSUME NEW k \in Positive(x.stm) PROVE Matches(x, k, BodySym(x.stm, i, k))
  <2>1. CASE k \in Recursive(x.stm)
    BY <2>1, RecursiveMatches
  <2>2. CASE k \notin Recursive(x.stm)
    <3>1. IsDefinedSym(BodySym(x.stm, i, k))
      BY DEF Open, Positive
    <3>. QED  BY <2>2, <3>1, StaticMatches
  <2>. QED  BY <2>1, <2>2
<1>. QED  BY <1>1 DEF Fails

(* What is covered stays it, ... *)
LEMMA CoveredStays ==
  ASSUME CallInv, NEW S, NEW F, Effect(S, F), UNCHANGED <<program, step>>, done \subseteq done',
         closed \subseteq closed', matched \subseteq matched',
         NEW stm \in Part.stms, NEW i \in Instances(stm), Covered(stm, i)
  PROVE  Covered(stm, i)'
<1>1. PICK j \in Instances(stm) :
        /\ <<stm, j>> \in matched
        /\ Heads(stm, i) = Heads(stm, j)
        /\ \A k \in Body(stm) :
             BodySym(stm, i, k) = BodySym(stm, j, k) \/ Safe(stm, k, BodySym(stm, j, k))
  BY DEF Covered
<1>2. ASSUME NEW k \in Body(stm), Safe(stm, k, BodySym(stm, j, k))
      PROVE  Safe(stm, k, BodySym(stm, j, k))'
  <2>1. BodySym(stm, j, k) \in UsedSyms
    BY StatementSyms
  <2>2. Part' = Part
    BY DEF Part
  <2>3. IsRecursive(stm, k)' => IsRecursive(stm, k)
    BY <2>2 DEF IsRecursive, DefinedBy
  <2>4. IsFactSym(BodySym(stm, j, k)) => IsFactSym(BodySym(stm, j, k))'
    BY <2>1 DEF Effect
  <2>. QED  BY <1>2, <2>3, <2>4 DEF Safe
<1>3. \A k \in Body(stm) :
        BodySym(stm, i, k) = BodySym(stm, j, k) \/ Safe(stm, k, BodySym(stm, j, k))'
  BY <1>1, <1>2
<1>. QED  BY <1>1, <1>3 DEF Covered

(* ... and what is open was it before, as far as it does not depend on     *)
(* statements that are still to be grounded.                               *)
LEMMA OpenBack ==
  ASSUME GInv, NEW S, NEW F, Effect(S, F), UNCHANGED <<program, step, done>>,
         \A s \in S : \E t \in Part.stms \ done : s \in HeadSyms(t),
         NEW stm \in Part.stms, NEW i \in Instances(stm), Open(stm, i)',
         \A k \in Recursive(stm) : IsDefinedSym(BodySym(stm, i, k))
  PROVE  Open(stm, i)
<1>1. ASSUME NEW k \in Body(stm)
      PROVE  LET s == BodySym(stm, i, k)
             IN IF Statements[stm].naf[k] = "not" THEN ~IsFactSym(s)
                ELSE (k \in Positive(stm) \/ ~IsRecursive(stm, k)) => IsDefinedSym(s)
  <2> DEFINE s == BodySym(stm, i, k)
  <2>1. s \in UsedSyms /\ s \in LitSyms(stm, k)
    BY StatementSyms DEF GInv
  <2>2. IsRecursive(stm, k)' = IsRecursive(stm, k)
    BY SameRecursion
  <2>3. CASE Statements[stm].naf[k] = "not"
    <3>1. ~IsFactSym(s)'
      BY <2>3 DEF Open
    <3>2. ~IsFactSym(s)
      BY <2>1, <3>1 DEF Effect
    <3>. QED  BY <2>3, <3>2
  <2>4. CASE Statements[stm].naf[k] # "not" /\ ~IsRecursive(stm, k)
    <3>1. IsDefinedSym(s)'
      BY <2>2, <2>4 DEF Open
    <3>2. s \notin S
      BY <2>1, <2>4, NotRecursive DEF GInv
    <3>3. IsDefinedSym(s)
      BY <2>1, <3>1, <3>2 DEF Effect
    <3>. QED  BY <2>4, <3>3
  <2>5. CASE Statements[stm].naf[k] # "not" /\ IsRecursive(stm, k)
    BY <2>5 DEF Recursive
  <2>. QED  BY <2>3, <2>4, <2>5
<1>. QED  BY <1>1 DEF Open

(* The atoms that can be matched could be before a step that keeps their   *)
(* generations.                                                            *)
LEMMA VisibleBack ==
  ASSUME GInv, NEW S, UNCHANGED <<program, step, done>>,
         \A p \in Preds : Becomes(p, dom[p], dom'[p], S) /\ DP!KeepsGenerations(dom[p], dom'[p]),
         NEW stm \in comp, NEW i \in Instances(stm), Visible(stm, i)'
  PROVE  /\ Visible(stm, i)
         /\ \A k \in Recursive(stm) : IsDefinedSym(BodySym(stm, i, k))
<1>1. stm \in Part.stms /\ Recursive(stm)' = Recursive(stm)
  BY SameRecursion DEF GInv, CallInv, Recursive
<1>2. ASSUME NEW k \in Recursive(stm)
      PROVE  LET s == BodySym(stm, i, k) IN (IsOld(s) \/ IsNow(s)) /\ IsDefinedSym(s)
  <2> DEFINE s == BodySym(stm, i, k)
             p == PredOf(s)
             d == dom[p]
             e == dom'[p]
  <2>1. s \in UsedSyms /\ p \in Preds
    BY <1>1, <1>2, StatementSyms, SymPred DEF GInv, Recursive, Positive
  <2>2. DomainOK(p, d) /\ Becomes(p, d, e, S) /\ DP!KeepsGenerations(d, e)
    BY <2>1 DEF GInv, DomInv
  <2>3. OldIn(e, s) \/ NowIn(e, s)
    BY <1>1, <1>2 DEF Visible, IsOld, IsNow
  <2> HIDE DEF s, p, d, e
  <2>4. e.generation = d.generation /\ d.generation \in Nat
    BY <2>2, KeptGens
  <2>5. PICK o \in Offsets(e) : e.atoms[o].sym = s /\ e.atoms[o].gen \in 1..e.generation + 1
    BY <2>3, <2>4 DEF OldIn, NowIn
  <2>6. o \in Offsets(d) /\ e.atoms[o].gen = d.atoms[o].gen
    BY <2>2, <2>4, <2>5, KeptGens
  <2>7. d.atoms[o].sym = s /\ d.atoms[o].gen \in 1..d.generation + 1
    BY <2>2, <2>4, <2>5, <2>6, KeptGens
  <2>8. OldIn(d, s) \/ NowIn(d, s)
    BY <2>4, <2>6, <2>7 DEF OldIn, NowIn
  <2>9. DefinedIn(d, s)
    BY <2>4, <2>6, <2>7 DEF DefinedIn
  <2>. QED  BY <2>1, <2>8, <2>9, SymLookups DEF GInv, IsOld, IsNow, s, p, d
<1>. QED  BY <1>2 DEF Visible

(* What the steps of an instance define are heads of the component. *)
EffectWork ==
  \E S, F : Effect(S, F) /\ \A s \in S : \E t \in Part.stms \ done : s \in HeadSyms(t)

LEMMA WorkEffect ==
  ASSUME GInv, GInv', LInv, HInv,
         \/ UNCHANGED vars
         \/ \E x \in current : RunInstantiator(x)
         \/ \E i \in left : TryInstance(i) \/ Backjump(i)
         \/ MatchNegative \/ Mismatch
         \/ ReportBody \/ ReportHead \/ ReportRule
  PROVE  EffectWork
<1>1. CASE ReportHead
  <2>1. PICK x \in running, w \in work : \E s \in HeadSyms(x.stm) : ReportsHead(x, w, s)
    BY <1>1, ReportHeadWork
  <2>2. PICK s \in HeadSyms(x.stm) : ReportsHead(x, w, s)
    BY <2>1
  <2>3. x.stm \in Part.stms \ done
    BY DEF GInv, QueueInv, CallInv
  <2>4. Effect({s}, {}) /\ \A q \in {s} : \E t \in Part.stms \ done : q \in HeadSyms(t)
    BY <2>2, <2>3 DEF ReportsHead
  <2>. QED  BY <2>4 DEF EffectWork
<1>2. CASE ReportRule
  BY Zenon, <1>2, ReportRuleWork DEF ReportsRule, EffectWork
<1>3. CASE ~ReportHead /\ ~ReportRule
  <2>1. Effect({}, {})
    BY <1>3, NoEffect
  <2>. QED  BY <2>1 DEF EffectWork
<1>. QED  BY <1>1, <1>2, <1>3

(* An instance that is left behind by a step was to be tried. *)
ToTry(x, i) == x \in current \/ (x \in running /\ InWork(x, i))

LEMMA PendingKept ==
  ASSUME GInv, GInv', NInv, PendingInv, CalmWork, EffectWork, pc = "iterate",
         UNCHANGED <<program, step, done, comp, pc>>, closed \subseteq closed', matched \subseteq matched',
         NEW stm \in comp, NEW i \in Instances(stm),
         Open(stm, i)', ~Covered(stm, i)', ~Pending(stm, i)'
  PROVE  /\ Open(stm, i) /\ ~Covered(stm, i)
         /\ \E x \in current \union running :
              x.stm = stm /\ Fits(x, i) /\ ToTry(x, i) /\ ~ToTry(x, i)'
<1>1. PICK S : DomainsCalm(S)
  BY DEF CalmWork
<1>2. PICK T, F : Effect(T, F) /\ \A s \in T : \E t \in Part.stms \ done : s \in HeadSyms(t)
  BY DEF EffectWork
<1>3. Visible(stm, i)'
  BY DEF Pending
<1>4. Visible(stm, i) /\ \A k \in Recursive(stm) : IsDefinedSym(BodySym(stm, i, k))
  BY <1>1, <1>3, VisibleBack DEF DomainsCalm, Calm
<1>5. stm \in Part.stms
  BY DEF GInv, CallInv
<1>6. Open(stm, i)
  BY <1>2, <1>4, <1>5, OpenBack
<1>7. ~Covered(stm, i)
  BY <1>2, <1>5, CoveredStays DEF GInv
<1>8. Pending(stm, i)
  BY <1>6, <1>7 DEF PendingInv
<1>9. \/ \E x \in current : x.stm = stm /\ Fits(x, i)
      \/ \E x \in running : x.stm = stm /\ Fits(x, i) /\ InWork(x, i)
  BY <1>4, <1>8 DEF Pending
<1>10. PICK x \in current \union running : x.stm = stm /\ Fits(x, i) /\ ToTry(x, i)
  BY <1>9 DEF ToTry
<1>11. Fits(x, i)'
  BY <1>1, <1>10, GensLast
<1>12. ~ToTry(x, i)'
  <2>1. \A y : y.stm = stm /\ Fits(y, i)' => y \notin current' /\ ~(y \in running' /\ InWork(y, i)')
    BY DEF Pending
  <2>. QED  BY <1>10, <1>11, <2>1 DEF ToTry
<1>. QED  BY <1>6, <1>7, <1>10, <1>12

(* No step of an instance leaves one behind. *)
LEMMA RunLeaves ==
  ASSUME GInv, LInv, HInv, CompInv, SortInv, NEW y \in current, RunInstantiator(y),
         NEW x \in current \union running, NEW i \in Instances(x.stm),
         Open(x.stm, i), Fits(x, i), ToTry(x, i)
  PROVE  ToTry(x, i)'
<1>1. /\ pc = "iterate" /\ left = {} /\ work = {}
      /\ current' = current \ {y} /\ running' = {y} /\ left' = Tried(y)
  BY DEF RunInstantiator
<1>2. x \in current
  BY <1>1 DEF ToTry, InWork
<1>3. CASE x # y
  BY <1>1, <1>2, <1>3 DEF ToTry
<1>4. CASE x = y
  <2>1. x \in insts
    BY <1>2 DEF GInv, QueueInv
  <2>2. Fails(x, i) = {}
    BY <1>1, <2>1, FitsMatches
  <2>3. i \in left'
    BY <1>1, <1>4, <2>2 DEF Tried
  <2>. QED  BY <1>1, <1>4, <2>3 DEF ToTry, InWork
<1>. QED  BY <1>3, <1>4

LEMMA TryLeaves ==
  ASSUME GInv, LInv, HInv, CompInv, SortInv, NEW j \in left, TryInstance(j),
         NEW x \in current \union running, NEW i \in Instances(x.stm),
         Open(x.stm, i), Fits(x, i), ToTry(x, i)
  PROVE  ToTry(x, i)'
<1>1. work = {} /\ left' = left \ {j} /\ UNCHANGED <<current, running>>
  BY DEF TryInstance, queueVars
<1>2. CASE x \in current
  BY <1>1, <1>2 DEF ToTry
<1>3. CASE x \in running /\ i \in left /\ i # j
  BY <1>1, <1>3 DEF ToTry, InWork
<1>4. CASE x \in running /\ i = j
  <2>1. PICK y \in running : Tries(y, i)
    BY <1>4, TryWork
  <2>2. y = x /\ x \in insts /\ pc = "iterate"
    BY <1>4 DEF GInv, QueueInv, PhaseInv
  <2>3. Fails(x, i) = {}
    BY <2>2, FitsMatches
  <2>4. \A v \in work' : v.inst = i /\ v.stage = "match" /\ v.complete
    BY <2>1, <2>2, <2>3 DEF Tries
  <2>5. work' # {}
    BY Zenon, <1>4 DEF TryInstance
  <2>6. InWork(x, i)'
    BY <2>4, <2>5 DEF InWork
  <2>. QED  BY <1>1, <1>4, <2>6 DEF ToTry
<1>. QED  BY <1>1, <1>2, <1>3, <1>4 DEF ToTry, InWork

LEMMA BackjumpLeaves ==
  ASSUME GInv, SeenInv, NEW j \in left, Backjump(j),
         NEW x \in current \union running, NEW i \in Instances(x.stm),
         ~Covered(x.stm, i), ToTry(x, i)
  PROVE  ToTry(x, i)'
<1>1. work = {} /\ left' = left \ {j} /\ UNCHANGED <<current, running, work>>
  BY DEF Backjump, queueVars
<1>2. CASE x \in current
  BY <1>1, <1>2 DEF ToTry
<1>3. CASE x \in running /\ i \in left /\ i # j
  BY <1>1, <1>3 DEF ToTry, InWork
<1>4. CASE x \in running /\ i = j
  <2>1. PICK y \in running, q \in seen :
          /\ Heads(y.stm, j) = Heads(y.stm, q)
          /\ \A k \in y.important : BodySym(y.stm, j, k) = BodySym(y.stm, q, k)
    BY DEF Backjump
  <2>2. y = x
    BY <1>4 DEF GInv, QueueInv
  <2>3. /\ <<x.stm, q>> \in matched /\ q \in Instances(x.stm)
        /\ \A k \in Body(x.stm) \ x.important : Safe(x.stm, k, BodySym(x.stm, q, k))
    BY <2>2 DEF SeenInv, SeenOK
  <2>4. Covered(x.stm, i)
    BY <1>4, <2>1, <2>2, <2>3 DEF Covered
  <2>. QED  BY <2>4
<1>. QED  BY <1>1, <1>2, <1>3, <1>4 DEF ToTry, InWork

LEMMA NegativeLeaves ==
  ASSUME GInv, AInv, MatchNegative,
         NEW x \in current \union running, NEW i \in Instances(x.stm),
         Open(x.stm, i), ToTry(x, i)
  PROVE  ToTry(x, i)'
<1>1. UNCHANGED <<current, running, left>>
  BY DEF MatchNegative, queueVars
<1>2. CASE x \in current \/ (x \in running /\ i \in left)
  BY <1>1, <1>2 DEF ToTry, InWork
<1>3. CASE x \in running /\ \E w \in work : w.inst = i /\ w.stage = "match" /\ w.complete
  <2>1. PICK y \in running, w \in work : \E k \in w.probes : LooksUp(y, w, k)
    BY MatchNegativeWork
  <2>2. PICK k \in w.probes : LooksUp(y, w, k)
    BY <2>1
  <2>3. y = x /\ w.inst = i /\ w.complete
    BY <1>3 DEF GInv, QueueInv, AInv, SingleWork
  <2>4. k \in Negative(x.stm) /\ k \in Body(x.stm) /\ Statements[x.stm].naf[k] # "pos"
    BY <2>2, <2>3 DEF LooksUp, Negative, Positive
  <2>5. IsFound(x, k, BodySym(x.stm, i, k))
    BY <2>4 DEF Open, IsFound
  <2>6. /\ work' # {}
        /\ \A v \in work' : v.inst = i /\ v.stage = "match" /\ v.complete
    BY Zenon, <2>2, <2>3, <2>5 DEF LooksUp
  <2>7. InWork(x, i)'
    BY <2>6 DEF InWork
  <2>. QED  BY <1>1, <1>3, <2>7 DEF ToTry
<1>. QED  BY <1>2, <1>3 DEF ToTry, InWork

LEMMA BodyLeaves ==
  ASSUME GInv, AInv, ReportBody,
         NEW x \in current \union running, NEW i \in Instances(x.stm),
         ~Covered(x.stm, i)', ToTry(x, i)
  PROVE  ToTry(x, i)'
<1>1. UNCHANGED <<current, running, left>>
  BY Zenon DEF ReportBody, queueVars
<1>2. CASE x \in current \/ (x \in running /\ i \in left)
  BY <1>1, <1>2 DEF ToTry, InWork
<1>3. CASE x \in running /\ \E w \in work : w.inst = i
  <2>1. PICK y \in running, w \in work : ReportsBody(y, w)
    BY ReportBodyWork
  <2>2. y = x /\ w.inst = i
    BY <1>3 DEF GInv, QueueInv, AInv, SingleWork
  <2>3. <<x.stm, i>> \in matched'
    BY <2>1, <2>2 DEF ReportsBody
  <2>4. Covered(x.stm, i)'
    BY <2>3 DEF Covered
  <2>. QED  BY <2>4
<1>. QED  BY <1>2, <1>3 DEF ToTry, InWork

(* What is no instance to be matched does not matter. *)
LEMMA OtherLeaves ==
  ASSUME GInv, AInv, UNCHANGED vars \/ Mismatch \/ ReportHead \/ ReportRule,
         NEW x \in current \union running, NEW i \in Instances(x.stm), ToTry(x, i)
  PROVE  ToTry(x, i)'
<1>1. UNCHANGED <<current, running, left>>
  BY Zenon DEF vars, queueVars, instVars, Mismatch, ReportHead, ReportRule
<1>2. work' = work \/ \A w \in work : ~(w.stage = "match" /\ w.complete)
  <2>1. CASE UNCHANGED vars
    BY <2>1 DEF vars, instVars
  <2>2. CASE Mismatch
    BY <2>2 DEF Mismatch, AInv, SingleWork
  <2>3. CASE ReportHead \/ ReportRule
    <3>1. PICK w \in work : w.stage = "head"
      BY Zenon, <2>3 DEF ReportHead, ReportRule
    <3>2. \A v \in work : v.stage = "head"
      BY <3>1 DEF AInv, SingleWork
    <3>. QED  BY <3>2
  <2>. QED  BY <2>1, <2>2, <2>3
<1>3. InWork(x, i) => InWork(x, i)'
  BY <1>1, <1>2 DEF InWork
<1>. QED  BY <1>1, <1>3 DEF ToTry

LEMMA WorkPending ==
  ASSUME GInv, LInv, HInv, NInv, AInv, SeenInv, RInv, PendingInv,
         \/ UNCHANGED vars
         \/ \E x \in current : RunInstantiator(x)
         \/ \E i \in left : TryInstance(i) \/ Backjump(i)
         \/ MatchNegative \/ Mismatch
         \/ ReportBody \/ ReportHead \/ ReportRule,
         GInv', pc = "iterate"
  PROVE  PendingInv'
<1>1. /\ CalmWork /\ EffectWork
      /\ UNCHANGED <<program, step, done, comp, pc>>
  BY WorkCalm, WorkEffect
<1>2. closed \subseteq closed' /\ matched \subseteq matched'
  <2>1. CASE MatchNegative
    <3>1. closed \subseteq closed'
      <4>1. PICK x \in running, w \in work : \E k \in w.probes : LooksUp(x, w, k)
        BY <2>1, MatchNegativeWork
      <4>. QED  BY <4>1 DEF LooksUp
    <3>. QED  BY <2>1, <3>1 DEF MatchNegative
  <2>2. CASE ~MatchNegative
    BY Zenon, <2>2 DEF vars, history, RunInstantiator, TryInstance, Backjump, Mismatch, ReportBody,
          ReportHead, ReportRule
  <2>. QED  BY <2>1, <2>2
<1>3. ASSUME NEW stm \in comp, NEW i \in Instances(stm),
             Open(stm, i)', ~Covered(stm, i)', ~Pending(stm, i)'
      PROVE  FALSE
  <2>1. /\ Open(stm, i) /\ ~Covered(stm, i)
        /\ \E x \in current \union running :
             x.stm = stm /\ Fits(x, i) /\ ToTry(x, i) /\ ~ToTry(x, i)'
    BY <1>1, <1>2, <1>3, PendingKept
  <2>2. PICK x \in current \union running :
          x.stm = stm /\ Fits(x, i) /\ ToTry(x, i) /\ ~ToTry(x, i)'
    BY <2>1
  <2>3. CompInv /\ SortInv
    BY DEF NInv, RInv
  <2>. QED  BY <1>3, <2>1, <2>2, <2>3, RunLeaves, TryLeaves, BackjumpLeaves, NegativeLeaves, BodyLeaves,
                OtherLeaves
<1>. QED  BY <1>1, <1>3 DEF PendingInv

(* As long as the domains are left alone, nothing opens or fits. *)
LEMMA SameOpen ==
  ASSUME UNCHANGED <<program, step, done, dom>>
  PROVE  \A stm, i : /\ Open(stm, i)' <=> Open(stm, i)
                     /\ Visible(stm, i)' <=> Visible(stm, i)
                     /\ \A x : x.stm = stm => (Fits(x, i)' <=> Fits(x, i))
<1>1. \A stm, k : IsRecursive(stm, k)' <=> IsRecursive(stm, k)
  BY SameRecursion
<1>2. \A s : /\ IsFactSym(s)' <=> IsFactSym(s)
             /\ IsDefinedSym(s)' <=> IsDefinedSym(s)
             /\ IsOld(s)' <=> IsOld(s)
             /\ IsNow(s)' <=> IsNow(s)
  BY DEF IsFactSym, IsDefinedSym, Has, AtomOf, IsOld, IsNow
<1>3. \A stm : Recursive(stm)' = Recursive(stm)
  BY <1>1 DEF Recursive
<1>4. \A stm, i : Open(stm, i)' <=> Open(stm, i)
  BY <1>1, <1>2 DEF Open
<1>5. \A stm, i : Visible(stm, i)' <=> Visible(stm, i)
  BY <1>2, <1>3 DEF Visible
<1>6. \A x, i : Fits(x, i)' <=> Fits(x, i)
  BY <1>2, <1>3, <1>5 DEF Fits
<1>. QED  BY <1>4, <1>5, <1>6

(* An iteration begins with what is queued, ... *)
LEMMA BeginIterationPending ==
  ASSUME GInv, PendingInv, BeginIteration
  PROVE  PendingInv'
<1>1. /\ pc = "process" /\ pc' = "iterate" /\ current' = queued
      /\ UNCHANGED <<program, step, done, comp, dom, closed, matched>>
  BY DEF BeginIteration, callVars, compVars, history
<1>2. Effect({}, {})
  BY <1>1, SameEffect DEF GInv
<1>3. ASSUME NEW stm \in comp, NEW i \in Instances(stm), Open(stm, i)'
      PROVE  Covered(stm, i)' \/ Pending(stm, i)'
  <2>1. Open(stm, i)
    BY <1>1, <1>3, SameOpen
  <2>2. CASE Covered(stm, i)
    <3>1. stm \in Part.stms /\ CallInv
      BY DEF GInv, CallInv
    <3>. QED  BY <1>1, <1>2, <2>2, <3>1, CoveredStays
  <2>3. CASE ~Covered(stm, i)
    <3>1. PICK x \in queued : x.stm = stm /\ Fits(x, i)
      BY <1>1, <2>1, <2>3 DEF PendingInv, Pending
    <3>2. Fits(x, i)'
      BY <1>1, <3>1, SameOpen
    <3>3. pc' # "process"
      BY <1>1
    <3>. QED  BY <1>1, <3>1, <3>2, <3>3 DEF Pending
  <2>. QED  BY <2>2, <2>3
<1>. QED  BY <1>1, <1>3 DEF PendingInv

(* ... and a head that propagates leaves what is visible as it is. *)
LEMMA PropagatePending ==
  ASSUME GInv, GInv', LInv, HInv, PendingInv, NEW y \in ran, Propagate(y)
  PROVE  PendingInv'
<1>1. /\ pc = "iterate" /\ pc' = "iterate" /\ current = {} /\ left = {} /\ work = {}
      /\ UNCHANGED <<program, step, done, comp, closed, matched>>
  BY DEF Propagate, callVars, compVars, history
<1>2. Effect({}, {})
  BY NoEffect
<1>3. \A p \in Preds : Becomes(p, dom[p], dom'[p], {}) /\ DP!KeepsGenerations(dom[p], dom'[p])
  <2>1. ASSUME NEW p \in Preds
        PROVE  Becomes(p, dom[p], dom'[p], {}) /\ DP!KeepsGenerations(dom[p], dom'[p])
    <3> DEFINE d == dom[p]
               e == dom'[p]
    <3>1. DomainOK(p, d)
      BY DEF GInv, DomInv
    <3>2. \/ e = d
          \/ e = EnqueueDomain(MarkDelayed(d, Passed(p, PropKeys(y.stm))))
      BY PropagateEffect
    <3> HIDE DEF d, e
    <3>3. Becomes(p, d, d, {})
      BY Zenon, <3>1, CounterSteps
    <3>4. /\ Becomes(p, d, e, {}) /\ Offsets(e) = Offsets(d) /\ e.generation = d.generation
          /\ \A o \in Offsets(d) : e.atoms[o].gen = d.atoms[o].gen
      BY <3>1, <3>2, <3>3, EnqueuedDomain
    <3>5. DP!Offsets(d) = Offsets(d) /\ DP!Offsets(e) = Offsets(e)
      BY SameLookups
    <3>6. DP!KeepsGenerations(d, e)
      BY <3>4, <3>5 DEF DP!KeepsGenerations
    <3>. QED  BY <3>4, <3>6 DEF d, e
  <2>. QED  BY <2>1
<1>4. ASSUME NEW stm \in comp, NEW i \in Instances(stm), Open(stm, i)', Visible(stm, i)'
      PROVE  Covered(stm, i)'
  <2>1. Visible(stm, i) /\ \A k \in Recursive(stm) : IsDefinedSym(BodySym(stm, i, k))
    BY <1>1, <1>3, <1>4, VisibleBack
  <2>2. stm \in Part.stms /\ CallInv
    BY DEF GInv, CallInv
  <2>3. Open(stm, i)
    BY <1>1, <1>2, <1>4, <2>1, <2>2, OpenBack
  <2>4. Covered(stm, i)
    BY <1>1, <2>1, <2>3 DEF PendingInv, Pending, InWork
  <2>. QED  BY <1>1, <1>2, <2>2, <2>4, CoveredStays
<1>5. pc' # "process"
  BY <1>1
<1>. QED  BY <1>1, <1>4, <1>5 DEF PendingInv, Pending

(* Of the recursive literals that are new the first one has an             *)
(* instantiator for which it is NEW and those before it are OLD.           *)
LEMMA FirstFits ==
  ASSUME GInv, CoverInv, NEW stm \in comp, stm \in Linearized,
         NEW now, now \subseteq Recursive(stm), now # {} \/ Recursive(stm) = {}
  PROVE  \E x \in insts :
           /\ x.stm = stm
           /\ \A k \in Recursive(stm) : /\ x.types[k] = "NEW" => k \in now
                                        /\ x.types[k] = "OLD" => k \notin now
           /\ now # {} => \E k \in now : x.types[k] = "NEW"
<1> DEFINE rec == {k \in Positive(stm) : IsRecursive(stm, k)}
           types(n) == [k \in Positive(stm) |->
             IF k \notin rec \/ k > n THEN "ALL" ELSE IF k = n THEN "NEW" ELSE "OLD"]
<1>1. rec = Recursive(stm)
  BY DEF Recursive
<1>2. Recursive(stm) \subseteq Nat
  <2>1. stm \in DOMAIN Statements
    BY PartStatements DEF GInv, CallInv
  <2>2. Statements[stm].naf \in Seq({"pos", "not", "notnot"})
    BY <2>1, StatementsAssumption
  <2>3. Body(stm) \subseteq Nat
    BY <2>2 DEF Body
  <2>. QED  BY <2>3 DEF Recursive, Positive
<1>3. BinderTypes(stm) = IF rec = {} THEN {types(0)} ELSE {types(n) : n \in rec}
  BY DEF BinderTypes
<1> HIDE DEF rec
<1>4. CASE Recursive(stm) = {}
  <2>1. types(0) \in BinderTypes(stm)
    BY <1>1, <1>3, <1>4
  <2>2. PICK x \in insts : x.stm = stm
    BY <2>1 DEF CoverInv
  <2>. QED  BY <1>4, <2>2
<1>5. CASE now # {}
  <2>1. PICK n \in now : \A k \in now : n <= k
    BY <1>2, <1>5, FirstNumber
  <2>2. types(n) \in BinderTypes(stm)
    BY <1>1, <1>3, <2>1
  <2>3. PICK x \in insts : x.stm = stm /\ x.types = types(n)
    BY <2>2 DEF CoverInv
  <2>4. ASSUME NEW k \in Recursive(stm)
        PROVE  x.types[k] = IF k > n THEN "ALL" ELSE IF k = n THEN "NEW" ELSE "OLD"
    BY <1>1, <2>3 DEF Recursive
  <2>5. ASSUME NEW k \in Recursive(stm)
        PROVE  /\ x.types[k] = "NEW" => k = n
               /\ x.types[k] = "OLD" => ~(n <= k)
    BY <1>2, <2>4, <2>1
  <2>6. x.types[n] = "NEW"
    BY <1>2, <2>4, <2>1
  <2>. QED  BY <2>1, <2>3, <2>5, <2>6
<1>. QED  BY <1>4, <1>5

(* When a component is enqueued all atoms are of the first generation. *)
LEMMA FirstGeneration ==
  ASSUME NEW p, NEW d, DomainOK(p, d), NEW s, DefinedIn(d, s)
  PROVE  NowIn(InitDomain(d), s)
<1> DEFINE e == InitDomain(d)
<1>1. DP!DomOK(d) /\ \A o \in Offsets(d) : d.atoms[o].gen \in Nat
  BY DomainParts DEF DomainOK
<1>2. e.generation = 0 /\ Len(e.atoms) = Len(d.atoms)
      /\ \A o \in Offsets(d) : e.atoms[o].sym = d.atoms[o].sym
  BY Zenon, <1>1, InitFields
<1>3. DP!InitDomain(d) = e /\ \A f : DP!Offsets(f) = Offsets(f)
  BY SameInit, SameLookups
<1> HIDE DEF e
<1>4. Offsets(e) = Offsets(d)
  BY <1>2 DEF Offsets
<1>5. \A o \in Offsets(d) : /\ e.atoms[o].gen > 0 <=> d.atoms[o].gen > 0
                            /\ e.atoms[o].gen <= 1
  BY <1>1, <1>3, <1>4, DP!InitDomainOK DEF DP!Grows
<1>6. DP!DomOK(e)
  BY <1>1, <1>3, DP!InitDomainOK
<1>7. \A o \in Offsets(e) : e.atoms[o].gen \in Nat
  BY <1>6, DomainParts
<1>8. PICK o \in Offsets(d) : d.atoms[o].sym = s /\ d.atoms[o].gen > 0
  BY DEF DefinedIn
<1>9. o \in Offsets(e) /\ e.atoms[o].sym = s /\ e.atoms[o].gen = e.generation + 1
  BY <1>2, <1>4, <1>5, <1>7, <1>8
<1>. QED  BY <1>9 DEF NowIn, e

LEMMA EnqueueComponentPending ==
  ASSUME GInv, GInv', LInv, HInv, NInv, AInv, EnqueueComponent
  PROVE  PendingInv'
<1>1. /\ pc = "linearize" /\ pc' = "process" /\ queued' = insts /\ Linearized = comp
      /\ UNCHANGED <<program, step, done, comp, insts>>
      /\ dom' = [p \in DOMAIN dom |-> IF p \in CompPreds THEN InitDomain(dom[p]) ELSE dom[p]]
  BY DEF EnqueueComponent, callVars, compVars
<1>2. Effect({}, {})
  BY NoEffect
<1>3. \A stm : Recursive(stm)' = Recursive(stm)
  BY <1>1, SameRecursion DEF Recursive
<1>4. ASSUME NEW stm \in comp, NEW i \in Instances(stm), Open(stm, i)'
      PROVE  Pending(stm, i)'
  <2>1. ASSUME NEW k \in Recursive(stm) PROVE IsNow(BodySym(stm, i, k))'
    <3> DEFINE s == BodySym(stm, i, k)
               p == PredOf(s)
    <3>1. /\ stm \in Part.stms /\ k \in Positive(stm) /\ k \in Body(stm)
          /\ p \in CompPreds /\ p \in Preds
      BY RecursiveLiteral DEF NInv
    <3>2. s \in UsedSyms
      BY <3>1, StatementSyms DEF GInv
    <3>3. IsDefinedSym(s)'
      BY <1>4, <3>1 DEF Open, Positive
    <3>4. DefinedIn(dom[p], s)
      BY <1>2, <3>2, <3>3, SymLookups DEF Effect, GInv
    <3>5. dom'[p] = InitDomain(dom[p]) /\ DomainOK(p, dom[p])
      BY <1>1, <3>1 DEF GInv, DomInv
    <3> HIDE DEF s, p
    <3>6. NowIn(dom'[p], s)
      BY <3>4, <3>5, FirstGeneration
    <3>. QED  BY <3>6 DEF IsNow, p, s
  <2>2. PICK x \in insts :
          /\ x.stm = stm
          /\ \A k \in Recursive(stm) : x.types[k] = "OLD" => k \notin Recursive(stm)
    <3>1. CoverInv /\ stm \in Linearized
      BY <1>1 DEF AInv, StmInv
    <3> DEFINE now == Recursive(stm)
    <3>2. now \subseteq Recursive(stm) /\ (now # {} \/ Recursive(stm) = {})
      OBVIOUS
    <3> HIDE DEF now
    <3>3. PICK x \in insts :
            /\ x.stm = stm
            /\ \A k \in Recursive(stm) : x.types[k] = "OLD" => k \notin now
      BY <3>1, <3>2, FirstFits
    <3>. QED  BY <3>3 DEF now
  <2>3. Visible(stm, i)'
    BY <1>3, <2>1 DEF Visible
  <2>4. Fits(x, i)'
    BY <1>3, <2>1, <2>2, <2>3 DEF Fits
  <2>. QED  BY <1>1, <2>2, <2>4 DEF Pending
<1>. QED  BY <1>1, <1>4 DEF PendingInv

(* The end of an iteration: what was not visible is by then, and one of    *)
(* the atoms of the next generation has queued an instantiator.            *)
LEMMA NextGenerations ==
  ASSUME GInv, HInv, NowInv, pc = "iterate", ran = {}, AdvanceEnqueuedDomains,
         NEW p \in CompPreds, NEW o \in Offsets(dom[p]), dom[p].atoms[o].gen > 0
  PROVE  LET d == dom[p]
             e == dom'[p]
             s == d.atoms[o].sym
         IN IF d.atoms[o].gen = d.generation + 2 THEN NowIn(e, s) ELSE OldIn(e, s)
<1> DEFINE d == dom[p]
           e == dom'[p]
           s == d.atoms[o].sym
<1>1. p \in Preds
  BY CompPredsOf DEF GInv
<1>2. /\ e.atoms = d.atoms /\ d.enqueued \in 0..2 /\ d.generation \in Nat
      /\ e.generation = IF d.enqueued > 0 THEN d.generation + 1 ELSE d.generation
  BY <1>1, AdvanceStep DEF GInv
<1>3. d.atoms[o].gen \in Nat /\ d.atoms[o].gen <= d.generation + 2
  <2>1. d.atoms[o].gen \in Nat
    BY <1>1, DomainParts DEF GInv, DomInv, DomainOK
  <2>. QED  BY <2>1 DEF HInv, GenInv
<1>4. Offsets(e) = Offsets(d)
  BY <1>2 DEF Offsets
<1>5. CASE d.atoms[o].gen = d.generation + 2
  <2>1. d.enqueued = 2
    BY <1>2, <1>5, OpenAtoms
  <2>2. e.atoms[o].gen = e.generation + 1
    BY <1>2, <1>5, <2>1
  <2>3. NowIn(e, s)
    BY <1>2, <1>4, <2>2 DEF NowIn
  <2>. QED  BY <1>5, <2>3
<1>6. CASE d.atoms[o].gen = d.generation + 1
  <2>1. d.enqueued >= 1
    BY <1>6 DEF NowInv
  <2>2. e.atoms[o].gen \in 1..e.generation
    BY <1>2, <1>3, <1>6, <2>1
  <2>3. OldIn(e, s)
    BY <1>2, <1>4, <2>2 DEF OldIn
  <2>4. d.atoms[o].gen # d.generation + 2
    BY <1>2, <1>6
  <2>. QED  BY <2>3, <2>4
<1>7. CASE d.atoms[o].gen <= d.generation
  <2>1. e.atoms[o].gen \in 1..e.generation
    BY <1>2, <1>3, <1>7
  <2>2. OldIn(e, s)
    BY <1>2, <1>4, <2>1 DEF OldIn
  <2>3. d.atoms[o].gen # d.generation + 2
    BY <1>2, <1>7
  <2>. QED  BY <2>2, <2>3
<1>. QED  BY <1>2, <1>3, <1>5, <1>6, <1>7

(* An atom of the next generation has queued the instantiators that are    *)
(* NEW at a literal it matches.                                            *)
LEMMA NextQueued ==
  ASSUME GInv, LInv, HInv, NInv, NextInv, pc = "iterate", ran = {},
         NEW x \in insts, NEW k \in Recursive(x.stm), x.types[k] = "NEW",
         NEW i \in Instances(x.stm),
         LET d == dom[LitPred(x.stm, k)]
         IN \E o \in Offsets(d) :
              d.atoms[o].sym = BodySym(x.stm, i, k) /\ d.atoms[o].gen = d.generation + 2
  PROVE  x \in queued
<1>1. x.stm \in comp /\ CompInv /\ agenda = {}
  BY DEF GInv, QueueInv, NInv, LInv, RegInv
<1>2. IsInstantiator(x)
  BY DEF LInv
<1>3. /\ k \in Positive(x.stm) /\ BodySym(x.stm, i, k) \in LitSyms(x.stm, k)
  BY <1>1, RecursiveLiteral
<1> DEFINE u == <<x, k>>
<1>4. u \in Updaters(insts)
  BY <1>1, <1>3, RecursiveBinder DEF Updaters
<1>5. u[1] = x /\ u[2] = k
  OBVIOUS
<1>6. KeyPred(KeyOf(u)) = LitPred(x.stm, k)
  BY <1>1, <1>4, <1>5, NewUpdater
<1> HIDE DEF u
<1>7. ASSUME x \notin queued PROVE FALSE
  <2> DEFINE d == dom[KeyPred(KeyOf(u))]
  <2>1. PICK o \in Offsets(d) :
          d.atoms[o].sym = BodySym(x.stm, i, k) /\ d.atoms[o].gen = d.generation + 2
    BY <1>6
  <2>2. d.atoms[o].sym \in LitSyms(u[1].stm, u[2])
    BY <1>3, <1>5, <2>1
  <2>3. \E y \in ran : d.atoms[o].sym \in HeadSyms(y.stm)
    BY <1>4, <1>5, <1>7, <2>1, <2>2 DEF NextInv
  <2>. QED  BY <2>3
<1>. QED  BY <1>7

LEMMA EndIterationPending ==
  ASSUME GInv, GInv', LInv, HInv, NInv, AInv, RInv, PendingInv, EndIteration
  PROVE  PendingInv'
<1>1. /\ pc = "iterate" /\ pc' = "process" /\ current = {} /\ left = {} /\ work = {} /\ ran = {}
      /\ AdvanceEnqueuedDomains
      /\ UNCHANGED <<program, step, done, comp, insts, queued, closed, matched>>
  BY DEF EndIteration, callVars, compVars, queueVars, history
<1>2. Effect({}, {})
  BY NoEffect
<1>3. \A stm : Recursive(stm)' = Recursive(stm)
  BY <1>1, SameRecursion DEF Recursive
<1>4. Linearized = comp /\ CoverInv /\ CompInv /\ NextInv /\ NowInv
  BY <1>1 DEF LInv, AInv, StmInv, NInv, RInv
<1>5. ASSUME NEW stm \in comp, NEW i \in Instances(stm), Open(stm, i)'
      PROVE  Covered(stm, i)' \/ Pending(stm, i)'
  <2> DEFINE IsNextIn(d, s) == \E o \in Offsets(d) : d.atoms[o].sym = s
                                                     /\ d.atoms[o].gen = d.generation + 2
             now == {k \in Recursive(stm) :
                       IsNextIn(dom[LitPred(stm, k)], BodySym(stm, i, k))}
  <2>1. stm \in Part.stms
    BY DEF GInv, CallInv
  <2>2. ASSUME NEW k \in Recursive(stm)
        PROVE  LET s == BodySym(stm, i, k)
                   p == LitPred(stm, k)
               IN /\ IsDefinedSym(s) /\ DefinedIn(dom[p], s)
                  /\ p \in CompPreds /\ PredOf(s) = p
    <3>1. k \in Positive(stm) /\ k \in Body(stm)
      BY <1>4, RecursiveLiteral
    <3>2. IsDefinedSym(BodySym(stm, i, k))'
      BY <1>5, <3>1 DEF Open, Positive
    <3>3. BodySym(stm, i, k) \in UsedSyms
      BY <2>1, <3>1, StatementSyms DEF GInv
    <3>4. IsDefinedSym(BodySym(stm, i, k))
      BY <1>2, <3>2, <3>3 DEF Effect
    <3>. QED  BY <1>4, <3>3, <3>4, SymLookups, RecursiveLiteral DEF GInv
  <2>3. Open(stm, i)
    <3>1. \A s \in {} : \E t \in Part.stms \ done : s \in HeadSyms(t)
      OBVIOUS
    <3>. QED  BY <1>1, <1>2, <1>5, <2>1, <2>2, <3>1, OpenBack
  <2>4. CASE Covered(stm, i)
    BY <1>1, <1>2, <2>1, <2>4, CoveredStays DEF GInv
  <2>5. CASE ~Covered(stm, i)
    <3>1. ~Visible(stm, i)
      <4>1. Pending(stm, i)
        BY <1>1, <2>3, <2>5 DEF PendingInv
      <4>. QED  BY <1>1, <4>1 DEF Pending, InWork
    <3>2. ASSUME NEW k \in Recursive(stm)
          PROVE  LET s == BodySym(stm, i, k)
                 IN IF k \in now THEN IsNow(s)' ELSE IsOld(s)'
      <4> DEFINE s == BodySym(stm, i, k)
                 p == LitPred(stm, k)
      <4>1. DefinedIn(dom[p], s) /\ p \in CompPreds /\ PredOf(s) = p
        BY <2>2
      <4>2. CASE k \in now
        <5>1. PICK o \in Offsets(dom[p]) :
                dom[p].atoms[o].sym = s /\ dom[p].atoms[o].gen = dom[p].generation + 2
          BY <4>2
        <5>2. dom[p].generation \in Nat
          BY <1>1, <4>1, CompPredsOf, AdvanceStep DEF GInv
        <5>3. NowIn(dom'[p], s)
          BY <1>1, <1>4, <4>1, <5>1, <5>2, NextGenerations
        <5>. QED  BY <4>1, <4>2, <5>3 DEF IsNow
      <4>3. CASE k \notin now
        <5>1. PICK o \in Offsets(dom[p]) : dom[p].atoms[o].sym = s /\ dom[p].atoms[o].gen > 0
          BY <4>1 DEF DefinedIn
        <5>2. dom[p].atoms[o].gen # dom[p].generation + 2
          BY <4>3, <5>1
        <5>3. OldIn(dom'[p], s)
          BY <1>1, <1>4, <4>1, <5>1, <5>2, NextGenerations
        <5>. QED  BY <4>1, <4>3, <5>3 DEF IsOld
      <4>. QED  BY <4>2, <4>3
    <3>3. \E k \in Recursive(stm) : k \in now
      <4>1. PICK k \in Recursive(stm) : ~IsOld(BodySym(stm, i, k)) /\ ~IsNow(BodySym(stm, i, k))
        BY <3>1 DEF Visible
      <4> DEFINE s == BodySym(stm, i, k)
                 p == LitPred(stm, k)
      <4>2. /\ DefinedIn(dom[p], s) /\ p \in CompPreds /\ PredOf(s) = p
            /\ p \in Preds /\ dom[p].generation \in Nat /\ DomainOK(p, dom[p])
        BY Zenon, <1>1, <2>2, CompPredsOf, AdvanceStep DEF GInv, DomInv
      <4>3. PICK o \in Offsets(dom[p]) : dom[p].atoms[o].sym = s /\ dom[p].atoms[o].gen > 0
        BY <4>2 DEF DefinedIn
      <4>4. dom[p].atoms[o].gen \in Nat /\ dom[p].atoms[o].gen <= dom[p].generation + 2
        <5>1. dom[p].atoms[o].gen \in Nat
          BY <4>2, DomainParts DEF DomainOK
        <5>. QED  BY <1>1, <4>2, <5>1 DEF HInv, GenInv
      <4>5. ~(dom[p].atoms[o].gen \in 1..dom[p].generation)
            /\ dom[p].atoms[o].gen # dom[p].generation + 1
        BY <4>1, <4>2, <4>3 DEF IsOld, IsNow, OldIn, NowIn
      <4>6. dom[p].atoms[o].gen = dom[p].generation + 2
        BY <4>2, <4>3, <4>4, <4>5
      <4>. QED  BY <4>3, <4>6
    <3>4. now \subseteq Recursive(stm) /\ now # {}
      BY <3>3
    <3>5. \A k \in now : IsNextIn(dom[LitPred(stm, k)], BodySym(stm, i, k))
      OBVIOUS
    <3> HIDE DEF now
    <3>6. PICK x \in insts :
            /\ x.stm = stm
            /\ \A k \in Recursive(stm) : /\ x.types[k] = "NEW" => k \in now
                                         /\ x.types[k] = "OLD" => k \notin now
            /\ \E k \in now : x.types[k] = "NEW"
      BY <1>4, <3>4, FirstFits
    <3>7. x \in queued
      <4>1. PICK k \in now : x.types[k] = "NEW"
        BY <3>6
      <4>2. k \in Recursive(x.stm) /\ i \in Instances(x.stm)
        BY <3>4, <3>6, <4>1
      <4>3. IsNextIn(dom[LitPred(x.stm, k)], BodySym(x.stm, i, k))
        BY <3>5, <3>6
      <4>. QED  BY <1>1, <1>4, <4>1, <4>2, <4>3, NextQueued
    <3>8. Fits(x, i)'
      <4>1. Visible(stm, i)'
        BY <1>3, <3>2 DEF Visible
      <4>2. \A k \in Recursive(stm) :
              /\ x.types[k] = "NEW" => IsNow(BodySym(stm, i, k))'
              /\ x.types[k] = "OLD" => IsOld(BodySym(stm, i, k))'
        BY <3>2, <3>6
      <4>. QED  BY <1>3, <3>6, <4>1, <4>2 DEF Fits
    <3>. QED  BY <1>1, <3>6, <3>7, <3>8 DEF Pending
  <2>. QED  BY <2>4, <2>5
<1>. QED  BY <1>1, <1>5 DEF PendingInv

(* What is grounded completely stays covered: nothing it waits for can     *)
(* become defined.                                                         *)
LEMMA NotRecursiveDone ==
  ASSUME DoneInv, NEW stm \in done
  PROVE  Recursive(stm) = {}
<1>1. ASSUME NEW k \in Positive(stm), IsRecursive(stm, k) PROVE FALSE
  <2>1. PICK t \in DefinedBy(Part.stms \ done, stm, k) : TRUE
    BY <1>1 DEF IsRecursive
  <2>2. t \in DefinedBy(Part.stms, stm, k) /\ t \notin done
    BY <2>1 DEF DefinedBy
  <2>3. t \in DependsPositively(Part.stms, stm)
    BY <2>2 DEF DependsPositively
  <2>. QED  BY <2>2, <2>3 DEF DoneInv
<1>. QED  BY <1>1 DEF Recursive

LEMMA DoneStays ==
  ASSUME GInv, DoneInv, DoneCovered, EffectWork, UNCHANGED <<program, step, done>>,
         closed \subseteq closed', matched \subseteq matched'
  PROVE  DoneCovered'
<1>1. PICK S, F : Effect(S, F) /\ \A s \in S : \E t \in Part.stms \ done : s \in HeadSyms(t)
  BY DEF EffectWork
<1>2. ASSUME NEW stm \in done, NEW i \in Instances(stm), Open(stm, i)'
      PROVE  Covered(stm, i)'
  <2>1. stm \in Part.stms /\ CallInv
    BY DEF GInv, CallInv
  <2>2. \A k \in Recursive(stm) : IsDefinedSym(BodySym(stm, i, k))
    BY NotRecursiveDone
  <2>3. Open(stm, i)
    BY <1>1, <1>2, <2>1, <2>2, OpenBack
  <2>4. Covered(stm, i)
    BY <2>3 DEF DoneCovered
  <2>. QED  BY <1>1, <2>1, <2>4, CoveredStays
<1>. QED  BY <1>2 DEF DoneCovered

(* When the queue is empty, no instance of the component is pending. *)
LEMMA EndComponentCovered ==
  ASSUME GInv, GInv', LInv, HInv, PendingInv, DoneCovered, EndComponent
  PROVE  DoneCovered'
<1>1. /\ pc = "process" /\ queued = {} /\ done' = done \union comp
      /\ UNCHANGED <<program, step, closed, matched>>
  BY DEF EndComponent, callVars, history
<1>2. Effect({}, {})
  BY NoEffect
<1>3. ASSUME NEW stm \in done \union comp, NEW i \in Instances(stm), Open(stm, i)'
      PROVE  Covered(stm, i)'
  <2>1. stm \in Part.stms /\ CallInv /\ Part' = Part
    BY <1>1 DEF GInv, CallInv, Part
  <2>2. ASSUME NEW k \in Body(stm)
        PROVE  LET s == BodySym(stm, i, k)
               IN IF Statements[stm].naf[k] = "not" THEN ~IsFactSym(s)
                  ELSE (k \in Positive(stm) \/ ~IsRecursive(stm, k)) => IsDefinedSym(s)
    <3> DEFINE s == BodySym(stm, i, k)
    <3>1. s \in UsedSyms
      BY <2>1, StatementSyms
    <3>2. ~IsRecursive(stm, k) => ~IsRecursive(stm, k)'
      BY <1>1, <2>1 DEF IsRecursive, DefinedBy
    <3>3. IF Statements[stm].naf[k] = "not" THEN ~IsFactSym(s)'
          ELSE (k \in Positive(stm) \/ ~IsRecursive(stm, k)') => IsDefinedSym(s)'
      BY <1>3 DEF Open
    <3>4. (IsFactSym(s)' <=> IsFactSym(s)) /\ (IsDefinedSym(s)' <=> IsDefinedSym(s))
      BY <1>2, <3>1 DEF Effect
    <3> HIDE DEF s
    <3>5. CASE Statements[stm].naf[k] = "not"
      BY <3>3, <3>4, <3>5 DEF s
    <3>6. CASE Statements[stm].naf[k] # "not"
      BY <3>2, <3>3, <3>4, <3>6 DEF s
    <3>. QED  BY <3>5, <3>6
  <2>3. Open(stm, i)
    BY <2>2 DEF Open
  <2>4. Covered(stm, i)
    <3>1. CASE stm \in done
      BY <2>3, <3>1 DEF DoneCovered
    <3>2. CASE stm \in comp
      BY <1>1, <2>3, <3>2 DEF PendingInv, Pending
    <3>. QED  BY <3>1, <3>2
  <2>. QED  BY <1>1, <1>2, <2>1, <2>4, CoveredStays
<1>. QED  BY <1>1, <1>3 DEF DoneCovered

LEMMA SamePending ==
  ASSUME GInv, PendingInv, UNCHANGED vars
  PROVE  PendingInv'
<1>1. UNCHANGED <<program, step, done, comp, dom, queued, current, running, left, work, pc,
                  closed, matched>>
  BY DEF vars, callVars, compVars, queueVars, instVars, history
<1>2. Effect({}, {})
  BY <1>1, SameEffect DEF GInv
<1>3. ASSUME pc \in {"process", "iterate"}, NEW stm \in comp, NEW i \in Instances(stm),
             Open(stm, i)'
      PROVE  Covered(stm, i)' \/ Pending(stm, i)'
  <2>1. Open(stm, i) /\ (Visible(stm, i)' <=> Visible(stm, i))
        /\ \A x : x.stm = stm => (Fits(x, i)' <=> Fits(x, i))
    BY <1>1, <1>3, SameOpen
  <2>2. CASE Covered(stm, i)
    <3>1. stm \in Part.stms /\ CallInv
      BY DEF GInv, CallInv
    <3>. QED  BY <1>1, <1>2, <2>2, <3>1, CoveredStays
  <2>3. CASE Pending(stm, i)
    <3>1. \A x : InWork(x, i)' <=> InWork(x, i)
      BY <1>1 DEF InWork
    <3>. QED  BY <1>1, <2>1, <2>3, <3>1 DEF Pending
  <2>. QED  BY <1>3, <2>1, <2>2, <2>3 DEF PendingInv
<1>. QED  BY <1>1, <1>3 DEF PendingInv

LEMMA OutsidePending ==
  ASSUME pc' \notin {"process", "iterate"}
  PROVE  PendingInv'
BY DEF PendingInv

LEMMA EmptyDone ==
  ASSUME done' = {}
  PROVE  DoneCovered'
BY DEF DoneCovered

(* The steps of an instance, ... *)
LEMMA WorkCovered ==
  ASSUME GInv, GInv', LInv, HInv, NInv, AInv, SeenInv, RInv, PendingInv, DoneCovered,
         \/ UNCHANGED vars
         \/ \E x \in current : RunInstantiator(x)
         \/ \E i \in left : TryInstance(i) \/ Backjump(i)
         \/ MatchNegative \/ Mismatch
         \/ ReportBody \/ ReportHead \/ ReportRule
  PROVE  PendingInv' /\ DoneCovered'
<1>1. UNCHANGED <<program, step, done, pc>>
  BY WorkCalm
<1>2. closed \subseteq closed' /\ matched \subseteq matched'
  <2>1. CASE UNCHANGED vars
    BY <2>1 DEF vars, history
  <2>2. CASE \E x \in current : RunInstantiator(x)
    BY <2>2 DEF RunInstantiator
  <2>3. CASE (\E i \in left : TryInstance(i) \/ Backjump(i)) \/ Mismatch \/ ReportHead
    BY Zenon, <2>3 DEF TryInstance, Backjump, Mismatch, ReportHead, history
  <2>4. CASE MatchNegative
    BY <2>4 DEF MatchNegative
  <2>5. CASE ReportBody \/ ReportRule
    BY Zenon, <2>5 DEF ReportBody, ReportRule
  <2>. QED  BY <2>1, <2>2, <2>3, <2>4, <2>5
<1>3. EffectWork
  BY Zenon, WorkEffect
<1>4. DoneCovered'
  BY <1>1, <1>2, <1>3, DoneStays DEF AInv, StmInv
<1>5. CASE pc = "iterate"
  <2>1. PendingInv'
    BY Zenon, <1>5, WorkPending
  <2>. QED  BY <1>4, <2>1
<1>6. CASE pc = "process"
  <2>1. current = {} /\ left = {} /\ work = {}
    BY <1>6 DEF GInv, PhaseInv, QueueInv
  <2>2. UNCHANGED vars
    BY <2>1 DEF MatchNegative, Mismatch, ReportBody, ReportHead, ReportRule
  <2>. QED  BY <1>4, <2>2, SamePending
<1>7. CASE pc \notin {"process", "iterate"}
  BY <1>1, <1>4, <1>7, OutsidePending
<1>. QED  BY <1>4, <1>5, <1>6, <1>7

LEMMA InitCInv == Init => CInv
BY DEF Init, CInv, PendingInv, DoneCovered

(* ... and all steps. *)
LEMMA CInvStep ==
  ASSUME GInv, LInv, HInv, NInv, AInv, BInv, RInv, CInv, [Next]_vars
  PROVE  CInv'
<1>1. GInv' /\ CInv
  BY GInvStep
<1>2. SUFFICES PendingInv' /\ DoneCovered'
  BY DEF CInv
<1>3. SeenInv /\ PendingInv /\ DoneCovered /\ DoneInv
  BY DEF BInv, CInv, AInv, StmInv
<1>4. CASE \/ UNCHANGED vars
           \/ \E x \in current : RunInstantiator(x)
           \/ \E i \in left : TryInstance(i) \/ Backjump(i)
           \/ MatchNegative \/ Mismatch
           \/ ReportBody \/ ReportHead \/ ReportRule
  BY Zenon, <1>1, <1>3, <1>4, WorkCovered
<1>5. CASE \/ BeginAddBackend \/ BeginPrepare \/ Prepared \/ Return
           \/ \E c \in {deps[s].comp : s \in DOMAIN deps} : StartComponent(c)
           \/ \E s \in comp : Linearize(s)
           \/ RegisterLiteral \/ EnqueueComponent
           \/ BeginIteration \/ EndIteration
           \/ \E x \in ran : Propagate(x)
  <2>1. Effect({}, {})
    BY Zenon, <1>1, <1>5, NoEffect
  <2>2. EffectWork
    BY <2>1 DEF EffectWork
  <2>3. UNCHANGED <<program, step, done, closed, matched>>
    <3>1. CASE BeginAddBackend \/ BeginPrepare \/ Prepared \/ Return
      BY <3>1 DEF BeginAddBackend, BeginPrepare, Prepared, Return, callVars, compVars, history
    <3>2. CASE \E c \in {deps[s].comp : s \in DOMAIN deps} : StartComponent(c)
      BY <3>2 DEF StartComponent, callVars, history
    <3>3. CASE (\E s \in comp : Linearize(s)) \/ RegisterLiteral \/ EnqueueComponent
      BY Zenon, <3>3 DEF Linearize, RegisterLiteral, EnqueueComponent, callVars, compVars, history
    <3>4. CASE BeginIteration \/ EndIteration \/ \E x \in ran : Propagate(x)
      BY <3>4 DEF BeginIteration, EndIteration, Propagate, callVars, compVars, history
    <3>. QED  BY Zenon, <1>5, <3>1, <3>2, <3>3, <3>4
  <2>4. DoneCovered'
    BY <1>3, <2>2, <2>3, DoneStays
  <2>5. CASE \/ BeginAddBackend \/ BeginPrepare \/ Prepared \/ Return
             \/ \E c \in {deps[s].comp : s \in DOMAIN deps} : StartComponent(c)
    <3>1. pc' \notin {"process", "iterate"}
      BY <2>5 DEF BeginAddBackend, BeginPrepare, Prepared, Return, StartComponent
    <3>. QED  BY <2>4, <3>1, OutsidePending
  <2>6. CASE (\E s \in comp : Linearize(s)) \/ RegisterLiteral
    <3>1. pc' \notin {"process", "iterate"}
      BY Zenon, <2>6 DEF Linearize, RegisterLiteral
    <3>. QED  BY <2>4, <3>1, OutsidePending
  <2>7. CASE EnqueueComponent
    BY <1>1, <2>4, <2>7, EnqueueComponentPending
  <2>8. CASE BeginIteration
    BY <1>3, <2>4, <2>8, BeginIterationPending
  <2>9. CASE EndIteration
    BY <1>1, <1>3, <2>4, <2>9, EndIterationPending
  <2>10. CASE \E x \in ran : Propagate(x)
    BY <1>1, <1>3, <2>4, <2>10, PropagatePending
  <2>. QED  BY Zenon, <1>5, <2>5, <2>6, <2>7, <2>8, <2>9, <2>10
<1>6. CASE \E s \in todo : AddAtom(s) \/ DefineFact(s)
  <2>1. pc' \notin {"process", "iterate"} /\ pc \in {"backend", "prepare"} /\ done' = done
    BY <1>6 DEF AddAtom, DefineFact, compVars
  <2>2. done' = {}
    BY <2>1 DEF GInv, PhaseInv
  <2>. QED  BY <2>1, <2>2, OutsidePending, EmptyDone
<1>7. CASE EndComponent
  <2>1. pc' \notin {"process", "iterate"}
    BY <1>7 DEF EndComponent
  <2>2. DoneCovered'
    BY <1>1, <1>3, <1>7, EndComponentCovered
  <2>. QED  BY <2>1, <2>2, OutsidePending
<1>8. CASE NextCall
  <2>1. pc' \notin {"process", "iterate"} /\ done' = {}
    BY <1>8 DEF NextCall
  <2>. QED  BY <2>1, OutsidePending, EmptyDone
<1>. QED  BY Zenon, <1>4, <1>5, <1>6, <1>7, <1>8 DEF Next

(* The invariant, which leans on ChoicesSeen before each step. *)
CompleteInv == GInv /\ LInv /\ HInv /\ NInv /\ AInv /\ BInv /\ RInv /\ CInv

LEMMA InitCompleteInv == Init => CompleteInv
BY InitGInv, InitLInv, InitHInv, InitNInv, InitAInv, InitBInv, InitRInv, InitCInv DEF CompleteInv

LEMMA CompleteInvStep == CompleteInv /\ ChoicesSeen /\ [Next]_vars => CompleteInv'
BY GInvStep, LInvStep, HInvStep, NInvStep, AInvStep, BInvStep, RInvStep, CInvStep DEF CompleteInv

LEMMA CompleteInvComplete == CompleteInv => Complete
<1> SUFFICES ASSUME GInv, CInv, NEW stm \in done, NEW i \in Instances(stm), Possible(stm, i)
             PROVE  \E j \in Instances(stm) : <<stm, j>> \in matched /\ StandsFor(stm, j, i)
  BY DEF Complete, CompleteInv
<1>1. stm \in Part.stms /\ CallInv
  BY DEF GInv, CallInv
<1>2. Open(stm, i)
  BY DEF Possible, Open
<1>3. Covered(stm, i)
  BY <1>2 DEF CInv, DoneCovered
<1>4. PICK j \in Instances(stm) :
        /\ <<stm, j>> \in matched
        /\ Heads(stm, i) = Heads(stm, j)
        /\ \A k \in Body(stm) :
             BodySym(stm, i, k) = BodySym(stm, j, k) \/ Safe(stm, k, BodySym(stm, j, k))
  BY <1>3 DEF Covered
<1>5. \A k \in Body(stm) :
        BodySym(stm, i, k) = BodySym(stm, j, k) \/ IsTrue(stm, k, BodySym(stm, j, k))
  <2>1. \A k \in Body(stm) : BodySym(stm, j, k) \in UsedSyms
    BY <1>1, StatementSyms
  <2>. QED  BY <1>4, <2>1, SafeTrue
<1>. QED  BY <1>4, <1>5 DEF StandsFor

(* When the queue of a component is empty, its fixpoint is reached: each   *)
(* instance whose body can be true was reported, or backjumping left it    *)
(* out in favor of one that says more.  This holds for all statements,     *)
(* programs, and schedules, in every run in which the grounder gets to see *)
(* what the backend gives as choices.                                      *)
THEOREM SpecComplete == Spec /\ []ChoicesSeen => []Complete
BY InitCompleteInv, CompleteInvStep, CompleteInvComplete, PTL DEF Spec

(* Without a backend nothing else is needed: there are no choices but the  *)
(* heads of statements, and those are not missed.                          *)
NoBackend == \A n \in DOMAIN Programs[program] : Programs[program][n].choices = {}

LEMMA NoBackendSeen ==
  ASSUME CompleteInv, NoBackend
  PROVE  ChoicesSeen
<1>1. step \in DOMAIN Programs[program] /\ program \in DOMAIN Programs
  BY DEF CompleteInv, GInv, CallInv
<1>2. 1..step \subseteq DOMAIN Programs[program]
  <2>1. Programs[program] \in Seq({Programs[program][n] : n \in DOMAIN Programs[program]})
    BY <1>1, ProgramsAssumption
  <2>. QED  BY <1>1, <2>1
<1>3. Given = {}
  BY <1>2 DEF Given, NoBackend
<1>4. pc = "backend" => todo = {}
  BY <1>1 DEF CompleteInv, AInv, TodoInv, Part, NoBackend
<1>. QED  BY <1>3, <1>4 DEF ChoicesSeen

(* A program without a backend is grounded completely: with recursion,     *)
(* negation, choices and disjunctions as heads, and over several calls.    *)
THEOREM SpecCompleteNoBackend == Spec => [](NoBackend => Complete)
<1> DEFINE I == NoBackend => CompleteInv
<1>1. Init => I
  BY InitCompleteInv
<1>2. I /\ [Next]_vars => I'
  <2>1. [Next]_vars => (NoBackend' <=> NoBackend)
    BY SameProgram DEF NoBackend
  <2>. QED  BY <2>1, CompleteInvStep, NoBackendSeen
<1>3. I => (NoBackend => Complete)
  BY CompleteInvComplete
<1>. QED  BY <1>1, <1>2, <1>3, PTL DEF Spec
=============================================================================
