--------------------------- MODULE GrounderProofs ---------------------------
(***************************************************************************)
(* Proofs about Grounder for any statements and programs.                  *)
(*                                                                         *)
(* What the grounder does to a domain is put together from the lemmas of   *)
(* DomainProofs: an operation reserves or defines some symbols and leaves  *)
(* the others as they were (Becomes).  The invariant GInv says what the    *)
(* steps of a call are about: statements of the part, instances of the     *)
(* running statement, and that no statement that is still to be grounded   *)
(* in the call derives an atom that was taken to be undefined (ClosedInv). *)
(* For the last part an instantiator reports only heads of its statement,  *)
(* and a component is grounded with all of its statements (LInv).          *)
(* That the domain of each predicate goes through the steps of Domain also *)
(* needs the protocol the grounder keeps with it (HInv): when domains are  *)
(* enqueued, which atoms are of the next generation, and that a registered *)
(* index lacks only atoms of heads that still propagate.                   *)
(* That no instance is reported twice rests on the generations of the      *)
(* atoms of an instance (NInv): what was reported is too old or too new    *)
(* for one of the literals of each instantiator that has still to run.     *)
(***************************************************************************)
EXTENDS Grounder, SequenceTheorems, TLAPS

(* The lemmas about the operations on a domain of any predicate. *)
DP == INSTANCE DomainProofs WITH
        Sym <- UsedSyms, Index <- SUBSET UsedSyms, Match <- [m \in SUBSET UsedSyms |-> m],
        Generations <- Nat, dom <- EmptyDomain, index <- <<>>, live <- {}, phase <- "idle"

-----------------------------------------------------------------------------
(* The operations on domains *)

(* The operators of DomainOps are the same in this module and in DP. *)
LEMMA SameLookups ==
  ASSUME NEW d, NEW o, NEW s
  PROVE  /\ DP!Offsets(d) = Offsets(d)
         /\ DP!IsDefined(d, o) = IsDefined(d, o)
         /\ DP!Contains(d, s) = Contains(d, s)
         /\ DP!Find(d, s) = Find(d, s)
         /\ DP!NewAtom(s) = NewAtom(s)
<1>1. DP!Offsets(d) = Offsets(d) /\ DP!IsDefined(d, o) = IsDefined(d, o) /\ DP!NewAtom(s) = NewAtom(s)
  BY DEF DP!Offsets, Offsets, DP!IsDefined, IsDefined, DP!NewAtom, NewAtom
<1>2. DP!Contains(d, s) = Contains(d, s)
  BY DEF DP!Contains, Contains, DP!Offsets, Offsets
<1>3. DP!Find(d, s) = Find(d, s)
  BY DEF DP!Find, Find, DP!Offsets, Offsets
<1>. QED  BY <1>1, <1>2, <1>3

LEMMA SameReserve ==
  ASSUME NEW d, NEW s
  PROVE  DP!Reserve(d, s) = Reserve(d, s)
BY Zenon, SameLookups DEF DP!Reserve, Reserve

LEMMA SameDefine ==
  ASSUME NEW d, NEW s
  PROVE  DP!Define(d, s) = Define(d, s)
<1>1. ASSUME NEW o PROVE DP!DefineOffset(d, o) = DefineOffset(d, o)
  BY SameLookups DEF DP!DefineOffset, DefineOffset
<1>2. \A e, o : DP!DefineOffset(e, o) = DefineOffset(e, o)
  BY SameLookups DEF DP!DefineOffset, DefineOffset
<1>. QED  BY <1>2, SameReserve, SameLookups DEF DP!Define, Define

LEMMA SameMark ==
  ASSUME NEW d, NEW os
  PROVE  DP!MarkDelayed(d, os) = MarkDelayed(d, os)
BY DEF DP!MarkDelayed, MarkDelayed, DP!Offsets, Offsets, DP!IsDefined, IsDefined

LEMMA SameInit ==
  ASSUME NEW d
  PROVE  DP!InitDomain(d) = InitDomain(d)
<1>1. DP!MarkDelayed(d, d.initOffset + 1 .. Len(d.atoms)) = MarkDelayed(d, d.initOffset + 1 .. Len(d.atoms))
  BY SameMark
<1>2. DP!Offsets(d) = Offsets(d) /\ \A o : DP!IsDefined(d, o) = IsDefined(d, o)
  BY SameLookups
<1>. QED  BY Zenon, <1>1, <1>2 DEF DP!InitDomain, InitDomain

LEMMA SameAdvance ==
  ASSUME NEW d
  PROVE  DP!AdvanceDomain(d) = AdvanceDomain(d) /\ DP!EnqueueDomain(d) = EnqueueDomain(d)
BY DEF DP!AdvanceDomain, AdvanceDomain, DP!EnqueueDomain, EnqueueDomain

LEMMA SameFresh ==
  ASSUME NEW d, NEW ix
  PROVE  DP!Fresh(d, ix) = Fresh(d, ix)
BY DEF DP!Fresh, Fresh, DP!Scanned, Scanned, DP!Late, Late, DP!IsDefined, IsDefined

LEMMA SameUpdate ==
  ASSUME NEW d, NEW ix
  PROVE  DP!UpdateIndex(d, ix) = UpdateIndex(d, ix)
BY Zenon, SameFresh DEF DP!UpdateIndex, UpdateIndex

LEMMA SameContent ==
  ASSUME NEW ix, NEW m
  PROVE  DP!Content(ix) = Content(ix) /\ DP!NewIndex(m) = NewIndex(m)
BY DEF DP!Content, Content, DP!NewIndex, NewIndex

-----------------------------------------------------------------------------
(* The domain of a predicate *)

(* No symbol has two atoms. *)
Distinct(d) == \A o, q \in Offsets(d) : d.atoms[o].sym = d.atoms[q].sym => o = q

(* What DomainProofs knows about every domain, for that of a predicate. *)
DomainOK(p, d) ==
  /\ DP!DomOK(d)
  /\ Distinct(d)
  /\ \A o \in Offsets(d) : d.atoms[o].sym \in UsedSyms /\ PredOf(d.atoms[o].sym) = p

(* A symbol without a defined atom, whichever of its offsets is found. *)
Undefined(d, s) == \A o \in Offsets(d) : d.atoms[o].sym = s => d.atoms[o].gen = 0

(* d becomes e, and of the undefined symbols only those in S are defined. *)
Becomes(p, d, e, S) ==
  /\ DomainOK(p, e)
  /\ DP!Grows(d, e)
  /\ \A s : s \notin S /\ Undefined(d, s) => Undefined(e, s)

(* The types of the parts of a domain. *)
LEMMA DomainParts ==
  ASSUME NEW d, DP!DomOK(d)
  PROVE  /\ d.atoms \in Seq(DP!AtomRecord)
         /\ d.delayed \in Seq(Nat \ {0})
         /\ Len(d.atoms) \in Nat
         /\ Len(d.delayed) \in Nat
         /\ d.generation \in Nat
         /\ d.enqueued \in 0..2
         /\ DOMAIN d.atoms = Offsets(d)
         /\ \A o \in Offsets(d) : d.atoms[o] \in DP!AtomRecord
         /\ \A o \in Offsets(d) : d.atoms[o].gen \in Nat
         /\ \A o \in Offsets(d) : o \in Nat \ {0}
         /\ \A o \in Offsets(d) : d.atoms[o].sym \in UsedSyms
<1>1. d \in DP!DomainRecord
  BY DEF DP!DomOK
<1>2. DP!Offsets(d) = Offsets(d)
  BY SameLookups
<1>3. d.atoms \in Seq(DP!AtomRecord)
  BY <1>1, DP!DomainTypes
<1>4. DOMAIN d.atoms = Offsets(d)
  BY <1>3, LenProperties DEF Offsets
<1>. QED  BY <1>1, <1>2, <1>3, <1>4, DP!DomainTypes

(* Steps after which no atom is defined that was not. *)
LEMMA BecomesKeeps ==
  ASSUME NEW p, NEW d, DomainOK(p, d), NEW e, DP!DomOK(e), DP!Grows(d, e),
         \A o \in Offsets(e) : e.atoms[o].gen > 0 => o \in Offsets(d) /\ d.atoms[o].gen > 0,
         \A o \in Offsets(e) : o \in Offsets(d) \/ PredOf(e.atoms[o].sym) = p,
         Distinct(e)
  PROVE  Becomes(p, d, e, {})
<1>1. \A o \in Offsets(d) : e.atoms[o].sym = d.atoms[o].sym
  BY SameLookups DEF DP!Grows
<1>2. \A o \in Offsets(e) : e.atoms[o].gen \in Nat /\ e.atoms[o].sym \in UsedSyms
  BY DomainParts
<1>3. DomainOK(p, e)
  BY <1>1, <1>2 DEF DomainOK
<1>4. ASSUME NEW s, Undefined(d, s) PROVE Undefined(e, s)
  BY <1>1, <1>2, <1>4 DEF Undefined
<1>. QED  BY <1>3, <1>4 DEF Becomes

LEMMA BecomesSame ==
  ASSUME NEW p, NEW d, DomainOK(p, d), NEW e, DP!DomOK(e), DP!Grows(d, e),
         Offsets(e) = Offsets(d),
         \A o \in Offsets(d) : e.atoms[o].gen > 0 => d.atoms[o].gen > 0
  PROVE  Becomes(p, d, e, {})
<1>1. \A o \in Offsets(d) : e.atoms[o].sym = d.atoms[o].sym
  BY Zenon, SameLookups DEF DP!Grows
<1>2. Distinct(e)
  BY <1>1 DEF Distinct, DomainOK
<1>. QED  BY <1>2, BecomesKeeps

LEMMA GrowsSame ==
  ASSUME NEW d, DP!DomOK(d)
  PROVE  DP!Grows(d, d)
BY DomainParts, SameLookups DEF DP!Grows

LEMMA ReserveStep ==
  ASSUME NEW p, NEW d, DomainOK(p, d), NEW s \in UsedSyms, PredOf(s) = p
  PROVE  Becomes(p, d, Reserve(d, s), {})
<1> DEFINE e == Reserve(d, s)
<1>a. DP!DomOK(d) /\ DP!Reserve(d, s) = e /\ DP!Contains(d, s) = Contains(d, s)
      /\ (\A f : DP!Offsets(f) = Offsets(f)) /\ DP!NewAtom(s) = NewAtom(s)
  BY SameReserve, SameLookups DEF DomainOK
<1>1. /\ DP!DomOK(e) /\ DP!Grows(d, e)
      /\ \A o \in Offsets(e) : o \in Offsets(d) \/ e.atoms[o].gen = 0
      /\ \A o \in Offsets(d) : e.atoms[o] = d.atoms[o]
  <2> HIDE DEF e
  <2>. QED  BY <1>a, DP!ReserveOK
<1>2. \A o \in Offsets(e) : o \in Offsets(d) \/ PredOf(e.atoms[o].sym) = p
  <2>1. CASE Contains(d, s)
    BY <2>1 DEF Reserve
  <2>2. CASE ~Contains(d, s)
    <3>1. /\ Len(e.atoms) = Len(d.atoms) + 1 /\ e.atoms[Len(e.atoms)] = NewAtom(s)
      <4>1. d \in DP!DomainRecord
        BY <1>a DEF DP!DomOK
      <4> HIDE DEF e
      <4>. QED  BY <4>1, <2>2, <1>a, DP!ReserveFields
    <3>2. Len(d.atoms) \in Nat
      BY DomainParts DEF DomainOK
    <3>3. \A o \in Offsets(e) : o \in Offsets(d) \/ o = Len(e.atoms)
      BY <3>1, <3>2 DEF Offsets
    <3>4. NewAtom(s).sym = s
      BY DEF NewAtom
    <3>. QED  BY <3>1, <3>3, <3>4
  <2>. QED  BY <2>1, <2>2
<1>3. \A o \in Offsets(e) : e.atoms[o].gen > 0 => o \in Offsets(d) /\ d.atoms[o].gen > 0
  BY <1>1
<1>4. Distinct(e)
  <2>1. CASE Contains(d, s)
    BY <2>1 DEF Reserve, DomainOK
  <2>2. CASE ~Contains(d, s)
    <3>1. \A o \in Offsets(e) : e.atoms[o].sym = s \/ o \in Offsets(d)
      <4>1. e.atoms = Append(d.atoms, NewAtom(s)) /\ NewAtom(s).sym = s
        <5>1. d \in DP!DomainRecord
          BY <1>a DEF DP!DomOK
        <5>. QED  BY <2>2, <5>1 DEF Reserve, NewAtom, DP!DomainRecord
      <4>2. d.atoms \in Seq(DP!AtomRecord) /\ Len(d.atoms) \in Nat
        BY <1>a, DomainParts
      <4>3. Len(e.atoms) = Len(d.atoms) + 1 /\ e.atoms[Len(d.atoms) + 1] = NewAtom(s)
        BY <4>1, <4>2
      <4>. QED  BY <4>1, <4>2, <4>3 DEF Offsets
    <3>2. \A o \in Offsets(e) : o \notin Offsets(d) => o = Len(e.atoms)
      <4>1. Len(d.atoms) \in Nat /\ d \in DP!DomainRecord
        BY <1>a, DomainParts DEF DP!DomOK
      <4>2. Len(e.atoms) = Len(d.atoms) + 1
        <5> HIDE DEF e
        <5>. QED  BY <4>1, <2>2, <1>a, DP!ReserveFields
      <4>. QED  BY <4>1, <4>2 DEF Offsets
    <3>3. \A o \in Offsets(d) : e.atoms[o].sym = d.atoms[o].sym /\ d.atoms[o].sym # s
      BY <1>1, <2>2 DEF Contains
    <3>4. Distinct(d)
      BY DEF DomainOK
    <3> HIDE DEF e
    <3>. QED  BY <3>1, <3>2, <3>3, <3>4 DEF Distinct
  <2>. QED  BY <2>1, <2>2
<1> HIDE DEF e
<1>5. Becomes(p, d, e, {})
  BY <1>1, <1>2, <1>3, <1>4, BecomesKeeps
<1>. QED  BY <1>5 DEF e

LEMMA FindContained ==
  ASSUME NEW d, NEW s, Contains(d, s)
  PROVE  Find(d, s) \in Offsets(d) /\ d.atoms[Find(d, s)].sym = s
BY DEF Contains, Find

LEMMA DefineStep ==
  ASSUME NEW p, NEW d, DomainOK(p, d), NEW s \in UsedSyms, PredOf(s) = p
  PROVE  /\ Becomes(p, d, Define(d, s), {s})
         /\ Contains(Define(d, s), s)
<1> DEFINE r == Reserve(d, s)
           o == Find(r, s)
           e == Define(d, s)
<1>1. Becomes(p, d, r, {}) /\ DP!DomOK(r) /\ Contains(r, s) /\ DP!Grows(d, r)
  BY ReserveStep, DP!ReserveOK, SameReserve, SameLookups DEF DomainOK
<1>2. DomainOK(p, r) /\ \A t : Undefined(d, t) => Undefined(r, t)
  BY <1>1 DEF Becomes
<1>3. o \in Offsets(r) /\ r.atoms[o].sym = s
  BY <1>1, FindContained
<1>4. e = DefineOffset(r, o)
  BY DEF Define
<1>5. DP!DomOK(e) /\ DP!Grows(d, e)
  BY DP!DefineOK, SameDefine DEF DomainOK
<1>6. DP!DefineOffset(r, o) = DefineOffset(r, o) /\ DP!IsDefined(r, o) = IsDefined(r, o)
      /\ DP!Offsets(r) = Offsets(r)
  BY SameLookups DEF DP!DefineOffset, DefineOffset
<1>7. /\ Offsets(e) = Offsets(r)
      /\ \A q \in Offsets(r) : e.atoms[q].sym = r.atoms[q].sym
      /\ \A q \in Offsets(r) : q # o => e.atoms[q].gen = r.atoms[q].gen
  <2>1. CASE IsDefined(r, o)
    BY <2>1, <1>4 DEF DefineOffset
  <2>2. CASE ~IsDefined(r, o)
    <3>1. r \in DP!DomainRecord
      BY <1>1 DEF DP!DomOK
    <3>2. /\ Len(e.atoms) = Len(r.atoms)
          /\ \A q \in Offsets(r) : q # o => e.atoms[q] = r.atoms[q]
          /\ e.atoms[o] = [r.atoms[o] EXCEPT !.gen = r.generation + 2]
      BY <3>1, <1>3, <1>4, <1>6, <2>2, DP!DefineFields
    <3>3. r.atoms[o] \in DP!AtomRecord
      BY <1>1, <1>3, DomainParts
    <3>4. e.atoms[o].sym = r.atoms[o].sym
      BY <3>2, <3>3 DEF DP!AtomRecord
    <3>. QED  BY Zenon, <3>2, <3>4 DEF Offsets
  <2>. QED  BY <2>1, <2>2
<1>8. DomainOK(p, e)
  <2>1. Distinct(e)
    BY <1>2, <1>7 DEF DomainOK, Distinct
  <2>. QED  BY <2>1, <1>2, <1>5, <1>7 DEF DomainOK
<1>9. ASSUME NEW t, t # s, Undefined(d, t) PROVE Undefined(e, t)
  <2>1. Undefined(r, t)
    BY <1>2, <1>9
  <2>. QED  BY <2>1, <1>3, <1>7, <1>9 DEF Undefined
<1>10. Contains(e, s)
  BY <1>3, <1>7 DEF Contains
<1>. QED  BY <1>5, <1>8, <1>9, <1>10 DEF Becomes

(* Whether an atom is a fact does not matter to a domain. *)
LEMMA SetFactStep ==
  ASSUME NEW p, NEW d, DomainOK(p, d), NEW o \in Offsets(d)
  PROVE  /\ Becomes(p, d, SetFact(d, o), {})
         /\ Len(SetFact(d, o).atoms) = Len(d.atoms)
         /\ SetFact(d, o).delayed = d.delayed
         /\ \A q \in Offsets(d) :
              /\ SetFact(d, o).atoms[q].sym = d.atoms[q].sym
              /\ SetFact(d, o).atoms[q].gen = d.atoms[q].gen
              /\ SetFact(d, o).atoms[q].delayed = d.atoms[q].delayed
<1> DEFINE a == [d.atoms[o] EXCEPT !.fact = TRUE]
           e == SetFact(d, o)
<1>1. /\ d \in DP!DomainRecord /\ d.atoms \in Seq(DP!AtomRecord)
      /\ d.atoms[o] \in DP!AtomRecord /\ DOMAIN d.atoms = Offsets(d)
      /\ Len(d.atoms) \in Nat /\ (\A q : q \in Offsets(d) => q \in 1..Len(d.atoms))
  BY DomainParts DEF DomainOK, DP!DomOK, Offsets
<1>2. /\ a \in DP!AtomRecord /\ a.sym = d.atoms[o].sym /\ a.gen = d.atoms[o].gen
      /\ a.delayed = d.atoms[o].delayed
  BY Zenon, <1>1 DEF DP!AtomRecord
<1>3. /\ e.atoms = [d.atoms EXCEPT ![o] = a]
      /\ e.delayed = d.delayed /\ e.initOffset = d.initOffset
      /\ e.initDelayedOffset = d.initDelayedOffset
      /\ e = [d EXCEPT !.atoms = [d.atoms EXCEPT ![o] = a]]
  BY <1>1 DEF SetFact, DP!DomainRecord
<1> HIDE DEF a
<1>4. [d.atoms EXCEPT ![o] = a] \in Seq(DP!AtomRecord) /\ Len([d.atoms EXCEPT ![o] = a]) = Len(d.atoms)
  BY <1>1, <1>2, ExceptSeq
<1>5. e \in DP!DomainRecord /\ Len(e.atoms) = Len(d.atoms) /\ Offsets(e) = Offsets(d)
  BY Zenon, <1>1, <1>3, <1>4 DEF DP!DomainRecord, Offsets
<1>6. \A q \in Offsets(d) : /\ e.atoms[q].sym = d.atoms[q].sym /\ e.atoms[q].gen = d.atoms[q].gen
                            /\ e.atoms[q].delayed = d.atoms[q].delayed
  BY <1>1, <1>2, <1>3
<1>7. DP!Offsets(d) = Offsets(d) /\ DP!Offsets(e) = Offsets(e)
  BY SameLookups
<1> HIDE DEF e
<1>8. DP!DomOK(d)
  BY DEF DomainOK
<1>9. DP!DomOK(e)
  <2>1. \A k \in 1..Len(d.delayed) : d.delayed[k] \in Offsets(d)
    BY <1>7, <1>8 DEF DP!DomOK
  <2>2. \A k \in 1..Len(e.delayed) :
          e.delayed[k] \in Offsets(e) /\ e.atoms[e.delayed[k]].delayed
            /\ e.atoms[e.delayed[k]].gen > 0
    BY <2>1, <1>3, <1>5, <1>6, <1>7, <1>8 DEF DP!DomOK
  <2>3. \A v \in Offsets(e) : e.atoms[v].gen > 0 /\ e.atoms[v].delayed =>
          \E k \in 1..Len(e.delayed) : e.delayed[k] = v
    BY <1>3, <1>5, <1>6, <1>7, <1>8 DEF DP!DomOK
  <2>4. \A v \in Offsets(e) : e.atoms[v].gen = 0 /\ v <= e.initOffset => e.atoms[v].delayed
    BY <1>3, <1>5, <1>6, <1>7, <1>8 DEF DP!DomOK
  <2>5. \A v \in Offsets(e) : e.atoms[v].gen > 1 =>
          v > e.initOffset
            \/ \E k \in e.initDelayedOffset + 1 .. Len(e.delayed) : e.delayed[k] = v
    BY <1>3, <1>5, <1>6, <1>7, <1>8 DEF DP!DomOK
  <2>6. /\ e.initOffset <= Len(e.atoms) /\ e.initDelayedOffset <= Len(e.delayed)
        /\ \A k, l \in 1..Len(e.delayed) : e.delayed[k] = e.delayed[l] => k = l
    BY <1>3, <1>5, <1>8 DEF DP!DomOK
  <2>. QED  BY <2>2, <2>3, <2>4, <2>5, <2>6, <1>5, <1>7 DEF DP!DomOK
<1>10. DP!Grows(d, e)
  BY <1>3, <1>5, <1>6, <1>7, <1>8, DomainParts DEF DP!Grows
<1>11. Becomes(p, d, e, {})
  BY <1>5, <1>6, <1>9, <1>10, BecomesSame
<1>. QED  BY <1>3, <1>5, <1>6, <1>11 DEF e

LEMMA MarkStep ==
  ASSUME NEW p, NEW d, DomainOK(p, d), NEW os
  PROVE  Becomes(p, d, MarkDelayed(d, os), {})
<1> DEFINE e == MarkDelayed(d, os)
<1>a. DP!DomOK(d) /\ DP!MarkDelayed(d, os) = e /\ (\A f : DP!Offsets(f) = Offsets(f))
  BY SameMark, SameLookups DEF DomainOK
<1> HIDE DEF e
<1>1. /\ DP!DomOK(e) /\ DP!Grows(d, e) /\ Offsets(e) = Offsets(d)
      /\ \A o \in Offsets(d) : e.atoms[o].gen = d.atoms[o].gen
  BY <1>a, DP!MarkOK
<1>2. Becomes(p, d, e, {})
  BY <1>1, BecomesSame
<1>. QED  BY <1>2 DEF e

LEMMA InitStep ==
  ASSUME NEW p, NEW d, DomainOK(p, d)
  PROVE  Becomes(p, d, InitDomain(d), {})
<1> DEFINE e == InitDomain(d)
<1>a. DP!DomOK(d) /\ DP!InitDomain(d) = e /\ (\A f : DP!Offsets(f) = Offsets(f))
  BY SameInit, SameLookups DEF DomainOK
<1> HIDE DEF e
<1>1. /\ DP!DomOK(e) /\ DP!Grows(d, e) /\ Offsets(e) = Offsets(d)
      /\ \A o \in Offsets(d) : e.atoms[o].gen > 0 => d.atoms[o].gen > 0
  BY <1>a, DP!InitDomainOK
<1>2. Becomes(p, d, e, {})
  BY <1>1, BecomesSame
<1>. QED  BY <1>2 DEF e

(* The counters of a domain change. *)
LEMMA CountersStep ==
  ASSUME NEW p, NEW d, DomainOK(p, d), NEW e, e \in DP!DomainRecord, e.atoms = d.atoms,
         e.delayed = d.delayed, e.initOffset = d.initOffset,
         e.initDelayedOffset = d.initDelayedOffset
  PROVE  Becomes(p, d, e, {})
<1>1. DP!DomOK(d)
  BY DEF DomainOK
<1>2. DP!DomOK(e) /\ DP!Grows(d, e)
  BY <1>1, DP!CountersOK
<1>. QED  BY <1>1, <1>2, BecomesSame DEF Offsets

LEMMA CounterSteps ==
  ASSUME NEW p, NEW d, DomainOK(p, d)
  PROVE  /\ Becomes(p, d, [d EXCEPT !.generation = @ + 1], {})
         /\ Becomes(p, d, EnqueueDomain(d), {})
         /\ d.enqueued > 0 => Becomes(p, d, AdvanceDomain(d), {})
         /\ Becomes(p, d, d, {})
<1>1. d \in DP!DomainRecord /\ d.generation \in Nat /\ d.enqueued \in 0..2
  BY DomainParts DEF DomainOK, DP!DomOK
<1>2. ASSUME NEW n \in Nat, NEW q \in 0..2
      PROVE  Becomes(p, d, [d EXCEPT !.generation = n], {})
               /\ Becomes(p, d, [d EXCEPT !.enqueued = q], {})
               /\ Becomes(p, d, [d EXCEPT !.generation = n, !.enqueued = q], {})
  <2> DEFINE e == [d EXCEPT !.generation = n]
             f == [d EXCEPT !.enqueued = q]
             g == [d EXCEPT !.generation = n, !.enqueued = q]
  <2>1. /\ e \in DP!DomainRecord /\ e.atoms = d.atoms /\ e.delayed = d.delayed
        /\ e.initOffset = d.initOffset /\ e.initDelayedOffset = d.initDelayedOffset
    BY Zenon, <1>1 DEF DP!DomainRecord
  <2>2. /\ f \in DP!DomainRecord /\ f.atoms = d.atoms /\ f.delayed = d.delayed
        /\ f.initOffset = d.initOffset /\ f.initDelayedOffset = d.initDelayedOffset
    BY Zenon, <1>1 DEF DP!DomainRecord
  <2>3. /\ g \in DP!DomainRecord /\ g.atoms = d.atoms /\ g.delayed = d.delayed
        /\ g.initOffset = d.initOffset /\ g.initDelayedOffset = d.initDelayedOffset
    BY Zenon, <1>1 DEF DP!DomainRecord
  <2> HIDE DEF e, f, g
  <2>4. Becomes(p, d, e, {}) /\ Becomes(p, d, f, {}) /\ Becomes(p, d, g, {})
    BY <2>1, <2>2, <2>3, CountersStep
  <2>. QED  BY <2>4 DEF e, f, g
<1>3. d.generation + 1 \in Nat /\ 2 \in 0..2 /\ (d.enqueued > 0 => d.enqueued - 1 \in 0..2)
  BY <1>1
<1>4. Becomes(p, d, d, {})
  BY <1>1, CountersStep
<1>5. Becomes(p, d, [d EXCEPT !.generation = d.generation + 1], {})
      /\ Becomes(p, d, [d EXCEPT !.enqueued = 2], {})
  BY Zenon, <1>2, <1>3
<1>6. ASSUME d.enqueued > 0
      PROVE  Becomes(p, d, [d EXCEPT !.generation = d.generation + 1,
                                     !.enqueued = d.enqueued - 1], {})
  BY Zenon, <1>2, <1>3, <1>6
<1>. QED  BY <1>4, <1>5, <1>6 DEF EnqueueDomain, AdvanceDomain

(* A further step that leaves symbols, generations and marks alone. *)
LEMMA BecomesLike ==
  ASSUME NEW p, NEW d, NEW e, NEW f, NEW S, DomainOK(p, d), Becomes(p, d, e, S),
         DomainOK(p, f), Len(f.atoms) = Len(e.atoms), f.delayed = e.delayed,
         \A o \in Offsets(e) : /\ f.atoms[o].sym = e.atoms[o].sym
                               /\ f.atoms[o].gen = e.atoms[o].gen
                               /\ f.atoms[o].delayed = e.atoms[o].delayed
  PROVE  Becomes(p, d, f, S)
<1>1. /\ Len(d.atoms) \in Nat /\ Len(e.atoms) \in Nat
      /\ DP!Grows(d, e) /\ DP!Offsets(d) = Offsets(d)
  BY Zenon, DomainParts, SameLookups DEF Becomes, DomainOK
<1>2. Offsets(d) \subseteq Offsets(e) /\ Offsets(f) = Offsets(e)
  BY <1>1 DEF Offsets, DP!Grows
<1>3. DP!Grows(d, f)
  BY <1>1, <1>2 DEF DP!Grows
<1>4. \A s : s \notin S /\ Undefined(d, s) => Undefined(f, s)
  BY <1>2 DEF Becomes, Undefined
<1>. QED  BY <1>3, <1>4 DEF Becomes

(* HeadDefinition::enqueue, seen from a domain. *)
LEMMA PropagateStep ==
  ASSUME NEW p, NEW d, DomainOK(p, d), NEW os
  PROVE  Becomes(p, d, EnqueueDomain(MarkDelayed(d, os)), {})
<1> DEFINE m == MarkDelayed(d, os)
           e == EnqueueDomain(m)
<1>1. Becomes(p, d, m, {}) /\ DomainOK(p, m)
  BY MarkStep DEF Becomes
<1> HIDE DEF m
<1>2. DomainOK(p, e)
  BY Zenon, <1>1, CounterSteps DEF Becomes
<1>3. e.atoms = m.atoms /\ e.delayed = m.delayed
  <2>1. m \in DP!DomainRecord
    BY <1>1 DEF DomainOK, DP!DomOK
  <2>. QED  BY <2>1 DEF EnqueueDomain, DP!DomainRecord
<1> HIDE DEF e
<1>4. Becomes(p, d, e, {})
  BY <1>1, <1>2, <1>3, BecomesLike
<1>. QED  BY <1>4 DEF e, m

(* An atom becomes defined, and a fact. *)
LEMMA DefineFactStep ==
  ASSUME NEW p, NEW d, DomainOK(p, d), NEW s \in UsedSyms, PredOf(s) = p
  PROVE  LET e == Define(d, s) IN Becomes(p, d, SetFact(e, Find(e, s)), {s})
<1> DEFINE e == Define(d, s)
           f == SetFact(e, Find(e, s))
<1>1. Becomes(p, d, e, {s}) /\ Contains(e, s) /\ DomainOK(p, e)
  BY DefineStep DEF Becomes
<1> HIDE DEF e
<1>2. Find(e, s) \in Offsets(e)
  BY <1>1, FindContained
<1>3. DomainOK(p, f) /\ Len(f.atoms) = Len(e.atoms) /\ f.delayed = e.delayed
      /\ \A o \in Offsets(e) : /\ f.atoms[o].sym = e.atoms[o].sym
                                /\ f.atoms[o].gen = e.atoms[o].gen
                                /\ f.atoms[o].delayed = e.atoms[o].delayed
  BY <1>1, <1>2, SetFactStep DEF Becomes
<1> HIDE DEF f
<1>4. Becomes(p, d, f, {s})
  BY <1>1, <1>3, BecomesLike
<1>. QED  BY <1>4 DEF e, f

-----------------------------------------------------------------------------
(* The grounder: what holds in every state *)

(* The program and the statements of the running call. *)
CallInv ==
  /\ program \in DOMAIN Programs
  /\ step \in DOMAIN Programs[program]
  /\ todo \subseteq AllSyms(program)
  /\ done \subseteq Part.stms
  /\ comp \subseteq Part.stms
  /\ done \cap comp = {}

(* What is empty in which phase of a call. *)
PhaseInv ==
  /\ pc \in {"call", "backend", "prepare", "ground", "linearize", "process", "iterate", "done"}
  /\ pc \in {"call", "backend", "prepare"} => done = {} /\ closed = {}
  /\ pc \in {"prepare", "ground", "linearize", "process", "iterate"} => deps = Analyze(Part.stms)
  /\ pc \notin {"linearize", "process", "iterate"} => comp = {} /\ insts = {}
  /\ pc \notin {"process", "iterate"} => queued = {}
  /\ pc # "iterate" => ran = {}

DomInv ==
  /\ dom = [p \in Preds |-> dom[p]]
  /\ \A p \in Preds : DomainOK(p, dom[p])

(* The instantiators on their way through the queue. *)
QueueInv ==
  /\ queued \subseteq insts /\ ran \subseteq insts
  /\ current \subseteq ran /\ running \subseteq ran
  /\ \A x, y \in running : x = y
  /\ running = {} => left = {} /\ work = {}
  /\ \A x \in insts : x.stm \in comp

WorkFields == {"inst", "stage", "complete", "probes", "body", "fact", "defs", "heads"}

(* The instance that is matched and reported. *)
WorkInv ==
  \A x \in running :
    /\ left \subseteq Instances(x.stm)
    /\ \A w \in work :
         /\ WorkFields \subseteq DOMAIN w
         /\ w.inst \in Instances(x.stm)
         /\ w.probes \subseteq Negative(x.stm)
         /\ w.defs \in Seq(HeadSyms(x.stm))
         /\ w.heads \in Seq(HeadSyms(x.stm))
         /\ \A n \in DOMAIN w.heads : Has(w.heads[n])

(* What was taken to be undefined is, and no statement that is still to be *)
(* grounded in the call derives it.                                        *)
ClosedInv ==
  \A s \in closed :
    /\ s \in UsedSyms
    /\ Undefined(dom[PredOf(s)], s)
    /\ \A t \in Part.stms \ done : s \notin HeadSyms(t)

GInv == CallInv /\ PhaseInv /\ DomInv /\ QueueInv /\ WorkInv /\ ClosedInv

-----------------------------------------------------------------------------
(* The symbols of statements *)

LEMMA Tables ==
  ASSUME NEW stm \in DOMAIN Statements
  PROVE  /\ \A k \in Body(stm) : LitSyms(stm, k) = {BodySym(stm, i, k) : i \in Instances(stm)}
         /\ HeadSyms(stm) = UNION {HeadSet(stm, i) : i \in Instances(stm)}
         /\ \A k \in Body(stm), t \in DOMAIN Statements :
              t \in ProviderTable[stm][k] <=> HeadSyms(t) \intersect LitSyms(stm, k) # {}
BY DEF LitSyms, LitTable, HeadSyms, HeadTable, ProviderTable

LEMMA PartStatements ==
  ASSUME CallInv
  PROVE  Part.stms \subseteq DOMAIN Statements
BY Zenon, ProgramsAssumption DEF CallInv, Part

LEMMA StatementSyms ==
  ASSUME CallInv, NEW stm \in Part.stms
  PROVE  /\ stm \in DOMAIN Statements
         /\ HeadSyms(stm) \subseteq UsedSyms
         /\ \A k \in Body(stm) : LitSyms(stm, k) \subseteq UsedSyms
         /\ \A i \in Instances(stm), k \in Body(stm) :
              BodySym(stm, i, k) \in LitSyms(stm, k) /\ BodySym(stm, i, k) \in UsedSyms
         /\ \A i \in Instances(stm) :
              /\ Heads(stm, i) \in Seq(HeadSyms(stm))
              /\ Len(Heads(stm, i)) \in Nat
<1>1. stm \in DOMAIN Statements
  BY PartStatements
<1>2. \A s \in HeadSyms(stm) : s \in AllSyms(program)
  BY DEF AllSyms, CallInv, Part
<1>3. ASSUME NEW k \in Body(stm), NEW s \in LitSyms(stm, k) PROVE s \in AllSyms(program)
  BY <1>3 DEF AllSyms, CallInv, Part
<1>4. AllSyms(program) \subseteq UsedSyms
  BY DEF UsedSyms, CallInv
<1>5. \A i \in Instances(stm), k \in Body(stm) : BodySym(stm, i, k) \in LitSyms(stm, k)
  BY <1>1, Tables
<1>6. ASSUME NEW i \in Instances(stm) PROVE Heads(stm, i) \in Seq(HeadSyms(stm))
  <2>1. Heads(stm, i) \in Seq(HeadSet(stm, i))
    BY Zenon, <1>1, <1>6, StatementsAssumption DEF Heads, HeadSet, Instances
  <2>2. HeadSet(stm, i) \subseteq HeadSyms(stm)
    BY <1>1, Tables
  <2>. QED  BY <2>1, <2>2
<1>7. \A i \in Instances(stm) : Len(Heads(stm, i)) \in Nat
  BY <1>6
<1>. QED  BY <1>1, <1>2, <1>3, <1>4, <1>5, <1>6, <1>7

LEMMA SymPred ==
  ASSUME NEW s \in UsedSyms
  PROVE  PredOf(s) \in Preds
BY DEF Preds

(* A literal that is not recursive has no symbol that a statement derives  *)
(* that is still to be grounded.                                           *)
LEMMA NotRecursive ==
  ASSUME CallInv, NEW stm \in Part.stms, NEW k \in Body(stm), ~IsRecursive(stm, k),
         NEW s \in LitSyms(stm, k), NEW t \in Part.stms \ done
  PROVE  s \notin HeadSyms(t)
<1>1. t \notin ProviderTable[stm][k]
  BY DEF IsRecursive, DefinedBy
<1>2. stm \in DOMAIN Statements /\ t \in DOMAIN Statements
  BY PartStatements
<1>. QED  BY <1>1, <1>2, Tables

(* Components are sets of statements of the part. *)
LEMMA ComponentStatements ==
  ASSUME NEW stms, NEW s
  PROVE  NegSCC(stms, s) \subseteq stms /\ PosSCC(stms, s) \subseteq NegSCC(stms, s)
BY Zenon DEF NegSCC, PosSCC, Reach, Closure

-----------------------------------------------------------------------------
(* Steps of the domains *)

LEMMA BecomesMore ==
  ASSUME NEW p, NEW d, NEW e, NEW S, NEW T, Becomes(p, d, e, S), S \subseteq T
  PROVE  Becomes(p, d, e, T)
BY DEF Becomes

(* The atoms of a domain are kept. *)
LEMMA BecomesContains ==
  ASSUME NEW p, NEW d, NEW e, NEW S, DomainOK(p, d), Becomes(p, d, e, S), NEW s, Contains(d, s)
  PROVE  Contains(e, s)
<1>1. /\ Len(d.atoms) \in Nat /\ Len(e.atoms) \in Nat
      /\ DP!Grows(d, e) /\ DP!Offsets(d) = Offsets(d)
  BY Zenon, DomainParts, SameLookups DEF Becomes, DomainOK
<1>2. Offsets(d) \subseteq Offsets(e)
  BY <1>1 DEF Offsets, DP!Grows
<1>. QED  BY <1>1, <1>2 DEF Contains, DP!Grows

(* All domains take a step. *)
DomainsBecome(S) ==
  /\ dom' = [p \in Preds |-> dom'[p]]
  /\ \A p \in Preds : Becomes(p, dom[p], dom'[p], S)

LEMMA OneDomain ==
  ASSUME DomInv, NEW q \in Preds, NEW e, NEW S, Becomes(q, dom[q], e, S),
         dom' = [dom EXCEPT ![q] = e]
  PROVE  DomainsBecome(S)
<1>1. DOMAIN dom = Preds
  BY DEF DomInv
<1>2. dom' = [p \in Preds |-> dom'[p]] /\ dom'[q] = e /\ \A p \in Preds : p # q => dom'[p] = dom[p]
  BY Zenon, <1>1
<1>3. \A p \in Preds : p # q => Becomes(p, dom[p], dom'[p], {})
  BY Zenon, <1>2, CounterSteps DEF DomInv
<1>4. \A p \in Preds : p # q => Becomes(p, dom[p], dom'[p], S)
  BY <1>3, BecomesMore
<1>. QED  BY <1>2, <1>4 DEF DomainsBecome

LEMMA SameDomains ==
  ASSUME DomInv, dom' = dom
  PROVE  DomainsBecome({})
BY Zenon, CounterSteps DEF DomInv, DomainsBecome

(* What a step of the domains means to the invariants. *)
LEMMA DomainsStep ==
  ASSUME DomInv, NEW S, DomainsBecome(S)
  PROVE  /\ DomInv'
         /\ \A s \in UsedSyms : Has(s) => Has(s)'
         /\ \A s \in UsedSyms : s \notin S /\ Undefined(dom[PredOf(s)], s) =>
                                  Undefined(dom'[PredOf(s)], s)
<1>1. DomInv'
  BY DEF DomInv, DomainsBecome, Becomes
<1>2. ASSUME NEW s \in UsedSyms, Has(s) PROVE Contains(dom'[PredOf(s)], s)
  BY <1>2, SymPred, BecomesContains DEF DomInv, DomainsBecome, Has
<1>3. \A s \in UsedSyms : s \notin S /\ Undefined(dom[PredOf(s)], s) =>
                             Undefined(dom'[PredOf(s)], s)
  BY SymPred DEF DomainsBecome, Becomes
<1>. QED  BY <1>1, <1>2, <1>3 DEF Has

(* Closed symbols stay closed if they are not defined. *)
LEMMA ClosedStep ==
  ASSUME GInv, NEW S, DomainsBecome(S), UNCHANGED <<program, step, closed>>,
         done \subseteq done', \A s \in closed : s \notin S
  PROVE  ClosedInv'
<1>1. Part' = Part
  BY DEF Part
<1>2. ASSUME NEW s \in closed
      PROVE  /\ s \in UsedSyms
             /\ Undefined(dom'[PredOf(s)], s)
             /\ \A t \in Part.stms \ done' : s \notin HeadSyms(t)
  BY <1>2, DomainsStep DEF GInv, ClosedInv
<1>. QED  BY <1>1, <1>2 DEF ClosedInv

LEMMA WorkStep ==
  ASSUME GInv, NEW S, DomainsBecome(S), UNCHANGED <<running, left, work>>
  PROVE  WorkInv'
<1>1. ASSUME NEW x \in running, NEW w \in work, NEW n \in DOMAIN w.heads
      PROVE  Has(w.heads[n])'
  <2>1. x.stm \in Part.stms /\ w.heads \in Seq(HeadSyms(x.stm)) /\ Has(w.heads[n])
    BY <1>1 DEF GInv, WorkInv, QueueInv, CallInv
  <2>2. w.heads[n] \in UsedSyms
    BY <2>1, StatementSyms DEF GInv
  <2>. QED  BY <2>1, <2>2, DomainsStep DEF GInv
<1>. QED  BY <1>1 DEF GInv, WorkInv

(* The instance is left alone and no closed symbol is defined. *)
LEMMA QuietStep ==
  ASSUME GInv, NEW S, DomainsBecome(S), S \intersect closed = {},
         UNCHANGED <<program, step, done, closed, running, left, work>>
  PROVE  DomInv' /\ WorkInv' /\ ClosedInv' /\ Part' = Part
<1>1. DomInv'
  BY DomainsStep DEF GInv
<1>2. WorkInv'
  BY WorkStep
<1>3. ClosedInv'
  <2>1. UNCHANGED <<program, step, closed>> /\ done \subseteq done' /\ \A s \in closed : s \notin S
    OBVIOUS
  <2>. QED  BY <2>1, ClosedStep
<1>. QED  BY <1>1, <1>2, <1>3 DEF Part

LEMMA SameDomainStep ==
  ASSUME GInv, UNCHANGED <<program, step, done, closed, running, left, work, dom>>
  PROVE  DomInv' /\ WorkInv' /\ ClosedInv' /\ Part' = Part
<1>1. DomainsBecome({}) /\ {} \intersect closed = {}
  BY SameDomains DEF GInv
<1>. QED  BY <1>1, QuietStep

-----------------------------------------------------------------------------
(* The steps of the grounder *)

LEMMA InitGInv == Init => GInv
<1> SUFFICES ASSUME Init PROVE GInv
  OBVIOUS
<1>1. CallInv
  <2>1. Programs[program] \in Seq({Programs[program][n] : n \in DOMAIN Programs[program]})
        /\ Programs[program] # <<>>
    BY ProgramsAssumption DEF Init
  <2>2. 1 \in DOMAIN Programs[program]
    BY <2>1
  <2>. QED  BY <2>2 DEF Init, CallInv
<1>2. PhaseInv /\ QueueInv /\ WorkInv /\ ClosedInv
  BY DEF Init, PhaseInv, QueueInv, WorkInv, ClosedInv
<1>3. DomInv
  <2>1. DP!DomOK(EmptyDomain) /\ Offsets(EmptyDomain) = {}
    <3>1. EmptyDomain \in DP!DomainRecord /\ EmptyDomain.atoms = <<>> /\ EmptyDomain.delayed = <<>>
          /\ EmptyDomain.initOffset = 0 /\ EmptyDomain.initDelayedOffset = 0
      BY DEF EmptyDomain, DP!DomainRecord
    <3>2. Offsets(EmptyDomain) = {} /\ 1..Len(EmptyDomain.delayed) = {}
          /\ Len(EmptyDomain.atoms) = 0 /\ Len(EmptyDomain.delayed) = 0
      BY <3>1 DEF Offsets
    <3>3. DP!Offsets(EmptyDomain) = {}
      BY <3>2, SameLookups
    <3>. QED  BY <3>1, <3>2, <3>3 DEF DP!DomOK
  <2>. QED  BY <2>1 DEF Init, DomInv, DomainOK, Distinct
<1>. QED  BY <1>1, <1>2, <1>3 DEF GInv

(* The analysis only depends on the call. *)
LEMMA SameAnalysis ==
  ASSUME UNCHANGED <<program, step, nheads>>
  PROVE  Part' = Part /\ Analyze(Part.stms)' = Analyze(Part.stms)
<1>1. Part' = Part
  BY DEF Part
<1>2. \A stms, stm : IsPositive(stms, stm)' = IsPositive(stms, stm)
  BY DEF IsPositive
<1>. QED  BY <1>1, <1>2 DEF Analyze

(* The next generation of all domains. *)
LEMMA NextGenerationStep ==
  ASSUME DomInv, dom' = NextGeneration
  PROVE  DomainsBecome({})
BY CounterSteps DEF DomInv, DomainsBecome, NextGeneration

LEMMA BackendSteps ==
  ASSUME GInv, BeginAddBackend \/ BeginPrepare \/ Prepared
  PROVE  GInv'
<1>1. /\ UNCHANGED <<program, step, nheads, done, comp, insts, queueVars, instVars, closed>>
      /\ pc \in {"call", "backend", "prepare"} /\ pc' \in {"backend", "prepare", "ground"}
      /\ pc' \in {"prepare", "ground"} => deps' = Analyze(Part.stms)
      /\ todo' \in {todo, Part.choices, Part.facts}
      /\ dom' \in {dom, NextGeneration}
  BY DEF BeginAddBackend, BeginPrepare, Prepared, callVars, compVars, history, indexVars,
         GInv, PhaseInv
<1>2. DomainsBecome({})
  BY <1>1, NextGenerationStep, SameDomains DEF GInv
<1>3. DomInv' /\ WorkInv' /\ ClosedInv' /\ Part' = Part
  <2>1. {} \intersect closed = {} /\ UNCHANGED <<running, left, work>>
    BY <1>1 DEF instVars
  <2>. QED  BY <1>1, <1>2, <2>1, QuietStep
<1>4. Part' = Part
  BY <1>3
<1>5. Part.choices \subseteq AllSyms(program) /\ Part.facts \subseteq AllSyms(program)
  BY DEF GInv, CallInv, Part, AllSyms
<1>6. CallInv'
  BY <1>1, <1>4, <1>5 DEF GInv, CallInv
<1>7. PhaseInv'
  BY <1>1, SameAnalysis DEF GInv, PhaseInv, queueVars, callVars
<1>8. QueueInv'
  BY <1>1 DEF GInv, QueueInv, queueVars, instVars
<1>. QED  BY <1>3, <1>6, <1>7, <1>8 DEF GInv

LEMMA DefiningSteps ==
  ASSUME GInv, NEW s \in todo, AddAtom(s) \/ DefineFact(s)
  PROVE  GInv'
<1>1. /\ UNCHANGED <<program, step, nheads, compVars, queueVars, instVars, pc, closed>>
      /\ pc \in {"backend", "prepare"} /\ todo' \subseteq todo
      /\ LET p == PredOf(s)
             d == Define(dom[p], s)
         IN dom' = [dom EXCEPT ![p] = d] \/ dom' = [dom EXCEPT ![p] = SetFact(d, Find(d, s))]
  BY DEF AddAtom, DefineFact
<1>2. s \in UsedSyms /\ PredOf(s) \in Preds
  BY SymPred DEF GInv, CallInv, UsedSyms
<1>3. DomainsBecome({s})
  <2> DEFINE p == PredOf(s)
             d == Define(dom[p], s)
             f == SetFact(d, Find(d, s))
  <2>1. Becomes(p, dom[p], d, {s}) /\ Becomes(p, dom[p], f, {s})
    BY <1>2, DefineStep, DefineFactStep DEF GInv, DomInv
  <2>2. dom' = [dom EXCEPT ![p] = d] \/ dom' = [dom EXCEPT ![p] = f]
    BY <1>1
  <2> HIDE DEF d, f
  <2>. QED  BY <2>1, <2>2, <1>2, OneDomain DEF GInv
<1>4. closed = {}
  BY <1>1 DEF GInv, PhaseInv
<1>5. DomInv' /\ WorkInv' /\ ClosedInv' /\ Part' = Part
  <2>1. {s} \intersect closed = {} /\ UNCHANGED <<done, running, left, work>>
    BY <1>1, <1>4 DEF instVars, compVars
  <2>. QED  BY <1>1, <1>3, <2>1, QuietStep
<1>6. CallInv' /\ PhaseInv'
  BY <1>1, <1>5, SameAnalysis DEF GInv, CallInv, PhaseInv, compVars, queueVars
<1>7. QueueInv'
  BY <1>1 DEF GInv, QueueInv, compVars, queueVars, instVars
<1>. QED  BY <1>5, <1>6, <1>7 DEF GInv

LEMMA StartComponentStep ==
  ASSUME GInv, NEW c \in {deps[s].comp : s \in DOMAIN deps}, StartComponent(c)
  PROVE  GInv'
<1>1. /\ UNCHANGED <<callVars, deps, done, dom, queueVars, instVars, closed>>
      /\ pc = "ground" /\ pc' = "linearize" /\ comp' = c /\ insts' = {}
      /\ \A s \in c : s \notin done
  BY DEF StartComponent, Ready, history
<1>2. c \subseteq Part.stms
  BY <1>1, ComponentStatements DEF GInv, PhaseInv, Analyze
<1>3. DomInv' /\ WorkInv' /\ ClosedInv' /\ Part' = Part
  BY <1>1, SameDomainStep DEF instVars, callVars
<1>4. Part' = Part
  BY <1>3
<1>5. CallInv'
  BY <1>1, <1>2, <1>4 DEF GInv, CallInv, callVars
<1>6. PhaseInv'
  BY <1>1, SameAnalysis DEF GInv, PhaseInv, queueVars, callVars
<1>7. QueueInv'
  BY <1>1 DEF GInv, PhaseInv, QueueInv, queueVars, instVars
<1>. QED  BY <1>3, <1>5, <1>6, <1>7 DEF GInv

LEMMA InstantiatorStatement ==
  ASSUME NEW stm, NEW x \in Instantiators(stm)
  PROVE  x.stm = stm
BY DEF Instantiators

LEMMA LinearizeStep ==
  ASSUME GInv, NEW s \in comp, Linearize(s)
  PROVE  GInv'
<1>1. /\ UNCHANGED <<callVars, deps, done, comp, dom, queueVars, instVars, pc, closed>>
      /\ pc = "linearize"
  BY DEF Linearize, history
<1>2. PICK xs \in SUBSET Instantiators(s) : insts' = insts \union xs
  BY DEF Linearize
<1>3. \A x \in insts' : x.stm \in comp
  BY <1>2, InstantiatorStatement DEF GInv, QueueInv
<1>4. DomInv' /\ WorkInv' /\ ClosedInv' /\ Part' = Part
  BY <1>1, SameDomainStep DEF instVars, callVars
<1>5. Part' = Part
  BY <1>4
<1>6. CallInv' /\ PhaseInv'
  BY <1>1, <1>5, SameAnalysis DEF GInv, CallInv, PhaseInv, callVars, queueVars
<1>7. QueueInv'
  BY <1>1, <1>2, <1>3 DEF GInv, QueueInv, queueVars, instVars
<1>. QED  BY <1>4, <1>6, <1>7 DEF GInv

(* An index is over the domain of a literal of a statement. *)
LEMMA PassedStep ==
  ASSUME NEW p, NEW d, DomainOK(p, d), NEW ix
  PROVE  Becomes(p, d, PassedBy(d, ix), {})
BY MarkStep DEF PassedBy

LEMMA RegisterLiteralStep ==
  ASSUME GInv, RegisterLiteral
  PROVE  GInv'
<1>1. UNCHANGED <<program, step, nheads, todo, deps, done, comp, insts, queued, current, ran,
                  running, left, work, pc, closed>>
  BY DEF RegisterLiteral, callVars, queueVars, instVars, history
<1>2. PICK q, ix : dom' = dom \/ dom' = [dom EXCEPT ![q] = PassedBy(@, ix)]
  BY Zenon DEF RegisterLiteral
<1>3. DomainsBecome({})
  <2>1. CASE dom' = dom
    BY <2>1, SameDomains DEF GInv
  <2>2. CASE dom' = [dom EXCEPT ![q] = PassedBy(@, ix)] /\ q \in Preds
    <3>1. Becomes(q, dom[q], PassedBy(dom[q], ix), {})
      BY <2>2, PassedStep DEF GInv, DomInv
    <3>2. dom' = [dom EXCEPT ![q] = PassedBy(dom[q], ix)]
      BY <2>2
    <3>. QED  BY Zenon, <2>2, <3>1, <3>2, OneDomain DEF GInv
  <2>3. CASE dom' = [dom EXCEPT ![q] = PassedBy(@, ix)] /\ q \notin Preds
    <3>1. dom' = dom
      BY <2>3 DEF GInv, DomInv
    <3>. QED  BY <3>1, SameDomains DEF GInv
  <2>. QED  BY <1>2, <2>1, <2>2, <2>3
<1>4. DomInv' /\ WorkInv' /\ ClosedInv' /\ Part' = Part
  <2>1. {} \intersect closed = {}
    OBVIOUS
  <2>. QED  BY <1>1, <1>3, <2>1, QuietStep
<1>5. CallInv' /\ PhaseInv' /\ QueueInv'
  BY <1>1, <1>4, SameAnalysis DEF GInv, CallInv, PhaseInv, QueueInv
<1>. QED  BY <1>4, <1>5 DEF GInv

LEMMA EnqueueComponentStep ==
  ASSUME GInv, EnqueueComponent
  PROVE  GInv'
<1>1. /\ UNCHANGED <<program, step, nheads, todo, deps, done, comp, insts, current, ran,
                     running, left, work, closed>>
      /\ pc = "linearize" /\ pc' = "process" /\ queued' = insts
      /\ dom' = [p \in DOMAIN dom |-> IF p \in CompPreds THEN InitDomain(dom[p]) ELSE dom[p]]
  BY DEF EnqueueComponent, callVars, compVars, instVars, history
<1>2. DomainsBecome({})
  <2>1. DOMAIN dom = Preds
    BY DEF GInv, DomInv
  <2>2. ASSUME NEW p \in Preds PROVE Becomes(p, dom[p], dom'[p], {})
    <3>1. Becomes(p, dom[p], InitDomain(dom[p]), {}) /\ Becomes(p, dom[p], dom[p], {})
      BY Zenon, InitStep, CounterSteps DEF GInv, DomInv
    <3>2. dom'[p] = InitDomain(dom[p]) \/ dom'[p] = dom[p]
      BY <1>1, <2>1
    <3>. QED  BY <3>1, <3>2
  <2>. QED  BY <1>1, <2>1, <2>2 DEF DomainsBecome
<1>3. DomInv' /\ WorkInv' /\ ClosedInv' /\ Part' = Part
  <2>1. {} \intersect closed = {}
    OBVIOUS
  <2>. QED  BY <1>1, <1>2, <2>1, QuietStep
<1>4. CallInv' /\ PhaseInv' /\ QueueInv'
  BY <1>1, <1>3, SameAnalysis DEF GInv, CallInv, PhaseInv, QueueInv
<1>. QED  BY <1>3, <1>4 DEF GInv

LEMMA BeginIterationStep ==
  ASSUME GInv, BeginIteration
  PROVE  GInv'
<1>1. /\ UNCHANGED <<program, step, nheads, todo, deps, done, comp, insts, dom,
                     running, left, work, closed>>
      /\ pc = "process" /\ pc' = "iterate" /\ queued' = {} /\ current' = queued /\ ran' = queued
  BY DEF BeginIteration, callVars, compVars, instVars, history
<1>2. DomInv' /\ WorkInv' /\ ClosedInv' /\ Part' = Part
  BY <1>1, SameDomainStep
<1>3. running = {}
  BY <1>1 DEF GInv, PhaseInv, QueueInv
<1>4. CallInv' /\ PhaseInv' /\ QueueInv'
  BY <1>1, <1>2, <1>3, SameAnalysis DEF GInv, CallInv, PhaseInv, QueueInv
<1>. QED  BY <1>2, <1>4 DEF GInv

(* A symbol has one atom. *)
LEMMA UndefinedSym ==
  ASSUME DomInv, NEW s \in UsedSyms
  PROVE  ~IsDefinedSym(s) <=> Undefined(dom[PredOf(s)], s)
<1> DEFINE d == dom[PredOf(s)]
<1>1. DomainOK(PredOf(s), d)
  BY SymPred DEF DomInv
<1>2. \A o \in Offsets(d) : d.atoms[o].gen \in Nat
  BY <1>1, DomainParts DEF DomainOK
<1>3. CASE Contains(d, s)
  <2>1. Find(d, s) \in Offsets(d) /\ d.atoms[Find(d, s)].sym = s
    BY <1>3, FindContained
  <2>2. \A o \in Offsets(d) : d.atoms[o].sym = s => o = Find(d, s)
    BY <1>1, <2>1 DEF DomainOK, Distinct
  <2>. QED  BY <1>2, <1>3, <2>1, <2>2 DEF IsDefinedSym, Has, AtomOf, Undefined
<1>4. CASE ~Contains(d, s)
  BY <1>4 DEF IsDefinedSym, Has, Undefined, Contains
<1>. QED  BY <1>3, <1>4

LEMMA RunInstantiatorStep ==
  ASSUME GInv, NEW x \in current, RunInstantiator(x)
  PROVE  GInv'
<1>1. /\ UNCHANGED <<program, step, nheads, todo, deps, done, comp, insts, dom, queued, ran, work, pc>>
      /\ current' \subseteq current /\ running' = {x} /\ left' = Tried(x) /\ work = {} /\ pc = "iterate"
  BY DEF RunInstantiator, callVars, compVars
<1>2. x \in ran /\ x \in insts /\ x.stm \in comp /\ x.stm \in Part.stms
  BY DEF GInv, QueueInv, CallInv
<1>3. Part' = Part
  BY <1>1 DEF Part
<1>4. DomInv' /\ CallInv' /\ PhaseInv' /\ QueueInv'
  BY <1>1, <1>2, <1>3, SameAnalysis DEF GInv, DomInv, CallInv, PhaseInv, QueueInv
<1>5. WorkInv'
  BY <1>1 DEF WorkInv, Tried
<1>6. ClosedInv'
  <2>1. ASSUME NEW s \in closed', s \notin closed
        PROVE  /\ s \in UsedSyms /\ Undefined(dom[PredOf(s)], s)
               /\ \A t \in Part.stms \ done : s \notin HeadSyms(t)
    <3>1. PICK k \in Positive(x.stm) : ~IsRecursive(x.stm, k) /\ s \in LitSyms(x.stm, k)
                                         /\ ~IsDefinedSym(s)
      BY <2>1 DEF RunInstantiator
    <3>2. k \in Body(x.stm)
      BY DEF Positive
    <3>3. s \in UsedSyms /\ PredOf(s) \in Preds
      BY <1>2, <3>1, <3>2, StatementSyms, SymPred DEF GInv
    <3>4. \A t \in Part.stms \ done : s \notin HeadSyms(t)
      BY <1>2, <3>1, <3>2, NotRecursive DEF GInv
    <3>. QED  BY <3>1, <3>3, <3>4, UndefinedSym DEF GInv
  <2>2. \A s \in closed : /\ s \in UsedSyms /\ Undefined(dom[PredOf(s)], s)
                          /\ \A t \in Part.stms \ done : s \notin HeadSyms(t)
    BY DEF GInv, ClosedInv
  <2>. QED  BY <1>1, <1>3, <2>1, <2>2 DEF ClosedInv
<1>. QED  BY <1>4, <1>5, <1>6 DEF GInv

LEMMA MatchSteps ==
  ASSUME GInv,
         (\E i \in left : TryInstance(i) \/ Backjump(i)) \/ Mismatch \/ ReportBody
  PROVE  GInv'
<1>1. /\ UNCHANGED <<program, step, nheads, todo, deps, done, comp, insts, dom, queued, current, ran,
                     running, pc, closed>>
      /\ left' \subseteq left
  BY Zenon DEF TryInstance, Backjump, Mismatch, ReportBody, callVars, compVars, queueVars, history
<1>2. DomInv' /\ CallInv' /\ PhaseInv'
  <2>1. Part' = Part
    BY <1>1 DEF Part
  <2>. QED  BY <1>1, <2>1, SameAnalysis DEF GInv, DomInv, CallInv, PhaseInv
<1>3. ClosedInv'
  <2>1. DomainsBecome({}) /\ \A s \in closed : s \notin {}
    BY <1>1, SameDomains DEF GInv
  <2>. QED  BY <1>1, <2>1, ClosedStep
<1>4. running = {} => left' = {} /\ work' = {}
  BY DEF GInv, QueueInv, TryInstance, Backjump, Mismatch, ReportBody
<1>5. QueueInv'
  BY <1>1, <1>4 DEF GInv, QueueInv
<1>6. WorkInv'
  <2>1. CASE \E i \in left : TryInstance(i)
    <3>1. PICK i \in left : TryInstance(i)
      BY <2>1
    <3>2. ASSUME NEW x \in running
          PROVE  /\ i \in Instances(x.stm) /\ left' \subseteq Instances(x.stm)
                 /\ work' = {[inst |-> i, stage |-> "match", complete |-> Fails(x, i) = {},
                              probes |-> Probes(x, i), body |-> {}, fact |-> TRUE, defs |-> <<>>,
                              heads |-> <<>>]}
      BY <1>1, <3>1 DEF TryInstance, GInv, QueueInv, WorkInv
    <3>3. ASSUME NEW x \in running, NEW w \in work'
          PROVE  /\ WorkFields \subseteq DOMAIN w
                 /\ w.inst \in Instances(x.stm) /\ w.probes \subseteq Negative(x.stm)
                 /\ w.defs = <<>> /\ w.heads = <<>>
      BY <3>2 DEF Probes, WorkFields
    <3>4. ASSUME NEW x \in running, NEW w \in work'
          PROVE  /\ w.defs \in Seq(HeadSyms(x.stm))
                 /\ w.heads \in Seq(HeadSyms(x.stm))
                 /\ DOMAIN w.heads = {}
      <4>1. <<>> \in Seq(HeadSyms(x.stm)) /\ DOMAIN <<>> = {}
        OBVIOUS
      <4>. QED  BY Zenon, <3>3, <3>4, <4>1
    <3>. QED  BY <1>1, <3>2, <3>3, <3>4 DEF WorkInv
  <2>2. CASE (\E i \in left : Backjump(i)) \/ Mismatch
    <3>1. work' = work \/ work' = {}
      BY <2>2 DEF Backjump, Mismatch
    <3>2. \A s : Has(s)' = Has(s)
      BY <1>1 DEF Has
    <3>. QED  BY <1>1, <3>1, <3>2 DEF WorkInv, GInv
  <2>3. CASE ReportBody
    <3>a. \E x \in running, w \in work : \E f, b :
            work' = {[w EXCEPT !.stage = "head", !.fact = f, !.body = b]}
      <4>1. PICK x \in running, w \in work :
              LET sym(k) == BodySym(x.stm, w.inst, k)
                  true == {k \in Body(x.stm) : IsTrue(x.stm, k, sym(k))}
                  out == {k \in Body(x.stm) :
                            IsOutput(x.stm, k, sym(k)) /\ (program \in KeepingFacts \/ k \notin true)}
              IN work' = {[w EXCEPT !.stage = "head", !.fact = (true = Body(x.stm)),
                                    !.body = {Lit(Statements[x.stm].naf[k], sym(k)) : k \in out}]}
        BY Zenon, <2>3 DEF ReportBody
      <4> DEFINE true == {k \in Body(x.stm) : IsTrue(x.stm, k, BodySym(x.stm, w.inst, k))}
                 out == {k \in Body(x.stm) : IsOutput(x.stm, k, BodySym(x.stm, w.inst, k))
                                               /\ (program \in KeepingFacts \/ k \notin true)}
                 b == {Lit(Statements[x.stm].naf[k], BodySym(x.stm, w.inst, k)) : k \in out}
      <4>2. work' = {[w EXCEPT !.stage = "head", !.fact = (true = Body(x.stm)), !.body = b]}
        BY Zenon, <4>1
      <4> HIDE DEF true, out, b
      <4>. QED  BY Zenon, <4>2
    <3>1. PICK x \in running, w \in work : \E f, b :
            work' = {[w EXCEPT !.stage = "head", !.fact = f, !.body = b]}
      BY <3>a
    <3>b. PICK f, b : work' = {[w EXCEPT !.stage = "head", !.fact = f, !.body = b]}
      BY Zenon, <3>1
    <3>2. \A y \in running : y = x
      BY DEF GInv, QueueInv
    <3> DEFINE v == [w EXCEPT !.stage = "head", !.fact = f, !.body = b]
    <3>3. WorkFields \subseteq DOMAIN w
      BY DEF GInv, WorkInv
    <3>4. /\ WorkFields \subseteq DOMAIN v /\ v.inst = w.inst /\ v.probes = w.probes
          /\ v.defs = w.defs /\ v.heads = w.heads
      BY <3>3 DEF WorkFields
    <3> HIDE DEF v
    <3>5. work' = {v}
      BY <3>b DEF v
    <3>6. \A s : Has(s)' = Has(s)
      BY <1>1 DEF Has
    <3>. QED  BY <1>1, <3>2, <3>4, <3>5, <3>6 DEF WorkInv, GInv
  <2>. QED  BY <2>1, <2>2, <2>3
<1>. QED  BY <1>2, <1>3, <1>5, <1>6 DEF GInv

LEMMA MatchNegativeStep ==
  ASSUME GInv, MatchNegative
  PROVE  GInv'
<1>1. UNCHANGED <<program, step, nheads, todo, deps, done, comp, insts, queued, current, ran,
                  running, left, pc>>
  BY DEF MatchNegative, callVars, compVars, queueVars
<1>a. PICK x \in running, w \in work : \E k \in w.probes :
        LET s == BodySym(x.stm, w.inst, k) IN
        /\ work' = {[w EXCEPT !.probes = @ \ {k}]} \/ work' = {}
        /\ \/ /\ dom' = [dom EXCEPT ![PredOf(s)] = Reserve(@, s)]
              /\ closed' = closed
           \/ /\ ~IsRecursive(x.stm, k) /\ dom' = dom
              /\ closed' = closed \/ (closed' = closed \union {s} /\ ~IsDefinedSym(s))
  BY DEF MatchNegative
<1>2. PICK k \in w.probes :
        LET s == BodySym(x.stm, w.inst, k) IN
        /\ work' = {[w EXCEPT !.probes = @ \ {k}]} \/ work' = {}
        /\ \/ /\ dom' = [dom EXCEPT ![PredOf(s)] = Reserve(@, s)]
              /\ closed' = closed
           \/ /\ ~IsRecursive(x.stm, k) /\ dom' = dom
              /\ closed' = closed \/ (closed' = closed \union {s} /\ ~IsDefinedSym(s))
  BY <1>a
<1> DEFINE s == BodySym(x.stm, w.inst, k)
<1>3. /\ x.stm \in Part.stms /\ w.inst \in Instances(x.stm) /\ k \in Body(x.stm)
      /\ WorkFields \subseteq DOMAIN w /\ (\A y \in running : y = x)
  BY DEF GInv, QueueInv, CallInv, WorkInv, Negative
<1>4. s \in UsedSyms /\ PredOf(s) \in Preds /\ s \in LitSyms(x.stm, k)
  BY <1>3, StatementSyms, SymPred DEF GInv
<1> HIDE DEF s
<1>5. DomainsBecome({})
  <2>1. Becomes(PredOf(s), dom[PredOf(s)], Reserve(dom[PredOf(s)], s), {})
    BY <1>4, ReserveStep DEF GInv, DomInv
  <2>2. dom' = dom \/ dom' = [dom EXCEPT ![PredOf(s)] = Reserve(dom[PredOf(s)], s)]
    BY <1>2 DEF s
  <2>. QED  BY <1>4, <2>1, <2>2, OneDomain, SameDomains DEF GInv
<1>6. Part' = Part
  BY <1>1 DEF Part
<1>7. DomInv' /\ \A t \in UsedSyms : /\ Has(t) => Has(t)'
                                     /\ Undefined(dom[PredOf(t)], t) => Undefined(dom'[PredOf(t)], t)
  <2>1. \A t \in UsedSyms : t \notin {}
    OBVIOUS
  <2>. QED  BY <1>5, <2>1, DomainsStep DEF GInv
<1>8. ClosedInv'
  <2>1. \A t \in closed : /\ t \in UsedSyms /\ Undefined(dom[PredOf(t)], t)
                          /\ \A u \in Part.stms \ done : t \notin HeadSyms(u)
    BY DEF GInv, ClosedInv
  <2>2. ASSUME closed' # closed
        PROVE  /\ closed' = closed \union {s} /\ Undefined(dom[PredOf(s)], s)
               /\ \A u \in Part.stms \ done : s \notin HeadSyms(u)
    <3>1. closed' = closed \union {s} /\ ~IsDefinedSym(s) /\ ~IsRecursive(x.stm, k)
      BY <1>2, <2>2 DEF s
    <3>2. \A u \in Part.stms \ done : s \notin HeadSyms(u)
      BY <1>3, <1>4, <3>1, NotRecursive DEF GInv
    <3>. QED  BY <3>1, <3>2, <1>4, UndefinedSym DEF GInv
  <2>3. \A t \in closed' : /\ t \in UsedSyms /\ Undefined(dom[PredOf(t)], t)
                           /\ \A u \in Part.stms \ done : t \notin HeadSyms(u)
    BY <1>4, <2>1, <2>2
  <2>. QED  BY <1>1, <1>6, <1>7, <2>3 DEF ClosedInv
<1>9. WorkInv'
  <2> DEFINE v == [w EXCEPT !.probes = @ \ {k}]
  <2>1. /\ WorkFields \subseteq DOMAIN v /\ v.inst = w.inst /\ v.probes = w.probes \ {k}
        /\ v.defs = w.defs /\ v.heads = w.heads
    BY <1>3 DEF WorkFields
  <2> HIDE DEF v
  <2>2. \A y \in work' : y = v
    BY <1>2 DEF v
  <2>3. /\ w.probes \subseteq Negative(x.stm) /\ w.defs \in Seq(HeadSyms(x.stm))
        /\ w.heads \in Seq(HeadSyms(x.stm)) /\ left \subseteq Instances(x.stm)
        /\ \A n \in DOMAIN w.heads : Has(w.heads[n])
    BY DEF GInv, WorkInv
  <2>4. \A n \in DOMAIN w.heads : Has(w.heads[n])'
    <3>1. \A n \in DOMAIN w.heads : w.heads[n] \in UsedSyms
      BY <1>3, <2>3, StatementSyms DEF GInv
    <3>. QED  BY <1>7, <2>3, <3>1
  <2>. QED  BY <1>1, <1>3, <2>1, <2>2, <2>3, <2>4 DEF WorkInv
<1>10. CallInv' /\ PhaseInv' /\ QueueInv'
  <2>1. pc = "iterate"
    BY DEF GInv, QueueInv, PhaseInv
  <2>2. CallInv'
    BY <1>1, <1>6 DEF GInv, CallInv
  <2>3. PhaseInv'
    BY <1>1, <2>1, SameAnalysis DEF GInv, PhaseInv
  <2>4. QueueInv'
    BY <1>1 DEF GInv, QueueInv
  <2>. QED  BY <2>2, <2>3, <2>4
<1>. QED  BY <1>7, <1>8, <1>9, <1>10 DEF GInv

LEMMA ReportHeadStep ==
  ASSUME GInv, ReportHead
  PROVE  GInv'
<1>1. UNCHANGED <<program, step, nheads, todo, deps, done, comp, insts, queued, current, ran,
                  running, left, pc, closed>>
  BY DEF ReportHead, callVars, compVars, queueVars, history
<1>2. PICK x \in running, w \in work :
        /\ Len(w.defs) < Len(Heads(x.stm, w.inst))
        /\ LET s == Heads(x.stm, w.inst)[Len(w.defs) + 1]
               next == [w EXCEPT !.defs = Append(@, s)]
           IN /\ dom' = [dom EXCEPT ![PredOf(s)] = Define(@, s)]
              /\ \/ work' = {[next EXCEPT !.heads = Append(@, s)]}
                 \/ work' = {next}
                 \/ work' = {}
  BY Zenon DEF ReportHead
<1> DEFINE s == Heads(x.stm, w.inst)[Len(w.defs) + 1]
<1>3. /\ x.stm \in comp /\ x.stm \in Part.stms /\ x.stm \notin done
      /\ w.inst \in Instances(x.stm) /\ WorkFields \subseteq DOMAIN w /\ (\A y \in running : y = x)
      /\ w.defs \in Seq(HeadSyms(x.stm)) /\ w.heads \in Seq(HeadSyms(x.stm))
      /\ w.probes \subseteq Negative(x.stm) /\ left \subseteq Instances(x.stm)
      /\ (\A n \in DOMAIN w.heads : Has(w.heads[n]))
  BY DEF GInv, QueueInv, CallInv, WorkInv
<1>4. Heads(x.stm, w.inst) \in Seq(HeadSyms(x.stm))
  BY <1>3, StatementSyms DEF GInv
<1>5. s \in HeadSyms(x.stm)
  <2>1. Len(w.defs) \in Nat /\ Len(Heads(x.stm, w.inst)) \in Nat
    BY <1>3, <1>4
  <2>2. Len(w.defs) + 1 \in 1..Len(Heads(x.stm, w.inst))
    BY <1>2, <2>1
  <2>. QED  BY <1>4, <2>2
<1>6. s \in UsedSyms /\ PredOf(s) \in Preds
  BY <1>3, <1>5, StatementSyms, SymPred DEF GInv
<1>a. /\ dom' = [dom EXCEPT ![PredOf(s)] = Define(dom[PredOf(s)], s)]
      /\ \/ work' = {[w EXCEPT !.defs = Append(w.defs, s), !.heads = Append(w.heads, s)]}
         \/ work' = {[w EXCEPT !.defs = Append(w.defs, s)]}
         \/ work' = {}
  <2>1. [[w EXCEPT !.defs = Append(@, s)] EXCEPT !.heads = Append(@, s)]
          = [w EXCEPT !.defs = Append(w.defs, s), !.heads = Append(w.heads, s)]
    BY <1>3 DEF WorkFields
  <2>. QED  BY <1>2, <2>1
<1> HIDE DEF s
<1>7. /\ Becomes(PredOf(s), dom[PredOf(s)], Define(dom[PredOf(s)], s), {s})
      /\ Contains(Define(dom[PredOf(s)], s), s)
  BY <1>6, DefineStep DEF GInv, DomInv
<1>8. DomainsBecome({s})
  BY Zenon, <1>6, <1>7, <1>a, OneDomain DEF GInv
<1>9. {s} \intersect closed = {}
  BY <1>3, <1>5 DEF GInv, ClosedInv
<1>10. DomInv' /\ ClosedInv'
  <2>1. \A t \in closed : t \notin {s}
    BY <1>9
  <2>. QED  BY <1>1, <1>8, <2>1, DomainsStep, ClosedStep DEF GInv
<1>11. WorkInv'
  <2>1. ASSUME NEW n \in DOMAIN w.heads PROVE Has(w.heads[n])'
    <3>1. w.heads[n] \in UsedSyms /\ Has(w.heads[n])
      BY <1>3, StatementSyms DEF GInv
    <3>. QED  BY <1>8, <3>1, DomainsStep DEF GInv
  <2>2. Has(s)'
    BY <1>6, <1>7, <1>a DEF Has, GInv, DomInv
  <2> DEFINE u == [w EXCEPT !.defs = Append(w.defs, s), !.heads = Append(w.heads, s)]
             v == [w EXCEPT !.defs = Append(w.defs, s)]
  <2>3. /\ WorkFields \subseteq DOMAIN u /\ u.inst = w.inst /\ u.probes = w.probes
        /\ u.defs = Append(w.defs, s) /\ u.heads = Append(w.heads, s)
    BY <1>3 DEF WorkFields
  <2>4. /\ WorkFields \subseteq DOMAIN v /\ v.inst = w.inst /\ v.probes = w.probes
        /\ v.defs = Append(w.defs, s) /\ v.heads = w.heads
    BY <1>3 DEF WorkFields
  <2>5. work' = {u} \/ work' = {v} \/ work' = {}
    BY <1>a
  <2> HIDE DEF u, v
  <2>6. Append(w.defs, s) \in Seq(HeadSyms(x.stm)) /\ Append(w.heads, s) \in Seq(HeadSyms(x.stm))
    BY <1>3, <1>5
  <2>7. ASSUME NEW n \in DOMAIN Append(w.heads, s) PROVE Has(Append(w.heads, s)[n])'
    <3>1. CASE n \in DOMAIN w.heads
      <4>1. Append(w.heads, s)[n] = w.heads[n]
        BY <1>3, <3>1
      <4>. QED  BY <4>1, <2>1, <3>1
    <3>2. CASE n \notin DOMAIN w.heads
      <4>1. Append(w.heads, s)[n] = s
        BY <1>3, <3>2, <2>7
      <4>. QED  BY <4>1, <2>2
    <3>. QED  BY <3>1, <3>2
  <2>8. \A t \in work' : /\ WorkFields \subseteq DOMAIN t
                         /\ t.inst = w.inst /\ t.probes = w.probes
                         /\ t.defs = Append(w.defs, s) /\ t.heads \in {w.heads, Append(w.heads, s)}
    BY <2>3, <2>4, <2>5
  <2>9. ASSUME NEW t \in work'
        PROVE  /\ t.defs \in Seq(HeadSyms(x.stm)) /\ t.heads \in Seq(HeadSyms(x.stm))
               /\ \A n \in DOMAIN t.heads : Has(t.heads[n])'
    <3>1. t.heads = w.heads \/ t.heads = Append(w.heads, s)
      BY <2>8
    <3>2. CASE t.heads = w.heads
      BY Zenon, <3>2, <2>1, <2>6, <2>8, <1>3
    <3>3. CASE t.heads = Append(w.heads, s)
      BY Zenon, <3>3, <2>6, <2>7, <2>8
    <3>. QED  BY <3>1, <3>2, <3>3
  <2>. QED  BY Zenon, <1>1, <1>3, <2>8, <2>9 DEF WorkInv
<1>12. CallInv' /\ PhaseInv' /\ QueueInv'
  <2>1. Part' = Part
    BY <1>1 DEF Part
  <2>2. CallInv'
    BY <1>1, <2>1 DEF GInv, CallInv
  <2>3. PhaseInv'
    BY <1>1, SameAnalysis DEF GInv, PhaseInv
  <2>4. QueueInv'
    BY <1>1 DEF GInv, QueueInv
  <2>. QED  BY <2>2, <2>3, <2>4
<1>. QED  BY <1>10, <1>11, <1>12 DEF GInv

LEMMA ReportRuleStep ==
  ASSUME GInv, ReportRule
  PROVE  GInv'
<1>1. /\ UNCHANGED <<program, step, nheads, todo, deps, done, comp, insts, queued, current, ran,
                     running, left, pc, closed>>
      /\ work' = {}
  BY DEF ReportRule, callVars, compVars, queueVars
<1>2. PICK x \in running, w \in work :
        LET h == Head(w.heads) IN
        dom' = dom \/ (Len(w.heads) = 1 /\ dom' = [dom EXCEPT ![PredOf(h)] = SetFact(@, Find(@, h))])
  BY Zenon DEF ReportRule
<1> DEFINE h == Head(w.heads)
           d == dom[PredOf(h)]
<1>3. DomainsBecome({})
  <2>1. CASE dom' = dom
    BY <2>1, SameDomains DEF GInv
  <2>2. CASE Len(w.heads) = 1 /\ dom' = [dom EXCEPT ![PredOf(h)] = SetFact(@, Find(@, h))]
    <3>1. /\ x.stm \in Part.stms /\ w.heads \in Seq(HeadSyms(x.stm))
          /\ (\A n \in DOMAIN w.heads : Has(w.heads[n]))
      BY DEF GInv, QueueInv, CallInv, WorkInv
    <3>2. h = w.heads[1] /\ 1 \in DOMAIN w.heads
      BY <2>2, <3>1
    <3>3. h \in UsedSyms /\ PredOf(h) \in Preds /\ Contains(d, h)
      BY <3>1, <3>2, StatementSyms, SymPred DEF GInv, Has
    <3> HIDE DEF h
    <3>4. Becomes(PredOf(h), d, SetFact(d, Find(d, h)), {})
      BY <3>3, FindContained, SetFactStep DEF GInv, DomInv
    <3>5. dom' = [dom EXCEPT ![PredOf(h)] = SetFact(d, Find(d, h))]
      BY <2>2 DEF h
    <3>. QED  BY Zenon, <3>3, <3>4, <3>5, OneDomain DEF GInv
  <2>. QED  BY <1>2, <2>1, <2>2
<1>4. DomInv' /\ ClosedInv'
  <2>1. \A t \in closed : t \notin {}
    OBVIOUS
  <2>. QED  BY <1>1, <1>3, <2>1, DomainsStep, ClosedStep DEF GInv
<1>5. WorkInv'
  BY <1>1 DEF WorkInv, GInv
<1>6. CallInv' /\ PhaseInv' /\ QueueInv'
  <2>1. Part' = Part
    BY <1>1 DEF Part
  <2>2. CallInv'
    BY <1>1, <2>1 DEF GInv, CallInv
  <2>3. PhaseInv'
    BY <1>1, SameAnalysis DEF GInv, PhaseInv
  <2>4. QueueInv'
    BY <1>1 DEF GInv, QueueInv
  <2>. QED  BY <2>2, <2>3, <2>4
<1>. QED  BY <1>4, <1>5, <1>6 DEF GInv

-----------------------------------------------------------------------------
(* The instantiators and the heads they are registered with *)

(* What an updater leaves with a head that provides for its literal. *)
Entry(u, t) ==
  [stm |-> t, key |-> u[1].binders[u[2]].key,
   insts |-> IF u[1].types[u[2]] = "NEW" THEN {u[1]} ELSE {}]

Entries(us) == UNION {{Entry(u, t) : t \in DefinedBy(comp, u[1].stm, u[2])} : u \in us}

(* The updaters that are done with are registered, no others are. *)
RegInv ==
  /\ agenda \subseteq Updaters(insts)
  /\ pc # "linearize" => agenda = {}
  /\ enqueueVec = Entries(Updaters(insts) \ agenda)

IsInstantiator(x) ==
  /\ x.types \in BinderTypes(x.stm)
  /\ x.order \in Orders(x.stm, x.types)
  /\ x.binders = [k \in Positive(x.stm) |-> Binder(x.stm, x.order, k)]

LInv ==
  /\ RegInv
  /\ \A x \in insts : IsInstantiator(x)
  /\ pc \in {"process", "iterate"} => Linearized = comp

(* What is recursive does not change before the component is grounded. *)
LEMMA SameRecursion ==
  ASSUME UNCHANGED <<program, step, done>>
  PROVE  /\ \A stm, k : IsRecursive(stm, k)' = IsRecursive(stm, k)
         /\ \A x : IsInstantiator(x)' = IsInstantiator(x)
<1>1. \A stm, k : IsRecursive(stm, k)' = IsRecursive(stm, k)
  BY DEF IsRecursive, Part
<1>2. \A stm : BinderTypes(stm)' = BinderTypes(stm)
  BY <1>1 DEF BinderTypes
<1>3. \A stm, order, k : Binder(stm, order, k)' = Binder(stm, order, k)
  BY <1>1 DEF Binder
<1>. QED  BY <1>1, <1>2, <1>3 DEF IsInstantiator

LEMMA NoUpdaters ==
  Updaters({}) = {} /\ Entries({}) = {}
BY DEF Updaters, Entries

LEMMA InitLInv == Init => LInv
BY Zenon, NoUpdaters DEF Init, LInv, RegInv

LEMMA NewInstantiators ==
  ASSUME NEW s, NEW x \in Instantiators(s)
  PROVE  x.stm = s /\ IsInstantiator(x)
<1>1. PICK t \in BinderTypes(s) : \E f \in Orders(s, t) :
        x = [stm |-> s, types |-> t, order |-> f, important |-> Important(s),
             binders |-> [k \in Positive(s) |-> Binder(s, f, k)]]
  BY DEF Instantiators
<1>. QED  BY <1>1 DEF IsInstantiator

LEMMA LInvStep ==
  ASSUME GInv, LInv, [Next]_vars
  PROVE  LInv'
<1>1. CASE /\ UNCHANGED <<program, step, done, comp, insts, agenda, enqueueVec>>
           /\ pc' = pc \/ (pc # "linearize" /\ pc' # "linearize" /\ pc' \notin {"process", "iterate"})
                \/ (pc \in {"process", "iterate"} /\ pc' \in {"process", "iterate"})
  <2>1. /\ Updaters(insts)' = Updaters(insts) /\ Entries(Updaters(insts) \ agenda)' = Entries(Updaters(insts) \ agenda)
        /\ Linearized' = Linearized
    BY <1>1 DEF Updaters, Entries, Linearized
  <2>. QED  BY <1>1, <2>1, SameRecursion DEF LInv, RegInv
<1>2. CASE UNCHANGED vars
  BY <1>1, <1>2 DEF vars, callVars, compVars
<1>3. CASE BeginAddBackend \/ Prepared \/ (\E s \in todo : AddAtom(s) \/ DefineFact(s))
  BY <1>1, <1>3 DEF BeginAddBackend, Prepared, AddAtom, DefineFact, callVars, compVars
<1>4. CASE BeginPrepare
  BY <1>1, <1>4 DEF BeginPrepare
<1>5. CASE \E c \in {deps[s].comp : s \in DOMAIN deps} : StartComponent(c)
  <2>1. insts' = {} /\ agenda' = {} /\ enqueueVec' = {} /\ pc' = "linearize"
    BY <1>5 DEF StartComponent
  <2>2. \A S : Entries(S)' = UNION {{Entry(u, t) : t \in DefinedBy(comp', u[1].stm, u[2])} : u \in S}
    BY DEF Entries
  <2>. QED  BY <2>1, <2>2 DEF LInv, RegInv, Updaters
<1>6. CASE \E s \in comp : Linearize(s)
  <2>1. PICK s \in comp : Linearize(s)
    BY <1>6
  <2>2. PICK xs \in SUBSET Instantiators(s) : insts' = insts \union xs /\ agenda' = Updaters(xs)
    BY <2>1 DEF Linearize
  <2>3. /\ UNCHANGED <<program, step, done, comp, enqueueVec, pc>> /\ pc = "linearize"
        /\ agenda = {} /\ s \notin Linearized
    BY <2>1 DEF Linearize, callVars
  <2>4. \A x \in xs : x.stm = s /\ IsInstantiator(x)
    BY NewInstantiators
  <2>5. Updaters(insts') = Updaters(insts) \union Updaters(xs)
    BY <2>2 DEF Updaters
  <2>6. Updaters(insts) \intersect Updaters(xs) = {}
    <3>1. \A u \in Updaters(xs) : u[1] \in xs
      BY DEF Updaters
    <3>2. \A u \in Updaters(insts) : u[1] \in insts
      BY DEF Updaters
    <3>. QED  BY <3>1, <3>2, <2>3, <2>4 DEF Linearized
  <2>7. Updaters(insts') \ agenda' = Updaters(insts) \ agenda
    BY <2>2, <2>3, <2>5, <2>6
  <2>8. Entries(Updaters(insts) \ agenda)' = Entries(Updaters(insts) \ agenda)
    BY <2>3, <2>7 DEF Entries, Updaters
  <2>9. RegInv'
    <3>1. Updaters(insts)' = Updaters(insts')
      BY DEF Updaters
    <3>. QED  BY <2>2, <2>3, <2>5, <2>8, <3>1 DEF LInv, RegInv
  <2>10. \A x \in insts' : IsInstantiator(x)'
    BY <2>2, <2>3, <2>4, SameRecursion DEF LInv
  <2>. QED  BY <2>3, <2>9, <2>10 DEF LInv
<1>7. CASE RegisterLiteral
  <2>1. /\ UNCHANGED <<program, step, done, comp, insts, pc>> /\ pc = "linearize" /\ agenda # {}
    BY <1>7 DEF RegisterLiteral, callVars
  <2> DEFINE u == CHOOSE u \in agenda : TRUE
  <2>2. u \in agenda
    BY <2>1
  <2>3. /\ agenda' = agenda \ {u}
        /\ enqueueVec' = enqueueVec \union {Entry(u, t) : t \in DefinedBy(comp, u[1].stm, u[2])}
    BY <1>7 DEF RegisterLiteral, Entry
  <2> HIDE DEF u
  <2>4. u \in Updaters(insts) /\ agenda' \subseteq Updaters(insts)
    BY <2>2, <2>3 DEF LInv, RegInv
  <2>5. Updaters(insts) \ agenda' = (Updaters(insts) \ agenda) \union {u}
    BY <2>2, <2>3, <2>4
  <2>6. enqueueVec' = Entries((Updaters(insts) \ agenda) \union {u})
    BY <2>3 DEF LInv, RegInv, Entries
  <2>8. Updaters(insts)' = Updaters(insts)
    BY <2>1 DEF Updaters
  <2>9. Entries(Updaters(insts) \ agenda)' = Entries((Updaters(insts) \ agenda) \union {u})
    BY <2>1, <2>5, <2>8 DEF Entries
  <2>10. RegInv'
    BY <2>1, <2>4, <2>6, <2>8, <2>9 DEF RegInv
  <2>. QED  BY <2>1, <2>10, SameRecursion DEF LInv
<1>8. CASE EnqueueComponent
  <2>1. /\ UNCHANGED <<program, step, done, comp, insts, agenda, enqueueVec>> /\ agenda = {}
        /\ Linearized = comp
    BY <1>8 DEF EnqueueComponent, callVars, compVars
  <2>2. /\ Updaters(insts)' = Updaters(insts)
        /\ Entries(Updaters(insts) \ agenda)' = Entries(Updaters(insts) \ agenda)
        /\ Linearized' = Linearized
    BY <2>1 DEF Updaters, Entries, Linearized
  <2>. QED  BY <2>1, <2>2, SameRecursion DEF LInv, RegInv
<1>9. CASE BeginIteration \/ EndIteration
  BY <1>1, <1>9 DEF BeginIteration, EndIteration, callVars, compVars
<1>10. CASE \/ \E x \in current : RunInstantiator(x)
            \/ \E i \in left : TryInstance(i) \/ Backjump(i)
            \/ MatchNegative \/ Mismatch
            \/ ReportBody \/ ReportHead \/ ReportRule
            \/ \E x \in ran : Propagate(x)
  <2>1. UNCHANGED <<program, step, done, comp, insts, agenda, enqueueVec, pc>>
    BY Zenon, <1>10 DEF RunInstantiator, TryInstance, Backjump, MatchNegative, Mismatch, ReportBody,
                 ReportHead, ReportRule, Propagate, callVars, compVars
  <2>. QED  BY <2>1, <1>1
<1>11. CASE EndComponent
  <2>1. insts' = {} /\ agenda' = {} /\ enqueueVec' = {} /\ pc' = "ground"
    BY <1>11 DEF EndComponent, LInv, RegInv
  <2>. QED  BY <2>1 DEF LInv, RegInv, Entries, Updaters
<1>12. CASE NextCall \/ Return
  <2>1. /\ UNCHANGED <<comp, insts, agenda, enqueueVec>> /\ pc = "ground" /\ pc' \in {"call", "done"}
    BY <1>12 DEF NextCall, Return, compVars
  <2>2. insts = {} /\ agenda = {} /\ enqueueVec = {}
    BY <2>1, NoUpdaters DEF GInv, PhaseInv, LInv, RegInv
  <2>. QED  BY <2>1, <2>2 DEF LInv, RegInv, Entries, Updaters
<1>. QED  BY <1>2, <1>3, <1>4, <1>5, <1>6, <1>7, <1>8, <1>9, <1>10, <1>11, <1>12 DEF Next

LEMMA PropagateAllStep ==
  ASSUME GInv, LInv, NEW x \in ran, Propagate(x)
  PROVE  GInv'
<1>1. /\ UNCHANGED <<program, step, nheads, todo, deps, done, comp, insts, current,
                     left, work, pc, closed>>
      /\ ran' \subseteq ran /\ running' = {} /\ current = {} /\ left = {} /\ work = {}
      /\ pc = "iterate"
  BY DEF Propagate, callVars, compVars, history
<1>2. DomainsBecome({})
  <2>1. DOMAIN dom = Preds
    BY DEF GInv, DomInv
  <2>2. dom' = [p \in Preds |-> dom'[p]]
    BY <2>1 DEF Propagate
  <2>3. ASSUME NEW p \in Preds PROVE Becomes(p, dom[p], dom'[p], {})
    <3>1. \E os : dom'[p] = EnqueueDomain(MarkDelayed(dom[p], os)) \/ dom'[p] = dom[p]
      <4> DEFINE keys == {e.key : e \in {e \in enqueueVec : e.stm = x.stm}}
                 passed(q) == {o \in Offsets(dom[q]) :
                                 \E key \in keys : KeyPred(key) = q /\ o > index[key].imported}
      <4>1. dom' = [q \in DOMAIN dom |->
               IF q \in HeadPreds(x.stm) THEN EnqueueDomain(MarkDelayed(dom[q], passed(q)))
               ELSE dom[q]]
        BY DEF Propagate
      <4> HIDE DEF passed
      <4>2. dom'[p] = EnqueueDomain(MarkDelayed(dom[p], passed(p))) \/ dom'[p] = dom[p]
        BY <2>1, <4>1
      <4>. QED  BY <4>2
    <3>2. DomainOK(p, dom[p])
      BY DEF GInv, DomInv
    <3>3. Becomes(p, dom[p], dom[p], {})
      BY Zenon, <3>2, CounterSteps
    <3>4. PICK os : dom'[p] = EnqueueDomain(MarkDelayed(dom[p], os)) \/ dom'[p] = dom[p]
      BY <3>1
    <3>5. Becomes(p, dom[p], EnqueueDomain(MarkDelayed(dom[p], os)), {})
      BY <3>2, PropagateStep
    <3>. QED  BY <3>3, <3>4, <3>5
  <2>. QED  BY <2>2, <2>3 DEF DomainsBecome
<1>3. DomInv' /\ ClosedInv'
  <2>1. \A t \in closed : t \notin {}
    OBVIOUS
  <2>. QED  BY <1>1, <1>2, <2>1, DomainsStep, ClosedStep DEF GInv
<1>4. queued' \subseteq insts
  <2>1. \A e \in enqueueVec : e.insts \subseteq insts
    BY DEF LInv, RegInv, Entries, Entry, Updaters
  <2>2. queued' = queued \union
          UNION {e.insts : e \in {e \in {e \in enqueueVec : e.stm = x.stm} :
                   Fresh(dom[KeyPred(e.key)], index[e.key]) # {}}}
    BY DEF Propagate, FoundNew
  <2>. QED  BY <2>1, <2>2 DEF GInv, QueueInv
<1>5. WorkInv'
  BY <1>1 DEF WorkInv
<1>6. CallInv' /\ PhaseInv' /\ QueueInv'
  <2>1. Part' = Part
    BY <1>1 DEF Part
  <2>2. CallInv'
    BY <1>1, <2>1 DEF GInv, CallInv
  <2>3. PhaseInv'
    BY <1>1, SameAnalysis DEF GInv, PhaseInv
  <2>4. QueueInv'
    BY <1>1, <1>4 DEF GInv, QueueInv
  <2>. QED  BY <2>2, <2>3, <2>4
<1>. QED  BY <1>3, <1>5, <1>6 DEF GInv

LEMMA EndSteps ==
  ASSUME GInv, EndIteration \/ EndComponent
  PROVE  GInv'
<1>1. /\ UNCHANGED <<program, step, nheads, todo, deps, queueVars, instVars, closed>>
      /\ pc \in {"process", "iterate"} /\ current = {} /\ ran = {} /\ left = {} /\ work = {}
      /\ dom' = [p \in DOMAIN dom |-> IF dom[p].enqueued > 0 THEN AdvanceDomain(dom[p]) ELSE dom[p]]
      /\ \/ UNCHANGED <<done, comp, insts>> /\ pc' = "process"
         \/ /\ done' = done \union comp /\ comp' = {} /\ insts' = {} /\ queued = {} /\ pc' = "ground"
  <2>1. CASE EndIteration
    BY <2>1 DEF EndIteration, AdvanceEnqueuedDomains, callVars, compVars, history, GInv, PhaseInv
  <2>2. CASE EndComponent
    <3>1. ran = {} /\ current = {} /\ left = {} /\ work = {}
      BY <2>2 DEF EndComponent, GInv, PhaseInv, QueueInv
    <3>. QED  BY <2>2, <3>1 DEF EndComponent, AdvanceEnqueuedDomains, callVars, history
  <2>. QED  BY <2>1, <2>2
<1>2. DomainsBecome({})
  <2>1. DOMAIN dom = Preds
    BY DEF GInv, DomInv
  <2>2. dom' = [p \in Preds |-> dom'[p]]
    BY <1>1, <2>1
  <2>3. ASSUME NEW p \in Preds PROVE Becomes(p, dom[p], dom'[p], {})
    <3>1. dom'[p] = IF dom[p].enqueued > 0 THEN AdvanceDomain(dom[p]) ELSE dom[p]
      BY <1>1, <2>1
    <3>. QED  BY Zenon, <3>1, CounterSteps DEF GInv, DomInv
  <2>. QED  BY <2>2, <2>3 DEF DomainsBecome
<1>3. DomInv' /\ ClosedInv'
  <2>1. (\A t \in closed : t \notin {}) /\ done \subseteq done'
    BY <1>1
  <2>. QED  BY <1>1, <1>2, <2>1, DomainsStep, ClosedStep DEF GInv
<1>4. Part' = Part
  BY <1>1 DEF Part
<1>5. CallInv'
  BY <1>1, <1>4 DEF GInv, CallInv
<1>6. PhaseInv'
  BY <1>1, SameAnalysis DEF GInv, PhaseInv, queueVars
<1>7. running = {}
  BY <1>1 DEF GInv, QueueInv
<1>8. QueueInv' /\ WorkInv'
  BY <1>1, <1>7 DEF GInv, QueueInv, WorkInv, queueVars, instVars
<1>. QED  BY <1>3, <1>5, <1>6, <1>8 DEF GInv

LEMMA ReturnSteps ==
  ASSUME GInv, NextCall \/ Return
  PROVE  GInv'
<1>1. /\ UNCHANGED <<program, todo, deps, comp, insts, dom, queueVars, instVars>>
      /\ pc = "ground"
      /\ \/ step' = step + 1 /\ step < Len(Programs[program]) /\ done' = {} /\ closed' = {} /\ pc' = "call"
         \/ UNCHANGED <<step, done, closed>> /\ pc' = "done"
  BY DEF NextCall, Return, callVars, compVars, history
<1>2. comp = {} /\ insts = {} /\ queued = {} /\ ran = {} /\ running = {}
  BY <1>1 DEF GInv, PhaseInv, QueueInv
<1>3. step' \in DOMAIN Programs[program]
  <2>1. step \in DOMAIN Programs[program] /\ Programs[program] \in Seq({Programs[program][n] : n \in DOMAIN Programs[program]})
    BY ProgramsAssumption DEF GInv, CallInv
  <2>2. step \in Nat /\ Len(Programs[program]) \in Nat /\ DOMAIN Programs[program] = 1..Len(Programs[program])
    BY <2>1
  <2>3. step' = step \/ (step' = step + 1 /\ step < Len(Programs[program]))
    BY <1>1
  <2>4. step \in 1..Len(Programs[program])
    BY <2>1, <2>2
  <2>5. step' \in 1..Len(Programs[program])
    BY <2>2, <2>3, <2>4
  <2>. QED  BY <2>2, <2>5
<1>4. CallInv'
  <2>1. CASE done' = {}
    BY <1>1, <1>2, <1>3, <2>1 DEF GInv, CallInv, Part
  <2>2. CASE UNCHANGED <<step, done>>
    BY <1>1, <1>2, <2>2 DEF GInv, CallInv, Part
  <2>. QED  BY <1>1, <2>1, <2>2
<1>5. PhaseInv'
  BY <1>1, <1>2 DEF GInv, PhaseInv, queueVars
<1>6. DomInv' /\ QueueInv' /\ WorkInv'
  BY <1>1, <1>2 DEF GInv, DomInv, QueueInv, WorkInv, queueVars, instVars
<1>7. ClosedInv'
  BY <1>1 DEF GInv, ClosedInv, Part
<1>. QED  BY <1>4, <1>5, <1>6, <1>7 DEF GInv

LEMMA GInvStep ==
  ASSUME GInv, LInv, [Next]_vars
  PROVE  GInv'
<1>1. CASE UNCHANGED vars
  <2>1. UNCHANGED <<program, step, nheads, todo, deps, done, comp, insts, dom, queued, current, ran,
                    running, left, work, pc, closed>>
    BY <1>1 DEF vars, callVars, compVars, queueVars, instVars, history
  <2>2. DomInv' /\ WorkInv' /\ ClosedInv' /\ Part' = Part
    BY <2>1, SameDomainStep
  <2>3. CallInv' /\ PhaseInv' /\ QueueInv'
    BY <2>1, <2>2, SameAnalysis DEF GInv, CallInv, PhaseInv, QueueInv
  <2>. QED  BY <2>2, <2>3 DEF GInv
<1>2. CASE Next
  BY <1>2, BackendSteps, DefiningSteps, StartComponentStep, LinearizeStep, RegisterLiteralStep,
     EnqueueComponentStep, BeginIterationStep, RunInstantiatorStep, MatchSteps, MatchNegativeStep,
     ReportHeadStep, ReportRuleStep, PropagateAllStep, EndSteps, ReturnSteps DEF Next
<1>. QED  BY <1>1, <1>2

LEMMA Invariance == Spec => [](GInv /\ LInv)
<1>1. Init => GInv /\ LInv
  BY InitGInv, InitLInv
<1>2. GInv /\ LInv /\ [Next]_vars => GInv' /\ LInv'
  BY GInvStep, LInvStep
<1>. QED  BY <1>1, <1>2, PTL DEF Spec

(* Stratification: the closed world of a call, for every program. *)
THEOREM SpecClosedWorld == Spec => []ClosedWorld
<1>1. GInv => ClosedWorld
  BY UndefinedSym DEF GInv, ClosedInv, ClosedWorld
<1>. QED  BY <1>1, Invariance, PTL

-----------------------------------------------------------------------------
(* Facts do not matter to the operations on a domain *)

(* Two domains are the same if their parts are. *)
LEMMA SameDomain ==
  ASSUME NEW d \in DP!DomainRecord, NEW e \in DP!DomainRecord,
         d.delayed = e.delayed, d.generation = e.generation, d.enqueued = e.enqueued,
         d.initOffset = e.initOffset, d.initDelayedOffset = e.initDelayedOffset,
         Len(d.atoms) = Len(e.atoms),
         \A o \in Offsets(d) : /\ d.atoms[o].sym = e.atoms[o].sym
                               /\ d.atoms[o].gen = e.atoms[o].gen
                               /\ d.atoms[o].fact = e.atoms[o].fact
                               /\ d.atoms[o].delayed = e.atoms[o].delayed
  PROVE  d = e
<1>1. /\ d.atoms \in Seq(DP!AtomRecord) /\ e.atoms \in Seq(DP!AtomRecord)
      /\ Len(d.atoms) \in Nat
  BY DEF DP!DomainRecord
<1>2. \A o \in 1..Len(d.atoms) : d.atoms[o] \in DP!AtomRecord /\ e.atoms[o] \in DP!AtomRecord
  BY <1>1
<1>3. ASSUME NEW a \in DP!AtomRecord, NEW b \in DP!AtomRecord,
             a.sym = b.sym, a.gen = b.gen, a.fact = b.fact, a.delayed = b.delayed
      PROVE  a = b
  BY <1>3 DEF DP!AtomRecord
<1>4. \A o \in 1..Len(d.atoms) : d.atoms[o] = e.atoms[o]
  BY Zenon, <1>2, <1>3 DEF Offsets
<1>5. d.atoms = e.atoms
  BY <1>1, <1>4, SeqEqual
<1>. QED  BY <1>5 DEF DP!DomainRecord

LEMMA WithoutFactsFields ==
  ASSUME NEW d, d \in DP!DomainRecord
  PROVE  LET e == WithoutFacts(d) IN
         /\ e \in DP!DomainRecord
         /\ e.delayed = d.delayed /\ e.generation = d.generation /\ e.enqueued = d.enqueued
         /\ e.initOffset = d.initOffset /\ e.initDelayedOffset = d.initDelayedOffset
         /\ Len(e.atoms) = Len(d.atoms) /\ Offsets(e) = Offsets(d)
         /\ \A o \in Offsets(d) : /\ e.atoms[o].sym = d.atoms[o].sym
                                  /\ e.atoms[o].gen = d.atoms[o].gen
                                  /\ e.atoms[o].delayed = d.atoms[o].delayed
                                  /\ e.atoms[o].fact = FALSE
                                  /\ e.atoms[o] \in DP!AtomRecord
<1> DEFINE as == [o \in Offsets(d) |-> [d.atoms[o] EXCEPT !.fact = FALSE]]
           e == WithoutFacts(d)
<1>1. /\ d.atoms \in Seq(DP!AtomRecord) /\ Len(d.atoms) \in Nat
      /\ \A o \in Offsets(d) : d.atoms[o] \in DP!AtomRecord
  BY DEF DP!DomainRecord, Offsets
<1>2. \A o \in Offsets(d) : /\ as[o] \in DP!AtomRecord
                            /\ as[o].sym = d.atoms[o].sym /\ as[o].gen = d.atoms[o].gen
                            /\ as[o].delayed = d.atoms[o].delayed /\ as[o].fact = FALSE
  BY Zenon, <1>1 DEF DP!AtomRecord
<1>3. as \in [1..Len(d.atoms) -> DP!AtomRecord]
  BY Zenon, <1>2 DEF Offsets
<1> HIDE DEF as
<1>4. as \in Seq(DP!AtomRecord) /\ Len(as) = Len(d.atoms)
  BY Zenon, <1>1, <1>3, DP!SeqOfElements
<1>5. e = [d EXCEPT !.atoms = as]
  BY DEF WithoutFacts, as
<1>6. /\ e \in DP!DomainRecord /\ e.atoms = as /\ e.delayed = d.delayed
      /\ e.generation = d.generation /\ e.enqueued = d.enqueued
      /\ e.initOffset = d.initOffset /\ e.initDelayedOffset = d.initDelayedOffset
  BY Zenon, <1>4, <1>5 DEF DP!DomainRecord
<1> HIDE DEF e
<1>7. Offsets(e) = Offsets(d)
  BY Zenon, <1>4, <1>6 DEF Offsets
<1>8. QED  BY Zenon, <1>2, <1>4, <1>6, <1>7 DEF e

LEMMA WithoutFactsOK ==
  ASSUME NEW d, DP!DomOK(d)
  PROVE  DP!DomOK(WithoutFacts(d))
<1> DEFINE e == WithoutFacts(d)
<1>1. d \in DP!DomainRecord
  BY DEF DP!DomOK
<1>2. /\ e \in DP!DomainRecord
      /\ e.delayed = d.delayed /\ e.initOffset = d.initOffset
      /\ e.initDelayedOffset = d.initDelayedOffset
      /\ Len(e.atoms) = Len(d.atoms) /\ Offsets(e) = Offsets(d)
      /\ \A o \in Offsets(d) : /\ e.atoms[o].gen = d.atoms[o].gen
                               /\ e.atoms[o].delayed = d.atoms[o].delayed
  BY Zenon, <1>1, WithoutFactsFields
<1>3. DP!Offsets(d) = Offsets(d) /\ DP!Offsets(e) = Offsets(e)
  BY SameLookups
<1> HIDE DEF e
<1>4. \A k \in 1..Len(d.delayed) : d.delayed[k] \in Offsets(d)
  BY <1>3 DEF DP!DomOK
<1>5. \A k \in 1..Len(e.delayed) :
        e.delayed[k] \in Offsets(e) /\ e.atoms[e.delayed[k]].delayed
          /\ e.atoms[e.delayed[k]].gen > 0
  BY Zenon, <1>2, <1>3, <1>4 DEF DP!DomOK
<1>6. \A o \in Offsets(e) : e.atoms[o].gen > 0 /\ e.atoms[o].delayed =>
        \E k \in 1..Len(e.delayed) : e.delayed[k] = o
  BY <1>2, <1>3 DEF DP!DomOK
<1>7. \A o \in Offsets(e) : e.atoms[o].gen = 0 /\ o <= e.initOffset => e.atoms[o].delayed
  BY <1>2, <1>3 DEF DP!DomOK
<1>8. \A o \in Offsets(e) : e.atoms[o].gen > 1 =>
        o > e.initOffset
          \/ \E k \in e.initDelayedOffset + 1 .. Len(e.delayed) : e.delayed[k] = o
  BY <1>2, <1>3 DEF DP!DomOK
<1>9. /\ e.initOffset <= Len(e.atoms) /\ e.initDelayedOffset <= Len(e.delayed)
      /\ \A k, l \in 1..Len(e.delayed) : e.delayed[k] = e.delayed[l] => k = l
  BY <1>2 DEF DP!DomOK
<1>10. DP!DomOK(e)
  BY <1>2, <1>3, <1>5, <1>6, <1>7, <1>8, <1>9 DEF DP!DomOK
<1>. QED  BY <1>10 DEF e

LEMMA WithoutFactsLookups ==
  ASSUME NEW d, d \in DP!DomainRecord, NEW s
  PROVE  /\ Contains(WithoutFacts(d), s) = Contains(d, s)
         /\ Find(WithoutFacts(d), s) = Find(d, s)
<1> DEFINE e == WithoutFacts(d)
<1>1. Offsets(e) = Offsets(d) /\ \A o \in Offsets(d) : e.atoms[o].sym = d.atoms[o].sym
  BY Zenon, WithoutFactsFields
<1> HIDE DEF e
<1>2. Contains(e, s) = Contains(d, s)
  BY <1>1 DEF Contains
<1>3. Find(e, s) = Find(d, s)
  BY <1>1 DEF Find
<1>. QED  BY <1>2, <1>3 DEF e

(* Changes of single atoms. *)
LEMMA AtomChanges ==
  ASSUME NEW a \in DP!AtomRecord, NEW n \in Nat
  PROVE  /\ LET b == [a EXCEPT !.gen = n]
            IN /\ b \in DP!AtomRecord
               /\ b.sym = a.sym /\ b.gen = n /\ b.fact = a.fact /\ b.delayed = a.delayed
         /\ LET b == [a EXCEPT !.delayed = TRUE]
            IN /\ b \in DP!AtomRecord
               /\ b.sym = a.sym /\ b.gen = a.gen /\ b.fact = a.fact /\ b.delayed = TRUE
BY Zenon DEF DP!AtomRecord

(* The atoms of a domain are replaced. *)
LEMMA AtomsReplaced ==
  ASSUME NEW d \in DP!DomainRecord, NEW as \in [Offsets(d) -> DP!AtomRecord],
         NEW e, e = [d EXCEPT !.atoms = as]
  PROVE  /\ e \in DP!DomainRecord /\ e.atoms = as /\ Len(e.atoms) = Len(d.atoms)
         /\ e.delayed = d.delayed /\ e.generation = d.generation /\ e.enqueued = d.enqueued
         /\ e.initOffset = d.initOffset /\ e.initDelayedOffset = d.initDelayedOffset
<1>1. Len(d.atoms) \in Nat
  BY DEF DP!DomainRecord
<1>2. as \in Seq(DP!AtomRecord) /\ Len(as) = Len(d.atoms)
  BY Zenon, <1>1, DP!SeqOfElements DEF Offsets
<1>. QED  BY Zenon, <1>2 DEF DP!DomainRecord

LEMMA WithoutFactsReserve ==
  ASSUME NEW d, DP!DomOK(d), NEW s \in UsedSyms
  PROVE  WithoutFacts(Reserve(d, s)) = Reserve(WithoutFacts(d), s)
<1> DEFINE w == WithoutFacts(d)
           e == Reserve(d, s)
           f == Reserve(w, s)
<1>0. d \in DP!DomainRecord /\ Len(d.atoms) \in Nat
  BY DomainParts DEF DP!DomOK
<1>1. CASE Contains(d, s)
  <2>1. Contains(w, s)
    BY <1>0, <1>1, WithoutFactsLookups
  <2>. QED  BY <1>1, <2>1 DEF Reserve
<1>2. CASE ~Contains(d, s)
  <2>1. ~Contains(w, s) /\ w \in DP!DomainRecord
    BY Zenon, <1>0, <1>2, WithoutFactsLookups, WithoutFactsFields
  <2>2. ~DP!Contains(d, s) /\ ~DP!Contains(w, s) /\ DP!Reserve(d, s) = e /\ DP!Reserve(w, s) = f
        /\ DP!NewAtom(s) = NewAtom(s) /\ DP!Offsets(d) = Offsets(d) /\ DP!Offsets(w) = Offsets(w)
    BY <1>2, <2>1, SameReserve, SameLookups
  <2>3. /\ e \in DP!DomainRecord
        /\ e.generation = d.generation /\ e.enqueued = d.enqueued
        /\ e.initOffset = d.initOffset /\ e.initDelayedOffset = d.initDelayedOffset
        /\ e.delayed = d.delayed
        /\ Len(e.atoms) = Len(d.atoms) + 1
        /\ \A o \in Offsets(d) : e.atoms[o] = d.atoms[o]
        /\ e.atoms[Len(e.atoms)] = NewAtom(s)
    <3> HIDE DEF w, e, f
    <3>. QED  BY <1>0, <2>2, DP!ReserveFields
  <2>4. /\ f \in DP!DomainRecord
        /\ f.generation = w.generation /\ f.enqueued = w.enqueued
        /\ f.initOffset = w.initOffset /\ f.initDelayedOffset = w.initDelayedOffset
        /\ f.delayed = w.delayed
        /\ Len(f.atoms) = Len(w.atoms) + 1
        /\ \A o \in Offsets(w) : f.atoms[o] = w.atoms[o]
        /\ f.atoms[Len(f.atoms)] = NewAtom(s)
    <3> HIDE DEF w, e, f
    <3>. QED  BY <2>1, <2>2, DP!ReserveFields
  <2>5. /\ w.delayed = d.delayed /\ w.generation = d.generation /\ w.enqueued = d.enqueued
        /\ w.initOffset = d.initOffset /\ w.initDelayedOffset = d.initDelayedOffset
        /\ Len(w.atoms) = Len(d.atoms) /\ Offsets(w) = Offsets(d)
        /\ \A o \in Offsets(d) : /\ w.atoms[o].sym = d.atoms[o].sym
                                 /\ w.atoms[o].gen = d.atoms[o].gen
                                 /\ w.atoms[o].delayed = d.atoms[o].delayed
                                 /\ w.atoms[o].fact = FALSE
    BY Zenon, <1>0, WithoutFactsFields
  <2> DEFINE g == WithoutFacts(e)
  <2>6. /\ g \in DP!DomainRecord
        /\ g.delayed = e.delayed /\ g.generation = e.generation /\ g.enqueued = e.enqueued
        /\ g.initOffset = e.initOffset /\ g.initDelayedOffset = e.initDelayedOffset
        /\ Len(g.atoms) = Len(e.atoms) /\ Offsets(g) = Offsets(e)
        /\ \A o \in Offsets(e) : /\ g.atoms[o].sym = e.atoms[o].sym
                                 /\ g.atoms[o].gen = e.atoms[o].gen
                                 /\ g.atoms[o].delayed = e.atoms[o].delayed
                                 /\ g.atoms[o].fact = FALSE
    <3>1. e \in DP!DomainRecord
      BY <2>3
    <3> HIDE DEF e
    <3>. QED  BY Zenon, <3>1, WithoutFactsFields
  <2> HIDE DEF g, e, f, w
  <2>7. NewAtom(s).fact = FALSE
    BY DEF NewAtom
  <2>8. \A o \in Offsets(e) : o \in Offsets(d) \/ o = Len(e.atoms)
    BY <1>0, <2>3 DEF Offsets
  <2>9. \A o \in Offsets(g) : /\ g.atoms[o].sym = f.atoms[o].sym
                              /\ g.atoms[o].gen = f.atoms[o].gen
                              /\ g.atoms[o].fact = f.atoms[o].fact
                              /\ g.atoms[o].delayed = f.atoms[o].delayed
    <3>1. ASSUME NEW o \in Offsets(d)
          PROVE  /\ g.atoms[o].sym = f.atoms[o].sym
                 /\ g.atoms[o].gen = f.atoms[o].gen
                 /\ g.atoms[o].fact = f.atoms[o].fact
                 /\ g.atoms[o].delayed = f.atoms[o].delayed
      <4>1. o \in Offsets(e) /\ o \in Offsets(w)
        BY <1>0, <2>3, <2>5 DEF Offsets
      <4>2. e.atoms[o] = d.atoms[o] /\ f.atoms[o] = w.atoms[o]
        BY <2>3, <2>4, <4>1
      <4>3. /\ g.atoms[o].sym = e.atoms[o].sym /\ g.atoms[o].gen = e.atoms[o].gen
            /\ g.atoms[o].delayed = e.atoms[o].delayed /\ g.atoms[o].fact = FALSE
        BY <2>6, <4>1
      <4>4. /\ w.atoms[o].sym = d.atoms[o].sym /\ w.atoms[o].gen = d.atoms[o].gen
            /\ w.atoms[o].delayed = d.atoms[o].delayed /\ w.atoms[o].fact = FALSE
        BY <2>5
      <4>. QED  BY Zenon, <4>2, <4>3, <4>4
    <3>2. ASSUME NEW o \in Offsets(e), o = Len(e.atoms)
          PROVE  /\ g.atoms[o].sym = f.atoms[o].sym
                 /\ g.atoms[o].gen = f.atoms[o].gen
                 /\ g.atoms[o].fact = f.atoms[o].fact
                 /\ g.atoms[o].delayed = f.atoms[o].delayed
      <4>1. e.atoms[o] = NewAtom(s) /\ f.atoms[o] = NewAtom(s)
        BY <2>3, <2>4, <2>5, <3>2
      <4>2. /\ g.atoms[o].sym = e.atoms[o].sym /\ g.atoms[o].gen = e.atoms[o].gen
            /\ g.atoms[o].delayed = e.atoms[o].delayed /\ g.atoms[o].fact = FALSE
        BY <2>6
      <4>3. /\ g.atoms[o].sym = NewAtom(s).sym /\ g.atoms[o].gen = NewAtom(s).gen
            /\ g.atoms[o].delayed = NewAtom(s).delayed /\ g.atoms[o].fact = NewAtom(s).fact
        BY Zenon, <2>7, <4>1, <4>2
      <4>. QED  BY <4>1, <4>3
    <3>. QED  BY <2>6, <2>8, <3>1, <3>2
  <2>10. g = f
    BY <2>3, <2>4, <2>5, <2>6, <2>9, SameDomain
  <2>. QED  BY <2>10 DEF g, f, e, w
<1>. QED  BY <1>1, <1>2

LEMMA WithoutFactsMark ==
  ASSUME NEW d, DP!DomOK(d), NEW os
  PROVE  WithoutFacts(MarkDelayed(d, os)) = MarkDelayed(WithoutFacts(d), os)
<1> DEFINE w == WithoutFacts(d)
           mark(c) == [o \in Offsets(c) |-> IF o \in os /\ ~IsDefined(c, o)
                          THEN [c.atoms[o] EXCEPT !.delayed = TRUE] ELSE c.atoms[o]]
           e == MarkDelayed(d, os)
           f == MarkDelayed(w, os)
           g == WithoutFacts(e)
<1>1. d \in DP!DomainRecord /\ \A o \in Offsets(d) : d.atoms[o] \in DP!AtomRecord
  BY DomainParts DEF DP!DomOK
<1>2. /\ w \in DP!DomainRecord
      /\ w.delayed = d.delayed /\ w.generation = d.generation /\ w.enqueued = d.enqueued
      /\ w.initOffset = d.initOffset /\ w.initDelayedOffset = d.initDelayedOffset
      /\ Len(w.atoms) = Len(d.atoms) /\ Offsets(w) = Offsets(d)
      /\ \A o \in Offsets(d) : /\ w.atoms[o].sym = d.atoms[o].sym
                               /\ w.atoms[o].gen = d.atoms[o].gen
                               /\ w.atoms[o].delayed = d.atoms[o].delayed
                               /\ w.atoms[o].fact = FALSE
                               /\ w.atoms[o] \in DP!AtomRecord
  BY Zenon, <1>1, WithoutFactsFields
<1> HIDE DEF w
<1>3. ASSUME NEW c \in DP!DomainRecord, \A o \in Offsets(c) : c.atoms[o] \in DP!AtomRecord
      PROVE  mark(c) \in [Offsets(c) -> DP!AtomRecord]
             /\ \A o \in Offsets(c) : /\ mark(c)[o].sym = c.atoms[o].sym
                                      /\ mark(c)[o].gen = c.atoms[o].gen
                                      /\ mark(c)[o].fact = c.atoms[o].fact
                                      /\ mark(c)[o].delayed =
                                           IF o \in os /\ ~IsDefined(c, o) THEN TRUE
                                           ELSE c.atoms[o].delayed
  <2>1. 0 \in Nat
    OBVIOUS
  <2>. QED  BY Zenon, <1>3, <2>1, AtomChanges
<1>4. e = [d EXCEPT !.atoms = mark(d)] /\ f = [w EXCEPT !.atoms = mark(w)]
  BY DEF MarkDelayed
<1> HIDE DEF mark
<1>5. /\ e \in DP!DomainRecord /\ e.atoms = mark(d) /\ Len(e.atoms) = Len(d.atoms)
      /\ e.delayed = d.delayed /\ e.generation = d.generation /\ e.enqueued = d.enqueued
      /\ e.initOffset = d.initOffset /\ e.initDelayedOffset = d.initDelayedOffset
  <2>1. mark(d) \in [Offsets(d) -> DP!AtomRecord]
    BY Zenon, <1>1, <1>3
  <2>. QED  BY <1>1, <1>4, <2>1, AtomsReplaced
<1>6. /\ f \in DP!DomainRecord /\ f.atoms = mark(w) /\ Len(f.atoms) = Len(w.atoms)
      /\ f.delayed = w.delayed /\ f.generation = w.generation /\ f.enqueued = w.enqueued
      /\ f.initOffset = w.initOffset /\ f.initDelayedOffset = w.initDelayedOffset
  <2>1. mark(w) \in [Offsets(w) -> DP!AtomRecord]
    BY Zenon, <1>2, <1>3
  <2>. QED  BY <1>2, <1>4, <2>1, AtomsReplaced
<1> HIDE DEF e, f
<1>7. /\ g \in DP!DomainRecord
      /\ g.delayed = e.delayed /\ g.generation = e.generation /\ g.enqueued = e.enqueued
      /\ g.initOffset = e.initOffset /\ g.initDelayedOffset = e.initDelayedOffset
      /\ Len(g.atoms) = Len(e.atoms) /\ Offsets(g) = Offsets(e)
      /\ \A o \in Offsets(e) : /\ g.atoms[o].sym = e.atoms[o].sym
                               /\ g.atoms[o].gen = e.atoms[o].gen
                               /\ g.atoms[o].delayed = e.atoms[o].delayed
                               /\ g.atoms[o].fact = FALSE
  BY Zenon, <1>5, WithoutFactsFields
<1> HIDE DEF g
<1>8. Offsets(e) = Offsets(d)
  BY <1>5 DEF Offsets
<1>9. ASSUME NEW o \in Offsets(g)
      PROVE  /\ g.atoms[o].sym = f.atoms[o].sym
             /\ g.atoms[o].gen = f.atoms[o].gen
             /\ g.atoms[o].fact = f.atoms[o].fact
             /\ g.atoms[o].delayed = f.atoms[o].delayed
  <2>1. o \in Offsets(d) /\ o \in Offsets(w) /\ o \in Offsets(e)
    BY <1>2, <1>7, <1>8
  <2>2. IsDefined(w, o) = IsDefined(d, o)
    BY <1>2, <2>1 DEF IsDefined
  <2>3. /\ mark(d)[o].sym = d.atoms[o].sym /\ mark(d)[o].gen = d.atoms[o].gen
        /\ mark(d)[o].delayed = IF o \in os /\ ~IsDefined(d, o) THEN TRUE ELSE d.atoms[o].delayed
    BY Zenon, <1>1, <1>3, <2>1
  <2>4. /\ mark(w)[o].sym = w.atoms[o].sym /\ mark(w)[o].gen = w.atoms[o].gen
        /\ mark(w)[o].fact = w.atoms[o].fact
        /\ mark(w)[o].delayed = IF o \in os /\ ~IsDefined(w, o) THEN TRUE ELSE w.atoms[o].delayed
    BY Zenon, <1>2, <1>3, <2>1
  <2>5. e.atoms[o] = mark(d)[o] /\ f.atoms[o] = mark(w)[o]
    BY <1>5, <1>6
  <2>6. /\ w.atoms[o].sym = d.atoms[o].sym /\ w.atoms[o].gen = d.atoms[o].gen
        /\ w.atoms[o].delayed = d.atoms[o].delayed /\ w.atoms[o].fact = FALSE
    BY <1>2, <2>1
  <2>7. /\ g.atoms[o].sym = e.atoms[o].sym /\ g.atoms[o].gen = e.atoms[o].gen
        /\ g.atoms[o].delayed = e.atoms[o].delayed /\ g.atoms[o].fact = FALSE
    BY <1>7, <2>1
  <2>8. mark(w)[o].delayed = mark(d)[o].delayed
    BY <2>2, <2>3, <2>4, <2>6
  <2>. QED  BY Zenon, <2>3, <2>4, <2>5, <2>6, <2>7, <2>8
<1>10. g = f
  BY <1>2, <1>5, <1>6, <1>7, <1>9, SameDomain
<1>. QED  BY <1>10 DEF g, f, e, w

LEMMA WithoutFactsSetFact ==
  ASSUME NEW d, DP!DomOK(d), NEW o \in Offsets(d)
  PROVE  WithoutFacts(SetFact(d, o)) = WithoutFacts(d)
<1> DEFINE e == SetFact(d, o)
<1>1. /\ d \in DP!DomainRecord /\ d.atoms \in Seq(DP!AtomRecord) /\ DOMAIN d.atoms = Offsets(d)
      /\ Len(d.atoms) \in Nat
      /\ \A q \in Offsets(d) : d.atoms[q] \in DP!AtomRecord
  BY DomainParts DEF DP!DomOK
<1>2. /\ e.atoms = [d.atoms EXCEPT ![o] = [d.atoms[o] EXCEPT !.fact = TRUE]]
      /\ e = [d EXCEPT !.atoms = [d.atoms EXCEPT ![o] = [d.atoms[o] EXCEPT !.fact = TRUE]]]
  BY <1>1 DEF SetFact, DP!DomainRecord
<1>3. Len(e.atoms) = Len(d.atoms)
  BY <1>1, <1>2
<1>4. Offsets(e) = Offsets(d)
  BY <1>3 DEF Offsets
<1>5. \A q \in Offsets(d) : [e.atoms[q] EXCEPT !.fact = FALSE] = [d.atoms[q] EXCEPT !.fact = FALSE]
  <2>1. \A a \in DP!AtomRecord :
          [[a EXCEPT !.fact = TRUE] EXCEPT !.fact = FALSE] = [a EXCEPT !.fact = FALSE]
    BY Zenon DEF DP!AtomRecord
  <2>2. \A q \in Offsets(d) : e.atoms[q] = d.atoms[q] \/ e.atoms[q] = [d.atoms[q] EXCEPT !.fact = TRUE]
    BY Zenon, <1>1, <1>2
  <2>. QED  BY Zenon, <1>1, <2>1, <2>2
<1>6. [q \in Offsets(e) |-> [e.atoms[q] EXCEPT !.fact = FALSE]]
        = [q \in Offsets(d) |-> [d.atoms[q] EXCEPT !.fact = FALSE]]
  BY <1>4, <1>5
<1>7. \A as : [e EXCEPT !.atoms = as] = [d EXCEPT !.atoms = as]
  BY Zenon, <1>1, <1>2 DEF DP!DomainRecord
<1> HIDE DEF e
<1>8. WithoutFacts(e) = WithoutFacts(d)
  BY Zenon, <1>6, <1>7 DEF WithoutFacts
<1>. QED  BY <1>8 DEF e

LEMMA WithoutFactsAtom ==
  ASSUME NEW d, d \in DP!DomainRecord, NEW o \in Offsets(d)
  PROVE  LET w == WithoutFacts(d) IN
         /\ w.atoms[o].sym = d.atoms[o].sym /\ w.atoms[o].gen = d.atoms[o].gen
         /\ w.atoms[o].delayed = d.atoms[o].delayed /\ w.atoms[o].fact = FALSE
         /\ w.atoms[o] \in DP!AtomRecord
BY Zenon, WithoutFactsFields

(* f is e without facts. *)
SameCounters(e, f) ==
  /\ e.delayed = f.delayed /\ e.generation = f.generation /\ e.enqueued = f.enqueued
  /\ e.initOffset = f.initOffset /\ e.initDelayedOffset = f.initDelayedOffset
  /\ Len(e.atoms) = Len(f.atoms)

SameAtoms(e, f) ==
  \A o \in Offsets(e) : /\ e.atoms[o].sym = f.atoms[o].sym
                        /\ e.atoms[o].gen = f.atoms[o].gen
                        /\ e.atoms[o].delayed = f.atoms[o].delayed
                        /\ f.atoms[o].fact = FALSE

LEMMA WithoutFactsIs ==
  ASSUME NEW e, e \in DP!DomainRecord, NEW f, f \in DP!DomainRecord,
         SameCounters(e, f), SameAtoms(e, f)
  PROVE  WithoutFacts(e) = f
<1> DEFINE g == WithoutFacts(e)
<1>1. /\ g \in DP!DomainRecord
      /\ g.delayed = e.delayed /\ g.generation = e.generation /\ g.enqueued = e.enqueued
      /\ g.initOffset = e.initOffset /\ g.initDelayedOffset = e.initDelayedOffset
      /\ Len(g.atoms) = Len(e.atoms) /\ Offsets(g) = Offsets(e)
  BY Zenon, WithoutFactsFields
<1>0. ASSUME NEW o \in Offsets(e)
      PROVE  /\ g.atoms[o].sym = e.atoms[o].sym /\ g.atoms[o].gen = e.atoms[o].gen
             /\ g.atoms[o].delayed = e.atoms[o].delayed /\ g.atoms[o].fact = FALSE
  BY Zenon, WithoutFactsAtom
<1> HIDE DEF g
<1>2. ASSUME NEW o \in Offsets(g)
      PROVE  /\ g.atoms[o].sym = f.atoms[o].sym
             /\ g.atoms[o].gen = f.atoms[o].gen
             /\ g.atoms[o].fact = f.atoms[o].fact
             /\ g.atoms[o].delayed = f.atoms[o].delayed
  <2>1. o \in Offsets(e)
    BY <1>1
  <2>2. /\ g.atoms[o].sym = e.atoms[o].sym /\ g.atoms[o].gen = e.atoms[o].gen
        /\ g.atoms[o].delayed = e.atoms[o].delayed /\ g.atoms[o].fact = FALSE
    BY <1>0, <2>1, Zenon
  <2>3. /\ e.atoms[o].sym = f.atoms[o].sym /\ e.atoms[o].gen = f.atoms[o].gen
        /\ e.atoms[o].delayed = f.atoms[o].delayed /\ f.atoms[o].fact = FALSE
    BY <2>1, Zenon DEF SameAtoms
  <2>. QED  BY <2>2, <2>3, Zenon
<1>3. /\ g.delayed = f.delayed /\ g.generation = f.generation /\ g.enqueued = f.enqueued
      /\ g.initOffset = f.initOffset /\ g.initDelayedOffset = f.initDelayedOffset
      /\ Len(g.atoms) = Len(f.atoms)
  BY <1>1, Zenon DEF SameCounters
<1>4. g = f
  BY <1>1, <1>2, <1>3, SameDomain, Zenon
<1>. QED  BY <1>4 DEF g

LEMMA WithoutFactsDefineOffset ==
  ASSUME NEW r, DP!DomOK(r), NEW o \in Offsets(r)
  PROVE  WithoutFacts(DefineOffset(r, o)) = DefineOffset(WithoutFacts(r), o)
<1> DEFINE w == WithoutFacts(r)
           e == DefineOffset(r, o)
           f == DefineOffset(w, o)
<1>1. r \in DP!DomainRecord /\ r.generation \in Nat
      /\ (\A q \in Offsets(r) : r.atoms[q] \in DP!AtomRecord)
  BY DomainParts DEF DP!DomOK
<1>2. /\ w \in DP!DomainRecord
      /\ w.delayed = r.delayed /\ w.generation = r.generation /\ w.enqueued = r.enqueued
      /\ w.initOffset = r.initOffset /\ w.initDelayedOffset = r.initDelayedOffset
      /\ Len(w.atoms) = Len(r.atoms) /\ Offsets(w) = Offsets(r)
  BY Zenon, <1>1, WithoutFactsFields
<1>3. ASSUME NEW q \in Offsets(r)
      PROVE  /\ w.atoms[q].sym = r.atoms[q].sym /\ w.atoms[q].gen = r.atoms[q].gen
             /\ w.atoms[q].delayed = r.atoms[q].delayed /\ w.atoms[q].fact = FALSE
             /\ w.atoms[q] \in DP!AtomRecord
  BY Zenon, <1>1, WithoutFactsFields
<1> HIDE DEF w
<1>4. IsDefined(w, o) = IsDefined(r, o)
  BY Zenon, <1>3 DEF IsDefined
<1>5. CASE IsDefined(r, o)
  <2>1. e = r /\ f = w
    BY <1>4, <1>5 DEF DefineOffset
  <2>. QED  BY <2>1 DEF w
<1>6. CASE ~IsDefined(r, o)
  <2>1. /\ DP!DefineOffset(r, o) = e /\ DP!DefineOffset(w, o) = f
        /\ ~DP!IsDefined(r, o) /\ ~DP!IsDefined(w, o)
        /\ DP!Offsets(r) = Offsets(r) /\ DP!Offsets(w) = Offsets(w)
    BY <1>4, <1>6, SameLookups DEF DP!DefineOffset, DefineOffset
  <2> HIDE DEF e, f
  <2>2. /\ e \in DP!DomainRecord
        /\ e.generation = r.generation /\ e.enqueued = r.enqueued
        /\ e.initOffset = r.initOffset /\ e.initDelayedOffset = r.initDelayedOffset
        /\ e.delayed = IF r.atoms[o].delayed THEN Append(r.delayed, o) ELSE r.delayed
        /\ Len(e.atoms) = Len(r.atoms)
        /\ \A p \in Offsets(r) : p # o => e.atoms[p] = r.atoms[p]
        /\ e.atoms[o] = [r.atoms[o] EXCEPT !.gen = r.generation + 2]
    BY <1>1, <2>1, DP!DefineFields
  <2>3. /\ f \in DP!DomainRecord
        /\ f.generation = w.generation /\ f.enqueued = w.enqueued
        /\ f.initOffset = w.initOffset /\ f.initDelayedOffset = w.initDelayedOffset
        /\ f.delayed = IF w.atoms[o].delayed THEN Append(w.delayed, o) ELSE w.delayed
        /\ Len(f.atoms) = Len(w.atoms)
        /\ \A p \in Offsets(w) : p # o => f.atoms[p] = w.atoms[p]
        /\ f.atoms[o] = [w.atoms[o] EXCEPT !.gen = w.generation + 2]
    BY <1>2, <2>1, DP!DefineFields
  <2>4. r.generation + 2 \in Nat
    BY <1>1
  <2>5. /\ e.atoms[o].sym = r.atoms[o].sym /\ e.atoms[o].gen = r.generation + 2
        /\ e.atoms[o].delayed = r.atoms[o].delayed
        /\ f.atoms[o].sym = w.atoms[o].sym /\ f.atoms[o].gen = w.generation + 2
        /\ f.atoms[o].delayed = w.atoms[o].delayed /\ f.atoms[o].fact = w.atoms[o].fact
    <3>1. w.atoms[o] \in DP!AtomRecord /\ r.atoms[o] \in DP!AtomRecord
      BY Zenon, <1>1, <1>3
    <3>. QED  BY <1>2, <2>2, <2>3, <2>4, <3>1, AtomChanges
  <2>6. ASSUME NEW q \in Offsets(e)
        PROVE  /\ e.atoms[q].sym = f.atoms[q].sym /\ e.atoms[q].gen = f.atoms[q].gen
               /\ e.atoms[q].delayed = f.atoms[q].delayed /\ f.atoms[q].fact = FALSE
    <3>1. q \in Offsets(r)
      BY <2>2 DEF Offsets
    <3>2. CASE q = o
      <4>1. /\ w.atoms[o].sym = r.atoms[o].sym /\ w.generation = r.generation
            /\ w.atoms[o].delayed = r.atoms[o].delayed /\ w.atoms[o].fact = FALSE
        BY <1>2, <1>3, Zenon
      <4>. QED  BY <2>5, <3>2, <4>1, Zenon
    <3>3. CASE q # o
      <4>1. e.atoms[q] = r.atoms[q] /\ f.atoms[q] = w.atoms[q]
        BY <1>2, <2>2, <2>3, <3>1, <3>3
      <4>. QED  BY <1>3, <3>1, <4>1, Zenon
    <3>. QED  BY Zenon, <3>2, <3>3
  <2>7. e.delayed = f.delayed
    <3>1. w.atoms[o].delayed = r.atoms[o].delayed /\ w.delayed = r.delayed
      BY <1>2, <1>3, Zenon
    <3>2. f.delayed = IF r.atoms[o].delayed THEN Append(r.delayed, o) ELSE r.delayed
      BY <2>3, <3>1, Zenon
    <3>. QED  BY <2>2, <3>2, Zenon
  <2>8. SameCounters(e, f)
    BY <1>2, <2>2, <2>3, <2>7, Zenon DEF SameCounters
  <2>9. SameAtoms(e, f)
    BY <2>6, Zenon DEF SameAtoms
  <2>10. WithoutFacts(e) = f
    BY <2>2, <2>3, <2>8, <2>9, WithoutFactsIs, Zenon
  <2>. QED  BY <2>10 DEF e, f, w
<1>. QED  BY <1>5, <1>6

LEMMA WithoutFactsDefine ==
  ASSUME NEW d, DP!DomOK(d), NEW s \in UsedSyms
  PROVE  WithoutFacts(Define(d, s)) = Define(WithoutFacts(d), s)
<1> DEFINE r == Reserve(d, s)
           w == WithoutFacts(r)
<1>1. w = Reserve(WithoutFacts(d), s)
  BY WithoutFactsReserve
<1>2. DP!DomOK(r) /\ Contains(r, s)
  BY Zenon, DP!ReserveOK, SameReserve, SameLookups
<1> HIDE DEF r
<1>3. r \in DP!DomainRecord /\ Find(r, s) \in Offsets(r) /\ Find(w, s) = Find(r, s)
  BY <1>2, FindContained, WithoutFactsLookups DEF DP!DomOK
<1>4. WithoutFacts(DefineOffset(r, Find(r, s))) = DefineOffset(w, Find(w, s))
  BY <1>2, <1>3, WithoutFactsDefineOffset
<1>. QED  BY <1>1, <1>4 DEF Define, r

LEMMA InitFields ==
  ASSUME NEW d, DP!DomOK(d)
  PROVE  LET e == InitDomain(d)
             late(o) == \E k \in d.initDelayedOffset + 1 .. Len(d.delayed) : d.delayed[k] = o
             behind(o) == o \in d.initOffset + 1 .. Len(d.atoms)
         IN /\ e \in DP!DomainRecord
            /\ e.delayed = d.delayed /\ e.generation = 0 /\ e.enqueued = d.enqueued
            /\ e.initOffset = Len(d.atoms) /\ e.initDelayedOffset = Len(d.delayed)
            /\ Len(e.atoms) = Len(d.atoms)
            /\ \A o \in Offsets(d) :
                 /\ e.atoms[o].sym = d.atoms[o].sym
                 /\ e.atoms[o].gen = IF late(o) \/ (behind(o) /\ d.atoms[o].gen > 0) THEN 1
                                     ELSE d.atoms[o].gen
                 /\ e.atoms[o].delayed = IF behind(o) /\ ~(d.atoms[o].gen > 0) THEN TRUE
                                         ELSE d.atoms[o].delayed
                 /\ e.atoms[o].fact = d.atoms[o].fact
<1> DEFINE late == {d.delayed[k] : k \in d.initDelayedOffset + 1 .. Len(d.delayed)}
           os == d.initOffset + 1 .. Len(d.atoms)
           m == MarkDelayed(d, os)
           as == [o \in Offsets(d) |->
                    IF o \in late \/ (o > d.initOffset /\ IsDefined(d, o))
                    THEN [m.atoms[o] EXCEPT !.gen = 1] ELSE m.atoms[o]]
           e == InitDomain(d)
<1>1. /\ d \in DP!DomainRecord /\ Len(d.atoms) \in Nat /\ Len(d.delayed) \in Nat
      /\ d.initOffset \in Nat
      /\ \A o \in Offsets(d) : d.atoms[o] \in DP!AtomRecord /\ d.atoms[o].gen \in Nat
  BY Zenon, DomainParts DEF DP!DomOK, DP!DomainRecord
<1>2. m.atoms = [o \in Offsets(d) |-> IF o \in os /\ ~IsDefined(d, o)
                   THEN [d.atoms[o] EXCEPT !.delayed = TRUE] ELSE d.atoms[o]]
  BY <1>1 DEF MarkDelayed, DP!DomainRecord
<1>3. ASSUME NEW o \in Offsets(d)
      PROVE  /\ m.atoms[o] \in DP!AtomRecord
             /\ m.atoms[o].sym = d.atoms[o].sym /\ m.atoms[o].gen = d.atoms[o].gen
             /\ m.atoms[o].fact = d.atoms[o].fact
             /\ m.atoms[o].delayed = IF o \in os /\ ~IsDefined(d, o) THEN TRUE ELSE d.atoms[o].delayed
  <2>1. CASE o \in os /\ ~IsDefined(d, o)
    <3>1. m.atoms[o] = [d.atoms[o] EXCEPT !.delayed = TRUE]
      BY Zenon, <1>2, <2>1
    <3>2. d.atoms[o] \in DP!AtomRecord /\ 0 \in Nat
      BY <1>1
    <3>. QED  BY Zenon, <2>1, <3>1, <3>2, AtomChanges
  <2>2. CASE ~(o \in os /\ ~IsDefined(d, o))
    BY Zenon, <1>1, <1>2, <2>2
  <2>. QED  BY Zenon, <2>1, <2>2
<1> HIDE DEF m
<1>4. ASSUME NEW o \in Offsets(d)
      PROVE  /\ as[o] \in DP!AtomRecord
             /\ as[o].sym = d.atoms[o].sym
             /\ as[o].gen = IF o \in late \/ (o > d.initOffset /\ IsDefined(d, o)) THEN 1
                            ELSE d.atoms[o].gen
             /\ as[o].fact = d.atoms[o].fact
             /\ as[o].delayed = IF o \in os /\ ~IsDefined(d, o) THEN TRUE ELSE d.atoms[o].delayed
  <2>1. CASE o \in late \/ (o > d.initOffset /\ IsDefined(d, o))
    <3>1. as[o] = [m.atoms[o] EXCEPT !.gen = 1] /\ 1 \in Nat
      BY <2>1
    <3> HIDE DEF as
    <3>2. /\ m.atoms[o] \in DP!AtomRecord
          /\ m.atoms[o].sym = d.atoms[o].sym /\ m.atoms[o].gen = d.atoms[o].gen
          /\ m.atoms[o].fact = d.atoms[o].fact
          /\ m.atoms[o].delayed = IF o \in os /\ ~IsDefined(d, o) THEN TRUE ELSE d.atoms[o].delayed
      BY Zenon, <1>3
    <3>3. /\ as[o] \in DP!AtomRecord
          /\ as[o].sym = m.atoms[o].sym /\ as[o].gen = 1
          /\ as[o].fact = m.atoms[o].fact /\ as[o].delayed = m.atoms[o].delayed
      <4> DEFINE a == m.atoms[o]
                 b == as[o]
      <4>1. b = [a EXCEPT !.gen = 1] /\ a \in DP!AtomRecord
        BY <3>1, <3>2
      <4> HIDE DEF a, b
      <4>2. b \in DP!AtomRecord /\ b.sym = a.sym /\ b.gen = 1 /\ b.fact = a.fact /\ b.delayed = a.delayed
        BY Zenon, <4>1, AtomChanges
      <4>. QED  BY Zenon, <4>2 DEF a, b
    <3>. QED  BY <2>1, <3>2, <3>3, Zenon
  <2>2. CASE ~(o \in late \/ (o > d.initOffset /\ IsDefined(d, o)))
    <3>1. as[o] = m.atoms[o]
      BY <2>2
    <3> HIDE DEF as
    <3>2. /\ m.atoms[o] \in DP!AtomRecord
          /\ m.atoms[o].sym = d.atoms[o].sym /\ m.atoms[o].gen = d.atoms[o].gen
          /\ m.atoms[o].fact = d.atoms[o].fact
          /\ m.atoms[o].delayed = IF o \in os /\ ~IsDefined(d, o) THEN TRUE ELSE d.atoms[o].delayed
      BY Zenon, <1>3
    <3>. QED  BY <2>2, <3>1, <3>2, Zenon
  <2>. QED  BY Zenon, <2>1, <2>2
<1>5. as \in [1..Len(d.atoms) -> DP!AtomRecord]
  BY Zenon, <1>4 DEF Offsets
<1>6. e = [d EXCEPT !.generation = 0, !.atoms = as,
                    !.initOffset = Len(d.atoms), !.initDelayedOffset = Len(d.delayed)]
  BY DEF InitDomain, m
<1> HIDE DEF as
<1>7. as \in Seq(DP!AtomRecord) /\ Len(as) = Len(d.atoms)
  BY Zenon, <1>1, <1>5, DP!SeqOfElements
<1>8. /\ e \in DP!DomainRecord /\ e.atoms = as
      /\ e.delayed = d.delayed /\ e.generation = 0 /\ e.enqueued = d.enqueued
      /\ e.initOffset = Len(d.atoms) /\ e.initDelayedOffset = Len(d.delayed)
  <2>1. /\ e.atoms = as /\ e.delayed = d.delayed /\ e.generation = 0 /\ e.enqueued = d.enqueued
        /\ e.initOffset = Len(d.atoms) /\ e.initDelayedOffset = Len(d.delayed)
    BY <1>1, <1>6 DEF DP!DomainRecord
  <2>2. e \in DP!DomainRecord
    <3>1. Len(d.atoms) \in Nat /\ Len(d.delayed) \in Nat /\ 0 \in Nat
      BY <1>1
    <3> DEFINE n == Len(d.atoms)
               k == Len(d.delayed)
    <3> HIDE DEF n, k
    <3>2. e = [d EXCEPT !.generation = 0, !.atoms = as, !.initOffset = n, !.initDelayedOffset = k]
          /\ n \in Nat /\ k \in Nat
      BY <1>6, <3>1 DEF n, k
    <3>. QED  BY Zenon, <1>1, <1>7, <3>1, <3>2 DEF DP!DomainRecord
  <2>. QED  BY <2>1, <2>2
<1>9. ASSUME NEW o \in Offsets(d)
      PROVE  /\ o \in late <=> \E k \in d.initDelayedOffset + 1 .. Len(d.delayed) : d.delayed[k] = o
             /\ o > d.initOffset <=> o \in d.initOffset + 1 .. Len(d.atoms)
             /\ IsDefined(d, o) <=> d.atoms[o].gen > 0
  BY <1>1 DEF IsDefined, Offsets
<1> HIDE DEF e, late
<1>10. ASSUME NEW o \in Offsets(d)
       PROVE /\ e.atoms[o].sym = d.atoms[o].sym
             /\ e.atoms[o].gen =
                  IF (\E k \in d.initDelayedOffset + 1 .. Len(d.delayed) : d.delayed[k] = o)
                       \/ (o \in d.initOffset + 1 .. Len(d.atoms) /\ d.atoms[o].gen > 0) THEN 1
                  ELSE d.atoms[o].gen
             /\ e.atoms[o].delayed =
                  IF o \in d.initOffset + 1 .. Len(d.atoms) /\ ~(d.atoms[o].gen > 0) THEN TRUE
                  ELSE d.atoms[o].delayed
             /\ e.atoms[o].fact = d.atoms[o].fact
  BY Zenon, <1>4, <1>8, <1>9
<1>. QED  BY Zenon, <1>7, <1>8, <1>10 DEF e

LEMMA WithoutFactsInit ==
  ASSUME NEW d, DP!DomOK(d)
  PROVE  WithoutFacts(InitDomain(d)) = InitDomain(WithoutFacts(d))
<1> DEFINE w == WithoutFacts(d)
           e == InitDomain(d)
           f == InitDomain(w)
           late(c, o) == \E k \in c.initDelayedOffset + 1 .. Len(c.delayed) : c.delayed[k] = o
           behind(c, o) == o \in c.initOffset + 1 .. Len(c.atoms)
<1>1. d \in DP!DomainRecord /\ DP!DomOK(w)
  BY WithoutFactsOK DEF DP!DomOK
<1>2. /\ w.delayed = d.delayed /\ w.enqueued = d.enqueued
      /\ w.initOffset = d.initOffset /\ w.initDelayedOffset = d.initDelayedOffset
      /\ Len(w.atoms) = Len(d.atoms) /\ Offsets(w) = Offsets(d)
  BY Zenon, <1>1, WithoutFactsFields
<1>3. ASSUME NEW q \in Offsets(d)
      PROVE  /\ w.atoms[q].sym = d.atoms[q].sym /\ w.atoms[q].gen = d.atoms[q].gen
             /\ w.atoms[q].delayed = d.atoms[q].delayed /\ w.atoms[q].fact = FALSE
  BY Zenon, <1>1, WithoutFactsFields
<1> HIDE DEF w
<1>4. /\ e \in DP!DomainRecord
      /\ e.delayed = d.delayed /\ e.generation = 0 /\ e.enqueued = d.enqueued
      /\ e.initOffset = Len(d.atoms) /\ e.initDelayedOffset = Len(d.delayed)
      /\ Len(e.atoms) = Len(d.atoms)
      /\ \A o \in Offsets(d) :
           /\ e.atoms[o].sym = d.atoms[o].sym
           /\ e.atoms[o].gen = IF late(d, o) \/ (behind(d, o) /\ d.atoms[o].gen > 0) THEN 1
                               ELSE d.atoms[o].gen
           /\ e.atoms[o].delayed = IF behind(d, o) /\ ~(d.atoms[o].gen > 0) THEN TRUE
                                   ELSE d.atoms[o].delayed
  BY Zenon, InitFields
<1>5. /\ f \in DP!DomainRecord
      /\ f.delayed = w.delayed /\ f.generation = 0 /\ f.enqueued = w.enqueued
      /\ f.initOffset = Len(w.atoms) /\ f.initDelayedOffset = Len(w.delayed)
      /\ Len(f.atoms) = Len(w.atoms)
      /\ \A o \in Offsets(w) :
           /\ f.atoms[o].sym = w.atoms[o].sym
           /\ f.atoms[o].gen = IF late(w, o) \/ (behind(w, o) /\ w.atoms[o].gen > 0) THEN 1
                               ELSE w.atoms[o].gen
           /\ f.atoms[o].delayed = IF behind(w, o) /\ ~(w.atoms[o].gen > 0) THEN TRUE
                                   ELSE w.atoms[o].delayed
           /\ f.atoms[o].fact = w.atoms[o].fact
  BY Zenon, <1>1, InitFields
<1>6. \A o : late(w, o) = late(d, o) /\ behind(w, o) = behind(d, o)
  BY <1>2
<1> HIDE DEF e, f, late, behind
<1>7. ASSUME NEW o \in Offsets(e)
      PROVE  /\ e.atoms[o].sym = f.atoms[o].sym /\ e.atoms[o].gen = f.atoms[o].gen
             /\ e.atoms[o].delayed = f.atoms[o].delayed /\ f.atoms[o].fact = FALSE
  <2>1. o \in Offsets(d) /\ o \in Offsets(w)
    BY <1>2, <1>4 DEF Offsets
  <2>2. /\ e.atoms[o].sym = d.atoms[o].sym
        /\ e.atoms[o].gen = IF late(d, o) \/ (behind(d, o) /\ d.atoms[o].gen > 0) THEN 1
                            ELSE d.atoms[o].gen
        /\ e.atoms[o].delayed = IF behind(d, o) /\ ~(d.atoms[o].gen > 0) THEN TRUE
                                ELSE d.atoms[o].delayed
    BY Zenon, <1>4, <2>1
  <2>3. /\ f.atoms[o].sym = w.atoms[o].sym
        /\ f.atoms[o].gen = IF late(d, o) \/ (behind(d, o) /\ w.atoms[o].gen > 0) THEN 1
                            ELSE w.atoms[o].gen
        /\ f.atoms[o].delayed = IF behind(d, o) /\ ~(w.atoms[o].gen > 0) THEN TRUE
                                ELSE w.atoms[o].delayed
        /\ f.atoms[o].fact = w.atoms[o].fact
    BY Zenon, <1>5, <1>6, <2>1
  <2>4. /\ w.atoms[o].sym = d.atoms[o].sym /\ w.atoms[o].gen = d.atoms[o].gen
        /\ w.atoms[o].delayed = d.atoms[o].delayed /\ w.atoms[o].fact = FALSE
    BY Zenon, <1>3, <2>1
  <2>. QED  BY <2>2, <2>3, <2>4
<1>8. /\ e \in DP!DomainRecord /\ f \in DP!DomainRecord
  BY <1>4, <1>5
<1>10. SameCounters(e, f)
  BY <1>2, <1>4, <1>5 DEF SameCounters
<1>11. SameAtoms(e, f)
  BY <1>7, Zenon DEF SameAtoms
<1>9. WithoutFacts(e) = f
  BY <1>8, <1>10, <1>11, WithoutFactsIs, Zenon
<1>. QED  BY <1>9 DEF e, f, w

(* Counters and facts do not touch each other. *)
LEMMA WithoutFactsCounters ==
  ASSUME NEW d, d \in DP!DomainRecord
  PROVE  /\ WithoutFacts([d EXCEPT !.generation = @ + 1])
              = [WithoutFacts(d) EXCEPT !.generation = @ + 1]
         /\ WithoutFacts(EnqueueDomain(d)) = EnqueueDomain(WithoutFacts(d))
         /\ WithoutFacts(AdvanceDomain(d)) = AdvanceDomain(WithoutFacts(d))
<1> DEFINE facts(c) == [o \in Offsets(c) |-> [c.atoms[o] EXCEPT !.fact = FALSE]]
           as == facts(d)
<1>1. \A c : WithoutFacts(c) = [c EXCEPT !.atoms = facts(c)]
  BY DEF WithoutFacts
<1>2. \A c : c.atoms = d.atoms => facts(c) = as
  BY DEF Offsets
<1> HIDE DEF facts, as
<1>3. ASSUME NEW n
      PROVE  /\ [d EXCEPT !.generation = n].atoms = d.atoms
             /\ [d EXCEPT !.enqueued = n].atoms = d.atoms
             /\ [[d EXCEPT !.generation = n] EXCEPT !.atoms = as]
                  = [[d EXCEPT !.atoms = as] EXCEPT !.generation = n]
             /\ [[d EXCEPT !.enqueued = n] EXCEPT !.atoms = as]
                  = [[d EXCEPT !.atoms = as] EXCEPT !.enqueued = n]
  BY Zenon DEF DP!DomainRecord
<1>4. ASSUME NEW m, NEW n
      PROVE  /\ [d EXCEPT !.generation = m, !.enqueued = n].atoms = d.atoms
             /\ [[d EXCEPT !.generation = m, !.enqueued = n] EXCEPT !.atoms = as]
                  = [[d EXCEPT !.atoms = as] EXCEPT !.generation = m, !.enqueued = n]
  BY Zenon DEF DP!DomainRecord
<1> DEFINE w == WithoutFacts(d)
<1>5. w = [d EXCEPT !.atoms = as]
  BY Zenon, <1>1, <1>2
<1>6. w.generation = d.generation /\ w.enqueued = d.enqueued
  BY Zenon, WithoutFactsFields
<1> HIDE DEF w
<1>7. WithoutFacts([d EXCEPT !.generation = @ + 1]) = [w EXCEPT !.generation = @ + 1]
  <2> DEFINE n == d.generation + 1
             e == [d EXCEPT !.generation = n]
  <2>1. e.atoms = d.atoms /\ [e EXCEPT !.atoms = as] = [w EXCEPT !.generation = n]
    BY Zenon, <1>3, <1>5
  <2>2. e = [d EXCEPT !.generation = @ + 1] /\ [w EXCEPT !.generation = n] = [w EXCEPT !.generation = @ + 1]
    BY <1>6
  <2> HIDE DEF e, n
  <2>3. WithoutFacts(e) = [w EXCEPT !.generation = n]
    BY Zenon, <1>1, <1>2, <2>1
  <2>. QED  BY <2>2, <2>3
<1>8. WithoutFacts(EnqueueDomain(d)) = EnqueueDomain(w)
  <2> DEFINE e == EnqueueDomain(d)
  <2>1. e.atoms = d.atoms /\ [e EXCEPT !.atoms = as] = EnqueueDomain(w)
    BY Zenon, <1>3, <1>5 DEF EnqueueDomain
  <2> HIDE DEF e
  <2>2. WithoutFacts(e) = EnqueueDomain(w)
    BY Zenon, <1>1, <1>2, <2>1
  <2>. QED  BY <2>2 DEF e
<1>9. WithoutFacts(AdvanceDomain(d)) = AdvanceDomain(w)
  <2> DEFINE m == d.generation + 1
             n == d.enqueued - 1
             e == [d EXCEPT !.generation = m, !.enqueued = n]
  <2>1. e.atoms = d.atoms /\ [e EXCEPT !.atoms = as] = [w EXCEPT !.generation = m, !.enqueued = n]
    BY Zenon, <1>4, <1>5
  <2>2. e = AdvanceDomain(d) /\ [w EXCEPT !.generation = m, !.enqueued = n] = AdvanceDomain(w)
    BY <1>6 DEF AdvanceDomain
  <2> HIDE DEF e, m, n
  <2>3. WithoutFacts(e) = [w EXCEPT !.generation = m, !.enqueued = n]
    BY Zenon, <1>1, <1>2, <2>1
  <2>. QED  BY <2>2, <2>3
<1>. QED  BY <1>7, <1>8, <1>9 DEF w

LEMMA WithoutFactsEmpty == WithoutFacts(EmptyDomain) = EmptyDomain
<1>1. EmptyDomain \in DP!DomainRecord
  BY DEF EmptyDomain, DP!DomainRecord
<1>2. SameCounters(EmptyDomain, EmptyDomain)
  BY DEF SameCounters
<1>3. Offsets(EmptyDomain) = {}
  BY DEF Offsets, EmptyDomain
<1>4. SameAtoms(EmptyDomain, EmptyDomain)
  BY <1>3 DEF SameAtoms
<1>. QED  BY <1>1, <1>2, <1>4, WithoutFactsIs

(* Indices do not see facts. *)
LEMMA WithoutFactsIndex ==
  ASSUME NEW d, DP!DomOK(d), NEW ix, ix.imported \in Nat, ix.importedDelayed \in Nat
  PROVE  /\ Fresh(WithoutFacts(d), ix) = Fresh(d, ix)
         /\ UpdateIndex(WithoutFacts(d), ix) = UpdateIndex(d, ix)
         /\ PassedBy(WithoutFacts(d), ix) = WithoutFacts(PassedBy(d, ix))
<1> DEFINE w == WithoutFacts(d)
<1>1. /\ d \in DP!DomainRecord /\ Len(d.atoms) \in Nat /\ Len(d.delayed) \in Nat
      /\ \A k \in 1..Len(d.delayed) : d.delayed[k] \in Offsets(d)
  <2>1. DP!Offsets(d) = Offsets(d)
    BY SameLookups
  <2>2. Len(d.atoms) \in Nat /\ Len(d.delayed) \in Nat
    BY DomainParts
  <2>. QED  BY <2>1, <2>2 DEF DP!DomOK
<1>2. w.delayed = d.delayed /\ Len(w.atoms) = Len(d.atoms) /\ Offsets(w) = Offsets(d)
  BY Zenon, <1>1, WithoutFactsFields
<1>3. PassedBy(w, ix) = WithoutFacts(PassedBy(d, ix))
  BY <1>2, WithoutFactsMark DEF PassedBy
<1>4. ASSUME NEW o \in Offsets(d)
      PROVE  /\ w.atoms[o].sym = d.atoms[o].sym /\ w.atoms[o].gen = d.atoms[o].gen
             /\ w.atoms[o].delayed = d.atoms[o].delayed
  BY Zenon, <1>1, WithoutFactsAtom
<1> HIDE DEF w
<1>5. Late(w, ix) = Late(d, ix)
  <2>1. \A k \in ix.importedDelayed + 1 .. Len(d.delayed) : d.delayed[k] \in Offsets(d)
    BY <1>1
  <2>2. \A k \in ix.importedDelayed + 1 .. Len(d.delayed) :
          w.atoms[d.delayed[k]].sym = d.atoms[d.delayed[k]].sym
    BY <1>4, <2>1
  <2>. QED  BY Zenon, <1>2, <2>2 DEF Late
<1>6. Scanned(w, ix) = Scanned(d, ix)
  <2>1. \A o \in ix.imported + 1 .. Len(d.atoms) : o \in Offsets(d)
    BY <1>1 DEF Offsets
  <2>2. ASSUME NEW o \in ix.imported + 1 .. Len(d.atoms)
        PROVE  (IsDefined(w, o) /\ ~w.atoms[o].delayed /\ w.atoms[o].sym \in ix.match)
                 <=> (IsDefined(d, o) /\ ~d.atoms[o].delayed /\ d.atoms[o].sym \in ix.match)
    <3>1. /\ w.atoms[o].sym = d.atoms[o].sym /\ w.atoms[o].gen = d.atoms[o].gen
          /\ w.atoms[o].delayed = d.atoms[o].delayed
      BY <1>4, <2>1
    <3>. QED  BY <3>1, Zenon DEF IsDefined
  <2>. QED  BY <1>2, <2>2, Zenon DEF Scanned
<1>7. Fresh(w, ix) = Fresh(d, ix)
  BY <1>5, <1>6 DEF Fresh
<1>8. UpdateIndex(w, ix) = UpdateIndex(d, ix)
  BY <1>2, <1>7 DEF UpdateIndex
<1>. QED  BY <1>3, <1>7, <1>8 DEF w

-----------------------------------------------------------------------------
(* Steps of the domains, as the module Domain takes them *)

(* The indices of a predicate, as the domain sees them. *)
IndexOf(p) ==
  [key \in KeyTable[p] |-> IF key \in DOMAIN index THEN index[key] ELSE NewIndex(KeyMatch(key))]

(* Of the operators of DomainOps there is one, whatever they are named by. *)
LEMMA SameOfLookups ==
  ASSUME NEW p
  PROVE  /\ \A d : DomainOf(p)!Offsets(d) = Offsets(d)
         /\ \A d, o : DomainOf(p)!IsDefined(d, o) = IsDefined(d, o)
         /\ \A d, s : DomainOf(p)!Contains(d, s) = Contains(d, s)
         /\ \A d, s : DomainOf(p)!Find(d, s) = Find(d, s)
         /\ \A s : DomainOf(p)!NewAtom(s) = NewAtom(s)
         /\ \A m : DomainOf(p)!NewIndex(m) = NewIndex(m)
         /\ DomainOf(p)!EmptyDomain = EmptyDomain
         /\ \A d, o : DomainOf(p)!Generation(d, o) = Generation(d, o)
<1>1. (\A d : DomainOf(p)!Offsets(d) = Offsets(d)) /\ (\A d, o : DomainOf(p)!IsDefined(d, o) = IsDefined(d, o))
      /\ (\A s : DomainOf(p)!NewAtom(s) = NewAtom(s)) /\ (\A m : DomainOf(p)!NewIndex(m) = NewIndex(m))
      /\ DomainOf(p)!EmptyDomain = EmptyDomain
  BY DEF DomainOf!Offsets, Offsets, DomainOf!IsDefined, IsDefined, DomainOf!NewAtom, NewAtom,
         DomainOf!NewIndex, NewIndex, DomainOf!EmptyDomain, EmptyDomain
<1>2. \A d, s : DomainOf(p)!Contains(d, s) = Contains(d, s)
  BY <1>1 DEF DomainOf!Contains, Contains
<1>3. \A d, s : DomainOf(p)!Find(d, s) = Find(d, s)
  BY <1>1 DEF DomainOf!Find, Find
<1>4. \A d, o : DomainOf(p)!Generation(d, o) = Generation(d, o)
  BY DEF DomainOf!Generation, Generation
<1>. QED  BY <1>1, <1>2, <1>3, <1>4

LEMMA SameOfOperations ==
  ASSUME NEW p
  PROVE  /\ \A d, s : DomainOf(p)!Reserve(d, s) = Reserve(d, s)
         /\ \A d, s : DomainOf(p)!Define(d, s) = Define(d, s)
         /\ \A d, os : DomainOf(p)!MarkDelayed(d, os) = MarkDelayed(d, os)
         /\ \A d : DomainOf(p)!InitDomain(d) = InitDomain(d)
         /\ \A d : DomainOf(p)!EnqueueDomain(d) = EnqueueDomain(d)
         /\ \A d : DomainOf(p)!AdvanceDomain(d) = AdvanceDomain(d)
         /\ \A d, ix : DomainOf(p)!Fresh(d, ix) = Fresh(d, ix)
         /\ \A d, ix : DomainOf(p)!UpdateIndex(d, ix) = UpdateIndex(d, ix)
         /\ \A d, ix : DomainOf(p)!PassedBy(d, ix) = PassedBy(d, ix)
<1>1. \A d, s : DomainOf(p)!Reserve(d, s) = Reserve(d, s)
  BY Zenon, SameOfLookups DEF DomainOf!Reserve, Reserve
<1>2. \A d, o : DomainOf(p)!DefineOffset(d, o) = DefineOffset(d, o)
  BY SameOfLookups DEF DomainOf!DefineOffset, DefineOffset
<1>3. \A d, s : DomainOf(p)!Define(d, s) = Define(d, s)
  BY <1>1, <1>2, SameOfLookups DEF DomainOf!Define, Define
<1>4. \A d, os : DomainOf(p)!MarkDelayed(d, os) = MarkDelayed(d, os)
  BY Zenon, SameOfLookups DEF DomainOf!MarkDelayed, MarkDelayed
<1>5. \A d : DomainOf(p)!InitDomain(d) = InitDomain(d)
  <2> TAKE d
  <2>1. DomainOf(p)!MarkDelayed(d, d.initOffset + 1 .. Len(d.atoms))
          = MarkDelayed(d, d.initOffset + 1 .. Len(d.atoms))
    BY <1>4
  <2>2. DomainOf(p)!Offsets(d) = Offsets(d) /\ \A o : DomainOf(p)!IsDefined(d, o) = IsDefined(d, o)
    BY SameOfLookups
  <2>. QED  BY Zenon, <2>1, <2>2 DEF DomainOf!InitDomain, InitDomain
<1>6. /\ \A d : DomainOf(p)!EnqueueDomain(d) = EnqueueDomain(d)
      /\ \A d : DomainOf(p)!AdvanceDomain(d) = AdvanceDomain(d)
  BY DEF DomainOf!EnqueueDomain, EnqueueDomain, DomainOf!AdvanceDomain, AdvanceDomain
<1>7. \A d, ix : DomainOf(p)!Fresh(d, ix) = Fresh(d, ix)
  <2>1. \A d, ix : DomainOf(p)!Scanned(d, ix) = Scanned(d, ix)
    BY Zenon, SameOfLookups DEF DomainOf!Scanned, Scanned
  <2>2. \A d, ix : DomainOf(p)!Late(d, ix) = Late(d, ix)
    BY DEF DomainOf!Late, Late
  <2>. QED  BY <2>1, <2>2 DEF DomainOf!Fresh, Fresh
<1>8. \A d, ix : DomainOf(p)!UpdateIndex(d, ix) = UpdateIndex(d, ix)
  BY Zenon, <1>7 DEF DomainOf!UpdateIndex, UpdateIndex
<1>9. \A d, ix : DomainOf(p)!PassedBy(d, ix) = PassedBy(d, ix)
  BY <1>4 DEF DomainOf!PassedBy, PassedBy
<1>. QED  BY <1>1, <1>3, <1>4, <1>5, <1>6, <1>7, <1>8, <1>9

(* What a step leaves of a domain, for the steps that concern other ones. *)
Stutters(p) ==
  /\ WithoutFacts(dom[p])' = WithoutFacts(dom[p])
  /\ IndexOf(p)' = IndexOf(p)
  /\ LiveKeys(p)' = LiveKeys(p)
  /\ PhaseOf(p)' = PhaseOf(p)

DomainStep(p) == UNCHANGED DomainOf(p)!vars \/ DomainOf(p)!Next

LEMMA StutterOf ==
  ASSUME NEW p, Stutters(p)
  PROVE  DomainStep(p)
BY DEF Stutters, DomainStep, DomainOf!vars, IndexOf

LEMMA DefineAtomOf ==
  ASSUME NEW p, NEW s \in SymTable[p],
         PhaseOf(p) = "inst" \/ (PhaseOf(p) = "idle" /\ LiveKeys(p) = {}),
         WithoutFacts(dom[p])' = Define(WithoutFacts(dom[p]), s),
         IndexOf(p)' = IndexOf(p), LiveKeys(p)' = LiveKeys(p), PhaseOf(p)' = PhaseOf(p)
  PROVE  DomainStep(p)
<1>1. DomainOf(p)!DefineAtom(s)
  BY SameOfOperations DEF DomainOf!DefineAtom, IndexOf
<1>. QED  BY <1>1 DEF DomainStep, DomainOf!Next

LEMMA ReserveAtomOf ==
  ASSUME NEW p, NEW s \in SymTable[p], PhaseOf(p) \in {"idle", "inst"},
         WithoutFacts(dom[p])' = Reserve(WithoutFacts(dom[p]), s),
         IndexOf(p)' = IndexOf(p), LiveKeys(p)' = LiveKeys(p), PhaseOf(p)' = PhaseOf(p)
  PROVE  DomainStep(p)
<1>1. DomainOf(p)!ReserveAtom(s)
  BY SameOfOperations DEF DomainOf!ReserveAtom, IndexOf
<1>. QED  BY <1>1 DEF DomainStep, DomainOf!Next

LEMMA NextStepOf ==
  ASSUME NEW p, PhaseOf(p) = "idle", LiveKeys(p) = {},
         WithoutFacts(dom[p]).generation \in Nat,
         WithoutFacts(dom[p])' = [WithoutFacts(dom[p]) EXCEPT !.generation = @ + 1],
         IndexOf(p)' = IndexOf(p), LiveKeys(p)' = LiveKeys(p), PhaseOf(p)' = PhaseOf(p)
  PROVE  DomainStep(p)
<1>1. DomainOf(p)!NextStep
  BY DEF DomainOf!NextStep, IndexOf
<1>. QED  BY <1>1 DEF DomainStep, DomainOf!Next

LEMMA AddIndexOf ==
  ASSUME NEW p, NEW key \in KeyTable[p], PhaseOf(p) = "idle",
         IndexOf(p)' = [IndexOf(p) EXCEPT ![key] = UpdateIndex(WithoutFacts(dom[p]), @)],
         WithoutFacts(dom[p])' = PassedBy(WithoutFacts(dom[p]), IndexOf(p)[key]),
         LiveKeys(p)' = LiveKeys(p) \union {key}, PhaseOf(p)' = PhaseOf(p)
  PROVE  DomainStep(p)
<1>1. DomainOf(p)!AddIndex(key)
  BY SameOfOperations DEF DomainOf!AddIndex, IndexOf
<1>. QED  BY <1>1 DEF DomainStep, DomainOf!Next

LEMMA NewMatcherOf ==
  ASSUME NEW p, NEW key \in KeyTable[p], PhaseOf(p) = "idle", key \notin LiveKeys(p),
         MatchTable[p][key] = KeyMatch(key),
         IndexOf(p)' = [IndexOf(p) EXCEPT ![key] = NewIndex(KeyMatch(key))],
         WithoutFacts(dom[p])' = WithoutFacts(dom[p]),
         LiveKeys(p)' = LiveKeys(p), PhaseOf(p)' = PhaseOf(p)
  PROVE  DomainStep(p)
<1>1. DomainOf(p)!NewMatcher(key)
  BY Zenon, SameOfLookups DEF DomainOf!NewMatcher, IndexOf
<1>. QED  BY <1>1 DEF DomainStep, DomainOf!Next

LEMMA StartComponentOf ==
  ASSUME NEW p, PhaseOf(p) = "idle", PhaseOf(p)' = "inst",
         WithoutFacts(dom[p])' = InitDomain(WithoutFacts(dom[p])),
         IndexOf(p)' = IndexOf(p), LiveKeys(p)' = LiveKeys(p)
  PROVE  DomainStep(p)
<1>1. DomainOf(p)!StartComponent
  BY SameOfOperations DEF DomainOf!StartComponent, IndexOf
<1>. QED  BY <1>1 DEF DomainStep, DomainOf!Next

LEMMA PropagateOf ==
  ASSUME NEW p, NEW is \in SUBSET KeyTable[p],
         PhaseOf(p) \in {"inst", "prop"}, PhaseOf(p)' = "prop",
         IndexOf(p)' = [key \in KeyTable[p] |->
           IF key \in is THEN UpdateIndex(WithoutFacts(dom[p]), IndexOf(p)[key])
           ELSE IndexOf(p)[key]],
         WithoutFacts(dom[p])' = EnqueueDomain(MarkDelayed(WithoutFacts(dom[p]),
           {o \in Offsets(WithoutFacts(dom[p])) : \E key \in is : o > IndexOf(p)[key].imported})),
         LiveKeys(p)' = LiveKeys(p)
  PROVE  DomainStep(p)
<1>1. DomainOf(p)!Propagate(is)
  <2> DEFINE d == WithoutFacts(dom[p])
             ix == IndexOf(p)
             os == {o \in Offsets(d) : \E key \in is : o > ix[key].imported}
  <2>1. DomainOf(p)!Offsets(d) = Offsets(d) /\ DomainOf(p)!MarkDelayed(d, os) = MarkDelayed(d, os)
        /\ DomainOf(p)!EnqueueDomain(MarkDelayed(d, os)) = EnqueueDomain(MarkDelayed(d, os))
    BY SameOfOperations, SameOfLookups
  <2>2. \A key : DomainOf(p)!UpdateIndex(d, ix[key]) = UpdateIndex(d, ix[key])
    BY SameOfOperations
  <2>3. IndexOf(p)' = [key \in KeyTable[p] |->
          IF key \in is THEN DomainOf(p)!UpdateIndex(d, ix[key]) ELSE ix[key]]
    BY <2>2
  <2>4. d' = DomainOf(p)!EnqueueDomain(DomainOf(p)!MarkDelayed(d,
          {o \in DomainOf(p)!Offsets(d) : \E key \in is : o > ix[key].imported}))
    BY <2>1
  <2>. QED  BY <2>3, <2>4, Zenon DEF DomainOf!Propagate, IndexOf
<1>. QED  BY <1>1 DEF DomainStep, DomainOf!Next

LEMMA EndIterationOf ==
  ASSUME NEW p, PhaseOf(p) \in {"inst", "prop"}, PhaseOf(p)' = "inst",
         WithoutFacts(dom[p]).generation \in Nat,
         \/ \A o \in Offsets(WithoutFacts(dom[p])) :
              ~(IsDefined(WithoutFacts(dom[p]), o)
                  /\ Generation(WithoutFacts(dom[p]), o) > WithoutFacts(dom[p]).generation)
         \/ /\ PhaseOf(p) = "prop" /\ WithoutFacts(dom[p]).enqueued = 2
            /\ \A key \in LiveKeys(p) : Fresh(WithoutFacts(dom[p]), IndexOf(p)[key]) = {},
         WithoutFacts(dom[p])' = IF WithoutFacts(dom[p]).enqueued > 0
           THEN AdvanceDomain(WithoutFacts(dom[p])) ELSE WithoutFacts(dom[p]),
         IndexOf(p)' = IndexOf(p), LiveKeys(p)' = LiveKeys(p)
  PROVE  DomainStep(p)
<1>1. DomainOf(p)!EndIteration
  BY SameOfOperations, SameOfLookups
     DEF DomainOf!EndIteration, DomainOf!Open, DomainOf!UpToDate, IndexOf
<1>. QED  BY <1>1 DEF DomainStep, DomainOf!Next

LEMMA EndComponentOf ==
  ASSUME NEW p, PhaseOf(p) = "inst", PhaseOf(p)' = "idle",
         WithoutFacts(dom[p]).generation \in Nat,
         \A o \in Offsets(WithoutFacts(dom[p])) :
           ~(IsDefined(WithoutFacts(dom[p]), o)
               /\ Generation(WithoutFacts(dom[p]), o) > WithoutFacts(dom[p]).generation),
         WithoutFacts(dom[p])' = IF WithoutFacts(dom[p]).enqueued > 0
           THEN AdvanceDomain(WithoutFacts(dom[p])) ELSE WithoutFacts(dom[p]),
         IndexOf(p)' = IndexOf(p), LiveKeys(p)' = {}
  PROVE  DomainStep(p)
<1>1. DomainOf(p)!EndComponent
  BY SameOfOperations, SameOfLookups DEF DomainOf!EndComponent, DomainOf!Open, IndexOf
<1>. QED  BY <1>1 DEF DomainStep, DomainOf!Next

LEMMA LeaveComponentOf ==
  ASSUME NEW p, PhaseOf(p) = "idle", PhaseOf(p)' = "idle",
         WithoutFacts(dom[p])' = WithoutFacts(dom[p]),
         IndexOf(p)' = IndexOf(p), LiveKeys(p)' = {}
  PROVE  DomainStep(p)
<1>1. DomainOf(p)!LeaveComponent
  BY DEF DomainOf!LeaveComponent, IndexOf
<1>. QED  BY <1>1 DEF DomainStep, DomainOf!Next

-----------------------------------------------------------------------------
(* Indices and matchers *)

KeyOf(u) == u[1].binders[u[2]].key

(* The index of a literal is one of the table, for the same term. *)
LEMMA TableKey ==
  ASSUME NEW stm \in DOMAIN Statements, NEW k \in Positive(stm), NEW e \in SUBSET Positive(stm)
  PROVE  LET v == IndexTable[<<stm, k, e>>] IN
         /\ <<stm, k, e>> \in DOMAIN IndexTable
         /\ Len(v) = 3
         /\ v[1] \in DOMAIN Statements /\ v[2] \in Positive(v[1])
         /\ LitSyms(v[1], v[2]) = LitSyms(stm, k)
<1> DEFINE uses == UNION {{<<t, l, f>> : l \in Positive(t), f \in SUBSET Positive(t)} :
                            t \in DOMAIN Statements}
           term(u) == <<LitSyms(u[1], u[2]), ClassTable[u[1]][u[3]][u[2]]>>
           use == <<stm, k, e>>
           v == CHOOSE u \in uses : term(u) = term(use)
<1>1. use \in uses
  OBVIOUS
<1>2. IndexTable = [u \in uses |-> CHOOSE w \in uses : term(w) = term(u)]
  BY DEF IndexTable
<1> HIDE DEF uses, term, use
<1>3. DOMAIN IndexTable = uses /\ IndexTable[use] = v
  BY <1>1, <1>2, Zenon
<1>4. v \in uses /\ term(v) = term(use)
  BY <1>1, Zenon
<1> HIDE DEF v
<1> USE DEF uses, term, use
<1>5. PICK t \in DOMAIN Statements : \E l \in Positive(t), f \in SUBSET Positive(t) : v = <<t, l, f>>
  BY <1>4
<1>6. Len(v) = 3 /\ v[1] \in DOMAIN Statements /\ v[2] \in Positive(v[1])
  BY <1>5
<1>7. LitSyms(v[1], v[2]) = LitSyms(stm, k)
  BY <1>4
<1>. QED  BY <1>1, <1>3, <1>6, <1>7

(* The symbols that a literal matches have one predicate. *)
LEMMA LiteralPred ==
  ASSUME NEW stm \in DOMAIN Statements, NEW k \in Body(stm)
  PROVE  /\ \A s \in LitSyms(stm, k) : PredOf(s) = LitPred(stm, k)
         /\ BodySym(stm, 1, k) \in LitSyms(stm, k)
<1>1. /\ 1 \in Instances(stm)
      /\ \A i \in Instances(stm) : BodySym(stm, i, k)[1] = BodySym(stm, 1, k)[1]
  BY Zenon, StatementsAssumption DEF Instances, Body, BodySym
<1>2. LitSyms(stm, k) = {BodySym(stm, i, k) : i \in Instances(stm)}
  BY Tables
<1>. QED  BY <1>1, <1>2 DEF LitPred, PredOf

LEMMA UpdaterKey ==
  ASSUME GInv, LInv, NEW u \in Updaters(insts)
  PROVE  /\ u[1] \in insts /\ u[1].stm \in comp /\ u[1].stm \in Part.stms
         /\ u[2] \in Positive(u[1].stm)
         /\ KeyPred(KeyOf(u)) \in Preds
         /\ KeyOf(u) \in KeyTable[KeyPred(KeyOf(u))]
         /\ KeyMatch(KeyOf(u)) = LitSyms(u[1].stm, u[2])
         /\ KeyMatch(KeyOf(u)) \subseteq UsedSyms
         /\ \A s \in KeyMatch(KeyOf(u)) : PredOf(s) = KeyPred(KeyOf(u))
         /\ u[1].binders[u[2]].kind = "index" <=> ~IsMatcher(KeyOf(u))
<1> DEFINE x == u[1]
           k == u[2]
           stm == x.stm
           key == KeyOf(u)
           e == Earlier(stm, x.order, k)
<1>1. x \in insts /\ k \in Positive(stm)
  BY DEF Updaters
<1>2. stm \in comp /\ stm \in Part.stms /\ stm \in DOMAIN Statements /\ k \in Body(stm)
  BY <1>1, PartStatements DEF GInv, CallInv, QueueInv, Positive
<1>3. LitSyms(stm, k) \subseteq UsedSyms
  BY <1>2, StatementSyms DEF GInv
<1>4. /\ x.types \in BinderTypes(stm) /\ x.order \in Orders(stm, x.types)
      /\ x.binders[k] = Binder(stm, x.order, k)
  BY Zenon, <1>1 DEF LInv, IsInstantiator
<1>5. x.order[k] \in Int
  BY <1>2, <1>4 DEF Orders
<1>6. e \in SUBSET Positive(stm) /\ k \notin e
  BY <1>5 DEF Earlier
<1> HIDE DEF e
<1>7. \/ x.binders[k] = [kind |-> "index", key |-> IndexTable[<<stm, k, e>>]]
      \/ x.binders[k].kind # "index" /\ x.binders[k].key = <<stm, k>>
  BY <1>4 DEF Binder, e
<1>8. /\ key[1] \in DOMAIN Statements /\ key[2] \in Positive(key[1])
      /\ LitSyms(key[1], key[2]) = LitSyms(stm, k)
      /\ x.binders[k].kind = "index" <=> ~IsMatcher(key)
  <2>1. CASE x.binders[k] = [kind |-> "index", key |-> IndexTable[<<stm, k, e>>]]
    <3>1. key = IndexTable[<<stm, k, e>>] /\ x.binders[k].kind = "index"
      BY <2>1 DEF KeyOf
    <3> HIDE DEF x, k, stm, key
    <3>2. Len(key) = 3
      BY <1>1, <1>2, <1>6, <3>1, TableKey
    <3>. QED  BY <1>1, <1>2, <1>6, <3>1, <3>2, TableKey DEF IsMatcher
  <2>2. CASE x.binders[k].kind # "index" /\ x.binders[k].key = <<stm, k>>
    BY <1>1, <1>2, <2>2 DEF KeyOf, IsMatcher
  <2>. QED  BY <1>7, <2>1, <2>2
<1>9. KeyMatch(key) = LitSyms(stm, k)
  BY <1>8 DEF KeyMatch
<1>10. \A s \in KeyMatch(key) : PredOf(s) = KeyPred(key)
  <2>1. key[2] \in Body(key[1])
    BY <1>8 DEF Positive
  <2>. QED  BY <1>8, <2>1, LiteralPred DEF KeyPred, KeyMatch
<1>11. KeyPred(key) \in Preds
  <2>1. key[2] \in Body(key[1])
    BY <1>8 DEF Positive
  <2>2. BodySym(key[1], 1, key[2]) \in UsedSyms
    BY <1>3, <1>8, <2>1, LiteralPred
  <2>. QED  BY <2>2, SymPred DEF KeyPred, LitPred
<1>12. key \in KeyTable[KeyPred(key)]
  <2> DEFINE lits == UNION {{<<t, l>> : l \in Positive(t)} : t \in UsedStatements}
             indices == {IndexTable[v] : v \in
                {v \in DOMAIN IndexTable : <<v[1], v[2]>> \in lits /\ v[2] \notin v[3]}}
  <2>1. stm \in UsedStatements
    BY <1>2 DEF UsedStatements, Part, GInv, CallInv
  <2>2. <<stm, k>> \in lits
    BY <1>1, <2>1
  <2>3. key \in lits \union indices
    <3>1. CASE x.binders[k] = [kind |-> "index", key |-> IndexTable[<<stm, k, e>>]]
      <4>1. <<stm, k, e>> \in DOMAIN IndexTable
        BY <1>1, <1>2, <1>6, TableKey
      <4> DEFINE v == <<stm, k, e>>
      <4>2. v[1] = stm /\ v[2] = k /\ v[3] = e
        OBVIOUS
      <4>3. key = IndexTable[v]
        BY <3>1 DEF KeyOf
      <4> HIDE DEF v, lits, x, k, stm, key
      <4>4. v \in DOMAIN IndexTable /\ <<v[1], v[2]>> \in lits /\ v[2] \notin v[3]
        BY <1>6, <2>2, <4>1, <4>2 DEF v
      <4>5. IndexTable[v] \in indices
        BY Zenon, <4>4
      <4>. QED  BY <4>3, <4>5
    <3>2. CASE x.binders[k].kind # "index" /\ x.binders[k].key = <<stm, k>>
      BY <2>2, <3>2 DEF KeyOf
    <3>. QED  BY <1>7, <3>1, <3>2
  <2>4. KeyTable = [p \in Preds |-> {q \in lits \union indices : KeyPred(q) = p}]
    BY DEF KeyTable
  <2> HIDE DEF lits, indices, key
  <2>. QED  BY <1>11, <2>3, <2>4
<1>. QED  BY <1>1, <1>2, <1>3, <1>8, <1>9, <1>10, <1>11, <1>12

(* Keys of the table are of one predicate, those of other predicates differ. *)
LEMMA TablePred ==
  ASSUME NEW p \in Preds, NEW key \in KeyTable[p]
  PROVE  KeyPred(key) = p /\ MatchTable[p][key] = KeyMatch(key)
BY DEF KeyTable, MatchTable

-----------------------------------------------------------------------------
(* What is new to an index *)

(* An atom that becomes defined has one of the symbols that do. *)
LEMMA NewlyDefined ==
  ASSUME NEW p, NEW d, DomainOK(p, d), NEW e, NEW S, Becomes(p, d, e, S),
         NEW o \in Offsets(e), e.atoms[o].gen > 0,
         o \in Offsets(d) => d.atoms[o].gen = 0
  PROVE  e.atoms[o].sym \in S
<1> DEFINE s == e.atoms[o].sym
<1> SUFFICES ASSUME s \notin S PROVE FALSE
  OBVIOUS
<1>1. /\ Len(d.atoms) \in Nat /\ Len(e.atoms) \in Nat /\ Distinct(e)
      /\ DP!Grows(d, e) /\ DP!Offsets(d) = Offsets(d)
  BY Zenon, DomainParts, SameLookups DEF Becomes, DomainOK
<1>2. Offsets(d) \subseteq Offsets(e) /\ \A q \in Offsets(d) : e.atoms[q].sym = d.atoms[q].sym
  BY <1>1 DEF Offsets, DP!Grows
<1>3. \A q \in Offsets(d) : d.atoms[q].sym = s => q = o
  BY <1>1, <1>2 DEF Distinct
<1>4. Undefined(d, s)
  BY <1>3 DEF Undefined
<1>5. Undefined(e, s)
  BY <1>4 DEF Becomes
<1>. QED  BY <1>5 DEF Undefined

(* What an index has still to import is what it had, or newly defined. *)
LEMMA FreshBecomes ==
  ASSUME NEW p, NEW d, DomainOK(p, d), NEW e, NEW S, Becomes(p, d, e, S),
         NEW ix, DP!IdxOK(d, ix)
  PROVE  /\ DP!IdxOK(e, ix)
         /\ \A o \in Fresh(e, ix) :
              /\ e.atoms[o].sym \in ix.match
              /\ \/ e.atoms[o].sym \in S
                 \/ o \in Fresh(d, ix) /\ d.atoms[o].sym = e.atoms[o].sym
<1>1. DP!DomOK(d) /\ DP!DomOK(e) /\ DP!Grows(d, e)
  BY DEF Becomes, DomainOK
<1>2. DP!IdxOK(e, ix)
  BY <1>1, DP!IdxOKGrows
<1>3. /\ Fresh(d, ix) = DP!Matched(d, ix) \ DP!Content(ix)
      /\ Fresh(e, ix) = DP!Matched(e, ix) \ DP!Content(ix)
  BY <1>1, <1>2, DP!FreshSplit, SameFresh
<1>4. DP!Offsets(d) = Offsets(d) /\ DP!Offsets(e) = Offsets(e)
  BY SameLookups
<1>5. ASSUME NEW o \in Fresh(e, ix)
      PROVE  /\ e.atoms[o].sym \in ix.match
             /\ \/ e.atoms[o].sym \in S
                \/ o \in Fresh(d, ix) /\ d.atoms[o].sym = e.atoms[o].sym
  <2>1. o \in Offsets(e) /\ e.atoms[o].gen > 0 /\ e.atoms[o].sym \in ix.match
        /\ o \notin DP!Content(ix)
    BY <1>3, <1>4 DEF DP!Matched
  <2>2. CASE o \in Offsets(d) => d.atoms[o].gen = 0
    BY <2>1, <2>2, NewlyDefined
  <2>3. CASE o \in Offsets(d) /\ d.atoms[o].gen # 0
    <3>1. d.atoms[o].gen > 0
      BY <1>1, <2>3, DomainParts
    <3>2. d.atoms[o].sym = e.atoms[o].sym
      BY <1>1, <1>4, <2>3 DEF DP!Grows
    <3>3. o \in DP!Matched(d, ix)
      BY <1>4, <2>1, <2>3, <3>1, <3>2 DEF DP!Matched
    <3>. QED  BY <1>3, <2>1, <3>2, <3>3
  <2>. QED  BY <2>1, <2>2, <2>3
<1>. QED  BY <1>2, <1>5

(* An index that is updated has nothing left to import. *)
LEMMA UpdatedIndex ==
  ASSUME NEW p, NEW d, DomainOK(p, d), NEW ix, DP!IdxOK(d, ix), DP!BatchesDisjoint(ix),
         NEW os, \A o \in Offsets(d) : o > ix.imported => o \in os
  PROVE  LET m == MarkDelayed(d, os)
             e == EnqueueDomain(m)
             u == UpdateIndex(d, ix)
         IN /\ DP!IdxOK(m, u) /\ DP!IdxOK(e, u) /\ DP!BatchesDisjoint(u)
            /\ Fresh(m, u) = {} /\ Fresh(e, u) = {} /\ u.match = ix.match
<1> DEFINE m == MarkDelayed(d, os)
           e == EnqueueDomain(m)
           u == UpdateIndex(d, ix)
<1>1. DP!DomOK(d) /\ DP!MarkDelayed(d, os) = m /\ DP!UpdateIndex(d, ix) = u
      /\ DP!Offsets(d) = Offsets(d) /\ DP!Fresh(m, u) = Fresh(m, u)
  BY SameMark, SameUpdate, SameLookups, SameFresh DEF DomainOK
<1>2. DomainOK(p, m)
  BY MarkStep DEF Becomes
<1>3. e.atoms = m.atoms /\ e.delayed = m.delayed
  <2> HIDE DEF m
  <2>1. m \in DP!DomainRecord
    BY <1>2 DEF DomainOK, DP!DomOK
  <2>. QED  BY <2>1 DEF EnqueueDomain, DP!DomainRecord
<1>4. Becomes(p, m, e, {})
  <2> HIDE DEF m
  <2>. QED  BY Zenon, <1>2, CounterSteps
<1> HIDE DEF m, e, u
<1>5. DP!IdxOK(m, u) /\ DP!BatchesDisjoint(u) /\ Fresh(m, u) = {}
  BY <1>1, DP!UpdateOK
<1>6. u.match = ix.match
  BY <1>1, DP!UpdateBatches
<1>7. DP!IdxOK(e, u) /\ Fresh(e, u) = {}
  <2>1. DP!IdxOK(e, u) /\ \A o \in Fresh(e, u) : o \in Fresh(m, u)
    BY <1>2, <1>4, <1>5, FreshBecomes
  <2>. QED  BY <1>5, <2>1
<1>. QED  BY <1>5, <1>6, <1>7 DEF m, e, u

(* An index that is registered or updated while components are linearized. *)
LEMMA RegisteredIndex ==
  ASSUME NEW p, NEW d, DomainOK(p, d), NEW ix, DP!IdxOK(d, ix), DP!BatchesDisjoint(ix)
  PROVE  LET e == PassedBy(d, ix)
             u == UpdateIndex(d, ix)
         IN /\ DP!IdxOK(e, u) /\ DP!BatchesDisjoint(u) /\ Fresh(e, u) = {} /\ u.match = ix.match
<1> DEFINE os == ix.imported + 1 .. Len(d.atoms)
<1>1. Len(d.atoms) \in Nat /\ ix.imported \in Nat
  BY DomainParts, DP!IndexTypes DEF DomainOK, DP!IdxOK
<1>2. \A o \in Offsets(d) : o > ix.imported => o \in os
  BY <1>1 DEF Offsets
<1> HIDE DEF os
<1>3. LET m == MarkDelayed(d, os)
          u == UpdateIndex(d, ix)
      IN DP!IdxOK(m, u) /\ DP!BatchesDisjoint(u) /\ Fresh(m, u) = {} /\ u.match = ix.match
  BY <1>2, UpdatedIndex
<1>. QED  BY <1>3 DEF PassedBy, os

LEMMA EmptyIndex ==
  ASSUME NEW d, DP!DomOK(d), NEW m \in SUBSET UsedSyms
  PROVE  LET ix == NewIndex(m)
         IN DP!IdxOK(d, ix) /\ DP!BatchesDisjoint(ix) /\ ix.match = m
<1>1. [i \in SUBSET UsedSyms |-> i][m] = m /\ DP!NewIndex(m) = NewIndex(m)
  BY SameContent
<1>. QED  BY Zenon, <1>1, DP!NewIndexOK

-----------------------------------------------------------------------------
(* Steps that leave generations and the queue of domains alone *)

Calm(p, d, e, S) ==
  /\ Becomes(p, d, e, S)
  /\ e.enqueued = d.enqueued
  /\ DP!KeepsGenerations(d, e)

LEMMA CalmSame ==
  ASSUME NEW p, NEW d, DomainOK(p, d), NEW e, NEW S, Becomes(p, d, e, S),
         e.enqueued = d.enqueued, e.generation = d.generation, Offsets(e) = Offsets(d),
         \A o \in Offsets(d) : e.atoms[o].gen = d.atoms[o].gen
  PROVE  Calm(p, d, e, S)
<1>1. DP!Offsets(d) = Offsets(d) /\ DP!Offsets(e) = Offsets(e)
  BY SameLookups
<1>. QED  BY <1>1 DEF Calm, DP!KeepsGenerations

LEMMA CalmOperations ==
  ASSUME NEW p, NEW d, DomainOK(p, d)
  PROVE  /\ Calm(p, d, d, {})
         /\ \A os : Calm(p, d, MarkDelayed(d, os), {})
         /\ \A o \in Offsets(d) : Calm(p, d, SetFact(d, o), {})
         /\ \A s \in UsedSyms : PredOf(s) = p =>
              /\ Calm(p, d, Reserve(d, s), {})
              /\ Calm(p, d, Define(d, s), {s})
              /\ Calm(p, d, SetFact(Define(d, s), Find(Define(d, s), s)), {s})
<1>1. DP!DomOK(d) /\ \A e : DP!Offsets(e) = Offsets(e)
  BY SameLookups DEF DomainOK
<1>2. Calm(p, d, d, {})
  BY Zenon, CounterSteps, CalmSame
<1>3. ASSUME NEW os PROVE Calm(p, d, MarkDelayed(d, os), {})
  <2> DEFINE e == MarkDelayed(d, os)
  <2>1. DP!MarkDelayed(d, os) = e /\ Becomes(p, d, e, {})
    BY SameMark, MarkStep
  <2> HIDE DEF e
  <2>2. e.enqueued = d.enqueued /\ DP!KeepsGenerations(d, e)
    BY <1>1, <2>1, DP!MarkOK
  <2>. QED  BY <2>1, <2>2 DEF Calm, e
<1>4. ASSUME NEW c, DomainOK(p, c), NEW o \in Offsets(c)
      PROVE  /\ Calm(p, c, SetFact(c, o), {})
             /\ SetFact(c, o).enqueued = c.enqueued /\ SetFact(c, o).generation = c.generation
  <2> DEFINE e == SetFact(c, o)
  <2>1. /\ Becomes(p, c, e, {}) /\ Len(e.atoms) = Len(c.atoms)
        /\ \A q \in Offsets(c) : e.atoms[q].gen = c.atoms[q].gen
    BY <1>4, SetFactStep
  <2>2. e.enqueued = c.enqueued /\ e.generation = c.generation
    <3>1. c \in DP!DomainRecord
      BY <1>4 DEF DomainOK, DP!DomOK
    <3>. QED  BY <3>1 DEF SetFact, DP!DomainRecord
  <2>3. Offsets(e) = Offsets(c)
    BY <2>1 DEF Offsets
  <2> HIDE DEF e
  <2>4. Calm(p, c, e, {})
    BY <1>4, <2>1, <2>2, <2>3, CalmSame
  <2>. QED  BY <2>2, <2>4 DEF e
<1>5. ASSUME NEW s \in UsedSyms, PredOf(s) = p
      PROVE  /\ Calm(p, d, Reserve(d, s), {})
             /\ Calm(p, d, Define(d, s), {s})
             /\ Calm(p, d, SetFact(Define(d, s), Find(Define(d, s), s)), {s})
  <2> DEFINE r == Reserve(d, s)
             e == Define(d, s)
             f == SetFact(e, Find(e, s))
  <2>1. /\ Becomes(p, d, r, {}) /\ Becomes(p, d, e, {s}) /\ Contains(e, s)
        /\ Becomes(p, d, f, {s})
        /\ DP!Reserve(d, s) = r /\ DP!Define(d, s) = e
    BY <1>5, ReserveStep, DefineStep, DefineFactStep, SameReserve, SameDefine
  <2> HIDE DEF r, e
  <2>2. /\ r.enqueued = d.enqueued /\ DP!KeepsGenerations(d, r)
        /\ e.enqueued = d.enqueued /\ DP!KeepsGenerations(d, e)
    BY <1>1, <2>1, DP!ReserveOK, DP!DefineOK
  <2>3. DomainOK(p, e) /\ Find(e, s) \in Offsets(e)
    BY <2>1, FindContained DEF Becomes
  <2>4. /\ f.enqueued = e.enqueued /\ f.generation = e.generation
        /\ Len(f.atoms) = Len(e.atoms)
        /\ \A q \in Offsets(e) : f.atoms[q].gen = e.atoms[q].gen
    BY <1>4, <2>3, SetFactStep
  <2> HIDE DEF f
  <2>5. DP!KeepsGenerations(d, f)
    BY <1>1, <2>2, <2>4 DEF DP!KeepsGenerations, Offsets
  <2>. QED  BY <2>1, <2>2, <2>4, <2>5 DEF Calm, r, e, f
<1>. QED  BY <1>2, <1>3, <1>4, <1>5

-----------------------------------------------------------------------------
(* The protocol that the grounder keeps with its domains *)

(* Domains are enqueued for the component that derives their atoms, and    *)
(* those enqueued in an iteration are not before its end instantiators.    *)
EnqInv ==
  \A p \in Preds :
    /\ dom[p].enqueued > 0 => pc \in {"process", "iterate"} /\ p \in CompPreds
    /\ pc = "process" \/ current # {} \/ running # {} => dom[p].enqueued <= 1

(* No atom is ahead of the next generation; for those that belong to it    *)
(* the domain is enqueued, or a head that derives them still propagates.   *)
GenInv ==
  pc \in {"process", "iterate"} =>
    \A p \in CompPreds : \A o \in Offsets(dom[p]) :
      /\ dom[p].atoms[o].gen <= dom[p].generation + 2
      /\ dom[p].atoms[o].gen > dom[p].generation + 1 =>
           dom[p].enqueued = 2 \/ \E x \in ran : dom[p].atoms[o].sym \in HeadSyms(x.stm)

(* Indices and matchers are consistent with their domains. *)
IdxInv ==
  /\ index = [key \in DOMAIN index |-> index[key]]
  /\ \A key \in DOMAIN index :
       /\ KeyPred(key) \in Preds
       /\ index[key].match = KeyMatch(key)
       /\ DP!IdxOK(dom[KeyPred(key)], index[key])
       /\ DP!BatchesDisjoint(index[key])
  /\ \A u \in Updaters(insts) \ agenda : KeyOf(u) \in DOMAIN index

(* An index that is registered has everything imported but atoms of heads  *)
(* that still propagate.                                                   *)
FreshInv ==
  \A u \in Updaters(insts) \ agenda : ~IsMatcher(KeyOf(u)) =>
    \A o \in Fresh(dom[KeyPred(KeyOf(u))], index[KeyOf(u)]) :
      \E x \in ran : dom[KeyPred(KeyOf(u))].atoms[o].sym \in HeadSyms(x.stm)

HInv == EnqInv /\ GenInv /\ IdxInv /\ FreshInv

(* Indices and updaters are left alone. *)
LEMMA IdxStep ==
  ASSUME DomInv, IdxInv, FreshInv, NEW S, DomainsBecome(S), index' = index,
         (Updaters(insts) \ agenda)' \subseteq Updaters(insts) \ agenda, ran \subseteq ran',
         \/ \A s \in S : \E x \in ran' : s \in HeadSyms(x.stm)
         \/ (Updaters(insts) \ agenda)' = {}
  PROVE  IdxInv' /\ FreshInv'
<1>1. ASSUME NEW key \in DOMAIN index
      PROVE  /\ DP!IdxOK(dom'[KeyPred(key)], index[key])
             /\ \A o \in Fresh(dom'[KeyPred(key)], index[key]) :
                  \/ dom'[KeyPred(key)].atoms[o].sym \in S
                  \/ /\ o \in Fresh(dom[KeyPred(key)], index[key])
                     /\ dom[KeyPred(key)].atoms[o].sym = dom'[KeyPred(key)].atoms[o].sym
  <2> DEFINE p == KeyPred(key)
  <2>1. p \in Preds /\ DP!IdxOK(dom[p], index[key])
    BY DEF IdxInv
  <2>2. DomainOK(p, dom[p]) /\ Becomes(p, dom[p], dom'[p], S)
    BY <2>1 DEF DomInv, DomainsBecome
  <2>. QED  BY <2>1, <2>2, FreshBecomes
<1>2. IdxInv'
  BY <1>1 DEF IdxInv
<1>3. FreshInv'
  <2>1. SUFFICES ASSUME NEW u \in (Updaters(insts) \ agenda)', ~IsMatcher(KeyOf(u)),
                        NEW o \in Fresh(dom'[KeyPred(KeyOf(u))], index[KeyOf(u)])
                 PROVE  \E x \in ran' : dom'[KeyPred(KeyOf(u))].atoms[o].sym \in HeadSyms(x.stm)
    BY DEF FreshInv
  <2>2. KeyOf(u) \in DOMAIN index
    BY DEF IdxInv
  <2> DEFINE key == KeyOf(u)
             p == KeyPred(key)
  <2>3. CASE dom'[p].atoms[o].sym \in S
    BY <2>1, <2>3
  <2>4. CASE /\ o \in Fresh(dom[p], index[key])
             /\ dom[p].atoms[o].sym = dom'[p].atoms[o].sym
    BY <2>1, <2>4 DEF FreshInv
  <2>. QED  BY <1>1, <2>2, <2>3, <2>4
<1>. QED  BY <1>2, <1>3

DomainsCalm(S) ==
  /\ dom' = [p \in Preds |-> dom'[p]]
  /\ \A p \in Preds : Calm(p, dom[p], dom'[p], S)

LEMMA OneCalm ==
  ASSUME DomInv, NEW q \in Preds, NEW e, NEW S, Calm(q, dom[q], e, S),
         dom' = [dom EXCEPT ![q] = e]
  PROVE  DomainsCalm(S)
<1>1. DOMAIN dom = Preds
  BY DEF DomInv
<1>2. dom' = [p \in Preds |-> dom'[p]] /\ dom'[q] = e /\ \A p \in Preds : p # q => dom'[p] = dom[p]
  BY Zenon, <1>1
<1>3. ASSUME NEW p \in Preds, p # q PROVE Calm(p, dom[p], dom'[p], S)
  <2>1. Calm(p, dom[p], dom[p], {}) /\ dom'[p] = dom[p]
    BY <1>2, <1>3, CalmOperations DEF DomInv
  <2>. QED  BY <2>1, BecomesMore DEF Calm
<1>. QED  BY <1>2, <1>3 DEF DomainsCalm

LEMMA SameCalm ==
  ASSUME DomInv, dom' = dom
  PROVE  DomainsCalm({})
BY CalmOperations DEF DomInv, DomainsCalm

LEMMA CalmBecomes ==
  ASSUME NEW S, DomainsCalm(S)
  PROVE  DomainsBecome(S)
BY DEF DomainsCalm, DomainsBecome, Calm

LEMMA CompPredsOf ==
  ASSUME CallInv
  PROVE  CompPreds \subseteq Preds
<1>1. ASSUME NEW stm \in comp, NEW s \in HeadSyms(stm) PROVE PredOf(s) \in Preds
  BY <1>1, StatementSyms, SymPred DEF CallInv
<1>. QED  BY <1>1 DEF CompPreds, HeadPreds

(* Atoms of the next generation are newly defined, or were of it. *)
LEMMA GenStep ==
  ASSUME CallInv, DomInv, GenInv, NEW S, DomainsCalm(S), UNCHANGED comp, ran \subseteq ran',
         pc' \in {"process", "iterate"} => pc \in {"process", "iterate"},
         \A s \in S : \E x \in ran' : s \in HeadSyms(x.stm)
  PROVE  GenInv'
<1>1. CompPreds' = CompPreds
  BY DEF CompPreds
<1>2. ASSUME pc \in {"process", "iterate"}, NEW p \in CompPreds, NEW o \in Offsets(dom'[p])
      PROVE  /\ dom'[p].atoms[o].gen <= dom'[p].generation + 2
             /\ dom'[p].atoms[o].gen > dom'[p].generation + 1 =>
                  dom'[p].enqueued = 2
                    \/ \E x \in ran' : dom'[p].atoms[o].sym \in HeadSyms(x.stm)
  <2> DEFINE d == dom[p]
             e == dom'[p]
  <2>1. p \in Preds /\ DomainOK(p, d) /\ Calm(p, d, e, S)
    BY CompPredsOf DEF DomInv, DomainsCalm
  <2>2. /\ Becomes(p, d, e, S) /\ DomainOK(p, e) /\ e.enqueued = d.enqueued
        /\ DP!KeepsGenerations(d, e) /\ DP!Grows(d, e)
    BY <2>1 DEF Calm, Becomes
  <2>3. /\ d.generation \in Nat /\ e.generation = d.generation /\ e.atoms[o].gen \in Nat
    BY <1>2, <2>1, <2>2, DomainParts DEF DomainOK, DP!KeepsGenerations
  <2>4. /\ DP!Offsets(d) = Offsets(d) /\ DP!Offsets(e) = Offsets(e)
    BY SameLookups
  <2>5. \A q \in Offsets(d) : /\ d.atoms[q].gen <= d.generation + 2
                              /\ d.atoms[q].gen > d.generation + 1 =>
                                   d.enqueued = 2 \/ \E x \in ran : d.atoms[q].sym \in HeadSyms(x.stm)
    BY <1>2 DEF GenInv
  <2> HIDE DEF d, e
  <2>6. CASE e.atoms[o].gen = 0
    BY <2>3, <2>6 DEF e
  <2>7. CASE o \in Offsets(d) /\ e.atoms[o].gen = d.atoms[o].gen
    <3>1. e.atoms[o].sym = d.atoms[o].sym
      BY <2>2, <2>4, <2>7 DEF DP!Grows
    <3>2. /\ e.atoms[o].gen <= e.generation + 2
          /\ e.atoms[o].gen > e.generation + 1 =>
               e.enqueued = 2 \/ \E x \in ran : e.atoms[o].sym \in HeadSyms(x.stm)
      BY <2>2, <2>3, <2>5, <2>7, <3>1
    <3>. QED  BY <3>2 DEF e
  <2>8. CASE e.atoms[o].gen = d.generation + 2 /\ (o \in Offsets(d) => d.atoms[o].gen = 0)
    <3>1. e.atoms[o].gen > 0 /\ o \in Offsets(e)
      BY <1>2, <2>3, <2>8 DEF e
    <3>2. e.atoms[o].sym \in S
      BY <2>1, <2>2, <2>8, <3>1, NewlyDefined
    <3>3. \E x \in ran' : e.atoms[o].sym \in HeadSyms(x.stm)
      BY <3>2
    <3>4. e.atoms[o].gen <= e.generation + 2
      BY <2>3, <2>8
    <3>. QED  BY <3>3, <3>4 DEF e
  <2>9. o \in Offsets(e)
    BY <1>2 DEF e
  <2>10. \/ e.atoms[o].gen = 0
         \/ o \in Offsets(d) /\ e.atoms[o].gen = d.atoms[o].gen
         \/ e.atoms[o].gen = d.generation + 2 /\ (o \in Offsets(d) => d.atoms[o].gen = 0)
    BY <2>2, <2>4, <2>9 DEF DP!KeepsGenerations
  <2>. QED  BY <2>6, <2>7, <2>8, <2>10
<1>. QED  BY <1>1, <1>2 DEF GenInv

(* The queue of the domains is left alone. *)
LEMMA EnqStep ==
  ASSUME DomInv, EnqInv, \A p \in Preds : dom'[p].enqueued = dom[p].enqueued,
         \/ UNCHANGED comp /\ pc' \in {"process", "iterate"}
         \/ pc \notin {"process", "iterate"},
         pc' = "process" \/ current' # {} \/ running' # {} =>
           pc \in {"process", "linearize"} \/ current # {} \/ running # {}
  PROVE  EnqInv'
<1>1. CompPreds' = CompPreds \/ pc \notin {"process", "iterate"}
  BY DEF CompPreds
<1>2. ASSUME NEW p \in Preds, pc \notin {"process", "iterate"} PROVE ~(dom[p].enqueued > 0)
  BY <1>2 DEF EnqInv
<1>3. \A p \in Preds : dom[p].enqueued \in 0..2
  BY DomainParts DEF DomInv, DomainOK
<1>. QED  BY <1>1, <1>2, <1>3 DEF EnqInv

LEMMA InitHInv == Init => HInv
<1> SUFFICES ASSUME Init PROVE HInv
  OBVIOUS
<1>1. /\ dom = [p \in Preds |-> EmptyDomain] /\ index = <<>> /\ insts = {} /\ pc = "call"
      /\ current = {} /\ running = {}
  BY DEF Init
<1>2. EnqInv
  <2>1. EmptyDomain.enqueued = 0
    BY DEF EmptyDomain
  <2>. QED  BY <1>1, <2>1 DEF EnqInv
<1>3. GenInv
  BY <1>1 DEF GenInv
<1>4. Updaters(insts) \ agenda = {}
  BY <1>1, NoUpdaters
<1>5. IdxInv /\ FreshInv
  <2>1. DOMAIN index = {} /\ index = [key \in DOMAIN index |-> index[key]]
    BY <1>1
  <2>. QED  BY <1>4, <2>1 DEF IdxInv, FreshInv
<1>. QED  BY <1>2, <1>3, <1>5 DEF HInv

(* The updaters that are registered and still to be. *)
LEMMA SameUpdaters ==
  ASSUME UNCHANGED <<insts, agenda>>
  PROVE  (Updaters(insts) \ agenda)' = Updaters(insts) \ agenda
BY DEF Updaters

(* Steps that only concern the queue and the running instance. *)
LEMMA CalmStep ==
  ASSUME GInv, HInv, NEW S, DomainsCalm(S), UNCHANGED <<index, comp, insts, agenda>>,
         ran \subseteq ran',
         pc' \in {"process", "iterate"} <=> pc \in {"process", "iterate"},
         pc' = "process" \/ current' # {} \/ running' # {} =>
           pc = "process" \/ current # {} \/ running # {},
         \/ \A s \in S : \E x \in ran' : s \in HeadSyms(x.stm)
         \/ pc \notin {"process", "iterate"} /\ insts = {}
  PROVE  HInv'
<1>1. DomainsBecome(S) /\ \A p \in Preds : dom'[p].enqueued = dom[p].enqueued
  BY CalmBecomes DEF DomainsCalm, Calm
<1>2. EnqInv'
  BY <1>1, EnqStep DEF GInv, HInv
<1>3. GenInv'
  <2>1. CASE \A s \in S : \E x \in ran' : s \in HeadSyms(x.stm)
    BY <2>1, GenStep DEF GInv, HInv
  <2>2. CASE pc \notin {"process", "iterate"}
    BY <2>2 DEF GenInv
  <2>. QED  BY <2>1, <2>2
<1>4. IdxInv' /\ FreshInv'
  <2>1. (Updaters(insts) \ agenda)' = Updaters(insts) \ agenda
    BY SameUpdaters
  <2>2. insts = {} => Updaters(insts) \ agenda = {}
    BY NoUpdaters
  <2>. QED  BY <1>1, <2>1, <2>2, IdxStep DEF GInv, HInv
<1>. QED  BY <1>2, <1>3, <1>4 DEF HInv

LEMMA CalmSteps ==
  ASSUME GInv, LInv, HInv,
         \/ UNCHANGED vars \/ BeginPrepare \/ BeginIteration
         \/ \E x \in current : RunInstantiator(x)
         \/ \E i \in left : TryInstance(i) \/ Backjump(i)
         \/ Mismatch \/ ReportBody
         \/ NextCall \/ Return
  PROVE  HInv'
<1>1. DomainsCalm({}) /\ UNCHANGED <<index, comp, insts, agenda>>
  <2>1. UNCHANGED <<dom, index, comp, insts, agenda>>
    BY Zenon DEF vars, BeginPrepare, BeginIteration, RunInstantiator, TryInstance, Backjump, Mismatch,
           ReportBody, NextCall, Return, compVars, indexVars
  <2>. QED  BY <2>1, SameCalm DEF GInv
<1>2. /\ ran \subseteq ran'
      /\ pc' \in {"process", "iterate"} <=> pc \in {"process", "iterate"}
      /\ pc' = "process" \/ current' # {} \/ running' # {} =>
           pc = "process" \/ current # {} \/ running # {}
  <2>1. CASE UNCHANGED vars
    BY <2>1 DEF vars, queueVars, instVars
  <2>2. CASE BeginPrepare
    BY <2>2 DEF BeginPrepare, queueVars, instVars
  <2>3. CASE BeginIteration
    BY <2>3 DEF BeginIteration, instVars, GInv, PhaseInv
  <2>4. CASE \E x \in current : RunInstantiator(x)
    BY <2>4 DEF RunInstantiator
  <2>5. CASE (\E i \in left : TryInstance(i) \/ Backjump(i)) \/ Mismatch \/ ReportBody
    BY Zenon, <2>5 DEF TryInstance, Backjump, Mismatch, ReportBody, queueVars
  <2>6. CASE NextCall \/ Return
    BY <2>6 DEF NextCall, Return, queueVars, instVars
  <2>. QED  BY <2>1, <2>2, <2>3, <2>4, <2>5, <2>6
<1>3. \A s \in {} : \E x \in ran' : s \in HeadSyms(x.stm)
  OBVIOUS
<1>. QED  BY <1>1, <1>2, <1>3, CalmStep

(* What the steps that concern single atoms do to the domains. *)
LEMMA DefiningEffect ==
  ASSUME GInv, NEW s \in todo, AddAtom(s) \/ DefineFact(s)
  PROVE  /\ UNCHANGED <<index, comp, insts, agenda, current, running, ran, pc>>
         /\ pc \in {"backend", "prepare"} /\ insts = {} /\ comp = {}
         /\ s \in UsedSyms /\ PredOf(s) \in Preds
         /\ LET p == PredOf(s)
                d == Define(dom[p], s)
            IN dom' = [dom EXCEPT ![p] = d] \/ dom' = [dom EXCEPT ![p] = SetFact(d, Find(d, s))]
<1>1. /\ UNCHANGED <<compVars, indexVars, queueVars, instVars, pc>>
      /\ pc \in {"backend", "prepare"}
      /\ LET p == PredOf(s)
             d == Define(dom[p], s)
         IN dom' = [dom EXCEPT ![p] = d] \/ dom' = [dom EXCEPT ![p] = SetFact(d, Find(d, s))]
  BY DEF AddAtom, DefineFact
<1>2. s \in UsedSyms /\ PredOf(s) \in Preds
  BY SymPred DEF GInv, CallInv, UsedSyms
<1>3. /\ insts = {} /\ comp = {}
      /\ UNCHANGED <<index, comp, insts, agenda, current, running, ran, pc>>
  BY <1>1 DEF GInv, PhaseInv, compVars, indexVars, queueVars, instVars
<1>. QED  BY <1>1, <1>2, <1>3

LEMMA MatchNegativeEffect ==
  ASSUME GInv, MatchNegative
  PROVE  /\ UNCHANGED <<index, comp, insts, agenda, current, running, ran, pc>> /\ running # {}
         /\ \E s \in UsedSyms :
              /\ PredOf(s) \in Preds
              /\ dom' = dom \/ dom' = [dom EXCEPT ![PredOf(s)] = Reserve(dom[PredOf(s)], s)]
<1>1. UNCHANGED <<index, comp, insts, agenda, current, running, ran, pc>>
  BY DEF MatchNegative, compVars, indexVars, queueVars
<1>2. PICK x \in running, w \in work : \E k \in w.probes :
        \/ dom' = dom
        \/ dom' = [dom EXCEPT ![PredOf(BodySym(x.stm, w.inst, k))] =
                                Reserve(@, BodySym(x.stm, w.inst, k))]
  BY DEF MatchNegative
<1>3. PICK k \in w.probes :
        \/ dom' = dom
        \/ dom' = [dom EXCEPT ![PredOf(BodySym(x.stm, w.inst, k))] =
                                Reserve(@, BodySym(x.stm, w.inst, k))]
  BY <1>2
<1> DEFINE s == BodySym(x.stm, w.inst, k)
<1>4. x.stm \in Part.stms /\ w.inst \in Instances(x.stm) /\ k \in Body(x.stm)
  BY DEF GInv, QueueInv, CallInv, WorkInv, Negative
<1>5. s \in UsedSyms /\ PredOf(s) \in Preds
  BY <1>4, StatementSyms, SymPred DEF GInv
<1>6. dom' = dom \/ dom' = [dom EXCEPT ![PredOf(s)] = Reserve(dom[PredOf(s)], s)]
  BY <1>3
<1> HIDE DEF s
<1>. QED  BY <1>1, <1>2, <1>5, <1>6

LEMMA ReportHeadEffect ==
  ASSUME GInv, ReportHead
  PROVE  /\ UNCHANGED <<index, comp, insts, agenda, current, running, ran, pc>> /\ running # {}
         /\ \E x \in ran : \E s \in HeadSyms(x.stm) :
              /\ x.stm \in comp /\ s \in UsedSyms /\ PredOf(s) \in Preds
              /\ dom' = [dom EXCEPT ![PredOf(s)] = Define(dom[PredOf(s)], s)]
<1>1. UNCHANGED <<index, comp, insts, agenda, current, running, ran, pc>>
  BY DEF ReportHead, compVars, indexVars, queueVars
<1>2. PICK x \in running, w \in work :
        /\ Len(w.defs) < Len(Heads(x.stm, w.inst))
        /\ LET s == Heads(x.stm, w.inst)[Len(w.defs) + 1]
           IN dom' = [dom EXCEPT ![PredOf(s)] = Define(@, s)]
  BY Zenon DEF ReportHead
<1> DEFINE s == Heads(x.stm, w.inst)[Len(w.defs) + 1]
<1>3. /\ x.stm \in Part.stms /\ w.inst \in Instances(x.stm) /\ w.defs \in Seq(HeadSyms(x.stm))
      /\ x \in ran /\ x.stm \in comp
  BY DEF GInv, QueueInv, CallInv, WorkInv
<1>4. Heads(x.stm, w.inst) \in Seq(HeadSyms(x.stm))
  BY <1>3, StatementSyms DEF GInv
<1>5. s \in HeadSyms(x.stm)
  <2>1. Len(w.defs) \in Nat /\ Len(Heads(x.stm, w.inst)) \in Nat
    BY <1>3, <1>4
  <2>2. Len(w.defs) + 1 \in 1..Len(Heads(x.stm, w.inst))
    BY <1>2, <2>1
  <2>. QED  BY <1>4, <2>2
<1>6. s \in UsedSyms /\ PredOf(s) \in Preds
  BY <1>3, <1>5, StatementSyms, SymPred DEF GInv
<1>7. dom' = [dom EXCEPT ![PredOf(s)] = Define(dom[PredOf(s)], s)]
  BY <1>2
<1> HIDE DEF s
<1>. QED  BY Zenon, <1>1, <1>2, <1>3, <1>5, <1>6, <1>7

LEMMA ReportRuleEffect ==
  ASSUME GInv, ReportRule
  PROVE  /\ UNCHANGED <<index, comp, insts, agenda, current, running, ran, pc>>
         /\ \/ dom' = dom
            \/ \E h \in UsedSyms :
                 /\ PredOf(h) \in Preds /\ Contains(dom[PredOf(h)], h)
                 /\ dom' = [dom EXCEPT ![PredOf(h)] =
                              SetFact(dom[PredOf(h)], Find(dom[PredOf(h)], h))]
<1>1. UNCHANGED <<index, comp, insts, agenda, current, running, ran, pc>>
  BY DEF ReportRule, compVars, indexVars, queueVars
<1>2. PICK x \in running, w \in work :
        LET h == Head(w.heads) IN
        dom' = dom \/ (Len(w.heads) = 1 /\ dom' = [dom EXCEPT ![PredOf(h)] = SetFact(@, Find(@, h))])
  BY Zenon DEF ReportRule
<1> DEFINE h == Head(w.heads)
<1>3. CASE Len(w.heads) = 1 /\ dom' = [dom EXCEPT ![PredOf(h)] = SetFact(@, Find(@, h))]
  <2>1. /\ x.stm \in Part.stms /\ w.heads \in Seq(HeadSyms(x.stm))
        /\ (\A n \in DOMAIN w.heads : Has(w.heads[n]))
    BY DEF GInv, QueueInv, CallInv, WorkInv
  <2>2. h = w.heads[1] /\ 1 \in DOMAIN w.heads
    BY <1>3, <2>1
  <2>3. h \in UsedSyms /\ PredOf(h) \in Preds /\ Contains(dom[PredOf(h)], h)
    BY <2>1, <2>2, StatementSyms, SymPred DEF GInv, Has
  <2>4. dom' = [dom EXCEPT ![PredOf(h)] = SetFact(dom[PredOf(h)], Find(dom[PredOf(h)], h))]
    BY <1>3
  <2> HIDE DEF h
  <2>. QED  BY Zenon, <1>1, <2>3, <2>4
<1>. QED  BY <1>1, <1>2, <1>3

(* An atom is defined, reserved, or becomes a fact. *)
LEMMA AtomSteps ==
  ASSUME GInv, LInv, HInv,
         \/ \E s \in todo : AddAtom(s) \/ DefineFact(s)
         \/ MatchNegative \/ ReportHead \/ ReportRule
  PROVE  HInv'
<1>1. CASE \E s \in todo : AddAtom(s) \/ DefineFact(s)
  <2>1. PICK s \in todo : AddAtom(s) \/ DefineFact(s)
    BY <1>1
  <2> DEFINE p == PredOf(s)
             d == Define(dom[p], s)
             f == SetFact(d, Find(d, s))
  <2>2. /\ UNCHANGED <<index, comp, insts, agenda, current, running, ran, pc>>
        /\ pc \in {"backend", "prepare"} /\ insts = {}
        /\ s \in UsedSyms /\ p \in Preds
        /\ dom' = [dom EXCEPT ![p] = d] \/ dom' = [dom EXCEPT ![p] = f]
    BY <2>1, DefiningEffect
  <2>3. Calm(p, dom[p], d, {s}) /\ Calm(p, dom[p], f, {s})
    BY <2>2, CalmOperations DEF GInv, DomInv
  <2> HIDE DEF d, f
  <2>4. DomainsCalm({s})
    BY <2>2, <2>3, OneCalm DEF GInv
  <2>. QED  BY <2>2, <2>4, CalmStep
<1>2. CASE MatchNegative
  <2>1. UNCHANGED <<index, comp, insts, agenda, current, running, ran, pc>>
    BY <1>2, MatchNegativeEffect
  <2>2. PICK s \in UsedSyms :
          /\ PredOf(s) \in Preds
          /\ dom' = dom \/ dom' = [dom EXCEPT ![PredOf(s)] = Reserve(dom[PredOf(s)], s)]
    BY <1>2, MatchNegativeEffect
  <2>3. Calm(PredOf(s), dom[PredOf(s)], Reserve(dom[PredOf(s)], s), {})
    BY Zenon, <2>2, CalmOperations DEF GInv, DomInv
  <2>4. DomainsCalm({})
    BY <2>2, <2>3, OneCalm, SameCalm DEF GInv
  <2>5. \A t \in {} : \E y \in ran' : t \in HeadSyms(y.stm)
    OBVIOUS
  <2>. QED  BY <2>1, <2>4, <2>5, CalmStep
<1>3. CASE ReportHead
  <2>1. UNCHANGED <<index, comp, insts, agenda, current, running, ran, pc>>
    BY <1>3, ReportHeadEffect
  <2>2. PICK x \in ran : \E s \in HeadSyms(x.stm) :
          /\ s \in UsedSyms /\ PredOf(s) \in Preds
          /\ dom' = [dom EXCEPT ![PredOf(s)] = Define(dom[PredOf(s)], s)]
    BY <1>3, ReportHeadEffect
  <2>3. PICK s \in HeadSyms(x.stm) :
          /\ s \in UsedSyms /\ PredOf(s) \in Preds
          /\ dom' = [dom EXCEPT ![PredOf(s)] = Define(dom[PredOf(s)], s)]
    BY Zenon, <2>2
  <2>4. Calm(PredOf(s), dom[PredOf(s)], Define(dom[PredOf(s)], s), {s})
    BY <2>3, CalmOperations DEF GInv, DomInv
  <2>5. DomainsCalm({s})
    BY Zenon, <2>3, <2>4, OneCalm DEF GInv
  <2>6. \A t \in {s} : \E y \in ran' : t \in HeadSyms(y.stm)
    BY <2>1, <2>3
  <2>. QED  BY <2>1, <2>5, <2>6, CalmStep
<1>4. CASE ReportRule
  <2>1. UNCHANGED <<index, comp, insts, agenda, current, running, ran, pc>>
    BY <1>4, ReportRuleEffect
  <2>3. DomainsCalm({})
    <3>1. CASE dom' # dom
      <4>1. PICK h \in UsedSyms :
              /\ PredOf(h) \in Preds /\ Contains(dom[PredOf(h)], h)
              /\ dom' = [dom EXCEPT ![PredOf(h)] =
                           SetFact(dom[PredOf(h)], Find(dom[PredOf(h)], h))]
        BY <1>4, <3>1, ReportRuleEffect
      <4> DEFINE d == dom[PredOf(h)]
      <4>2. Calm(PredOf(h), d, SetFact(d, Find(d, h)), {})
        BY <4>1, FindContained, CalmOperations DEF GInv, DomInv
      <4>. QED  BY Zenon, <4>1, <4>2, OneCalm DEF GInv
    <3>. QED  BY <3>1, SameCalm DEF GInv
  <2>4. \A t \in {} : \E y \in ran' : t \in HeadSyms(y.stm)
    OBVIOUS
  <2>. QED  BY <2>1, <2>3, <2>4, CalmStep
<1>. QED  BY <1>1, <1>2, <1>3, <1>4

(* The domains go to the next generation outside of components. *)
LEMMA GenerationSteps ==
  ASSUME GInv, LInv, HInv, BeginAddBackend \/ Prepared
  PROVE  HInv'
<1>1. /\ UNCHANGED <<index, comp, insts, agenda, current, running, ran>>
      /\ dom' = NextGeneration
      /\ pc \in {"call", "prepare"} /\ pc' \in {"backend", "ground"}
  BY DEF BeginAddBackend, Prepared, compVars, indexVars, queueVars, instVars
<1>2. DomainsBecome({})
  BY <1>1, NextGenerationStep DEF GInv
<1>3. ASSUME NEW p \in Preds PROVE dom'[p].enqueued = dom[p].enqueued
  <2>1. dom'[p] = [dom[p] EXCEPT !.generation = @ + 1] /\ dom[p] \in DP!DomainRecord
    BY <1>1 DEF NextGeneration, GInv, DomInv, DomainOK, DP!DomOK
  <2>. QED  BY <2>1 DEF DP!DomainRecord
<1>4. EnqInv'
  BY <1>1, <1>3, EnqStep DEF GInv, HInv
<1>5. GenInv'
  BY <1>1 DEF GenInv
<1>6. (Updaters(insts) \ agenda)' = Updaters(insts) \ agenda
  BY <1>1, SameUpdaters
<1>7. IdxInv' /\ FreshInv'
  <2>1. \A s \in {} : \E x \in ran' : s \in HeadSyms(x.stm)
    OBVIOUS
  <2>. QED  BY <1>1, <1>2, <1>6, <2>1, IdxStep DEF GInv, HInv
<1>. QED  BY <1>4, <1>5, <1>7 DEF HInv

(* Linearizing a statement adds updaters, but none that is registered. *)
LEMMA RegisteredUpdaters ==
  ASSUME GInv, LInv, NEW s \in comp, Linearize(s)
  PROVE  (Updaters(insts) \ agenda)' = Updaters(insts) \ agenda
<1>1. PICK xs \in SUBSET Instantiators(s) : insts' = insts \union xs /\ agenda' = Updaters(xs)
  BY DEF Linearize
<1>2. agenda = {} /\ s \notin Linearized
  BY DEF Linearize
<1>3. \A x \in xs : x.stm = s
  BY NewInstantiators
<1>4. Updaters(insts') = Updaters(insts) \union Updaters(xs)
  BY <1>1 DEF Updaters
<1>5. Updaters(insts) \intersect Updaters(xs) = {}
  <2>1. \A u \in Updaters(xs) : u[1] \in xs
    BY DEF Updaters
  <2>2. \A u \in Updaters(insts) : u[1] \in insts
    BY DEF Updaters
  <2>. QED  BY <2>1, <2>2, <1>2, <1>3 DEF Linearized
<1>6. Updaters(insts)' = Updaters(insts')
  BY DEF Updaters
<1>. QED  BY <1>1, <1>2, <1>4, <1>5, <1>6

LEMMA ComponentSteps ==
  ASSUME GInv, LInv, HInv,
         \/ \E c \in {deps[s].comp : s \in DOMAIN deps} : StartComponent(c)
         \/ \E s \in comp : Linearize(s)
  PROVE  HInv'
<1>1. /\ UNCHANGED <<dom, index, current, running, ran>>
      /\ pc \in {"ground", "linearize"} /\ pc' = "linearize"
  BY DEF StartComponent, Linearize, indexVars, queueVars, instVars
<1>2. (Updaters(insts) \ agenda)' \subseteq Updaters(insts) \ agenda
  <2>1. CASE \E c \in {deps[s].comp : s \in DOMAIN deps} : StartComponent(c)
    <3>1. insts' = {}
      BY <2>1 DEF StartComponent
    <3>2. Updaters(insts)' = Updaters(insts')
      BY DEF Updaters
    <3>. QED  BY <3>1, <3>2, NoUpdaters
  <2>2. CASE \E s \in comp : Linearize(s)
    BY <2>2, RegisteredUpdaters
  <2>. QED  BY <2>1, <2>2
<1>3. DomainsBecome({})
  BY <1>1, SameDomains DEF GInv
<1>4. EnqInv'
  <2>1. pc \notin {"process", "iterate"}
    BY <1>1
  <2>2. pc' = "process" \/ current' # {} \/ running' # {} =>
          pc \in {"process", "linearize"} \/ current # {} \/ running # {}
    BY <1>1
  <2>. QED  BY <1>1, <2>1, <2>2, EnqStep DEF GInv, HInv
<1>5. GenInv'
  BY <1>1 DEF GenInv
<1>6. IdxInv' /\ FreshInv'
  <2>1. \A s \in {} : \E x \in ran' : s \in HeadSyms(x.stm)
    OBVIOUS
  <2>. QED  BY <1>1, <1>2, <1>3, <2>1, IdxStep DEF GInv, HInv
<1>. QED  BY <1>4, <1>5, <1>6 DEF HInv

(* What registering a literal does to its index and its domain. *)
LEMMA RegisteredLiteral ==
  ASSUME GInv, LInv, HInv, RegisterLiteral
  PROVE  \E u \in agenda :
           LET key == KeyOf(u)
               p == KeyPred(key)
               ix == IF ~IsMatcher(key) /\ key \in DOMAIN index THEN index[key]
                     ELSE NewIndex(KeyMatch(key))
               v == IF IsMatcher(key) THEN ix ELSE UpdateIndex(dom[p], ix)
           IN /\ u \in Updaters(insts)
              /\ agenda' = agenda \ {u}
              /\ index' = [q \in DOMAIN index \union {key} |-> IF q = key THEN v ELSE index[q]]
              /\ dom' = IF IsMatcher(key) THEN dom ELSE [dom EXCEPT ![p] = PassedBy(dom[p], ix)]
              /\ DP!IdxOK(dom[p], ix) /\ DP!BatchesDisjoint(ix) /\ ix.match = KeyMatch(key)
              /\ DP!IdxOK(dom'[p], v) /\ DP!BatchesDisjoint(v) /\ v.match = KeyMatch(key)
              /\ ~IsMatcher(key) => Fresh(dom'[p], v) = {}
<1> DEFINE u == CHOOSE u \in agenda : TRUE
           x == u[1]
           k == u[2]
           key == KeyOf(u)
           p == KeyPred(key)
           isIndex == x.binders[k].kind = "index"
           ix == IF isIndex /\ key \in DOMAIN index THEN index[key] ELSE NewIndex(KeyMatch(key))
           v == IF isIndex THEN UpdateIndex(dom[p], ix) ELSE ix
<1>1. agenda # {}
  BY DEF RegisterLiteral
<1>2. u \in agenda
  BY <1>1
<1>3. /\ agenda' = agenda \ {u}
      /\ index' = [q \in DOMAIN index \union {key} |->
             IF q # key THEN index[q] ELSE IF isIndex THEN UpdateIndex(dom[p], ix) ELSE ix]
      /\ dom' = IF isIndex THEN [dom EXCEPT ![p] = PassedBy(@, ix)] ELSE dom
  BY Zenon DEF RegisterLiteral, KeyOf
<1> HIDE DEF u
<1>4. u \in Updaters(insts)
  BY <1>2 DEF LInv, RegInv
<1>5. /\ p \in Preds /\ KeyMatch(key) \subseteq UsedSyms
      /\ isIndex <=> ~IsMatcher(key)
  BY <1>4, UpdaterKey
<1>6. DomainOK(p, dom[p]) /\ DP!DomOK(dom[p]) /\ DOMAIN dom = Preds
  BY <1>5 DEF GInv, DomInv, DomainOK
<1> HIDE DEF key, p, isIndex
<1>7. DP!IdxOK(dom[p], ix) /\ DP!BatchesDisjoint(ix) /\ ix.match = KeyMatch(key)
  <2>1. CASE isIndex /\ key \in DOMAIN index
    BY <2>1 DEF HInv, IdxInv, p
  <2>2. CASE ~(isIndex /\ key \in DOMAIN index)
    BY <2>2, <1>5, <1>6, EmptyIndex
  <2>. QED  BY <2>1, <2>2
<1> HIDE DEF ix
<1>8. /\ DP!IdxOK(dom'[p], v) /\ DP!BatchesDisjoint(v) /\ v.match = KeyMatch(key)
      /\ isIndex => Fresh(dom'[p], v) = {}
  <2>1. CASE isIndex
    <3>1. dom'[p] = PassedBy(dom[p], ix) /\ v = UpdateIndex(dom[p], ix)
      BY <1>3, <1>5, <1>6, <2>1
    <3>. QED  BY <1>6, <1>7, <3>1, RegisteredIndex
  <2>2. CASE ~isIndex
    BY <1>3, <1>7, <2>2
  <2>. QED  BY <2>1, <2>2
<1>9. index' = [q \in DOMAIN index \union {key} |-> IF q = key THEN v ELSE index[q]]
  BY <1>3
<1> HIDE DEF v
<1>10. /\ ix = IF ~IsMatcher(key) /\ key \in DOMAIN index THEN index[key] ELSE NewIndex(KeyMatch(key))
       /\ v = IF IsMatcher(key) THEN ix ELSE UpdateIndex(dom[p], ix)
       /\ dom' = IF IsMatcher(key) THEN dom ELSE [dom EXCEPT ![p] = PassedBy(dom[p], ix)]
       /\ ~IsMatcher(key) => Fresh(dom'[p], v) = {}
  BY Zenon, <1>3, <1>5, <1>8 DEF ix, v
<1> SUFFICES
      /\ u \in Updaters(insts)
      /\ agenda' = agenda \ {u}
      /\ index' = [q \in DOMAIN index \union {key} |-> IF q = key THEN v ELSE index[q]]
      /\ dom' = IF IsMatcher(key) THEN dom ELSE [dom EXCEPT ![p] = PassedBy(dom[p], ix)]
      /\ DP!IdxOK(dom[p], ix) /\ DP!BatchesDisjoint(ix) /\ ix.match = KeyMatch(key)
      /\ DP!IdxOK(dom'[p], v) /\ DP!BatchesDisjoint(v) /\ v.match = KeyMatch(key)
      /\ ~IsMatcher(key) => Fresh(dom'[p], v) = {}
  BY <1>2, <1>10, Zenon DEF key, p
<1>. QED  BY Zenon, <1>3, <1>4, <1>7, <1>8, <1>9, <1>10

LEMMA RegisterStep ==
  ASSUME GInv, LInv, HInv, RegisterLiteral
  PROVE  HInv'
<1>1. /\ UNCHANGED <<comp, insts, current, running, ran, pc>> /\ pc = "linearize"
  BY DEF RegisterLiteral, queueVars, instVars
<1>2. PICK u \in agenda :
           LET key == KeyOf(u)
               p == KeyPred(key)
               ix == IF ~IsMatcher(key) /\ key \in DOMAIN index THEN index[key]
                     ELSE NewIndex(KeyMatch(key))
               v == IF IsMatcher(key) THEN ix ELSE UpdateIndex(dom[p], ix)
           IN /\ u \in Updaters(insts)
              /\ agenda' = agenda \ {u}
              /\ index' = [q \in DOMAIN index \union {key} |-> IF q = key THEN v ELSE index[q]]
              /\ dom' = IF IsMatcher(key) THEN dom ELSE [dom EXCEPT ![p] = PassedBy(dom[p], ix)]
              /\ DP!IdxOK(dom[p], ix) /\ DP!BatchesDisjoint(ix) /\ ix.match = KeyMatch(key)
              /\ DP!IdxOK(dom'[p], v) /\ DP!BatchesDisjoint(v) /\ v.match = KeyMatch(key)
              /\ ~IsMatcher(key) => Fresh(dom'[p], v) = {}
  BY RegisteredLiteral, Zenon
<1> DEFINE key == KeyOf(u)
           p == KeyPred(key)
           ix == IF ~IsMatcher(key) /\ key \in DOMAIN index THEN index[key]
                 ELSE NewIndex(KeyMatch(key))
           v == IF IsMatcher(key) THEN ix ELSE UpdateIndex(dom[p], ix)
<1>3. /\ u \in Updaters(insts)
      /\ agenda' = agenda \ {u}
      /\ index' = [q \in DOMAIN index \union {key} |-> IF q = key THEN v ELSE index[q]]
      /\ dom' = dom \/ dom' = [dom EXCEPT ![p] = PassedBy(dom[p], ix)]
      /\ DP!IdxOK(dom'[p], v) /\ DP!BatchesDisjoint(v) /\ v.match = KeyMatch(key)
      /\ ~IsMatcher(key) => Fresh(dom'[p], v) = {}
  BY Zenon, <1>2
<1>4. p \in Preds /\ DomainOK(p, dom[p])
  BY <1>3, UpdaterKey DEF GInv, DomInv
<1> HIDE DEF ix, v, key
<1>5. DomainsCalm({})
  <2>1. Calm(p, dom[p], PassedBy(dom[p], ix), {})
    BY <1>4, CalmOperations DEF PassedBy
  <2> HIDE DEF p
  <2>. QED  BY <1>3, <1>4, <2>1, OneCalm, SameCalm DEF GInv
<1>6. DomainsBecome({}) /\ \A q \in Preds : dom'[q].enqueued = dom[q].enqueued
  BY <1>5, CalmBecomes DEF DomainsCalm, Calm
<1>7. EnqInv'
  <2>1. pc \notin {"process", "iterate"}
    BY <1>1
  <2>2. pc' = "process" \/ current' # {} \/ running' # {} =>
          pc \in {"process", "linearize"} \/ current # {} \/ running # {}
    BY <1>1
  <2>. QED  BY <1>6, <2>1, <2>2, EnqStep DEF GInv, HInv
<1>8. GenInv'
  BY <1>1 DEF GenInv
<1>9. ran = {}
  BY <1>1 DEF GInv, PhaseInv
(* The other indices. *)
<1>10. ASSUME NEW q \in DOMAIN index
       PROVE  /\ KeyPred(q) \in Preds
              /\ index[q].match = KeyMatch(q)
              /\ DP!IdxOK(dom'[KeyPred(q)], index[q])
              /\ DP!BatchesDisjoint(index[q])
              /\ Fresh(dom[KeyPred(q)], index[q]) = {} => Fresh(dom'[KeyPred(q)], index[q]) = {}
  <2>1. /\ KeyPred(q) \in Preds /\ index[q].match = KeyMatch(q)
        /\ DP!IdxOK(dom[KeyPred(q)], index[q]) /\ DP!BatchesDisjoint(index[q])
    BY DEF HInv, IdxInv
  <2>2. /\ DomainOK(KeyPred(q), dom[KeyPred(q)])
        /\ Becomes(KeyPred(q), dom[KeyPred(q)], dom'[KeyPred(q)], {})
    BY <2>1, <1>6 DEF GInv, DomInv, DomainsBecome
  <2>3. /\ DP!IdxOK(dom'[KeyPred(q)], index[q])
        /\ \A o \in Fresh(dom'[KeyPred(q)], index[q]) : o \in Fresh(dom[KeyPred(q)], index[q])
    BY <2>1, <2>2, FreshBecomes
  <2>. QED  BY <2>1, <2>3
<1>11. (Updaters(insts) \ agenda)' = (Updaters(insts) \ agenda) \union {u}
  <2>1. Updaters(insts)' = Updaters(insts)
    BY <1>1 DEF Updaters
  <2>. QED  BY <1>3, <2>1
<1>12. IdxInv'
  <2>1. index' = [q \in DOMAIN index' |-> index'[q]] /\ DOMAIN index' = DOMAIN index \union {key}
    BY <1>3
  <2>2. ASSUME NEW q \in DOMAIN index'
        PROVE  /\ KeyPred(q) \in Preds
               /\ index'[q].match = KeyMatch(q)
               /\ DP!IdxOK(dom'[KeyPred(q)], index'[q])
               /\ DP!BatchesDisjoint(index'[q])
    <3>1. CASE q = key
      <4>1. index'[q] = v
        BY <1>3, <3>1
      <4>. QED  BY <1>3, <1>4, <3>1, <4>1
    <3>2. CASE q # key
      <4>1. index'[q] = index[q] /\ q \in DOMAIN index
        BY <1>3, <2>1, <3>2
      <4>. QED  BY <1>10, <4>1
    <3>. QED  BY <3>1, <3>2
  <2>3. \A w \in Updaters(insts) \ agenda : KeyOf(w) \in DOMAIN index
    BY DEF HInv, IdxInv
  <2>. QED  BY <1>11, <2>1, <2>2, <2>3 DEF IdxInv, key
<1>13. FreshInv'
  <2>1. ASSUME NEW w \in (Updaters(insts) \ agenda) \union {u}, ~IsMatcher(KeyOf(w))
        PROVE  Fresh(dom'[KeyPred(KeyOf(w))], index'[KeyOf(w)]) = {}
    <3>1. CASE KeyOf(w) = key
      <4>1. index'[key] = v
        BY <1>3
      <4>. QED  BY <1>3, <2>1, <3>1, <4>1
    <3>2. CASE KeyOf(w) # key
      <4>1. w \in Updaters(insts) \ agenda
        BY <2>1, <3>2 DEF key
      <4>2. KeyOf(w) \in DOMAIN index
        BY <4>1 DEF HInv, IdxInv
      <4>3. index'[KeyOf(w)] = index[KeyOf(w)]
        BY <1>3, <3>2, <4>2
      <4>4. Fresh(dom[KeyPred(KeyOf(w))], index[KeyOf(w)]) = {}
        BY <1>9, <2>1, <4>1 DEF HInv, FreshInv
      <4>. QED  BY <1>10, <4>2, <4>3, <4>4
    <3>. QED  BY <3>1, <3>2
  <2>. QED  BY <1>11, <2>1 DEF FreshInv
<1>. QED  BY <1>7, <1>8, <1>12, <1>13 DEF HInv

LEMMA EnqueueStep ==
  ASSUME GInv, LInv, HInv, EnqueueComponent
  PROVE  HInv'
<1>1. /\ UNCHANGED <<index, comp, insts, agenda, current, running, ran>>
      /\ pc = "linearize" /\ pc' = "process"
      /\ dom' = [p \in DOMAIN dom |-> IF p \in CompPreds THEN InitDomain(dom[p]) ELSE dom[p]]
  BY DEF EnqueueComponent, compVars, indexVars, instVars
<1>2. DOMAIN dom = Preds
  BY DEF GInv, DomInv
<1>3. ASSUME NEW p \in Preds
      PROVE  /\ Becomes(p, dom[p], dom'[p], {}) /\ dom'[p].enqueued = dom[p].enqueued
             /\ p \in CompPreds => \A o \in Offsets(dom'[p]) :
                  dom'[p].atoms[o].gen <= 1 /\ dom'[p].generation = 0
  <2>1. dom'[p] = IF p \in CompPreds THEN InitDomain(dom[p]) ELSE dom[p]
    BY <1>1, <1>2
  <2>2. DomainOK(p, dom[p]) /\ DP!DomOK(dom[p])
    BY DEF GInv, DomInv, DomainOK
  <2>3. CASE p \notin CompPreds
    BY Zenon, <2>1, <2>2, <2>3, CounterSteps
  <2>4. CASE p \in CompPreds
    <3> DEFINE e == InitDomain(dom[p])
    <3>1. DP!InitDomain(dom[p]) = e /\ DP!Offsets(e) = Offsets(e) /\ Becomes(p, dom[p], e, {})
      BY <2>2, SameInit, SameLookups, InitStep
    <3>2. dom'[p] = e
      BY <2>1, <2>4
    <3> HIDE DEF e
    <3>3. e.enqueued = dom[p].enqueued /\ e.generation = 0 /\ \A o \in Offsets(e) : e.atoms[o].gen <= 1
      BY <2>2, <3>1, DP!InitDomainOK
    <3>. QED  BY <3>1, <3>2, <3>3
  <2>. QED  BY <2>3, <2>4
<1>4. DomainsBecome({})
  BY <1>1, <1>2, <1>3 DEF DomainsBecome
<1>5. EnqInv'
  <2>1. pc \notin {"process", "iterate"}
    BY <1>1
  <2>2. pc' = "process" \/ current' # {} \/ running' # {} =>
          pc \in {"process", "linearize"} \/ current # {} \/ running # {}
    BY <1>1
  <2>. QED  BY <1>3, <2>1, <2>2, EnqStep DEF GInv, HInv
<1>6. GenInv'
  <2>1. CompPreds' = CompPreds /\ CompPreds \subseteq Preds
    BY <1>1, CompPredsOf DEF CompPreds, GInv
  <2>2. ASSUME NEW p \in CompPreds, NEW o \in Offsets(dom'[p])
        PROVE  /\ dom'[p].atoms[o].gen <= dom'[p].generation + 2
               /\ ~(dom'[p].atoms[o].gen > dom'[p].generation + 1)
    <3>1. dom'[p].atoms[o].gen <= 1 /\ dom'[p].generation = 0
      BY <1>3, <2>1, <2>2
    <3>2. dom'[p].atoms[o].gen \in Nat
      BY <1>3, <2>1, <2>2, DomainParts DEF Becomes, DomainOK
    <3>. QED  BY <3>1, <3>2
  <2>. QED  BY <2>1, <2>2 DEF GenInv
<1>7. (Updaters(insts) \ agenda)' = Updaters(insts) \ agenda
  BY <1>1, SameUpdaters
<1>8. IdxInv' /\ FreshInv'
  <2>1. \A s \in {} : \E x \in ran' : s \in HeadSyms(x.stm)
    OBVIOUS
  <2>. QED  BY <1>1, <1>4, <1>7, <2>1, IdxStep DEF GInv, HInv
<1>. QED  BY <1>5, <1>6, <1>8 DEF HInv

(* What the end of an iteration does to a domain. *)
LEMMA AdvanceStep ==
  ASSUME DomInv, AdvanceEnqueuedDomains, NEW p \in Preds
  PROVE  /\ dom' = [q \in Preds |-> dom'[q]]
         /\ dom'[p] = IF dom[p].enqueued > 0 THEN AdvanceDomain(dom[p]) ELSE dom[p]
         /\ Becomes(p, dom[p], dom'[p], {})
         /\ dom'[p].atoms = dom[p].atoms
         /\ dom[p].enqueued \in 0..2 /\ dom[p].generation \in Nat
         /\ dom'[p].enqueued = IF dom[p].enqueued > 0 THEN dom[p].enqueued - 1 ELSE 0
         /\ dom'[p].generation = IF dom[p].enqueued > 0 THEN dom[p].generation + 1
                                 ELSE dom[p].generation
<1>1. DOMAIN dom = Preds /\ DomainOK(p, dom[p]) /\ dom[p] \in DP!DomainRecord
  BY DEF DomInv, DomainOK, DP!DomOK
<1>2. dom' = [q \in Preds |-> dom'[q]]
      /\ dom'[p] = IF dom[p].enqueued > 0 THEN AdvanceDomain(dom[p]) ELSE dom[p]
  BY <1>1 DEF AdvanceEnqueuedDomains
<1>3. Becomes(p, dom[p], dom'[p], {})
  BY Zenon, <1>1, <1>2, CounterSteps
<1>4. dom[p].enqueued \in 0..2 /\ dom[p].generation \in Nat
  BY <1>1 DEF DP!DomainRecord
<1>5. /\ AdvanceDomain(dom[p]).atoms = dom[p].atoms
      /\ AdvanceDomain(dom[p]).enqueued = dom[p].enqueued - 1
      /\ AdvanceDomain(dom[p]).generation = dom[p].generation + 1
  BY <1>1 DEF AdvanceDomain, DP!DomainRecord
<1>. QED  BY <1>2, <1>3, <1>4, <1>5

(* Atoms that are of the next generation at the end of an iteration. *)
LEMMA OpenAtoms ==
  ASSUME GInv, HInv, pc \in {"process", "iterate"}, ran = {}, NEW p \in CompPreds,
         NEW o \in Offsets(dom[p]), dom[p].atoms[o].gen > dom[p].generation + 1
  PROVE  pc = "iterate" /\ dom[p].enqueued = 2
<1>1. p \in Preds
  BY CompPredsOf DEF GInv
<1>2. dom[p].enqueued = 2
  BY DEF HInv, GenInv
<1>3. ~(dom[p].enqueued <= 1)
  BY <1>2
<1>. QED  BY <1>1, <1>2, <1>3 DEF HInv, EnqInv

LEMMA EndHSteps ==
  ASSUME GInv, LInv, HInv, EndIteration \/ EndComponent
  PROVE  HInv'
<1>1. /\ AdvanceEnqueuedDomains /\ UNCHANGED <<index, current, running, ran>>
      /\ pc \in {"process", "iterate"} /\ current = {} /\ ran = {}
      /\ \/ UNCHANGED <<comp, insts, agenda>> /\ pc' = "process" /\ pc = "iterate"
         \/ insts' = {} /\ pc' = "ground" /\ pc = "process" /\ comp' = {}
  <2>1. CASE EndIteration
    BY <2>1 DEF EndIteration, compVars, indexVars, queueVars, instVars
  <2>2. CASE EndComponent
    <3>1. ran = {} /\ current = {}
      BY <2>2 DEF EndComponent, GInv, PhaseInv, QueueInv
    <3>. QED  BY <2>2, <3>1 DEF EndComponent, indexVars, queueVars, instVars
  <2>. QED  BY <2>1, <2>2
<1>2. running = {} /\ running' = {} /\ current' = {}
  BY <1>1 DEF GInv, QueueInv
<1>3. ASSUME NEW p \in Preds
      PROVE  /\ Becomes(p, dom[p], dom'[p], {})
             /\ dom'[p].atoms = dom[p].atoms
             /\ dom[p].enqueued \in 0..2 /\ dom[p].generation \in Nat
             /\ dom'[p].enqueued = IF dom[p].enqueued > 0 THEN dom[p].enqueued - 1 ELSE 0
             /\ dom'[p].generation = IF dom[p].enqueued > 0 THEN dom[p].generation + 1
                                     ELSE dom[p].generation
  BY <1>1, AdvanceStep DEF GInv
<1>4. DomainsBecome({})
  <2>1. dom' = [q \in Preds |-> dom'[q]]
    BY <1>1 DEF AdvanceEnqueuedDomains, GInv, DomInv
  <2>. QED  BY <1>3, <2>1 DEF DomainsBecome
<1>5. EnqInv'
  <2>1. CASE UNCHANGED comp /\ pc' = "process"
    <3>1. CompPreds' = CompPreds
      BY <2>1 DEF CompPreds
    <3>2. ASSUME NEW p \in Preds
          PROVE  dom'[p].enqueued <= 1 /\ (dom'[p].enqueued > 0 => dom[p].enqueued > 0)
      BY <1>3
    <3>. QED  BY <2>1, <3>1, <3>2 DEF HInv, EnqInv
  <2>2. CASE pc = "process" /\ pc' = "ground"
    <3>1. ASSUME NEW p \in Preds PROVE dom'[p].enqueued = 0
      <4>1. dom[p].enqueued <= 1
        BY <2>2 DEF HInv, EnqInv
      <4>. QED  BY <1>3, <4>1
    <3>. QED  BY <1>2, <2>2, <3>1 DEF EnqInv
  <2>. QED  BY <1>1, <2>1, <2>2
<1>6. GenInv'
  <2>1. CASE UNCHANGED comp /\ pc' = "process"
    <3>1. CompPreds' = CompPreds /\ CompPreds \subseteq Preds
      BY <2>1, CompPredsOf DEF CompPreds, GInv
    <3>2. ASSUME NEW p \in CompPreds, NEW o \in Offsets(dom'[p])
          PROVE  /\ dom'[p].atoms[o].gen <= dom'[p].generation + 2
                 /\ ~(dom'[p].atoms[o].gen > dom'[p].generation + 1)
      <4>1. o \in Offsets(dom[p]) /\ dom'[p].atoms[o].gen = dom[p].atoms[o].gen
        BY <1>3, <3>1, <3>2 DEF Offsets
      <4>2. dom[p].atoms[o].gen <= dom[p].generation + 2
        BY <1>1, <4>1 DEF HInv, GenInv
      <4>3. dom[p].atoms[o].gen > dom[p].generation + 1 => dom[p].enqueued = 2
        BY <1>1, <4>1, OpenAtoms
      <4>4. dom[p].atoms[o].gen \in Nat
        BY <3>1, <4>1, DomainParts DEF GInv, DomInv, DomainOK
      <4>5. dom'[p].generation = IF dom[p].enqueued > 0 THEN dom[p].generation + 1
                                 ELSE dom[p].generation
        BY <1>3, <3>1
      <4>6. dom[p].enqueued \in 0..2 /\ dom[p].generation \in Nat
        BY <1>3, <3>1
      <4>7. CASE dom[p].enqueued > 0
        BY <4>1, <4>2, <4>4, <4>5, <4>6, <4>7
      <4>8. CASE dom[p].enqueued = 0
        BY <4>1, <4>2, <4>3, <4>4, <4>5, <4>6, <4>8
      <4>. QED  BY <4>6, <4>7, <4>8
    <3>. QED  BY <3>1, <3>2 DEF GenInv
  <2>2. CASE pc' = "ground"
    BY <2>2 DEF GenInv
  <2>. QED  BY <1>1, <2>1, <2>2
<1>7. (Updaters(insts) \ agenda)' \subseteq Updaters(insts) \ agenda
  <2>1. CASE UNCHANGED <<insts, agenda>>
    BY <2>1, SameUpdaters
  <2>2. CASE insts' = {}
    <3>1. Updaters(insts)' = Updaters(insts')
      BY DEF Updaters
    <3>. QED  BY <2>2, <3>1, NoUpdaters
  <2>. QED  BY <1>1, <2>1, <2>2
<1>8. IdxInv' /\ FreshInv'
  <2>1. \A s \in {} : \E x \in ran' : s \in HeadSyms(x.stm)
    OBVIOUS
  <2>. QED  BY <1>1, <1>4, <1>7, <2>1, IdxStep DEF GInv, HInv
<1>. QED  BY <1>5, <1>6, <1>8 DEF HInv

-----------------------------------------------------------------------------
(* The propagation of the heads of a statement *)

PropKeys(stm) == {e.key : e \in {e \in enqueueVec : e.stm = stm}}

Passed(p, keys) ==
  {o \in Offsets(dom[p]) : \E key \in keys : KeyPred(key) = p /\ o > index[key].imported}

(* The keys that a head updates are those that match symbols of it. *)
LEMMA PropagateKeys ==
  ASSUME GInv, LInv, HInv, NEW stm \in comp
  PROVE  /\ \A key \in PropKeys(stm) :
              key \in DOMAIN index /\ KeyPred(key) \in HeadPreds(stm) /\ key \in KeyTable[KeyPred(key)]
         /\ \A u \in Updaters(insts) \ agenda : \A s \in HeadSyms(stm) :
              s \in KeyMatch(KeyOf(u)) => KeyOf(u) \in PropKeys(stm)
<1>1. stm \in DOMAIN Statements
  BY PartStatements DEF GInv, CallInv
<1>2. enqueueVec = Entries(Updaters(insts) \ agenda)
  BY DEF LInv, RegInv
<1>3. ASSUME NEW u \in Updaters(insts) \ agenda
      PROVE  /\ stm \in DefinedBy(comp, u[1].stm, u[2])
                  <=> HeadSyms(stm) \intersect KeyMatch(KeyOf(u)) # {}
             /\ KeyOf(u) \in DOMAIN index /\ KeyOf(u) \in KeyTable[KeyPred(KeyOf(u))]
             /\ \A s \in KeyMatch(KeyOf(u)) : PredOf(s) = KeyPred(KeyOf(u))
  <2>1. /\ u[1].stm \in DOMAIN Statements /\ u[2] \in Body(u[1].stm)
        /\ KeyMatch(KeyOf(u)) = LitSyms(u[1].stm, u[2])
        /\ KeyOf(u) \in KeyTable[KeyPred(KeyOf(u))]
        /\ \A s \in KeyMatch(KeyOf(u)) : PredOf(s) = KeyPred(KeyOf(u))
    BY UpdaterKey, PartStatements DEF GInv, Positive
  <2>2. KeyOf(u) \in DOMAIN index
    BY DEF HInv, IdxInv
  <2>3. stm \in ProviderTable[u[1].stm][u[2]]
          <=> HeadSyms(stm) \intersect LitSyms(u[1].stm, u[2]) # {}
    BY <1>1, <2>1, Tables
  <2>. QED  BY <2>1, <2>2, <2>3 DEF DefinedBy
<1>4. ASSUME NEW key \in PropKeys(stm)
      PROVE  key \in DOMAIN index /\ KeyPred(key) \in HeadPreds(stm) /\ key \in KeyTable[KeyPred(key)]
  <2>1. PICK e \in enqueueVec : e.stm = stm /\ e.key = key
    BY DEF PropKeys
  <2>2. PICK u \in Updaters(insts) \ agenda : \E t \in DefinedBy(comp, u[1].stm, u[2]) : e = Entry(u, t)
    BY <1>2 DEF Entries
  <2>3. stm \in DefinedBy(comp, u[1].stm, u[2]) /\ key = KeyOf(u)
    BY <2>1, <2>2 DEF Entry, KeyOf
  <2>4. PICK s \in HeadSyms(stm) : s \in KeyMatch(KeyOf(u))
    BY <1>3, <2>3
  <2>5. PredOf(s) = KeyPred(key)
    BY <1>3, <2>3, <2>4
  <2>6. KeyPred(key) \in HeadPreds(stm)
    BY <2>4, <2>5 DEF HeadPreds
  <2>. QED  BY <1>3, <2>3, <2>6
<1>5. ASSUME NEW u \in Updaters(insts) \ agenda, NEW s \in HeadSyms(stm), s \in KeyMatch(KeyOf(u))
      PROVE  KeyOf(u) \in PropKeys(stm)
  <2>1. stm \in DefinedBy(comp, u[1].stm, u[2])
    BY <1>3, <1>5
  <2>2. Entry(u, stm) \in enqueueVec
    BY <1>2, <2>1 DEF Entries
  <2>3. Entry(u, stm).stm = stm /\ Entry(u, stm).key = KeyOf(u)
    BY DEF Entry, KeyOf
  <2>. QED  BY <2>2, <2>3 DEF PropKeys
<1>. QED  BY <1>4, <1>5

LEMMA PropagateEffect ==
  ASSUME GInv, LInv, HInv, NEW x \in ran, Propagate(x)
  PROVE  /\ UNCHANGED <<comp, insts, agenda, current, pc>> /\ ran' = ran \ {x} /\ running' = {}
         /\ current = {} /\ pc = "iterate" /\ x.stm \in comp
         /\ HeadPreds(x.stm) \subseteq CompPreds /\ CompPreds \subseteq Preds
         /\ dom' = [p \in Preds |-> dom'[p]]
         /\ \A p \in Preds : dom'[p] =
              IF p \in HeadPreds(x.stm)
              THEN EnqueueDomain(MarkDelayed(dom[p], Passed(p, PropKeys(x.stm)))) ELSE dom[p]
         /\ index' = [key \in DOMAIN index |->
              IF key \in PropKeys(x.stm) THEN UpdateIndex(dom[KeyPred(key)], index[key])
              ELSE index[key]]
<1>1. /\ UNCHANGED <<comp, insts, agenda, current, pc>> /\ ran' = ran \ {x} /\ running' = {}
      /\ current = {} /\ pc = "iterate"
  BY DEF Propagate, compVars
<1>2. x.stm \in comp
  BY DEF GInv, QueueInv
<1>3. HeadPreds(x.stm) \subseteq CompPreds /\ CompPreds \subseteq Preds
  BY <1>2, CompPredsOf DEF CompPreds, GInv
<1>4. DOMAIN dom = Preds
  BY DEF GInv, DomInv
<1>5. /\ dom' = [p \in DOMAIN dom |->
           IF p \in HeadPreds(x.stm)
           THEN EnqueueDomain(MarkDelayed(dom[p], Passed(p, PropKeys(x.stm)))) ELSE dom[p]]
      /\ index' = [key \in DOMAIN index |->
           IF key \in PropKeys(x.stm) THEN UpdateIndex(dom[KeyPred(key)], index[key])
           ELSE index[key]]
  BY Zenon DEF Propagate, Passed, PropKeys
<1>6. /\ dom' = [p \in Preds |-> dom'[p]]
      /\ \A p \in Preds : dom'[p] =
              IF p \in HeadPreds(x.stm)
              THEN EnqueueDomain(MarkDelayed(dom[p], Passed(p, PropKeys(x.stm)))) ELSE dom[p]
  BY <1>4, <1>5
<1>. QED  BY <1>1, <1>2, <1>3, <1>5, <1>6

(* A domain that is enqueued: its generations and symbols stay. *)
LEMMA EnqueuedDomain ==
  ASSUME NEW p, NEW d, DomainOK(p, d), NEW os
  PROVE  LET e == EnqueueDomain(MarkDelayed(d, os)) IN
         /\ Becomes(p, d, e, {}) /\ Offsets(e) = Offsets(d)
         /\ e.enqueued = 2 /\ e.generation = d.generation
         /\ \A o \in Offsets(d) : e.atoms[o].gen = d.atoms[o].gen /\ e.atoms[o].sym = d.atoms[o].sym
<1> DEFINE m == MarkDelayed(d, os)
           e == EnqueueDomain(m)
<1>1. Becomes(p, d, e, {})
  BY PropagateStep
<1>2. DP!MarkDelayed(d, os) = m /\ DP!DomOK(d) /\ (\A f : DP!Offsets(f) = Offsets(f))
  BY SameMark, SameLookups DEF DomainOK
<1> HIDE DEF m
<1>3. /\ Offsets(m) = Offsets(d) /\ m.generation = d.generation /\ m \in DP!DomainRecord
      /\ \A o \in Offsets(d) : m.atoms[o].gen = d.atoms[o].gen /\ m.atoms[o].sym = d.atoms[o].sym
  BY <1>2, DP!MarkOK DEF DP!KeepsGenerations, DP!Grows, DP!DomOK
<1>4. e.atoms = m.atoms /\ e.enqueued = 2 /\ e.generation = m.generation
  BY <1>3 DEF EnqueueDomain, DP!DomainRecord
<1> HIDE DEF e
<1>5. Offsets(e) = Offsets(m)
  BY <1>4 DEF Offsets
<1>. QED  BY <1>1, <1>3, <1>4, <1>5 DEF e, m

LEMMA PropagateHStep ==
  ASSUME GInv, LInv, HInv, NEW x \in ran, Propagate(x)
  PROVE  HInv'
<1> DEFINE keys == PropKeys(x.stm)
<1>1. /\ UNCHANGED <<comp, insts, agenda, current, pc>> /\ ran' = ran \ {x} /\ running' = {}
      /\ current = {} /\ pc = "iterate" /\ x.stm \in comp
      /\ HeadPreds(x.stm) \subseteq CompPreds /\ CompPreds \subseteq Preds
      /\ dom' = [p \in Preds |-> dom'[p]]
      /\ \A p \in Preds : dom'[p] =
           IF p \in HeadPreds(x.stm) THEN EnqueueDomain(MarkDelayed(dom[p], Passed(p, keys)))
           ELSE dom[p]
      /\ index' = [key \in DOMAIN index |->
           IF key \in keys THEN UpdateIndex(dom[KeyPred(key)], index[key]) ELSE index[key]]
  BY PropagateEffect
<1>2. /\ \A key \in keys :
           key \in DOMAIN index /\ KeyPred(key) \in HeadPreds(x.stm) /\ key \in KeyTable[KeyPred(key)]
      /\ \A u \in Updaters(insts) \ agenda : \A s \in HeadSyms(x.stm) :
           s \in KeyMatch(KeyOf(u)) => KeyOf(u) \in keys
  BY <1>1, PropagateKeys
<1> HIDE DEF keys
<1>3. ASSUME NEW p \in Preds
      PROVE  /\ DomainOK(p, dom[p]) /\ Becomes(p, dom[p], dom'[p], {})
             /\ Offsets(dom'[p]) = Offsets(dom[p])
             /\ dom'[p].generation = dom[p].generation
             /\ dom'[p].enqueued = IF p \in HeadPreds(x.stm) THEN 2 ELSE dom[p].enqueued
             /\ \A o \in Offsets(dom[p]) : /\ dom'[p].atoms[o].gen = dom[p].atoms[o].gen
                                           /\ dom'[p].atoms[o].sym = dom[p].atoms[o].sym
  <2>1. DomainOK(p, dom[p])
    BY DEF GInv, DomInv
  <2>2. CASE p \in HeadPreds(x.stm)
    <3>1. dom'[p] = EnqueueDomain(MarkDelayed(dom[p], Passed(p, keys)))
      BY <1>1, <2>2
    <3>. QED  BY <2>1, <2>2, <3>1, EnqueuedDomain
  <2>3. CASE p \notin HeadPreds(x.stm)
    BY Zenon, <1>1, <2>1, <2>3, CounterSteps
  <2>. QED  BY <2>2, <2>3
<1>4. CompPreds' = CompPreds
  BY <1>1 DEF CompPreds
<1>5. EnqInv'
  <2>1. pc' = "iterate" /\ current' = {} /\ running' = {}
    BY <1>1
  <2>2. \A p \in Preds : dom'[p].enqueued > 0 => p \in CompPreds
    BY <1>1, <1>3 DEF HInv, EnqInv
  <2>. QED  BY <1>4, <2>1, <2>2 DEF EnqInv
<1>6. GenInv'
  <2>1. ASSUME NEW p \in CompPreds, NEW o \in Offsets(dom'[p])
        PROVE  /\ dom'[p].atoms[o].gen <= dom'[p].generation + 2
               /\ dom'[p].atoms[o].gen > dom'[p].generation + 1 =>
                    dom'[p].enqueued = 2 \/ \E y \in ran' : dom'[p].atoms[o].sym \in HeadSyms(y.stm)
    <3>1. /\ p \in Preds /\ o \in Offsets(dom[p])
          /\ dom'[p].atoms[o].gen = dom[p].atoms[o].gen
          /\ dom'[p].atoms[o].sym = dom[p].atoms[o].sym
          /\ dom'[p].generation = dom[p].generation
      BY <1>1, <1>3, <2>1
    <3>2. /\ dom[p].atoms[o].gen <= dom[p].generation + 2
          /\ dom[p].atoms[o].gen > dom[p].generation + 1 =>
               dom[p].enqueued = 2 \/ \E y \in ran : dom[p].atoms[o].sym \in HeadSyms(y.stm)
      BY <1>1, <3>1 DEF HInv, GenInv
    <3>3. dom[p].enqueued = 2 => dom'[p].enqueued = 2
      BY <1>3, <3>1
    <3>4. ASSUME NEW y \in ran, dom[p].atoms[o].sym \in HeadSyms(y.stm)
          PROVE  dom'[p].enqueued = 2 \/ \E z \in ran' : dom'[p].atoms[o].sym \in HeadSyms(z.stm)
      <4>1. CASE y = x
        <5>1. PredOf(dom[p].atoms[o].sym) = p
          BY <1>3, <3>1 DEF DomainOK
        <5>2. p \in HeadPreds(x.stm)
          BY <3>4, <4>1, <5>1 DEF HeadPreds
        <5>. QED  BY <1>3, <3>1, <5>2
      <4>2. CASE y # x
        BY <1>1, <3>1, <3>4, <4>2
      <4>. QED  BY <4>1, <4>2
    <3>. QED  BY <3>1, <3>2, <3>3, <3>4
  <2>. QED  BY <1>4, <2>1 DEF GenInv
(* The indices that are updated, and the others. *)
<1>7. ASSUME NEW key \in DOMAIN index
      PROVE  /\ KeyPred(key) \in Preds
             /\ index'[key].match = KeyMatch(key)
             /\ DP!IdxOK(dom'[KeyPred(key)], index'[key])
             /\ DP!BatchesDisjoint(index'[key])
             /\ key \in keys => Fresh(dom'[KeyPred(key)], index'[key]) = {}
             /\ key \notin keys =>
                  \A o \in Fresh(dom'[KeyPred(key)], index'[key]) :
                    /\ dom'[KeyPred(key)].atoms[o].sym \in KeyMatch(key)
                    /\ o \in Fresh(dom[KeyPred(key)], index[key])
                    /\ dom[KeyPred(key)].atoms[o].sym = dom'[KeyPred(key)].atoms[o].sym
  <2> DEFINE p == KeyPred(key)
             ix == index[key]
  <2>1. p \in Preds /\ ix.match = KeyMatch(key) /\ DP!IdxOK(dom[p], ix) /\ DP!BatchesDisjoint(ix)
    BY DEF HInv, IdxInv
  <2>2. DomainOK(p, dom[p]) /\ Becomes(p, dom[p], dom'[p], {})
    BY <1>3, <2>1
  <2>3. CASE key \in keys
    <3>1. p \in HeadPreds(x.stm)
      BY <1>2, <2>3
    <3>2. dom'[p] = EnqueueDomain(MarkDelayed(dom[p], Passed(p, keys)))
      BY <1>1, <2>1, <3>1
    <3>3. index'[key] = UpdateIndex(dom[p], ix)
      BY <1>1, <2>3
    <3>4. \A o \in Offsets(dom[p]) : o > ix.imported => o \in Passed(p, keys)
      BY <2>3 DEF Passed
    <3> HIDE DEF p, ix
    <3>5. /\ DP!IdxOK(dom'[p], index'[key]) /\ DP!BatchesDisjoint(index'[key])
          /\ Fresh(dom'[p], index'[key]) = {} /\ index'[key].match = ix.match
      BY <2>1, <2>2, <3>2, <3>3, <3>4, UpdatedIndex
    <3>. QED  BY <2>1, <2>3, <3>5 DEF p
  <2>4. CASE key \notin keys
    <3>1. index'[key] = ix
      BY <1>1, <2>4
    <3> HIDE DEF p, ix
    <3>2. /\ DP!IdxOK(dom'[p], ix)
          /\ \A o \in Fresh(dom'[p], ix) :
              /\ dom'[p].atoms[o].sym \in ix.match
              /\ o \in Fresh(dom[p], ix) /\ dom[p].atoms[o].sym = dom'[p].atoms[o].sym
      BY <2>1, <2>2, FreshBecomes
    <3>. QED  BY <2>1, <2>4, <3>1, <3>2 DEF p, ix
  <2>. QED  BY <2>3, <2>4
<1>8. (Updaters(insts) \ agenda)' = Updaters(insts) \ agenda
  BY <1>1, SameUpdaters
<1>9. IdxInv'
  <2>1. index' = [key \in DOMAIN index' |-> index'[key]] /\ DOMAIN index' = DOMAIN index
    BY <1>1
  <2>2. \A u \in Updaters(insts) \ agenda : KeyOf(u) \in DOMAIN index
    BY DEF HInv, IdxInv
  <2>. QED  BY <1>7, <1>8, <2>1, <2>2 DEF IdxInv
<1>10. FreshInv'
  <2>1. ASSUME NEW u \in Updaters(insts) \ agenda, ~IsMatcher(KeyOf(u)),
               NEW o \in Fresh(dom'[KeyPred(KeyOf(u))], index'[KeyOf(u)])
        PROVE  \E y \in ran' : dom'[KeyPred(KeyOf(u))].atoms[o].sym \in HeadSyms(y.stm)
    <3> DEFINE key == KeyOf(u)
               p == KeyPred(key)
               s == dom'[p].atoms[o].sym
    <3>1. key \in DOMAIN index
      BY DEF HInv, IdxInv
    <3>2. key \notin keys
      BY <1>7, <2>1, <3>1
    <3>3. s \in KeyMatch(key) /\ o \in Fresh(dom[p], index[key]) /\ dom[p].atoms[o].sym = s
      BY <1>7, <2>1, <3>1, <3>2
    <3>4. PICK y \in ran : s \in HeadSyms(y.stm)
      BY <2>1, <3>3 DEF HInv, FreshInv
    <3>5. y # x
      BY <1>2, <3>2, <3>3, <3>4
    <3>. QED  BY <1>1, <3>4, <3>5
  <2>. QED  BY <1>8, <2>1 DEF FreshInv
<1>. QED  BY <1>5, <1>6, <1>9, <1>10 DEF HInv

LEMMA HInvStep ==
  ASSUME GInv, LInv, HInv, [Next]_vars
  PROVE  HInv'
<1>1. CASE UNCHANGED vars
  BY <1>1, CalmSteps
<1>2. CASE Next
  BY <1>2, CalmSteps, AtomSteps, GenerationSteps, ComponentSteps, RegisterStep, EnqueueStep,
     PropagateHStep, EndHSteps DEF Next
<1>. QED  BY <1>1, <1>2

LEMMA DomainInvariance == Spec => [](GInv /\ LInv /\ HInv)
<1>1. Init => GInv /\ LInv /\ HInv
  BY InitGInv, InitLInv, InitHInv
<1>2. GInv /\ LInv /\ HInv /\ [Next]_vars => GInv' /\ LInv' /\ HInv'
  BY GInvStep, LInvStep, HInvStep
<1>. QED  BY <1>1, <1>2, PTL DEF Spec

-----------------------------------------------------------------------------
(* The steps of the grounder are steps of the domains *)

LEMMA SamePhase ==
  ASSUME NEW p, UNCHANGED <<pc, comp>>, dom'[p].enqueued = dom[p].enqueued
  PROVE  PhaseOf(p)' = PhaseOf(p)
BY DEF PhaseOf, CompPreds

LEMMA SameIndices ==
  ASSUME NEW p, UNCHANGED index
  PROVE  IndexOf(p)' = IndexOf(p)
BY DEF IndexOf

LEMMA SameLive ==
  ASSUME NEW p, (Updaters(insts) \ agenda)' = Updaters(insts) \ agenda
  PROVE  LiveKeys(p)' = LiveKeys(p)
BY DEF LiveKeys

LEMMA NoLive ==
  ASSUME NEW p
  PROVE  /\ insts = {} => LiveKeys(p) = {}
         /\ insts' = {} => LiveKeys(p)' = {}
<1>1. ASSUME insts = {} PROVE LiveKeys(p) = {}
  BY <1>1, NoUpdaters DEF LiveKeys
<1>2. ASSUME insts' = {} PROVE LiveKeys(p)' = {}
  <2>1. Updaters(insts)' = {}
    BY <1>2, NoUpdaters DEF Updaters
  <2>. QED  BY <2>1 DEF LiveKeys
<1>. QED  BY <1>1, <1>2

(* The domain of another predicate, or a step that is about facts. *)
LEMMA OtherDomain ==
  ASSUME NEW p, UNCHANGED <<index, pc, comp, insts, agenda>>,
         WithoutFacts(dom'[p]) = WithoutFacts(dom[p]), dom'[p].enqueued = dom[p].enqueued
  PROVE  DomainStep(p)
<1>1. (Updaters(insts) \ agenda)' = Updaters(insts) \ agenda
  BY SameUpdaters
<1>2. WithoutFacts(dom[p])' = WithoutFacts(dom[p])
  BY DEF WithoutFacts, Offsets
<1>. QED  BY <1>1, <1>2, SamePhase, SameIndices, SameLive, StutterOf DEF Stutters

(* Steps that leave domains and indices alone. *)
LEMMA StutterSteps ==
  ASSUME GInv, LInv, HInv, NEW p \in Preds,
         \/ UNCHANGED vars \/ BeginPrepare \/ BeginIteration
         \/ \E c \in {deps[s].comp : s \in DOMAIN deps} : StartComponent(c)
         \/ \E s \in comp : Linearize(s)
         \/ \E x \in current : RunInstantiator(x)
         \/ \E i \in left : TryInstance(i) \/ Backjump(i)
         \/ Mismatch \/ ReportBody
         \/ NextCall \/ Return
  PROVE  DomainStep(p)
<1>1. UNCHANGED <<dom, index>>
  BY Zenon DEF vars, BeginPrepare, BeginIteration, StartComponent, Linearize, RunInstantiator,
         TryInstance, Backjump, Mismatch, ReportBody, NextCall, Return, indexVars
<1>2. LiveKeys(p)' = LiveKeys(p)
  <2>1. CASE UNCHANGED <<insts, agenda>>
    BY <2>1, SameUpdaters, SameLive
  <2>2. CASE \E c \in {deps[s].comp : s \in DOMAIN deps} : StartComponent(c)
    <3>1. insts = {} /\ insts' = {}
      BY <2>2 DEF StartComponent, GInv, PhaseInv
    <3>. QED  BY <3>1, NoLive
  <2>3. CASE \E s \in comp : Linearize(s)
    BY <2>3, RegisteredUpdaters, SameLive
  <2>4. \/ UNCHANGED <<insts, agenda>>
        \/ \E c \in {deps[s].comp : s \in DOMAIN deps} : StartComponent(c)
        \/ \E s \in comp : Linearize(s)
    BY Zenon DEF vars, BeginPrepare, BeginIteration, RunInstantiator, TryInstance, Backjump, Mismatch,
           ReportBody, NextCall, Return, compVars
  <2>. QED  BY <2>1, <2>2, <2>3, <2>4
<1>3. PhaseOf(p)' = PhaseOf(p)
  <2>1. CASE pc \notin {"process", "iterate"} /\ pc' \notin {"process", "iterate"}
    BY <2>1 DEF PhaseOf
  <2>2. CASE UNCHANGED <<pc, comp>>
    BY <1>1, <2>2, SamePhase
  <2>3. CASE BeginIteration
    <3>1. pc = "process" /\ pc' = "iterate" /\ comp' = comp
      BY <2>3 DEF BeginIteration, compVars
    <3>2. dom[p].enqueued <= 1
      BY <3>1 DEF HInv, EnqInv
    <3>3. dom[p].enqueued # 2
      BY <3>2
    <3>. QED  BY <1>1, <3>1, <3>3 DEF PhaseOf, CompPreds
  <2>4. \/ pc \notin {"process", "iterate"} /\ pc' \notin {"process", "iterate"}
        \/ UNCHANGED <<pc, comp>>
        \/ BeginIteration
    <3>1. CASE BeginPrepare \/ NextCall \/ Return
      BY <3>1 DEF BeginPrepare, NextCall, Return
    <3>2. CASE (\E c \in {deps[s].comp : s \in DOMAIN deps} : StartComponent(c))
                 \/ \E s \in comp : Linearize(s)
      BY <3>2 DEF StartComponent, Linearize
    <3>3. CASE \/ UNCHANGED vars \/ Mismatch \/ ReportBody
               \/ \E i \in left : TryInstance(i) \/ Backjump(i)
               \/ \E x \in current : RunInstantiator(x)
      BY Zenon, <3>3 DEF vars, RunInstantiator, TryInstance, Backjump, Mismatch, ReportBody, compVars
    <3>. QED  BY <3>1, <3>2, <3>3
  <2>. QED  BY <2>1, <2>2, <2>3, <2>4
<1>4. WithoutFacts(dom[p])' = WithoutFacts(dom[p])
  BY <1>1
<1>. QED  BY <1>1, <1>2, <1>3, <1>4, SameIndices, StutterOf DEF Stutters

LEMMA NextStepMaps ==
  ASSUME GInv, LInv, HInv, NEW p \in Preds, BeginAddBackend \/ Prepared
  PROVE  DomainStep(p)
<1>1. /\ UNCHANGED <<index, insts, agenda>> /\ dom' = NextGeneration
      /\ pc \in {"call", "prepare"} /\ pc' \in {"backend", "ground"}
  BY DEF BeginAddBackend, Prepared, compVars, indexVars, instVars
<1>2. DomainOK(p, dom[p]) /\ dom[p] \in DP!DomainRecord /\ DOMAIN dom = Preds
  BY DEF GInv, DomInv, DomainOK, DP!DomOK
<1>3. dom'[p] = [dom[p] EXCEPT !.generation = @ + 1]
  BY <1>1, <1>2 DEF NextGeneration
<1>4. WithoutFacts(dom'[p]) = [WithoutFacts(dom[p]) EXCEPT !.generation = @ + 1]
  BY <1>2, <1>3, WithoutFactsCounters
<1>5. WithoutFacts(dom[p])' = [WithoutFacts(dom[p]) EXCEPT !.generation = @ + 1]
  BY <1>4
<1>6. WithoutFacts(dom[p]).generation \in Nat
  BY Zenon, <1>2, WithoutFactsFields, DomainParts DEF DomainOK
<1>7. PhaseOf(p) = "idle" /\ PhaseOf(p)' = "idle"
  BY <1>1 DEF PhaseOf
<1>8. LiveKeys(p) = {} /\ LiveKeys(p)' = {}
  <2>1. insts = {} /\ insts' = {}
    BY <1>1 DEF GInv, PhaseInv
  <2>. QED  BY <2>1, NoLive
<1>9. IndexOf(p)' = IndexOf(p)
  BY <1>1, SameIndices
<1>. QED  BY Zenon, <1>5, <1>6, <1>7, <1>8, <1>9, NextStepOf

(* A step that defines an atom. *)
LEMMA DefineMaps ==
  ASSUME GInv, LInv, HInv, NEW p \in Preds, NEW s \in UsedSyms, PredOf(s) \in Preds,
         UNCHANGED <<index, pc, comp, insts, agenda>>,
         NEW e, dom' = [dom EXCEPT ![PredOf(s)] = e],
         WithoutFacts(e) = Define(WithoutFacts(dom[PredOf(s)]), s),
         e.enqueued = dom[PredOf(s)].enqueued,
         PhaseOf(PredOf(s)) = "inst"
           \/ (PhaseOf(PredOf(s)) = "idle" /\ LiveKeys(PredOf(s)) = {})
  PROVE  DomainStep(p)
<1>1. DOMAIN dom = Preds
  BY DEF GInv, DomInv
<1>2. CASE p # PredOf(s)
  <2>1. dom'[p] = dom[p]
    BY <1>2
  <2>. QED  BY <2>1, OtherDomain
<1>3. CASE p = PredOf(s)
  <2>1. dom'[p] = e
    BY <1>1, <1>3
  <2>2. WithoutFacts(dom'[p]) = Define(WithoutFacts(dom[p]), s)
    BY <1>3, <2>1
  <2>3. WithoutFacts(dom[p])' = Define(WithoutFacts(dom[p]), s)
    BY <2>2
  <2>4. PhaseOf(p)' = PhaseOf(p)
    BY <1>3, <2>1, SamePhase
  <2>5. LiveKeys(p)' = LiveKeys(p) /\ IndexOf(p)' = IndexOf(p)
    BY SameUpdaters, SameLive, SameIndices
  <2>6. s \in SymTable[p]
    BY <1>3 DEF SymTable
  <2>. QED  BY <1>3, <2>3, <2>4, <2>5, <2>6, DefineAtomOf
<1>. QED  BY <1>2, <1>3

LEMMA DefiningMaps ==
  ASSUME GInv, LInv, HInv, NEW p \in Preds, NEW s \in todo, AddAtom(s) \/ DefineFact(s)
  PROVE  DomainStep(p)
<1> DEFINE q == PredOf(s)
           d == Define(dom[q], s)
           f == SetFact(d, Find(d, s))
<1>1. /\ UNCHANGED <<index, pc, comp, insts, agenda>>
      /\ pc \in {"backend", "prepare"} /\ insts = {} /\ s \in UsedSyms /\ q \in Preds
      /\ dom' = [dom EXCEPT ![q] = d] \/ dom' = [dom EXCEPT ![q] = f]
  BY DefiningEffect
<1>2. PhaseOf(q) = "idle" /\ LiveKeys(q) = {}
  BY <1>1, NoLive DEF PhaseOf
<1>3. DomainOK(q, dom[q]) /\ DP!DomOK(dom[q])
  BY <1>1 DEF GInv, DomInv, DomainOK
<1>4. /\ DomainOK(q, d) /\ Contains(d, s) /\ d.enqueued = dom[q].enqueued
      /\ f.enqueued = dom[q].enqueued
  BY <1>1, <1>3, DefineStep, CalmOperations DEF Becomes, Calm
<1>5. WithoutFacts(d) = Define(WithoutFacts(dom[q]), s)
  BY <1>1, <1>3, WithoutFactsDefine
<1> HIDE DEF d
<1>6. WithoutFacts(f) = WithoutFacts(d)
  BY <1>4, FindContained, WithoutFactsSetFact DEF DomainOK
<1> HIDE DEF f
<1>. QED  BY <1>1, <1>2, <1>4, <1>5, <1>6, DefineMaps

LEMMA ReportHeadMaps ==
  ASSUME GInv, LInv, HInv, NEW p \in Preds, ReportHead
  PROVE  DomainStep(p)
<1>1. UNCHANGED <<index, pc, comp, insts, agenda>> /\ running # {}
  BY ReportHeadEffect
<1>2. PICK x \in ran : \E s \in HeadSyms(x.stm) :
        /\ x.stm \in comp /\ s \in UsedSyms /\ PredOf(s) \in Preds
        /\ dom' = [dom EXCEPT ![PredOf(s)] = Define(dom[PredOf(s)], s)]
  BY ReportHeadEffect
<1>3. PICK s \in HeadSyms(x.stm) :
        /\ x.stm \in comp /\ s \in UsedSyms /\ PredOf(s) \in Preds
        /\ dom' = [dom EXCEPT ![PredOf(s)] = Define(dom[PredOf(s)], s)]
  BY Zenon, <1>2
<1> DEFINE q == PredOf(s)
           d == Define(dom[q], s)
<1>4. PhaseOf(q) = "inst"
  <2>1. pc = "iterate"
    BY <1>2 DEF GInv, PhaseInv
  <2>2. q \in CompPreds
    BY <1>3 DEF CompPreds, HeadPreds
  <2>3. dom[q].enqueued <= 1
    BY <1>1, <1>3 DEF HInv, EnqInv
  <2>4. dom[q].enqueued # 2
    BY <2>3
  <2>. QED  BY <2>1, <2>2, <2>4 DEF PhaseOf
<1>5. DomainOK(q, dom[q]) /\ DP!DomOK(dom[q])
  BY <1>3 DEF GInv, DomInv, DomainOK
<1>6. d.enqueued = dom[q].enqueued /\ WithoutFacts(d) = Define(WithoutFacts(dom[q]), s)
  BY Zenon, <1>3, <1>5, CalmOperations, WithoutFactsDefine DEF Calm
<1> HIDE DEF d
<1>7. dom' = [dom EXCEPT ![q] = d]
  BY <1>3 DEF d
<1>. QED  BY Zenon, <1>1, <1>3, <1>4, <1>6, <1>7, DefineMaps

LEMMA MatchNegativeMaps ==
  ASSUME GInv, LInv, HInv, NEW p \in Preds, MatchNegative
  PROVE  DomainStep(p)
<1>1. UNCHANGED <<index, pc, comp, insts, agenda>> /\ running # {}
  BY MatchNegativeEffect
<1>2. PICK s \in UsedSyms :
        /\ PredOf(s) \in Preds
        /\ dom' = dom \/ dom' = [dom EXCEPT ![PredOf(s)] = Reserve(dom[PredOf(s)], s)]
  BY MatchNegativeEffect
<1> DEFINE d == Reserve(dom[p], s)
<1>3. DOMAIN dom = Preds /\ DomainOK(p, dom[p]) /\ DP!DomOK(dom[p])
  BY DEF GInv, DomInv, DomainOK
<1>4. CASE dom'[p] = dom[p]
  BY <1>1, <1>4, OtherDomain
<1>5. CASE p = PredOf(s) /\ dom'[p] = d
  <2>1. d.enqueued = dom[p].enqueued /\ WithoutFacts(d) = Reserve(WithoutFacts(dom[p]), s)
    BY Zenon, <1>3, <1>5, CalmOperations, WithoutFactsReserve DEF Calm
  <2> HIDE DEF d
  <2>2. WithoutFacts(dom[p])' = Reserve(WithoutFacts(dom[p]), s)
    BY <1>5, <2>1
  <2>3. PhaseOf(p)' = PhaseOf(p)
    BY <1>1, <1>5, <2>1, SamePhase
  <2>4. LiveKeys(p)' = LiveKeys(p) /\ IndexOf(p)' = IndexOf(p)
    BY <1>1, SameUpdaters, SameLive, SameIndices
  <2>5. s \in SymTable[p]
    BY <1>5 DEF SymTable
  <2>6. PhaseOf(p) \in {"idle", "inst"}
    <3>1. dom[p].enqueued <= 1
      BY <1>1 DEF HInv, EnqInv
    <3>2. dom[p].enqueued # 2
      BY <3>1
    <3>. QED  BY <3>2 DEF PhaseOf
  <2>. QED  BY <2>2, <2>3, <2>4, <2>5, <2>6, ReserveAtomOf
<1>6. dom'[p] = dom[p] \/ (p = PredOf(s) /\ dom'[p] = d)
  BY <1>2, <1>3
<1>. QED  BY <1>4, <1>5, <1>6

LEMMA ReportRuleMaps ==
  ASSUME GInv, LInv, HInv, NEW p \in Preds, ReportRule
  PROVE  DomainStep(p)
<1>1. UNCHANGED <<index, pc, comp, insts, agenda>>
  BY ReportRuleEffect
<1>2. DOMAIN dom = Preds /\ DomainOK(p, dom[p]) /\ DP!DomOK(dom[p])
  BY DEF GInv, DomInv, DomainOK
<1>3. CASE dom'[p] = dom[p]
  BY <1>1, <1>3, OtherDomain
<1>4. CASE \E o \in Offsets(dom[p]) : dom'[p] = SetFact(dom[p], o)
  <2>1. PICK o \in Offsets(dom[p]) : dom'[p] = SetFact(dom[p], o)
    BY <1>4
  <2>2. WithoutFacts(dom'[p]) = WithoutFacts(dom[p]) /\ dom'[p].enqueued = dom[p].enqueued
    BY <1>2, <2>1, WithoutFactsSetFact, CalmOperations DEF Calm
  <2>. QED  BY <1>1, <2>2, OtherDomain
<1>5. dom'[p] = dom[p] \/ \E o \in Offsets(dom[p]) : dom'[p] = SetFact(dom[p], o)
  <2>1. CASE dom' = dom
    BY <2>1
  <2>2. CASE dom' # dom
    <3>1. PICK h \in UsedSyms :
            /\ PredOf(h) \in Preds /\ Contains(dom[PredOf(h)], h)
            /\ dom' = [dom EXCEPT ![PredOf(h)] =
                         SetFact(dom[PredOf(h)], Find(dom[PredOf(h)], h))]
      BY <2>2, ReportRuleEffect
    <3> DEFINE o == Find(dom[PredOf(h)], h)
    <3>2. o \in Offsets(dom[PredOf(h)])
      BY <3>1, FindContained
    <3> HIDE DEF o
    <3>3. dom' = [dom EXCEPT ![PredOf(h)] = SetFact(dom[PredOf(h)], o)]
      BY <3>1 DEF o
    <3>. QED  BY <1>2, <3>2, <3>3
  <2>. QED  BY <2>1, <2>2
<1>. QED  BY <1>3, <1>4, <1>5

LEMMA LiveKeysOf ==
  ASSUME NEW p
  PROVE  LiveKeys(p) =
           {key \in {KeyOf(u) : u \in Updaters(insts) \ agenda} : KeyPred(key) = p /\ ~IsMatcher(key)}
BY DEF LiveKeys, KeyOf

LEMMA RegisterMaps ==
  ASSUME GInv, LInv, HInv, NEW p \in Preds, RegisterLiteral
  PROVE  DomainStep(p)
<1>1. UNCHANGED insts /\ pc = "linearize" /\ pc' = "linearize"
  BY DEF RegisterLiteral, instVars
<1>2. PICK u \in agenda :
           LET key == KeyOf(u)
               q == KeyPred(key)
               ix == IF ~IsMatcher(key) /\ key \in DOMAIN index THEN index[key]
                     ELSE NewIndex(KeyMatch(key))
               v == IF IsMatcher(key) THEN ix ELSE UpdateIndex(dom[q], ix)
           IN /\ u \in Updaters(insts)
              /\ agenda' = agenda \ {u}
              /\ index' = [r \in DOMAIN index \union {key} |-> IF r = key THEN v ELSE index[r]]
              /\ dom' = IF IsMatcher(key) THEN dom ELSE [dom EXCEPT ![q] = PassedBy(dom[q], ix)]
              /\ DP!IdxOK(dom[q], ix) /\ DP!BatchesDisjoint(ix) /\ ix.match = KeyMatch(key)
              /\ DP!IdxOK(dom'[q], v) /\ DP!BatchesDisjoint(v) /\ v.match = KeyMatch(key)
              /\ ~IsMatcher(key) => Fresh(dom'[q], v) = {}
  BY RegisteredLiteral, Zenon
<1> DEFINE key == KeyOf(u)
           q == KeyPred(key)
           ix == IF ~IsMatcher(key) /\ key \in DOMAIN index THEN index[key]
                 ELSE NewIndex(KeyMatch(key))
           v == IF IsMatcher(key) THEN ix ELSE UpdateIndex(dom[q], ix)
<1>3. /\ u \in Updaters(insts)
      /\ agenda' = agenda \ {u}
      /\ index' = [r \in DOMAIN index \union {key} |-> IF r = key THEN v ELSE index[r]]
      /\ dom' = IF IsMatcher(key) THEN dom ELSE [dom EXCEPT ![q] = PassedBy(dom[q], ix)]
      /\ DP!IdxOK(dom[q], ix)
  BY <1>2
<1>4. q \in Preds /\ key \in KeyTable[q] /\ DomainOK(p, dom[p]) /\ DP!DomOK(dom[p]) /\ DOMAIN dom = Preds
  BY <1>3, UpdaterKey DEF GInv, DomInv, DomainOK
<1>5. (Updaters(insts) \ agenda)' = (Updaters(insts) \ agenda) \union {u}
  <2>1. Updaters(insts)' = Updaters(insts)
    BY <1>1 DEF Updaters
  <2>. QED  BY <1>3, <2>1
<1>6. LiveKeys(p)' = LiveKeys(p) \union (IF q = p /\ ~IsMatcher(key) THEN {key} ELSE {})
  <2>1. LiveKeys(p)' = {r \in {KeyOf(w) : w \in (Updaters(insts) \ agenda)'} :
                          KeyPred(r) = p /\ ~IsMatcher(r)}
    BY DEF LiveKeys, KeyOf
  <2>. QED  BY <1>5, <2>1, LiveKeysOf
<1>7. PhaseOf(p) = "idle" /\ PhaseOf(p)' = "idle"
  BY <1>1 DEF PhaseOf
<1>8. ix.imported \in Nat /\ ix.importedDelayed \in Nat
  BY <1>3, DP!IndexTypes DEF DP!IdxOK
<1>9. ~IsMatcher(key) => v = UpdateIndex(dom[q], ix)
  OBVIOUS
<1>10. IsMatcher(key) => v = NewIndex(KeyMatch(key))
  OBVIOUS
<1>11. ~IsMatcher(key) => ix = IF key \in DOMAIN index THEN index[key] ELSE NewIndex(KeyMatch(key))
  OBVIOUS
<1> HIDE DEF key, ix, v
<1>12. IndexOf(p)' = [IndexOf(p) EXCEPT ![key] = v]
  <2>1. IndexOf(p)' = [r \in KeyTable[p] |->
                         IF r \in DOMAIN index' THEN index'[r] ELSE NewIndex(KeyMatch(r))]
    BY DEF IndexOf
  <2>2. ASSUME NEW r \in KeyTable[p]
        PROVE  (IF r \in DOMAIN index' THEN index'[r] ELSE NewIndex(KeyMatch(r)))
                 = IF r = key THEN v ELSE IndexOf(p)[r]
    BY <1>3 DEF IndexOf
  <2>3. [IndexOf(p) EXCEPT ![key] = v] = [r \in KeyTable[p] |-> IF r = key THEN v ELSE IndexOf(p)[r]]
    BY Zenon DEF IndexOf
  <2>. QED  BY <2>1, <2>2, <2>3
<1>13. CASE q # p
  <2>1. IndexOf(p)' = IndexOf(p)
    <3>1. key \notin KeyTable[p]
      BY <1>13, TablePred DEF q
    <3>2. [IndexOf(p) EXCEPT ![key] = v] = IndexOf(p)
      BY <3>1 DEF IndexOf
    <3>. QED  BY <1>12, <3>2
  <2>2. dom'[p] = dom[p]
    BY <1>3, <1>4, <1>13
  <2>3. WithoutFacts(dom[p])' = WithoutFacts(dom[p])
    BY <2>2 DEF WithoutFacts, Offsets
  <2>. QED  BY Zenon, <1>6, <1>7, <1>13, <2>1, <2>3, StutterOf DEF Stutters
<1>14. CASE q = p /\ ~IsMatcher(key)
  <2>1. key \in KeyTable[p]
    BY <1>4, <1>14
  <2>2. IndexOf(p)[key] = ix
    BY <1>11, <1>14, <2>1 DEF IndexOf
  <2>3. dom'[p] = PassedBy(dom[p], ix)
    BY <1>3, <1>4, <1>14
  <2>4. /\ UpdateIndex(WithoutFacts(dom[p]), ix) = v
        /\ WithoutFacts(dom'[p]) = PassedBy(WithoutFacts(dom[p]), ix)
    BY <1>4, <1>8, <1>9, <1>14, <2>3, WithoutFactsIndex
  <2>5. WithoutFacts(dom[p])' = PassedBy(WithoutFacts(dom[p]), IndexOf(p)[key])
    BY <2>2, <2>4
  <2>6. IndexOf(p)' = [IndexOf(p) EXCEPT ![key] = UpdateIndex(WithoutFacts(dom[p]), IndexOf(p)[key])]
    BY <1>12, <2>2, <2>4
  <2>7. LiveKeys(p)' = LiveKeys(p) \union {key}
    BY <1>6, <1>14
  <2>. QED  BY <1>7, <2>1, <2>5, <2>6, <2>7, AddIndexOf
<1>15. CASE q = p /\ IsMatcher(key)
  <2>1. key \in KeyTable[p]
    BY <1>4, <1>15
  <2>2. key \notin LiveKeys(p)
    BY <1>15, LiveKeysOf
  <2>3. MatchTable[p][key] = KeyMatch(key)
    BY <2>1, TablePred
  <2>4. WithoutFacts(dom[p])' = WithoutFacts(dom[p])
    BY <1>3, <1>15
  <2>5. LiveKeys(p)' = LiveKeys(p)
    BY <1>6, <1>15
  <2>. QED  BY <1>7, <1>10, <1>12, <1>15, <2>1, <2>2, <2>3, <2>4, <2>5, NewMatcherOf
<1>. QED  BY <1>13, <1>14, <1>15

LEMMA EnqueueMaps ==
  ASSUME GInv, LInv, HInv, NEW p \in Preds, EnqueueComponent
  PROVE  DomainStep(p)
<1>1. /\ UNCHANGED <<index, comp, insts, agenda>> /\ pc = "linearize" /\ pc' = "process"
      /\ dom' = [q \in DOMAIN dom |-> IF q \in CompPreds THEN InitDomain(dom[q]) ELSE dom[q]]
  BY DEF EnqueueComponent, compVars, indexVars
<1>2. DOMAIN dom = Preds /\ DP!DomOK(dom[p])
  BY DEF GInv, DomInv, DomainOK
<1>3. dom'[p] = IF p \in CompPreds THEN InitDomain(dom[p]) ELSE dom[p]
  BY <1>1, <1>2
<1>4. LiveKeys(p)' = LiveKeys(p) /\ IndexOf(p)' = IndexOf(p)
  BY <1>1, SameUpdaters, SameLive, SameIndices
<1>5. PhaseOf(p) = "idle" /\ PhaseOf(p)' = IF p \in CompPreds THEN "inst" ELSE "idle"
  BY <1>1 DEF PhaseOf, CompPreds
<1>6. CASE p \in CompPreds
  <2>1. WithoutFacts(dom[p])' = InitDomain(WithoutFacts(dom[p]))
    <3>1. WithoutFacts(dom'[p]) = InitDomain(WithoutFacts(dom[p]))
      BY <1>2, <1>3, <1>6, WithoutFactsInit
    <3>. QED  BY <3>1
  <2>. QED  BY <1>4, <1>5, <1>6, <2>1, StartComponentOf
<1>7. CASE p \notin CompPreds
  <2>1. WithoutFacts(dom[p])' = WithoutFacts(dom[p])
    BY <1>3, <1>7
  <2>. QED  BY <1>4, <1>5, <1>7, <2>1, StutterOf DEF Stutters
<1>. QED  BY <1>6, <1>7

LEMMA PropagateMaps ==
  ASSUME GInv, LInv, HInv, NEW p \in Preds, NEW x \in ran, Propagate(x)
  PROVE  DomainStep(p)
<1> DEFINE keys == PropKeys(x.stm)
           is == {key \in keys : KeyPred(key) = p}
           os == Passed(p, keys)
<1>1. /\ UNCHANGED <<comp, insts, agenda, pc>> /\ pc = "iterate" /\ x.stm \in comp
      /\ HeadPreds(x.stm) \subseteq CompPreds
      /\ dom'[p] = IF p \in HeadPreds(x.stm) THEN EnqueueDomain(MarkDelayed(dom[p], os)) ELSE dom[p]
      /\ index' = [key \in DOMAIN index |->
           IF key \in keys THEN UpdateIndex(dom[KeyPred(key)], index[key]) ELSE index[key]]
  BY PropagateEffect
<1>2. \A key \in keys :
        key \in DOMAIN index /\ KeyPred(key) \in HeadPreds(x.stm) /\ key \in KeyTable[KeyPred(key)]
  BY <1>1, PropagateKeys
<1> HIDE DEF keys
<1>3. DomainOK(p, dom[p]) /\ DP!DomOK(dom[p])
  BY DEF GInv, DomInv, DomainOK
<1>4. LiveKeys(p)' = LiveKeys(p)
  BY <1>1, SameUpdaters, SameLive
<1>5. IndexOf(p)' = [key \in KeyTable[p] |->
           IF key \in is THEN UpdateIndex(WithoutFacts(dom[p]), IndexOf(p)[key])
           ELSE IndexOf(p)[key]]
  <2>1. IndexOf(p)' = [key \in KeyTable[p] |->
                         IF key \in DOMAIN index' THEN index'[key] ELSE NewIndex(KeyMatch(key))]
    BY DEF IndexOf
  <2>2. ASSUME NEW key \in KeyTable[p]
        PROVE  (IF key \in DOMAIN index' THEN index'[key] ELSE NewIndex(KeyMatch(key)))
                 = IF key \in is THEN UpdateIndex(WithoutFacts(dom[p]), IndexOf(p)[key])
                   ELSE IndexOf(p)[key]
    <3>1. KeyPred(key) = p /\ DOMAIN index' = DOMAIN index
      BY <1>1, TablePred
    <3>2. CASE key \notin DOMAIN index
      BY <1>2, <3>1, <3>2 DEF IndexOf
    <3>3. CASE key \in DOMAIN index
      <4>1. IndexOf(p)[key] = index[key]
        BY <3>3 DEF IndexOf
      <4>2. index[key].imported \in Nat /\ index[key].importedDelayed \in Nat
        BY <3>3, DP!IndexTypes DEF HInv, IdxInv, DP!IdxOK
      <4>3. UpdateIndex(WithoutFacts(dom[p]), index[key]) = UpdateIndex(dom[p], index[key])
        BY <1>3, <4>2, WithoutFactsIndex
      <4>. QED  BY <1>1, <3>1, <3>3, <4>1, <4>3
    <3>. QED  BY <3>2, <3>3
  <2>. QED  BY <2>1, <2>2
<1>6. CASE p \in HeadPreds(x.stm)
  <2>1. is \in SUBSET KeyTable[p]
    BY <1>2
  <2> DEFINE ps == {o \in Offsets(WithoutFacts(dom[p])) : \E key \in is : o > IndexOf(p)[key].imported}
  <2>2. ps = os
    <3>1. Offsets(WithoutFacts(dom[p])) = Offsets(dom[p])
      BY Zenon, <1>3, WithoutFactsFields DEF DP!DomOK
    <3>2. \A key \in is : IndexOf(p)[key] = index[key]
      BY <1>2, <2>1 DEF IndexOf
    <3>. QED  BY <3>1, <3>2 DEF Passed
  <2> HIDE DEF is, os, ps
  <2>3. WithoutFacts(dom'[p]) = EnqueueDomain(MarkDelayed(WithoutFacts(dom[p]), os))
    <3> DEFINE m == MarkDelayed(dom[p], os)
    <3>1. DomainOK(p, m) /\ WithoutFacts(m) = MarkDelayed(WithoutFacts(dom[p]), os)
      BY <1>3, MarkStep, WithoutFactsMark DEF Becomes
    <3>2. dom'[p] = EnqueueDomain(m)
      BY <1>1, <1>6
    <3> HIDE DEF m
    <3>3. m \in DP!DomainRecord
      BY <3>1 DEF DomainOK, DP!DomOK
    <3>. QED  BY Zenon, <3>1, <3>2, <3>3, WithoutFactsCounters
  <2>4. WithoutFacts(dom[p])' = EnqueueDomain(MarkDelayed(WithoutFacts(dom[p]), ps))
    BY <2>2, <2>3
  <2>5. PhaseOf(p) \in {"inst", "prop"} /\ PhaseOf(p)' = "prop"
    <3>1. p \in CompPreds /\ CompPreds' = CompPreds
      BY <1>1, <1>6 DEF CompPreds
    <3>2. dom'[p].enqueued = 2
      BY <1>1, <1>3, <1>6, EnqueuedDomain
    <3>. QED  BY <1>1, <3>1, <3>2 DEF PhaseOf
  <2>. QED  BY Zenon, <1>4, <1>5, <2>1, <2>4, <2>5, PropagateOf DEF ps
<1>7. CASE p \notin HeadPreds(x.stm)
  <2>1. is = {}
    BY <1>2, <1>7
  <2>2. IndexOf(p) = [key \in KeyTable[p] |-> IndexOf(p)[key]]
    BY DEF IndexOf
  <2>3. IndexOf(p)' = IndexOf(p)
    BY <1>5, <2>1, <2>2
  <2>4. dom'[p] = dom[p]
    BY <1>1, <1>7
  <2>5. WithoutFacts(dom[p])' = WithoutFacts(dom[p]) /\ PhaseOf(p)' = PhaseOf(p)
    BY <1>1, <2>4, SamePhase
  <2>. QED  BY <1>4, <2>3, <2>5, StutterOf DEF Stutters
<1>. QED  BY <1>6, <1>7

(* What the end of an iteration does to a domain without facts. *)
LEMMA AdvanceMaps ==
  ASSUME GInv, NEW p \in Preds, AdvanceEnqueuedDomains
  PROVE  LET w == WithoutFacts(dom[p]) IN
         /\ WithoutFacts(dom[p])' = IF w.enqueued > 0 THEN AdvanceDomain(w) ELSE w
         /\ w.enqueued = dom[p].enqueued /\ w.generation = dom[p].generation
         /\ w.generation \in Nat /\ w.enqueued \in 0..2
         /\ Offsets(w) = Offsets(dom[p])
         /\ \A o \in Offsets(w) : IsDefined(w, o) /\ Generation(w, o) > w.generation =>
              dom[p].atoms[o].gen > dom[p].generation + 1
<1> DEFINE w == WithoutFacts(dom[p])
<1>1. /\ dom'[p] = IF dom[p].enqueued > 0 THEN AdvanceDomain(dom[p]) ELSE dom[p]
      /\ dom[p].enqueued \in 0..2 /\ dom[p].generation \in Nat
  BY AdvanceStep DEF GInv
<1>2. DP!DomOK(dom[p]) /\ dom[p] \in DP!DomainRecord
  BY DEF GInv, DomInv, DomainOK, DP!DomOK
<1>3. /\ w.enqueued = dom[p].enqueued /\ w.generation = dom[p].generation
      /\ Offsets(w) = Offsets(dom[p])
      /\ \A o \in Offsets(dom[p]) : w.atoms[o].gen = dom[p].atoms[o].gen
  BY Zenon, <1>2, WithoutFactsFields
<1>4. WithoutFacts(AdvanceDomain(dom[p])) = AdvanceDomain(w)
  BY Zenon, <1>2, WithoutFactsCounters
<1> HIDE DEF w
<1>5. WithoutFacts(dom'[p]) = IF w.enqueued > 0 THEN AdvanceDomain(w) ELSE w
  BY <1>1, <1>3, <1>4 DEF w
<1>6. WithoutFacts(dom[p])' = IF w.enqueued > 0 THEN AdvanceDomain(w) ELSE w
  BY <1>5
<1>7. ASSUME NEW o \in Offsets(w), Generation(w, o) > w.generation
      PROVE  dom[p].atoms[o].gen > dom[p].generation + 1
  <2>1. dom[p].atoms[o].gen \in Nat
    BY <1>2, <1>3, DomainParts
  <2>2. dom[p].atoms[o].gen - 1 > dom[p].generation
    BY <1>3, <1>7 DEF Generation
  <2>. QED  BY <1>1, <2>1, <2>2
<1>. QED  BY <1>1, <1>3, <1>6, <1>7 DEF w

LEMMA EndIterationMaps ==
  ASSUME GInv, LInv, HInv, NEW p \in Preds, EndIteration
  PROVE  DomainStep(p)
<1> DEFINE w == WithoutFacts(dom[p])
<1>1. /\ UNCHANGED <<index, comp, insts, agenda>> /\ AdvanceEnqueuedDomains
      /\ pc = "iterate" /\ pc' = "process" /\ ran = {}
  BY DEF EndIteration, compVars, indexVars
<1>2. /\ w' = IF w.enqueued > 0 THEN AdvanceDomain(w) ELSE w
      /\ w.enqueued = dom[p].enqueued /\ w.generation \in Nat /\ w.enqueued \in 0..2
      /\ Offsets(w) = Offsets(dom[p])
      /\ \A o \in Offsets(w) : IsDefined(w, o) /\ Generation(w, o) > w.generation =>
           dom[p].atoms[o].gen > dom[p].generation + 1
  BY <1>1, AdvanceMaps
<1>3. LiveKeys(p)' = LiveKeys(p) /\ IndexOf(p)' = IndexOf(p)
  BY <1>1, SameUpdaters, SameLive, SameIndices
<1>4. DP!DomOK(dom[p])
  BY DEF GInv, DomInv, DomainOK
<1>5. CASE p \in CompPreds
  <2>1. PhaseOf(p) = (IF dom[p].enqueued = 2 THEN "prop" ELSE "inst") /\ PhaseOf(p)' = "inst"
    BY <1>1, <1>5 DEF PhaseOf, CompPreds
  <2>2. CASE dom[p].enqueued = 2
    <3>1. ASSUME NEW key \in LiveKeys(p) PROVE Fresh(w, IndexOf(p)[key]) = {}
      <4>1. PICK u \in Updaters(insts) \ agenda : key = KeyOf(u) /\ KeyPred(key) = p /\ ~IsMatcher(key)
        BY LiveKeysOf
      <4>2. key \in KeyTable[p]
        BY <4>1, UpdaterKey
      <4>3. key \in DOMAIN index /\ DP!IdxOK(dom[p], index[key])
        BY <4>1 DEF HInv, IdxInv
      <4>4. index[key].imported \in Nat /\ index[key].importedDelayed \in Nat
        BY <4>3, DP!IndexTypes DEF DP!IdxOK
      <4>5. Fresh(dom[p], index[key]) = {}
        BY <1>1, <4>1 DEF HInv, FreshInv
      <4>6. IndexOf(p)[key] = index[key]
        BY <4>2, <4>3 DEF IndexOf
      <4>. QED  BY <1>4, <4>4, <4>5, <4>6, WithoutFactsIndex
    <3>2. PhaseOf(p) = "prop" /\ w.enqueued = 2 /\ PhaseOf(p) \in {"inst", "prop"}
      BY <1>2, <2>1, <2>2
    <3>3. \A key \in LiveKeys(p) : Fresh(WithoutFacts(dom[p]), IndexOf(p)[key]) = {}
      BY <3>1
    <3>4. \/ \A o \in Offsets(WithoutFacts(dom[p])) :
               ~(IsDefined(WithoutFacts(dom[p]), o)
                   /\ Generation(WithoutFacts(dom[p]), o) > WithoutFacts(dom[p]).generation)
          \/ /\ PhaseOf(p) = "prop" /\ WithoutFacts(dom[p]).enqueued = 2
             /\ \A key \in LiveKeys(p) : Fresh(WithoutFacts(dom[p]), IndexOf(p)[key]) = {}
      BY <3>2, <3>3
    <3>5. /\ WithoutFacts(dom[p])' = IF WithoutFacts(dom[p]).enqueued > 0
               THEN AdvanceDomain(WithoutFacts(dom[p])) ELSE WithoutFacts(dom[p])
          /\ WithoutFacts(dom[p]).generation \in Nat
      BY <1>2
    <3>6. PhaseOf(p) \in {"inst", "prop"} /\ PhaseOf(p)' = "inst"
      BY <2>1, <3>2
    <3> HIDE DEF w
    <3>7. IndexOf(p)' = IndexOf(p) /\ LiveKeys(p)' = LiveKeys(p)
      BY <1>3
    <3>. QED  BY <3>4, <3>5, <3>6, <3>7, EndIterationOf
  <2>3. CASE dom[p].enqueued # 2
    <3>1. ASSUME NEW o \in Offsets(w), IsDefined(w, o), Generation(w, o) > w.generation
          PROVE  FALSE
      <4>1. o \in Offsets(dom[p]) /\ dom[p].atoms[o].gen > dom[p].generation + 1
        BY <1>2, <3>1
      <4>. QED  BY <1>1, <1>5, <2>3, <4>1, OpenAtoms
    <3>2. PhaseOf(p) \in {"inst", "prop"}
      BY <2>1
    <3> HIDE DEF w
    <3>. QED  BY <1>2, <1>3, <2>1, <3>1, <3>2, EndIterationOf DEF w
  <2>. QED  BY <2>2, <2>3
<1>6. CASE p \notin CompPreds
  <2>1. ~(dom[p].enqueued > 0)
    BY <1>6 DEF HInv, EnqInv
  <2>2. WithoutFacts(dom[p])' = WithoutFacts(dom[p])
    BY <1>2, <2>1
  <2>3. PhaseOf(p)' = PhaseOf(p)
    BY <1>1, <1>6 DEF PhaseOf, CompPreds
  <2>. QED  BY <1>3, <2>2, <2>3, StutterOf DEF Stutters
<1>. QED  BY <1>5, <1>6

LEMMA EndComponentMaps ==
  ASSUME GInv, LInv, HInv, NEW p \in Preds, EndComponent
  PROVE  DomainStep(p)
<1> DEFINE w == WithoutFacts(dom[p])
<1>1. /\ UNCHANGED index /\ AdvanceEnqueuedDomains /\ insts' = {}
      /\ pc = "process" /\ pc' = "ground"
  BY DEF EndComponent, indexVars
<1>2. /\ w' = IF w.enqueued > 0 THEN AdvanceDomain(w) ELSE w
      /\ w.enqueued = dom[p].enqueued /\ w.generation \in Nat /\ w.enqueued \in 0..2
      /\ Offsets(w) = Offsets(dom[p])
      /\ \A o \in Offsets(w) : IsDefined(w, o) /\ Generation(w, o) > w.generation =>
           dom[p].atoms[o].gen > dom[p].generation + 1
  BY <1>1, AdvanceMaps
<1>3. LiveKeys(p)' = {} /\ IndexOf(p)' = IndexOf(p)
  BY <1>1, NoLive, SameIndices
<1>4. ran = {}
  BY <1>1 DEF GInv, PhaseInv
<1>5. PhaseOf(p)' = "idle"
  BY <1>1 DEF PhaseOf
<1>6. CASE p \in CompPreds
  <2>1. PhaseOf(p) = "inst"
    BY <1>1, <1>6 DEF PhaseOf
  <2>2. ASSUME NEW o \in Offsets(w), IsDefined(w, o), Generation(w, o) > w.generation
        PROVE  FALSE
    <3>1. o \in Offsets(dom[p]) /\ dom[p].atoms[o].gen > dom[p].generation + 1
      BY <1>2, <2>2
    <3>2. pc = "iterate"
      BY <1>1, <1>4, <1>6, <3>1, OpenAtoms
    <3>. QED  BY <1>1, <3>2
  <2> HIDE DEF w
  <2>. QED  BY <1>2, <1>3, <1>5, <2>1, <2>2, EndComponentOf DEF w
<1>7. CASE p \notin CompPreds
  <2>1. ~(dom[p].enqueued > 0)
    BY <1>7 DEF HInv, EnqInv
  <2>2. w' = w
    BY <1>2, <2>1
  <2>3. PhaseOf(p) = "idle"
    BY <1>7 DEF PhaseOf
  <2>. QED  BY <1>3, <1>5, <2>2, <2>3, LeaveComponentOf
<1>. QED  BY <1>6, <1>7

(* Every step of the grounder is one of the domain of each predicate. *)
LEMMA StepMaps ==
  ASSUME GInv, LInv, HInv, [Next]_vars, NEW p \in Preds
  PROVE  DomainStep(p)
<1>1. CASE UNCHANGED vars
  BY <1>1, StutterSteps
<1>2. CASE Next
  BY <1>2, StutterSteps, NextStepMaps, DefiningMaps, RegisterMaps, EnqueueMaps, MatchNegativeMaps,
     ReportHeadMaps, ReportRuleMaps, PropagateMaps, EndIterationMaps, EndComponentMaps DEF Next
<1>. QED  BY <1>1, <1>2

LEMMA InitMaps ==
  ASSUME Init, NEW p \in Preds
  PROVE  DomainOf(p)!Init
<1>1. /\ dom = [q \in Preds |-> EmptyDomain] /\ index = <<>> /\ insts = {} /\ pc = "call"
  BY DEF Init
<1>2. dom[p] = EmptyDomain
  BY <1>1
<1>3. WithoutFacts(dom[p]) = DomainOf(p)!EmptyDomain
  BY <1>2, WithoutFactsEmpty, SameOfLookups
<1>4. LiveKeys(p) = {} /\ PhaseOf(p) = "idle"
  BY <1>1, NoLive DEF PhaseOf
<1>5. IndexOf(p) = [key \in KeyTable[p] |-> DomainOf(p)!NewIndex(MatchTable[p][key])]
  <2>1. DOMAIN index = {}
    BY <1>1
  <2>2. ASSUME NEW key \in KeyTable[p]
        PROVE  (IF key \in DOMAIN index THEN index[key] ELSE NewIndex(KeyMatch(key)))
                 = DomainOf(p)!NewIndex(MatchTable[p][key])
    <3>1. MatchTable[p][key] = KeyMatch(key)
      BY TablePred
    <3>2. DomainOf(p)!NewIndex(MatchTable[p][key]) = NewIndex(KeyMatch(key))
      BY <3>1, SameOfLookups
    <3>. QED  BY <2>1, <3>2
  <2>. QED  BY <2>2 DEF IndexOf
<1>. QED  BY <1>3, <1>4, <1>5 DEF DomainOf!Init, IndexOf

(* The grounder keeps the protocol of Domain with the domain of every      *)
(* predicate, for every program: so the indices that instantiators read    *)
(* through are exact, as DomainProofs shows for the domain.                *)
THEOREM SpecRefinesDomain == Spec => RefinesDomain
<1>1. ASSUME Init PROVE \A p \in Preds : DomainOf(p)!Init
  BY <1>1, InitMaps
<1>2. ASSUME GInv, LInv, HInv, [Next]_vars
      PROVE  [\A p \in PredTable[program] : UNCHANGED DomainOf(p)!vars \/ DomainOf(p)!Next]_vars
  <2>1. PredTable[program] \subseteq Preds
    BY <1>2 DEF PredTable, Preds, UsedSyms, GInv, CallInv
  <2>2. \A p \in PredTable[program] : DomainStep(p)
    BY <1>2, <2>1, StepMaps
  <2>. QED  BY <2>2 DEF DomainStep
<1>. QED  BY <1>1, <1>2, DomainInvariance, PTL DEF Spec, RefinesDomain

-----------------------------------------------------------------------------
(* Instances and the generations of their atoms *)

(* An atom of an earlier generation, and one of the current generation. *)
OldIn(d, s) == \E o \in Offsets(d) : d.atoms[o].sym = s /\ d.atoms[o].gen \in 1..d.generation
NowIn(d, s) == \E o \in Offsets(d) : d.atoms[o].sym = s /\ d.atoms[o].gen = d.generation + 1

IsOld(s) == OldIn(dom[PredOf(s)], s)
IsNow(s) == NowIn(dom[PredOf(s)], s)

Recursive(stm) == {k \in Positive(stm) : IsRecursive(stm, k)}

(* The recursive literals of an instance can be matched, ... *)
Visible(stm, i) ==
  \A k \in Recursive(stm) : IsOld(BodySym(stm, i, k)) \/ IsNow(BodySym(stm, i, k))

(* ... they are matched by an instantiator, ... *)
Fits(x, i) ==
  /\ Visible(x.stm, i)
  /\ \A k \in Recursive(x.stm) :
       /\ x.types[k] = "NEW" => IsNow(BodySym(x.stm, i, k))
       /\ x.types[k] = "OLD" => IsOld(BodySym(x.stm, i, k))

(* ... or one of them never is, because it is too old or too new. *)
Excluded(x, i) ==
  \E k \in Recursive(x.stm) :
    \/ x.types[k] = "NEW" /\ IsOld(BodySym(x.stm, i, k))
    \/ x.types[k] = "OLD" /\ IsNow(BodySym(x.stm, i, k))

LEMMA OldOrNow ==
  ASSUME NEW p, NEW d, DomainOK(p, d), NEW s
  PROVE  ~(OldIn(d, s) /\ NowIn(d, s))
<1> SUFFICES ASSUME OldIn(d, s), NowIn(d, s) PROVE FALSE
  OBVIOUS
<1>1. PICK o \in Offsets(d) : d.atoms[o].sym = s /\ d.atoms[o].gen \in 1..d.generation
  BY DEF OldIn
<1>2. PICK q \in Offsets(d) : d.atoms[q].sym = s /\ d.atoms[q].gen = d.generation + 1
  BY DEF NowIn
<1>3. o = q
  BY <1>1, <1>2 DEF DomainOK, Distinct
<1>4. d.generation \in Nat
  BY DomainParts DEF DomainOK
<1>. QED  BY <1>1, <1>2, <1>3, <1>4

(* Steps that keep the generation of a domain and of its atoms. *)
LEMMA GensKept ==
  ASSUME NEW d, NEW e, e.generation = d.generation, Offsets(d) \subseteq Offsets(e),
         \A o \in Offsets(d) :
           e.atoms[o].sym = d.atoms[o].sym /\ (d.atoms[o].gen # 0 => e.atoms[o].gen = d.atoms[o].gen),
         d.generation \in Nat, NEW s
  PROVE  /\ OldIn(d, s) => OldIn(e, s)
         /\ NowIn(d, s) => NowIn(e, s)
<1>1. ASSUME OldIn(d, s) PROVE OldIn(e, s)
  <2>1. PICK o \in Offsets(d) : d.atoms[o].sym = s /\ d.atoms[o].gen \in 1..d.generation
    BY <1>1 DEF OldIn
  <2>2. d.atoms[o].gen # 0
    BY <2>1
  <2>. QED  BY <2>1, <2>2 DEF OldIn
<1>2. ASSUME NowIn(d, s) PROVE NowIn(e, s)
  <2>1. PICK o \in Offsets(d) : d.atoms[o].sym = s /\ d.atoms[o].gen = d.generation + 1
    BY <1>2 DEF NowIn
  <2>2. d.atoms[o].gen # 0
    BY <2>1
  <2>. QED  BY <2>1, <2>2 DEF NowIn
<1>. QED  BY <1>1, <1>2

LEMMA CalmGens ==
  ASSUME NEW p, NEW d, DomainOK(p, d), NEW e, NEW S, Calm(p, d, e, S), NEW s
  PROVE  /\ OldIn(d, s) => OldIn(e, s)
         /\ NowIn(d, s) => NowIn(e, s)
<1>1. /\ DP!Grows(d, e) /\ DP!KeepsGenerations(d, e) /\ DomainOK(p, e)
      /\ DP!Offsets(d) = Offsets(d) /\ DP!Offsets(e) = Offsets(e)
  BY SameLookups DEF Calm, Becomes
<1>2. /\ d.generation \in Nat /\ Len(d.atoms) \in Nat /\ Len(e.atoms) \in Nat
      /\ \A o \in Offsets(d) : d.atoms[o].gen \in Nat
  BY <1>1, DomainParts DEF DomainOK
<1>3. Offsets(d) \subseteq Offsets(e) /\ e.generation = d.generation
  BY <1>1, <1>2 DEF Offsets, DP!Grows, DP!KeepsGenerations
<1>4. ASSUME NEW o \in Offsets(d)
      PROVE  e.atoms[o].sym = d.atoms[o].sym /\ (d.atoms[o].gen # 0 => e.atoms[o].gen = d.atoms[o].gen)
  <2>1. e.atoms[o].sym = d.atoms[o].sym /\ (d.atoms[o].gen > 0 => e.atoms[o].gen > 0)
    BY <1>1 DEF DP!Grows
  <2>2. \/ e.atoms[o].gen = 0
        \/ o \in Offsets(d) /\ e.atoms[o].gen = d.atoms[o].gen
        \/ e.atoms[o].gen = d.generation + 2 /\ (o \in Offsets(d) => d.atoms[o].gen = 0)
    BY <1>1, <1>3 DEF DP!KeepsGenerations
  <2>3. d.atoms[o].gen \in Nat
    BY <1>2
  <2>. QED  BY <2>1, <2>2, <2>3
<1>. QED  BY Zenon, <1>2, <1>3, <1>4, GensKept

(* The next generation of a domain. *)
LEMMA PassedGens ==
  ASSUME NEW p, NEW d, DomainOK(p, d), NEW e, Offsets(e) = Offsets(d), e.atoms = d.atoms, NEW s,
         \/ d.enqueued > 0 /\ e.generation = d.generation + 1
         \/ e.generation = d.generation,
         OldIn(d, s) \/ NowIn(d, s)
  PROVE  /\ OldIn(e, s) \/ NowIn(e, s)
         /\ e.generation = d.generation + 1 => OldIn(e, s)
<1>1. PICK o \in Offsets(d) : /\ d.atoms[o].sym = s
                              /\ d.atoms[o].gen \in 1..d.generation \/ d.atoms[o].gen = d.generation + 1
  BY DEF OldIn, NowIn
<1>2. d.generation \in Nat /\ d.atoms[o].gen \in Nat
  BY DomainParts DEF DomainOK
<1>3. CASE e.generation = d.generation + 1
  <2>1. d.atoms[o].gen \in 1..e.generation
    BY <1>1, <1>2, <1>3
  <2>. QED  BY <1>1, <2>1 DEF OldIn
<1>4. CASE e.generation = d.generation
  BY <1>1, <1>2, <1>4 DEF OldIn, NowIn
<1>. QED  BY <1>3, <1>4

-----------------------------------------------------------------------------
(* What an instantiator matches *)

(* The literals of a component are provided by it, or by what is done. *)
CompInv == \A stm \in comp : DependsPositively(Part.stms, stm) \subseteq done \union comp

(* Of atoms of the component an index that is read has no later ones. *)
ContentInv ==
  current \union running # {} =>
    \A key \in DOMAIN index : KeyPred(key) \in CompPreds =>
      \A o \in Content(index[key]) :
        dom[KeyPred(key)].atoms[o].gen <= dom[KeyPred(key)].generation + 1

LEMMA RecursiveLiteral ==
  ASSUME GInv, CompInv, NEW stm \in comp, NEW k \in Recursive(stm)
  PROVE  /\ stm \in Part.stms /\ k \in Positive(stm) /\ k \in Body(stm)
         /\ LitPred(stm, k) \in CompPreds /\ LitPred(stm, k) \in Preds
         /\ \A i \in Instances(stm) :
              /\ BodySym(stm, i, k) \in LitSyms(stm, k)
              /\ PredOf(BodySym(stm, i, k)) = LitPred(stm, k)
<1>1. stm \in Part.stms /\ k \in Positive(stm) /\ k \in Body(stm) /\ stm \in DOMAIN Statements
  BY PartStatements DEF GInv, CallInv, Recursive, Positive
<1>2. PICK t \in Part.stms \ done : t \in ProviderTable[stm][k]
  BY DEF Recursive, IsRecursive, DefinedBy
<1>3. t \in DependsPositively(Part.stms, stm)
  BY <1>1, <1>2 DEF DependsPositively, DefinedBy
<1>4. t \in comp
  BY <1>2, <1>3 DEF CompInv
<1>5. t \in DOMAIN Statements
  BY <1>2, PartStatements DEF GInv
<1>6. PICK s \in HeadSyms(t) : s \in LitSyms(stm, k)
  BY <1>1, <1>2, <1>5, Tables
<1>7. PredOf(s) = LitPred(stm, k)
  BY <1>1, <1>6, LiteralPred
<1>8. LitPred(stm, k) \in CompPreds
  BY <1>4, <1>6, <1>7 DEF CompPreds, HeadPreds
<1>9. LitPred(stm, k) \in Preds
  BY <1>8, CompPredsOf DEF GInv
<1>10. ASSUME NEW i \in Instances(stm)
       PROVE  BodySym(stm, i, k) \in LitSyms(stm, k) /\ PredOf(BodySym(stm, i, k)) = LitPred(stm, k)
  BY <1>1, StatementSyms, LiteralPred DEF GInv
<1>. QED  BY <1>1, <1>8, <1>9, <1>10

(* The types of the literals of an instantiator. *)
LEMMA LiteralTypes ==
  ASSUME NEW x, IsInstantiator(x)
  PROVE  /\ \A k \in Positive(x.stm) : x.types[k] \in {"NEW", "OLD", "ALL"}
         /\ \A k \in Positive(x.stm) : x.types[k] \in {"NEW", "OLD"} => k \in Recursive(x.stm)
         /\ \A k \in Recursive(x.stm) : IsRecursive(x.stm, k) /\ k \in Positive(x.stm)
<1> DEFINE rec == {k \in Positive(x.stm) : IsRecursive(x.stm, k)}
           types(n) == [k \in Positive(x.stm) |->
             IF k \notin rec \/ k > n THEN "ALL" ELSE IF k = n THEN "NEW" ELSE "OLD"]
<1>1. x.types \in (IF rec = {} THEN {types(0)} ELSE {types(n) : n \in rec})
  BY DEF IsInstantiator, BinderTypes
<1>2. PICK n : x.types = types(n)
  BY <1>1
<1>. QED  BY <1>2 DEF Recursive

(* The instantiators of a statement: of two of them, one has a literal NEW *)
(* that the other one has OLD.                                             *)
LEMMA OtherTypes ==
  ASSUME NEW x, NEW y, IsInstantiator(x), IsInstantiator(y), x.stm = y.stm, x.types # y.types,
         Positive(x.stm) \subseteq Int
  PROVE  \E k \in Recursive(x.stm) :
           \/ x.types[k] = "NEW" /\ y.types[k] = "OLD"
           \/ x.types[k] = "OLD" /\ y.types[k] = "NEW"
<1> DEFINE rec == Recursive(x.stm)
           types(n) == [k \in Positive(x.stm) |->
             IF k \notin rec \/ k > n THEN "ALL" ELSE IF k = n THEN "NEW" ELSE "OLD"]
<1>1. BinderTypes(x.stm) = IF rec = {} THEN {types(0)} ELSE {types(n) : n \in rec}
  BY DEF BinderTypes, Recursive
<1>2. x.types \in BinderTypes(x.stm) /\ y.types \in BinderTypes(x.stm)
  BY DEF IsInstantiator
<1>3. rec # {}
  BY <1>1, <1>2
<1>4. PICK n \in rec : x.types = types(n)
  BY <1>1, <1>2, <1>3
<1>5. PICK m \in rec : y.types = types(m)
  BY <1>1, <1>2, <1>3
<1>6. n # m /\ n \in Int /\ m \in Int /\ n \in Positive(x.stm) /\ m \in Positive(x.stm)
  BY <1>4, <1>5 DEF Recursive
<1>7. CASE n < m
  BY <1>4, <1>5, <1>6, <1>7
<1>8. CASE m < n
  BY <1>4, <1>5, <1>6, <1>8
<1>. QED  BY <1>6, <1>7, <1>8

(* The binder of a recursive literal: an updater or a matcher of atoms. *)
LEMMA RecursiveBinder ==
  ASSUME GInv, LInv, HInv, CompInv, agenda = {}, NEW x \in insts, NEW k \in Recursive(x.stm)
  PROVE  LET b == x.binders[k] IN
         \/ /\ b.kind = "index" /\ b.key \in DOMAIN index
            /\ KeyPred(b.key) = LitPred(x.stm, k)
         \/ b.kind = "posmatcher"
<1>1. /\ x.stm \in comp /\ IsInstantiator(x) /\ k \in Positive(x.stm) /\ IsRecursive(x.stm, k)
  BY DEF GInv, QueueInv, LInv, Recursive
<1>2. x.binders[k] = Binder(x.stm, x.order, k)
  BY <1>1 DEF IsInstantiator
<1>3. CASE x.binders[k].kind = "index"
  <2> DEFINE u == <<x, k>>
  <2>1. u \in Updaters(insts) \ agenda
    BY <1>1, <1>3 DEF Updaters
  <2>2. KeyOf(u) \in DOMAIN index
    BY <2>1 DEF HInv, IdxInv
  <2>3. /\ KeyMatch(KeyOf(u)) = LitSyms(u[1].stm, u[2])
        /\ \A s \in KeyMatch(KeyOf(u)) : PredOf(s) = KeyPred(KeyOf(u))
    BY <2>1, UpdaterKey
  <2>4. u[1] = x /\ u[2] = k /\ KeyOf(u) = x.binders[k].key
    BY DEF KeyOf
  <2> HIDE DEF u
  <2>5. x.stm \in DOMAIN Statements /\ k \in Body(x.stm)
    BY <1>1, PartStatements DEF GInv, CallInv, Positive
  <2>6. /\ BodySym(x.stm, 1, k) \in LitSyms(x.stm, k)
        /\ PredOf(BodySym(x.stm, 1, k)) = LitPred(x.stm, k)
    BY <2>5, LiteralPred
  <2>7. KeyPred(KeyOf(u)) = LitPred(x.stm, k)
    BY <2>3, <2>4, <2>6
  <2>. QED  BY <1>3, <2>2, <2>4, <2>7
<1>4. CASE x.binders[k].kind # "index"
  BY <1>1, <1>2, <1>4 DEF Binder
<1>. QED  BY <1>3, <1>4

(* A recursive literal that matches is old or new as the instantiator      *)
(* requires.                                                               *)
LEMMA LiteralFits ==
  ASSUME GInv, LInv, HInv, CompInv, ContentInv, agenda = {}, current \union running # {},
         NEW x \in insts, NEW i \in Instances(x.stm), NEW k \in Recursive(x.stm),
         Matches(x, k, BodySym(x.stm, i, k))
  PROVE  LET s == BodySym(x.stm, i, k) IN
         /\ IsOld(s) \/ IsNow(s)
         /\ x.types[k] = "NEW" => IsNow(s)
         /\ x.types[k] = "OLD" => IsOld(s)
<1> DEFINE s == BodySym(x.stm, i, k)
           p == LitPred(x.stm, k)
           d == dom[p]
           b == x.binders[k]
           ix == index[b.key]
           t == x.types[k]
<1>1. /\ x.stm \in comp /\ IsInstantiator(x)
  BY DEF GInv, QueueInv, LInv
<1>2. /\ k \in Positive(x.stm) /\ p \in CompPreds /\ p \in Preds /\ PredOf(s) = p
  BY <1>1, RecursiveLiteral
<1>3. t \in {"NEW", "OLD", "ALL"}
  BY <1>1, <1>2, LiteralTypes
<1>4. DomainOK(p, d) /\ d.generation \in Nat /\ \A o \in Offsets(d) : d.atoms[o].gen \in Nat
  BY <1>2, DomainParts DEF GInv, DomInv, DomainOK
<1>5. \/ b.kind = "index" /\ b.key \in DOMAIN index /\ KeyPred(b.key) = p
      \/ b.kind = "posmatcher"
  BY RecursiveBinder
<1>6. Matches(x, k, s)
  OBVIOUS
<1> HIDE DEF s, p
<1>7. \E o \in Offsets(d) :
        /\ d.atoms[o].sym = s /\ d.atoms[o].gen \in 1..d.generation + 1
        /\ t = "NEW" => d.atoms[o].gen = d.generation + 1
        /\ t = "OLD" => d.atoms[o].gen \in 1..d.generation
  <2>1. CASE b.kind = "index" /\ b.key \in DOMAIN index /\ KeyPred(b.key) = p
    <3>1. PICK o : /\ d.atoms[o].sym = s
                   /\ o \in (CASE t = "NEW" -> LookupNew(d, ix)
                               [] t = "OLD" -> LookupOld(d, ix)
                               [] t = "ALL" -> LookupAll(ix))
      BY Zenon, <1>2, <1>6, <2>1 DEF Matches
    <3>2. /\ o \in Content(ix)
          /\ t = "NEW" => d.atoms[o].gen - 1 >= d.generation
          /\ t = "OLD" => d.atoms[o].gen - 1 < d.generation
      BY <1>3, <3>1 DEF LookupNew, LookupOld, LookupAll, Generation
    <3>3. d.atoms[o].gen <= d.generation + 1
      BY <1>2, <2>1, <3>2 DEF ContentInv
    <3>4. o \in Offsets(d) /\ d.atoms[o].gen > 0
      <4>1. DP!IdxOK(d, ix)
        BY <2>1 DEF HInv, IdxInv
      <4>2. Content(ix) = DP!Imported(d, ix) /\ DP!Offsets(d) = Offsets(d)
        BY <4>1, SameContent, SameLookups DEF DP!IdxOK
      <4>. QED  BY <3>2, <4>2 DEF DP!Imported
    <3>5. d.atoms[o].gen \in Nat
      BY <1>4, <3>4
    <3>. QED  BY <1>4, <3>1, <3>2, <3>3, <3>4, <3>5
  <2>2. CASE b.kind = "posmatcher"
    <3>1. PICK o : /\ d.atoms[o].sym = s
                   /\ o \in (CASE t = "NEW" -> MatchNew(d, {s})
                               [] t = "OLD" -> MatchOld(d, {s})
                               [] t = "ALL" -> MatchAll(d, {s}))
      BY Zenon, <1>2, <1>6, <2>2 DEF Matches
    <3>2. /\ o \in Offsets(d) /\ d.atoms[o].gen > 0 /\ d.atoms[o].gen - 1 <= d.generation
          /\ t = "NEW" => d.atoms[o].gen - 1 = d.generation
          /\ t = "OLD" => d.atoms[o].gen - 1 < d.generation
      BY <1>3, <1>4, <3>1 DEF MatchNew, MatchOld, MatchAll, Generation, IsDefined
    <3>3. d.atoms[o].gen \in Nat
      BY <1>4, <3>2
    <3>. QED  BY <1>4, <3>1, <3>2, <3>3
  <2>. QED  BY <1>5, <2>1, <2>2
<1>8. PICK o \in Offsets(d) :
        /\ d.atoms[o].sym = s /\ d.atoms[o].gen \in 1..d.generation + 1
        /\ t = "NEW" => d.atoms[o].gen = d.generation + 1
        /\ t = "OLD" => d.atoms[o].gen \in 1..d.generation
  BY <1>7
<1>9. d.atoms[o].gen = d.generation + 1 \/ d.atoms[o].gen \in 1..d.generation
  BY <1>4, <1>8
<1>10. IsOld(s) = OldIn(d, s) /\ IsNow(s) = NowIn(d, s)
  BY <1>2 DEF IsOld, IsNow
<1>11. /\ OldIn(d, s) \/ NowIn(d, s)
       /\ t = "NEW" => NowIn(d, s)
       /\ t = "OLD" => OldIn(d, s)
  BY <1>8, <1>9 DEF OldIn, NowIn
<1>. QED  BY <1>10, <1>11 DEF s

LEMMA MatchedFits ==
  ASSUME GInv, LInv, HInv, CompInv, ContentInv, agenda = {}, current \union running # {},
         NEW x \in insts, NEW i \in Instances(x.stm), Fails(x, i) = {}
  PROVE  Fits(x, i)
<1>1. ASSUME NEW k \in Recursive(x.stm) PROVE Matches(x, k, BodySym(x.stm, i, k))
  BY DEF Recursive, Fails
<1>. QED  BY <1>1, LiteralFits DEF Fits, Visible

(* What fits one instantiator is excluded from itself next time, ... *)
LEMMA FitsNotExcluded ==
  ASSUME GInv, CompInv, NEW x, x.stm \in comp, NEW i \in Instances(x.stm)
  PROVE  ~(Fits(x, i) /\ Excluded(x, i))
<1> SUFFICES ASSUME Fits(x, i), Excluded(x, i) PROVE FALSE
  OBVIOUS
<1>1. PICK k \in Recursive(x.stm) :
        \/ x.types[k] = "NEW" /\ IsOld(BodySym(x.stm, i, k))
        \/ x.types[k] = "OLD" /\ IsNow(BodySym(x.stm, i, k))
  BY DEF Excluded
<1> DEFINE s == BodySym(x.stm, i, k)
<1>2. IsOld(s) /\ IsNow(s)
  BY <1>1 DEF Fits
<1>3. PredOf(s) \in Preds
  BY RecursiveLiteral
<1>. QED  BY <1>2, <1>3, OldOrNow DEF IsOld, IsNow, GInv, DomInv

(* ... and from the other instantiators of its statement at once. *)
LEMMA OthersExclude ==
  ASSUME GInv, NEW x, NEW y, IsInstantiator(x), IsInstantiator(y), x.stm = y.stm,
         x.types # y.types, x.stm \in DOMAIN Statements, NEW i, Fits(x, i)
  PROVE  Excluded(y, i)
<1>1. Positive(x.stm) \subseteq Int
  BY StatementsAssumption DEF Positive, Body
<1>2. PICK k \in Recursive(x.stm) :
        \/ x.types[k] = "NEW" /\ y.types[k] = "OLD"
        \/ x.types[k] = "OLD" /\ y.types[k] = "NEW"
  BY <1>1, OtherTypes
<1>. QED  BY <1>2 DEF Fits, Excluded

-----------------------------------------------------------------------------
(* No instance twice *)

(* Of the instantiators of a statement no two match the same generations. *)
UniqueInv == \A x, y \in insts : x.stm = y.stm /\ x.types = y.types => x = y

(* What was reported of the component could be matched. *)
MatchedInv ==
  \A m \in matched :
    /\ m[1] \in done \/ (m[1] \in comp /\ pc \in {"process", "iterate"})
    /\ m[1] \in comp => m[2] \in Instances(m[1]) /\ Visible(m[1], m[2])

(* An instantiator is queued for a domain that goes to the next generation *)
(* before it runs.                                                         *)
QueuedInv ==
  pc = "iterate" =>
    \A x \in queued : \E k \in Positive(x.stm) :
      x.types[k] = "NEW" /\ dom[LitPred(x.stm, k)].enqueued = 2

(* What was reported is excluded from the instantiators still to run, ...  *)
Waiting == IF pc = "process" THEN queued ELSE current

WaitInv ==
  \A x \in Waiting : \A i \in Instances(x.stm) : <<x.stm, i>> \in matched => Excluded(x, i)

(* ... and from the instances the running one has still to report.         *)
TryInv ==
  \A x \in running :
    /\ x \notin current
    /\ \A i \in left : <<x.stm, i>> \in matched => Excluded(x, i)
    /\ \A w \in work :
         /\ w.inst \notin left
         /\ w.stage = "match" =>
              /\ <<x.stm, w.inst>> \in matched => Excluded(x, w.inst)
              /\ w.complete => Fits(x, w.inst)

NInv ==
  CompInv /\ UniqueInv /\ MatchedInv /\ QueuedInv /\ ContentInv /\ WaitInv /\ TryInv

(* Steps outside of components. *)
LEMMA OutsideStep ==
  ASSUME comp' = {}, insts' = {}, current' = {}, running' = {}, queued' = {},
         pc' \notin {"process", "iterate"}, \A m \in matched' : m[1] \in done'
  PROVE  NInv'
BY DEF NInv, CompInv, UniqueInv, MatchedInv, QueuedInv, ContentInv, Waiting, WaitInv, TryInv

LEMMA InitNInv == Init => NInv
<1> SUFFICES ASSUME Init PROVE NInv
  OBVIOUS
<1>1. /\ comp = {} /\ insts = {} /\ current = {} /\ running = {} /\ queued = {}
      /\ pc = "call" /\ matched = {}
  BY DEF Init
<1>. QED  BY <1>1 DEF NInv, CompInv, UniqueInv, MatchedInv, QueuedInv, ContentInv, Waiting,
                      WaitInv, TryInv

(* Between components all that was reported is of statements that are done. *)
LEMMA NotIterating ==
  ASSUME GInv, NInv, pc \notin {"process", "iterate"}
  PROVE  /\ \A m \in matched : m[1] \in done /\ m[1] \notin comp
         /\ current = {} /\ running = {} /\ queued = {} /\ ran = {}
BY DEF GInv, CallInv, PhaseInv, QueueInv, NInv, MatchedInv

LEMMA CallNSteps ==
  ASSUME GInv, NInv,
         \/ BeginAddBackend \/ BeginPrepare \/ Prepared
         \/ \E s \in todo : AddAtom(s) \/ DefineFact(s)
         \/ NextCall \/ Return
  PROVE  NInv'
<1>1. /\ pc \notin {"linearize", "process", "iterate"} /\ pc' \notin {"process", "iterate"}
      /\ UNCHANGED <<comp, insts, current, running, queued>>
      /\ UNCHANGED <<matched, done>> \/ matched' = {}
  BY DEF BeginAddBackend, BeginPrepare, Prepared, AddAtom, DefineFact, NextCall, Return,
         compVars, queueVars, instVars, history
<1>2. comp = {} /\ insts = {} /\ current = {} /\ running = {} /\ queued = {}
      /\ \A m \in matched : m[1] \in done
  BY <1>1, NotIterating DEF GInv, PhaseInv
<1>. QED  BY <1>1, <1>2, OutsideStep

LEMMA EndComponentNStep ==
  ASSUME GInv, NInv, EndComponent
  PROVE  NInv'
<1>1. /\ pc = "process" /\ queued = {} /\ pc' = "ground" /\ done' = done \union comp
      /\ comp' = {} /\ insts' = {} /\ UNCHANGED <<queued, current, running, matched>>
  BY DEF EndComponent, queueVars, instVars, history
<1>2. current = {} /\ running = {}
  BY <1>1 DEF GInv, PhaseInv, QueueInv
<1>3. \A m \in matched : m[1] \in done \union comp
  BY DEF NInv, MatchedInv
<1>. QED  BY <1>1, <1>2, <1>3, OutsideStep

(* A component is started with all that its statements depend on. *)
LEMMA StartComponentNStep ==
  ASSUME GInv, LInv, NInv, NEW s \in DOMAIN deps, StartComponent(deps[s].comp)
  PROVE  NInv'
<1> DEFINE c == deps[s].comp
<1>1. /\ pc = "ground" /\ pc' = "linearize" /\ comp' = c /\ insts' = {}
      /\ UNCHANGED <<program, step, deps, done, current, running, queued, matched>>
      /\ \A t \in c : Ready(t)
  BY DEF StartComponent, callVars, queueVars, instVars, history
<1>2. deps = Analyze(Part.stms)
  BY <1>1 DEF GInv, PhaseInv
<1>3. s \in Part.stms /\ c = PosSCC(Part.stms, s)
  BY <1>2 DEF Analyze
<1>4. s \in c
  <2>1. \A stms, next : s \in stms => s \in Closure(stms, next, s)
    BY DEF Closure
  <2>2. s \in NegSCC(Part.stms, s)
    BY <1>3, <2>1 DEF NegSCC, Reach
  <2>. QED  BY <1>3, <2>1, <2>2 DEF PosSCC
<1> HIDE DEF c
<1>5. \A t \in c : DependsPositively(Part.stms, t) \subseteq done \union c
  BY <1>1, <1>4 DEF Ready, c
<1>6. CompInv'
  <2>1. Part' = Part
    BY <1>1 DEF Part
  <2>2. \A t : DependsPositively(Part.stms, t)' = DependsPositively(Part.stms, t)
    BY <2>1 DEF DependsPositively, DefinedBy
  <2>. QED  BY <1>1, <1>5, <2>2 DEF CompInv
<1>7. /\ \A m \in matched : m[1] \in done
      /\ current = {} /\ running = {} /\ queued = {}
  BY <1>1, NotIterating
<1>8. c \cap done = {}
  BY <1>1 DEF Ready
<1>9. MatchedInv'
  BY <1>1, <1>7, <1>8 DEF MatchedInv
<1>. QED  BY <1>1, <1>6, <1>7, <1>9
          DEF NInv, UniqueInv, QueuedInv, ContentInv, Waiting, WaitInv, TryInv

(* The instantiators of a statement, and their literals. *)
LEMMA LinearizeNSteps ==
  ASSUME GInv, LInv, NInv, (\E s \in comp : Linearize(s)) \/ RegisterLiteral
  PROVE  NInv'
<1>1. /\ pc = "linearize" /\ pc' = "linearize"
      /\ UNCHANGED <<program, step, done, comp, queued, current, running, matched>>
  BY Zenon DEF Linearize, RegisterLiteral, callVars, queueVars, instVars, history
<1>2. /\ \A m \in matched : m[1] \in done /\ m[1] \notin comp
      /\ current = {} /\ running = {} /\ queued = {}
  BY <1>1, NotIterating
<1>3. CompInv'
  BY <1>1 DEF NInv, CompInv, DependsPositively, DefinedBy, Part
<1>4. UniqueInv'
  <2>1. CASE \E s \in comp : Linearize(s)
    <3>1. PICK s \in comp : Linearize(s)
      BY <2>1
    <3>2. PICK xs \in SUBSET Instantiators(s) :
            /\ \A t \in BinderTypes(s) : \E x \in xs : {y \in xs : y.types = t} = {x}
            /\ insts' = insts \union xs
      BY <3>1 DEF Linearize
    <3>3. \A x \in insts : x.stm # s
      BY <3>1 DEF Linearize, Linearized
    <3>4. \A x \in xs : x.stm = s /\ x.types \in BinderTypes(s)
      BY Zenon, NewInstantiators DEF IsInstantiator
    <3>5. ASSUME NEW x \in xs, NEW y \in xs, x.types = y.types PROVE x = y
      <4>1. PICK z \in xs : {v \in xs : v.types = x.types} = {z}
        BY <3>2, <3>4
      <4>. QED  BY <3>5, <4>1
    <3>. QED  BY <3>2, <3>3, <3>4, <3>5 DEF NInv, UniqueInv
  <2>2. CASE RegisterLiteral
    BY <2>2 DEF RegisterLiteral, NInv, UniqueInv
  <2>. QED  BY <2>1, <2>2
<1>5. MatchedInv'
  BY <1>1, <1>2 DEF MatchedInv
<1>. QED  BY <1>1, <1>2, <1>3, <1>4, <1>5
          DEF NInv, QueuedInv, ContentInv, Waiting, WaitInv, TryInv

LEMMA EnqueueComponentNStep ==
  ASSUME GInv, NInv, EnqueueComponent
  PROVE  NInv'
<1>1. /\ pc = "linearize" /\ pc' = "process" /\ queued' = insts
      /\ UNCHANGED <<program, step, done, comp, insts, current, running, matched>>
  BY DEF EnqueueComponent, callVars, compVars, instVars, history
<1>2. /\ \A m \in matched : m[1] \in done /\ m[1] \notin comp
      /\ current = {} /\ running = {}
  BY <1>1, NotIterating
<1>3. CompInv'
  BY <1>1 DEF NInv, CompInv, DependsPositively, DefinedBy, Part
<1>4. MatchedInv' /\ UniqueInv'
  BY <1>1, <1>2 DEF MatchedInv, NInv, UniqueInv
<1>5. ASSUME NEW x \in insts, NEW i, <<x.stm, i>> \in matched PROVE FALSE
  <2>1. x.stm \notin comp
    BY <1>2, <1>5
  <2>. QED  BY <2>1 DEF GInv, QueueInv
<1>6. WaitInv'
  BY <1>1, <1>5 DEF Waiting, WaitInv
<1>. QED  BY <1>1, <1>2, <1>3, <1>4, <1>6 DEF NInv, QueuedInv, ContentInv, TryInv

(* What an instance can match and what excludes it last as long as atoms   *)
(* and domains keep their generations.                                     *)
LEMMA GensStay ==
  ASSUME GInv, CompInv, UNCHANGED <<program, step, done>>,
         NEW stm \in comp, NEW i \in Instances(stm),
         \A p \in Preds : \A s : /\ OldIn(dom[p], s) => OldIn(dom'[p], s)
                                 /\ NowIn(dom[p], s) => NowIn(dom'[p], s)
  PROVE  /\ Visible(stm, i) => Visible(stm, i)'
         /\ \A x : x.stm = stm => /\ Fits(x, i) => Fits(x, i)'
                                  /\ Excluded(x, i) => Excluded(x, i)'
<1>1. Recursive(stm)' = Recursive(stm)
  BY SameRecursion DEF Recursive
<1>2. ASSUME NEW k \in Recursive(stm)
      PROVE  /\ IsOld(BodySym(stm, i, k)) => IsOld(BodySym(stm, i, k))'
             /\ IsNow(BodySym(stm, i, k)) => IsNow(BodySym(stm, i, k))'
  <2>1. PredOf(BodySym(stm, i, k)) \in Preds
    BY RecursiveLiteral
  <2>. QED  BY <2>1 DEF IsOld, IsNow
<1>3. Visible(stm, i) => Visible(stm, i)'
  BY <1>1, <1>2 DEF Visible
<1>4. ASSUME NEW x, x.stm = stm, Fits(x, i) PROVE Fits(x, i)'
  BY <1>1, <1>2, <1>3, <1>4 DEF Fits
<1>5. ASSUME NEW x, x.stm = stm, Excluded(x, i) PROVE Excluded(x, i)'
  BY <1>1, <1>2, <1>5 DEF Excluded
<1>. QED  BY <1>3, <1>4, <1>5

LEMMA GensLast ==
  ASSUME GInv, NInv, NEW S, DomainsCalm(S), UNCHANGED <<program, step, done>>,
         NEW stm \in comp, NEW i \in Instances(stm)
  PROVE  /\ Visible(stm, i) => Visible(stm, i)'
         /\ \A x : x.stm = stm => /\ Fits(x, i) => Fits(x, i)'
                                  /\ Excluded(x, i) => Excluded(x, i)'
<1>1. ASSUME NEW p \in Preds, NEW s
      PROVE  /\ OldIn(dom[p], s) => OldIn(dom'[p], s)
             /\ NowIn(dom[p], s) => NowIn(dom'[p], s)
  BY CalmGens DEF GInv, DomInv, DomainsCalm
<1>. QED  BY <1>1, GensStay DEF NInv

(* What an index has imported when instantiators run stays as it is. *)
LEMMA ContentStep ==
  ASSUME GInv, HInv, ContentInv, NEW S, DomainsCalm(S), UNCHANGED <<comp, index>>,
         current' \union running' # {} => current \union running # {}
  PROVE  ContentInv'
<1>1. CompPreds' = CompPreds
  BY DEF CompPreds
<1>2. ASSUME current \union running # {}, NEW key \in DOMAIN index, KeyPred(key) \in CompPreds,
             NEW o \in Content(index[key])
      PROVE  dom'[KeyPred(key)].atoms[o].gen <= dom'[KeyPred(key)].generation + 1
  <2> DEFINE p == KeyPred(key)
             d == dom[p]
             e == dom'[p]
  <2>1. p \in Preds /\ DP!IdxOK(d, index[key])
    BY DEF HInv, IdxInv
  <2>2. DomainOK(p, d) /\ Calm(p, d, e, S)
    BY <2>1 DEF GInv, DomInv, DomainsCalm
  <2>3. d.atoms[o].gen <= d.generation + 1
    BY <1>2 DEF ContentInv
  <2> HIDE DEF p, d, e
  <2>4. o \in Offsets(d) /\ d.atoms[o].gen > 0
    <3>1. Content(index[key]) = DP!Imported(d, index[key]) /\ DP!Offsets(d) = Offsets(d)
      BY <2>1, SameContent, SameLookups DEF DP!IdxOK
    <3>. QED  BY <1>2, <3>1 DEF DP!Imported
  <2>5. /\ DP!Grows(d, e) /\ DP!KeepsGenerations(d, e) /\ DomainOK(p, e)
        /\ DP!Offsets(d) = Offsets(d) /\ DP!Offsets(e) = Offsets(e)
    BY <2>2, SameLookups DEF Calm, Becomes
  <2>6. /\ d.generation \in Nat /\ Len(d.atoms) \in Nat /\ Len(e.atoms) \in Nat
        /\ d.atoms[o].gen \in Nat
    BY <2>2, <2>4, <2>5, DomainParts DEF DomainOK
  <2>7. o \in Offsets(e) /\ e.generation = d.generation /\ e.atoms[o].gen > 0
    BY <2>4, <2>5, <2>6 DEF Offsets, DP!Grows, DP!KeepsGenerations
  <2>8. e.atoms[o].gen = d.atoms[o].gen
    BY <2>4, <2>5, <2>6, <2>7 DEF DP!KeepsGenerations
  <2>. QED  BY <2>3, <2>7, <2>8 DEF p, d, e
<1>. QED  BY <1>1, <1>2 DEF ContentInv

(* The steps of an iteration that leave the indices alone: all but what is *)
(* about the instances that are tried.                                     *)
LEMMA IterateNStep ==
  ASSUME GInv, LInv, HInv, NInv, NEW S, DomainsCalm(S), pc = "iterate", pc' = "iterate",
         UNCHANGED <<program, step, done, comp, insts, index, queued>>,
         current' \subseteq current,
         current' \union running' # {} => current \union running # {},
         \A m \in matched' : \/ m \in matched
                             \/ /\ m[1] \in comp /\ m[2] \in Instances(m[1])
                                /\ Visible(m[1], m[2])
                                /\ \A y \in current' : y.stm = m[1] => Excluded(y, m[2])
  PROVE  CompInv' /\ UniqueInv' /\ MatchedInv' /\ QueuedInv' /\ ContentInv' /\ WaitInv'
<1>1. CompInv'
  BY DEF NInv, CompInv, DependsPositively, DefinedBy, Part
<1>2. UniqueInv'
  BY DEF NInv, UniqueInv
<1>3. MatchedInv'
  <2>1. ASSUME NEW m \in matched'
        PROVE  /\ m[1] \in done \/ m[1] \in comp
               /\ m[1] \in comp => m[2] \in Instances(m[1]) /\ Visible(m[1], m[2])
    BY DEF NInv, MatchedInv
  <2>2. ASSUME NEW m \in matched', m[1] \in comp PROVE Visible(m[1], m[2])'
    BY <2>1, <2>2, GensLast
  <2>. QED  BY <2>1, <2>2 DEF MatchedInv
<1>4. QueuedInv'
  <2>1. ASSUME NEW x \in queued
        PROVE  \E k \in Positive(x.stm) :
                 x.types[k] = "NEW" /\ dom'[LitPred(x.stm, k)].enqueued = 2
    <3>1. PICK k \in Positive(x.stm) :
            x.types[k] = "NEW" /\ dom[LitPred(x.stm, k)].enqueued = 2
      BY DEF NInv, QueuedInv
    <3>2. x \in insts /\ x.stm \in comp /\ IsInstantiator(x)
      BY DEF GInv, QueueInv, LInv
    <3>3. LitPred(x.stm, k) \in Preds
      BY <3>1, <3>2, LiteralTypes, RecursiveLiteral DEF NInv
    <3>4. dom'[LitPred(x.stm, k)].enqueued = dom[LitPred(x.stm, k)].enqueued
      BY <3>3 DEF DomainsCalm, Calm
    <3>. QED  BY <3>1, <3>4
  <2>. QED  BY <2>1 DEF QueuedInv
<1>5. ContentInv'
  BY ContentStep DEF NInv
<1>6. WaitInv'
  <2>1. ASSUME NEW x \in current', NEW i \in Instances(x.stm), <<x.stm, i>> \in matched'
        PROVE  Excluded(x, i)'
    <3>1. x \in current /\ x.stm \in comp
      BY DEF GInv, QueueInv
    <3>2. Excluded(x, i)
      <4>1. CASE <<x.stm, i>> \in matched
        BY <3>1, <4>1 DEF NInv, WaitInv, Waiting
      <4>2. CASE <<x.stm, i>> \notin matched
        BY <2>1, <4>2
      <4>. QED  BY <4>1, <4>2
    <3>. QED  BY <3>1, <3>2, GensLast
  <2>. QED  BY <2>1 DEF WaitInv, Waiting
<1>. QED  BY <1>1, <1>2, <1>3, <1>4, <1>5, <1>6

LEMMA BeginIterationNStep ==
  ASSUME GInv, LInv, HInv, NInv, BeginIteration
  PROVE  NInv'
<1>1. /\ pc = "process" /\ pc' = "iterate" /\ queued' = {} /\ current' = queued
      /\ UNCHANGED <<program, step, done, comp, insts, dom, index, running, matched>>
  BY DEF BeginIteration, callVars, compVars, indexVars, instVars, history
<1>2. current = {} /\ running = {} /\ ran = {}
  BY <1>1 DEF GInv, PhaseInv, QueueInv
<1>3. CompInv' /\ UniqueInv'
  BY <1>1 DEF NInv, CompInv, DependsPositively, DefinedBy, Part, UniqueInv
<1>4. /\ \A stm : Recursive(stm)' = Recursive(stm)
      /\ \A s : IsOld(s)' = IsOld(s) /\ IsNow(s)' = IsNow(s)
  BY <1>1, SameRecursion DEF Recursive, IsOld, IsNow
<1>5. /\ \A stm, i : Visible(stm, i)' = Visible(stm, i)
      /\ \A x, i : Excluded(x, i) => Excluded(x, i)'
  BY <1>4 DEF Visible, Excluded
<1>6. MatchedInv' /\ QueuedInv'
  BY <1>1, <1>5 DEF NInv, MatchedInv, QueuedInv
<1>7. ContentInv'
  <2>1. ASSUME NEW key \in DOMAIN index, KeyPred(key) \in CompPreds, NEW o \in Content(index[key])
        PROVE  dom[KeyPred(key)].atoms[o].gen <= dom[KeyPred(key)].generation + 1
    <3> DEFINE p == KeyPred(key)
               d == dom[p]
    <3>1. p \in Preds /\ DP!IdxOK(d, index[key])
      BY DEF HInv, IdxInv
    <3>2. Content(index[key]) = DP!Imported(d, index[key]) /\ DP!Offsets(d) = Offsets(d)
      BY <3>1, SameContent, SameLookups DEF DP!IdxOK
    <3>3. o \in Offsets(d)
      BY <2>1, <3>2 DEF DP!Imported
    <3>4. ~(d.atoms[o].gen > d.generation + 1)
      BY <1>1, <1>2, <2>1, <3>3, OpenAtoms
    <3>5. d.generation \in Nat /\ d.atoms[o].gen \in Nat
      BY <3>1, <3>3, DomainParts DEF GInv, DomInv, DomainOK
    <3>. QED  BY <3>4, <3>5
  <2>2. CompPreds' = CompPreds
    BY <1>1 DEF CompPreds
  <2>. QED  BY <1>1, <2>1, <2>2 DEF ContentInv
<1>8. WaitInv' /\ TryInv'
  BY <1>1, <1>2, <1>5 DEF NInv, WaitInv, Waiting, TryInv
<1>. QED  BY <1>3, <1>6, <1>7, <1>8 DEF NInv

(* Steps without a new instance that leave the domains alone. *)
LEMMA QuietNStep ==
  ASSUME GInv, LInv, HInv, NInv, pc = "iterate", pc' = "iterate",
         UNCHANGED <<program, step, done, comp, insts, dom, index, queued, matched>>,
         current' \subseteq current,
         current' \union running' # {} => current \union running # {}
  PROVE  /\ CompInv' /\ UniqueInv' /\ MatchedInv' /\ QueuedInv' /\ ContentInv' /\ WaitInv'
         /\ \A x, i : Excluded(x, i) => Excluded(x, i)'
         /\ \A x, i : Fits(x, i) => Fits(x, i)'
<1>1. DomainsCalm({})
  BY SameCalm DEF GInv
<1>2. CompInv' /\ UniqueInv' /\ MatchedInv' /\ QueuedInv' /\ ContentInv' /\ WaitInv'
  BY <1>1, IterateNStep
<1>3. /\ \A stm : Recursive(stm)' = Recursive(stm)
      /\ \A s : IsOld(s)' = IsOld(s) /\ IsNow(s)' = IsNow(s)
  BY SameRecursion DEF Recursive, IsOld, IsNow
<1>4. \A x, i : Excluded(x, i) => Excluded(x, i)'
  BY <1>3 DEF Excluded
<1>5. \A x, i : Fits(x, i) => Fits(x, i)'
  BY <1>3 DEF Fits, Visible
<1>. QED  BY <1>2, <1>4, <1>5

LEMMA RunInstantiatorNStep ==
  ASSUME GInv, LInv, HInv, NInv, NEW x \in current, RunInstantiator(x)
  PROVE  NInv'
<1>1. /\ pc = "iterate" /\ pc' = "iterate" /\ work' = {} /\ current' = current \ {x}
      /\ running' = {x} /\ left' = Tried(x)
      /\ UNCHANGED <<program, step, done, comp, insts, dom, index, queued, matched>>
  BY DEF RunInstantiator, callVars, compVars, indexVars
<1>2. /\ CompInv' /\ UniqueInv' /\ MatchedInv' /\ QueuedInv' /\ ContentInv' /\ WaitInv'
      /\ \A y, i : Excluded(y, i) => Excluded(y, i)'
  BY <1>1, QuietNStep
<1>3. left' \subseteq Instances(x.stm)
  BY <1>1 DEF Tried
<1>4. ASSUME NEW i \in left', <<x.stm, i>> \in matched PROVE Excluded(x, i)'
  <2>1. Excluded(x, i)
    BY <1>1, <1>3, <1>4 DEF NInv, WaitInv, Waiting
  <2>. QED  BY <1>2, <2>1
<1>5. TryInv'
  BY <1>1, <1>4 DEF TryInv
<1>. QED  BY <1>2, <1>5 DEF NInv

LEMMA TryNSteps ==
  ASSUME GInv, LInv, HInv, NInv, NEW i \in left, TryInstance(i) \/ Backjump(i)
  PROVE  NInv'
<1>1. /\ work = {} /\ left' = left \ {i}
      /\ UNCHANGED <<program, step, done, comp, insts, dom, index, queued, current, running,
                     pc, matched>>
      /\ \/ work' = {}
         \/ \E x \in running :
              work' = {[inst |-> i, stage |-> "match", complete |-> Fails(x, i) = {},
                 probes |-> Probes(x, i), body |-> {}, fact |-> TRUE, defs |-> <<>>,
                 heads |-> <<>>]}
  BY Zenon DEF TryInstance, Backjump, callVars, compVars, indexVars, queueVars, history
<1>2. running # {}
  BY DEF GInv, QueueInv
<1>3. pc = "iterate"
  BY <1>2 DEF GInv, QueueInv, PhaseInv
<1>4. /\ CompInv' /\ UniqueInv' /\ MatchedInv' /\ QueuedInv' /\ ContentInv' /\ WaitInv'
      /\ \A x, j : Excluded(x, j) => Excluded(x, j)'
      /\ \A x, j : Fits(x, j) => Fits(x, j)'
  BY <1>1, <1>3, QuietNStep
<1>5. ASSUME NEW x \in running, NEW w \in work'
      PROVE  /\ w.inst \notin left'
             /\ <<x.stm, w.inst>> \in matched => Excluded(x, w.inst)'
             /\ w.complete => Fits(x, w.inst)'
  <2>1. PICK y \in running :
          work' = {[inst |-> i, stage |-> "match", complete |-> Fails(y, i) = {},
                 probes |-> Probes(y, i), body |-> {}, fact |-> TRUE, defs |-> <<>>,
                 heads |-> <<>>]}
    BY Zenon, <1>1, <1>5
  <2>2. x = y /\ x \in insts /\ x.stm \in comp /\ i \in Instances(x.stm)
    BY DEF GInv, QueueInv, WorkInv
  <2>3. w.inst = i
    BY <2>1
  <2>4. w.complete = (Fails(x, i) = {})
    <3> DEFINE c == Fails(y, i) = {}
    <3>1. work' = {[inst |-> i, stage |-> "match", complete |-> c,
                    probes |-> Probes(y, i), body |-> {}, fact |-> TRUE, defs |-> <<>>,
                    heads |-> <<>>]}
      BY <2>1
    <3> HIDE DEF c
    <3>2. w.complete = c
      BY <1>5, <3>1
    <3>. QED  BY <2>2, <3>2 DEF c
  <2>5. agenda = {}
    BY <1>3 DEF LInv, RegInv
  <2>6. Fails(x, i) = {} => Fits(x, i)
    BY <2>2, <2>5, MatchedFits DEF NInv
  <2>7. <<x.stm, i>> \in matched => Excluded(x, i)
    BY DEF NInv, TryInv
  <2>. QED  BY Zenon, <1>1, <1>4, <2>3, <2>4, <2>6, <2>7
<1>6. ASSUME NEW x \in running
      PROVE  x \notin current /\ \A j \in left' : <<x.stm, j>> \in matched => Excluded(x, j)'
  BY <1>1, <1>4 DEF NInv, TryInv
<1>7. TryInv'
  BY <1>1, <1>5, <1>6 DEF TryInv
<1>. QED  BY <1>4, <1>7 DEF NInv

(* Steps of the instance that is matched and reported. *)
LEMMA WorkNStep ==
  ASSUME GInv, LInv, HInv, NInv, NEW S, DomainsCalm(S), running # {},
         UNCHANGED <<program, step, done, comp, insts, index, queued, current, running, left, pc,
                     matched>>,
         \A v \in work' : \E w \in work :
           /\ v.inst = w.inst
           /\ v.stage = "match" => w.stage = "match" /\ (v.complete => w.complete)
  PROVE  NInv'
<1>1. pc = "iterate"
  BY DEF GInv, QueueInv, PhaseInv
<1>2. CompInv' /\ UniqueInv' /\ MatchedInv' /\ QueuedInv' /\ ContentInv' /\ WaitInv'
  BY <1>1, IterateNStep
<1>3. ASSUME NEW x \in running
      PROVE  /\ x.stm \in comp /\ left \subseteq Instances(x.stm)
             /\ \A w \in work : w.inst \in Instances(x.stm)
             /\ x \notin current
             /\ \A i \in left : <<x.stm, i>> \in matched => Excluded(x, i)
             /\ \A w \in work :
                  /\ w.inst \notin left
                  /\ w.stage = "match" =>
                       /\ <<x.stm, w.inst>> \in matched => Excluded(x, w.inst)
                       /\ w.complete => Fits(x, w.inst)
  BY DEF GInv, QueueInv, WorkInv, NInv, TryInv
<1>4. ASSUME NEW x \in running, NEW i \in Instances(x.stm)
      PROVE  /\ Fits(x, i) => Fits(x, i)'
             /\ Excluded(x, i) => Excluded(x, i)'
  BY <1>3, GensLast
<1>5. ASSUME NEW x \in running, NEW v \in work'
      PROVE  /\ v.inst \notin left
             /\ v.stage = "match" =>
                  /\ <<x.stm, v.inst>> \in matched => Excluded(x, v.inst)'
                  /\ v.complete => Fits(x, v.inst)'
  <2>1. PICK w \in work : /\ v.inst = w.inst
                          /\ v.stage = "match" => w.stage = "match" /\ (v.complete => w.complete)
    OBVIOUS
  <2>. QED  BY <1>3, <1>4, <2>1
<1>6. ASSUME NEW x \in running
      PROVE  x \notin current /\ \A i \in left : <<x.stm, i>> \in matched => Excluded(x, i)'
  BY <1>3, <1>4
<1>7. TryInv'
  BY <1>5, <1>6 DEF TryInv
<1>. QED  BY <1>2, <1>7 DEF NInv

LEMMA WorkNSteps ==
  ASSUME GInv, LInv, HInv, NInv, Mismatch \/ MatchNegative \/ ReportHead \/ ReportRule
  PROVE  NInv'
<1>1. /\ UNCHANGED <<program, step, done, comp, insts, index, queued, current, running, left, pc,
                     matched>>
      /\ running # {}
  <2>1. UNCHANGED <<program, step, done, comp, insts, index, queued, current, running, left, pc,
                     matched>>
    BY Zenon DEF Mismatch, MatchNegative, ReportHead, ReportRule, callVars, compVars, indexVars,
           queueVars, history
  <2>2. work # {}
    BY Zenon DEF Mismatch, MatchNegative, ReportHead, ReportRule
  <2>. QED  BY <2>1, <2>2 DEF GInv, QueueInv
<1>2. ASSUME NEW v \in work'
      PROVE  \E w \in work :
               /\ v.inst = w.inst
               /\ v.stage = "match" => w.stage = "match" /\ (v.complete => w.complete)
  <2>1. \A w \in work : WorkFields \subseteq DOMAIN w
    BY <1>1 DEF GInv, WorkInv
  <2>2. CASE Mismatch \/ ReportRule
    BY <1>2, <2>2 DEF Mismatch, ReportRule
  <2>3. CASE MatchNegative
    <3>1. PICK w \in work : \E ps : v = [w EXCEPT !.probes = ps]
      BY <1>2, <2>3 DEF MatchNegative
    <3>2. WorkFields \subseteq DOMAIN w
      BY <2>1
    <3>3. v.inst = w.inst /\ v.stage = w.stage /\ v.complete = w.complete
      BY <3>1, <3>2 DEF WorkFields
    <3>. QED  BY <3>3
  <2>4. CASE ReportHead
    <3>1. PICK w \in work : w.stage = "head" /\ \E ds, hs :
            v = [w EXCEPT !.defs = ds] \/ v = [[w EXCEPT !.defs = ds] EXCEPT !.heads = hs]
      <4>1. PICK x \in running, w \in work :
              /\ w.stage = "head"
              /\ LET s == Heads(x.stm, w.inst)[Len(w.defs) + 1]
                     next == [w EXCEPT !.defs = Append(@, s)]
                 IN work' = IF ~IsFactSym(s) THEN {[next EXCEPT !.heads = Append(@, s)]}
                            ELSE IF Statements[x.stm].kind = "choice" THEN {next} ELSE {}
        BY Zenon, <2>4 DEF ReportHead
      <4> DEFINE ds == Append(w.defs, Heads(x.stm, w.inst)[Len(w.defs) + 1])
                 next == [w EXCEPT !.defs = ds]
                 hs == Append(next.heads, Heads(x.stm, w.inst)[Len(w.defs) + 1])
      <4>2. work' = {[next EXCEPT !.heads = hs]} \/ work' = {next} \/ work' = {}
        BY <4>1
      <4>3. v = [next EXCEPT !.heads = hs] \/ v = next
        BY <1>2, <4>2
      <4> HIDE DEF ds, hs
      <4>. QED  BY Zenon, <4>1, <4>3
    <3>2. WorkFields \subseteq DOMAIN w
      BY <2>1
    <3>3. v.inst = w.inst /\ v.stage = "head"
      BY Zenon, <3>1, <3>2 DEF WorkFields
    <3>. QED  BY <3>3
  <2>. QED  BY <2>2, <2>3, <2>4
<1>3. \E S : DomainsCalm(S)
  <2>1. CASE Mismatch
    BY <2>1, SameCalm DEF Mismatch, GInv
  <2>2. CASE MatchNegative
    <3>1. PICK s \in UsedSyms :
            /\ PredOf(s) \in Preds
            /\ dom' = dom \/ dom' = [dom EXCEPT ![PredOf(s)] = Reserve(dom[PredOf(s)], s)]
      BY <2>2, MatchNegativeEffect
    <3> DEFINE p == PredOf(s)
               e == Reserve(dom[p], s)
    <3>2. Calm(p, dom[p], e, {}) /\ p \in Preds
      BY Zenon, <3>1, CalmOperations DEF GInv, DomInv
    <3>3. dom' = dom \/ dom' = [dom EXCEPT ![p] = e]
      BY <3>1
    <3> HIDE DEF p, e
    <3>. QED  BY <3>2, <3>3, OneCalm, SameCalm DEF GInv
  <2>3. CASE ReportHead
    <3>1. PICK s \in UsedSyms :
            PredOf(s) \in Preds /\ dom' = [dom EXCEPT ![PredOf(s)] = Define(dom[PredOf(s)], s)]
      BY <2>3, ReportHeadEffect
    <3> DEFINE p == PredOf(s)
               e == Define(dom[p], s)
    <3>2. Calm(p, dom[p], e, {s}) /\ p \in Preds
      BY <3>1, CalmOperations DEF GInv, DomInv
    <3>3. dom' = [dom EXCEPT ![p] = e]
      BY <3>1
    <3> HIDE DEF p, e
    <3>. QED  BY Zenon, <3>2, <3>3, OneCalm DEF GInv
  <2>4. CASE ReportRule
    <3>1. CASE dom' = dom
      BY <3>1, SameCalm DEF GInv
    <3>2. CASE dom' # dom
      <4>1. PICK h \in UsedSyms :
              /\ PredOf(h) \in Preds /\ Contains(dom[PredOf(h)], h)
              /\ dom' = [dom EXCEPT ![PredOf(h)] =
                           SetFact(dom[PredOf(h)], Find(dom[PredOf(h)], h))]
        BY <2>4, <3>2, ReportRuleEffect
      <4> DEFINE p == PredOf(h)
                 e == SetFact(dom[p], Find(dom[p], h))
      <4>2. Find(dom[p], h) \in Offsets(dom[p])
        BY <4>1, FindContained
      <4>3. Calm(p, dom[p], e, {}) /\ p \in Preds
        BY <4>1, <4>2, CalmOperations DEF GInv, DomInv
      <4>4. dom' = [dom EXCEPT ![p] = e]
        BY <4>1
      <4> HIDE DEF p, e
      <4>. QED  BY Zenon, <4>3, <4>4, OneCalm DEF GInv
    <3>. QED  BY <3>1, <3>2
  <2>. QED  BY <2>1, <2>2, <2>3, <2>4
<1>4. PICK S : DomainsCalm(S)
  BY <1>3
<1>. QED  BY <1>1, <1>2, <1>4, WorkNStep

(* The instance that is reported is excluded from the instantiators of the *)
(* statement that are still to run.                                        *)
LEMMA ReportBodyNStep ==
  ASSUME GInv, LInv, HInv, NInv, ReportBody
  PROVE  NInv'
<1>1. UNCHANGED <<program, step, done, comp, insts, dom, index, queued, current, running, left, pc>>
  BY Zenon DEF ReportBody, callVars, compVars, indexVars, queueVars
<1>2. PICK x \in running, w \in work :
        /\ w.stage = "match" /\ w.complete
        /\ matched' = matched \union {<<x.stm, w.inst>>}
        /\ \E f, b : work' = {[w EXCEPT !.stage = "head", !.fact = f, !.body = b]}
  <2>1. PICK x \in running, w \in work :
          /\ w.stage = "match" /\ w.probes = {} /\ w.complete
          /\ LET sym(k) == BodySym(x.stm, w.inst, k)
                 true == {k \in Body(x.stm) : IsTrue(x.stm, k, sym(k))}
                 out == {k \in Body(x.stm) :
                           IsOutput(x.stm, k, sym(k)) /\ (program \in KeepingFacts \/ k \notin true)}
             IN work' = {[w EXCEPT !.stage = "head", !.fact = (true = Body(x.stm)),
                                   !.body = {Lit(Statements[x.stm].naf[k], sym(k)) : k \in out}]}
          /\ matched' = matched \union {<<x.stm, w.inst>>}
    BY Zenon DEF ReportBody
  <2>2. \E f, b : work' = {[w EXCEPT !.stage = "head", !.fact = f, !.body = b]}
    BY <2>1, Zenon
  <2>. QED  BY Zenon, <2>1, <2>2
<1>3. /\ x \in insts /\ x.stm \in comp /\ w.inst \in Instances(x.stm)
      /\ WorkFields \subseteq DOMAIN w /\ x \notin current /\ w.inst \notin left
      /\ \A y \in running : y = x
  BY Zenon DEF GInv, QueueInv, WorkInv, NInv, TryInv
<1>4. pc = "iterate"
  BY DEF GInv, QueueInv, PhaseInv
<1>5. Fits(x, w.inst)
  BY Zenon, <1>2 DEF NInv, TryInv
<1>6. ASSUME NEW y \in current, y.stm = x.stm PROVE Excluded(y, w.inst)
  <2>1. y \in insts /\ y # x
    BY <1>3 DEF GInv, QueueInv
  <2>2. y.types # x.types
    BY <1>3, <1>6, <2>1 DEF NInv, UniqueInv
  <2>3. IsInstantiator(x) /\ IsInstantiator(y)
    BY <1>3, <2>1 DEF LInv
  <2>4. x.stm \in DOMAIN Statements
    BY <1>3, PartStatements DEF GInv, CallInv
  <2>. QED  BY <1>5, <1>6, <2>2, <2>3, <2>4, OthersExclude DEF GInv
<1>7. DomainsCalm({})
  BY <1>1, SameCalm DEF GInv
<1>8. CompInv' /\ UniqueInv' /\ MatchedInv' /\ QueuedInv' /\ ContentInv' /\ WaitInv'
  <2>1. \A m \in matched' : \/ m \in matched
                            \/ /\ m[1] \in comp /\ m[2] \in Instances(m[1])
                               /\ Visible(m[1], m[2])
                               /\ \A y \in current' : y.stm = m[1] => Excluded(y, m[2])
    BY <1>1, <1>2, <1>3, <1>5, <1>6 DEF Fits
  <2>2. /\ UNCHANGED <<program, step, done, comp, insts, index, queued>>
        /\ pc' = "iterate" /\ current' \subseteq current
        /\ current' \union running' # {} => current \union running # {}
    BY <1>1, <1>4
  <2>. QED  BY <1>4, <1>7, <2>1, <2>2, IterateNStep
<1>9. TryInv'
  <2>1. ASSUME NEW v \in work' PROVE v.inst = w.inst /\ v.stage = "head"
    BY Zenon, <1>2, <1>3, <2>1 DEF WorkFields
  <2>2. ASSUME NEW i \in left, <<x.stm, i>> \in matched' PROVE Excluded(x, i)'
    <3>1. <<x.stm, i>> \in matched /\ i \in Instances(x.stm)
      BY <1>2, <1>3, <2>2 DEF GInv, WorkInv
    <3>2. Excluded(x, i)
      BY <3>1 DEF NInv, TryInv
    <3>. QED  BY <1>1, <1>3, <1>7, <3>1, <3>2, GensLast
  <2>. QED  BY <1>1, <1>3, <2>1, <2>2 DEF TryInv
<1>. QED  BY <1>8, <1>9 DEF NInv

(* A head that propagates queues instantiators that are NEW in what it     *)
(* derives.                                                                *)
LEMMA PropagateNStep ==
  ASSUME GInv, LInv, HInv, NInv, NEW x \in ran, Propagate(x)
  PROVE  NInv'
<1>1. /\ UNCHANGED <<program, step, done, comp, insts, matched, current, pc>>
      /\ pc = "iterate" /\ current = {} /\ running' = {} /\ x.stm \in comp
      /\ HeadPreds(x.stm) \subseteq Preds
      /\ \A p \in Preds : dom'[p] =
           IF p \in HeadPreds(x.stm)
           THEN EnqueueDomain(MarkDelayed(dom[p], Passed(p, PropKeys(x.stm)))) ELSE dom[p]
  BY Zenon, PropagateEffect DEF Propagate, callVars, compVars, history
<1>2. ASSUME NEW p \in Preds
      PROVE  /\ dom[p].enqueued = 2 \/ p \in HeadPreds(x.stm) => dom'[p].enqueued = 2
             /\ \A s : /\ OldIn(dom[p], s) => OldIn(dom'[p], s)
                       /\ NowIn(dom[p], s) => NowIn(dom'[p], s)
  <2> DEFINE d == dom[p]
             e == EnqueueDomain(MarkDelayed(dom[p], Passed(p, PropKeys(x.stm))))
  <2>1. /\ Offsets(e) = Offsets(d) /\ e.enqueued = 2 /\ e.generation = d.generation
        /\ \A o \in Offsets(d) : e.atoms[o].gen = d.atoms[o].gen /\ e.atoms[o].sym = d.atoms[o].sym
    BY EnqueuedDomain DEF GInv, DomInv
  <2>2. dom'[p] = IF p \in HeadPreds(x.stm) THEN e ELSE d
    BY <1>1
  <2> HIDE DEF d, e
  <2>3. \A s : (OldIn(d, s) => OldIn(e, s)) /\ (NowIn(d, s) => NowIn(e, s))
    BY <2>1 DEF OldIn, NowIn
  <2>. QED  BY <2>1, <2>2, <2>3 DEF d
<1>3. CompInv' /\ UniqueInv'
  BY <1>1 DEF NInv, CompInv, DependsPositively, DefinedBy, Part, UniqueInv
<1>4. MatchedInv'
  <2>1. ASSUME NEW m \in matched, m[1] \in comp PROVE Visible(m[1], m[2])'
    <3>1. m[2] \in Instances(m[1]) /\ Visible(m[1], m[2])
      BY <2>1 DEF NInv, MatchedInv
    <3>. QED  BY <1>1, <1>2, <2>1, <3>1, GensStay DEF NInv
  <2>. QED  BY <1>1, <2>1 DEF NInv, MatchedInv
<1>5. QueuedInv'
  <2>1. ASSUME NEW y \in queued' \ queued
        PROVE  \E k \in Positive(y.stm) : /\ y \in insts /\ y.types[k] = "NEW"
                                          /\ LitPred(y.stm, k) \in HeadPreds(x.stm)
    <3>1. PICK e \in enqueueVec : e.stm = x.stm /\ y \in e.insts
      BY <2>1 DEF Propagate, FoundNew
    <3>2. PICK u \in Updaters(insts) \ agenda : \E t \in DefinedBy(comp, u[1].stm, u[2]) : e = Entry(u, t)
      BY <3>1 DEF LInv, RegInv, Entries
    <3>3. x.stm \in DefinedBy(comp, u[1].stm, u[2]) /\ y = u[1] /\ u[1].types[u[2]] = "NEW"
      BY <3>1, <3>2 DEF Entry
    <3>4. u[1] \in insts /\ u[1].stm \in Part.stms /\ u[2] \in Positive(u[1].stm)
      BY <3>2, UpdaterKey
    <3>5. /\ u[1].stm \in DOMAIN Statements /\ u[2] \in Body(u[1].stm)
          /\ x.stm \in DOMAIN Statements
      BY <1>1, <3>4, PartStatements DEF GInv, CallInv, Positive
    <3>6. PICK s \in HeadSyms(x.stm) : s \in LitSyms(u[1].stm, u[2])
      BY <3>3, <3>5, Tables DEF DefinedBy
    <3>7. LitPred(u[1].stm, u[2]) \in HeadPreds(x.stm)
      BY <3>5, <3>6, LiteralPred DEF HeadPreds
    <3>. QED  BY <3>3, <3>4, <3>7
  <2>2. ASSUME NEW y \in queued'
        PROVE  \E k \in Positive(y.stm) :
                 y.types[k] = "NEW" /\ dom'[LitPred(y.stm, k)].enqueued = 2
    <3>1. CASE y \in queued
      <4>1. PICK k \in Positive(y.stm) :
              y.types[k] = "NEW" /\ dom[LitPred(y.stm, k)].enqueued = 2
        BY <1>1, <3>1 DEF NInv, QueuedInv
      <4>2. y.stm \in comp /\ IsInstantiator(y)
        BY <3>1 DEF GInv, QueueInv, LInv
      <4>3. LitPred(y.stm, k) \in Preds
        BY <4>1, <4>2, LiteralTypes, RecursiveLiteral DEF NInv
      <4>. QED  BY <1>2, <4>1, <4>3
    <3>2. CASE y \notin queued
      BY <1>1, <1>2, <2>1, <3>2
    <3>. QED  BY <3>1, <3>2
  <2>. QED  BY <2>2 DEF QueuedInv
<1>6. ContentInv' /\ WaitInv' /\ TryInv'
  BY <1>1 DEF ContentInv, Waiting, WaitInv, TryInv
<1>. QED  BY <1>3, <1>4, <1>5, <1>6 DEF NInv

(* After an iteration, what was reported is old to the instantiators that  *)
(* are queued.                                                             *)
LEMMA EndIterationNStep ==
  ASSUME GInv, LInv, HInv, NInv, EndIteration
  PROVE  NInv'
<1>1. /\ pc = "iterate" /\ pc' = "process" /\ AdvanceEnqueuedDomains /\ current = {} /\ ran = {}
      /\ UNCHANGED <<program, step, done, comp, insts, queued, current, running, matched>>
  BY DEF EndIteration, callVars, compVars, queueVars, instVars, history
<1>2. running = {}
  BY <1>1 DEF GInv, QueueInv
<1>3. ASSUME NEW p \in Preds, NEW s, OldIn(dom[p], s) \/ NowIn(dom[p], s)
      PROVE  /\ OldIn(dom'[p], s) \/ NowIn(dom'[p], s)
             /\ dom[p].enqueued = 2 => OldIn(dom'[p], s)
  <2>1. /\ dom'[p].atoms = dom[p].atoms /\ dom[p].enqueued \in 0..2 /\ dom[p].generation \in Nat
        /\ dom'[p].generation = IF dom[p].enqueued > 0 THEN dom[p].generation + 1
                                ELSE dom[p].generation
    BY <1>1, AdvanceStep DEF GInv
  <2>2. Offsets(dom'[p]) = Offsets(dom[p]) /\ DomainOK(p, dom[p])
    BY <2>1 DEF Offsets, GInv, DomInv
  <2>3. \/ dom[p].enqueued > 0 /\ dom'[p].generation = dom[p].generation + 1
        \/ dom'[p].generation = dom[p].generation
    BY <2>1
  <2>4. /\ OldIn(dom'[p], s) \/ NowIn(dom'[p], s)
        /\ dom'[p].generation = dom[p].generation + 1 => OldIn(dom'[p], s)
    BY <1>3, <2>1, <2>2, <2>3, PassedGens
  <2>5. dom[p].enqueued = 2 => dom'[p].generation = dom[p].generation + 1
    BY <2>1
  <2>. QED  BY <2>4, <2>5
<1>4. \A stm : Recursive(stm)' = Recursive(stm)
  BY <1>1, SameRecursion DEF Recursive
<1>5. ASSUME NEW stm \in comp, NEW i \in Instances(stm), Visible(stm, i), NEW k \in Recursive(stm)
      PROVE  /\ IsOld(BodySym(stm, i, k))' \/ IsNow(BodySym(stm, i, k))'
             /\ dom[LitPred(stm, k)].enqueued = 2 => IsOld(BodySym(stm, i, k))'
  <2>1. PredOf(BodySym(stm, i, k)) = LitPred(stm, k) /\ LitPred(stm, k) \in Preds
    BY RecursiveLiteral DEF NInv
  <2>2. IsOld(BodySym(stm, i, k)) \/ IsNow(BodySym(stm, i, k))
    BY <1>5 DEF Visible
  <2>. QED  BY <1>3, <2>1, <2>2 DEF IsOld, IsNow
<1>6. CompInv' /\ UniqueInv'
  BY <1>1 DEF NInv, CompInv, DependsPositively, DefinedBy, Part, UniqueInv
<1>7. MatchedInv'
  <2>1. ASSUME NEW m \in matched, m[1] \in comp PROVE Visible(m[1], m[2])'
    <3>1. m[2] \in Instances(m[1]) /\ Visible(m[1], m[2])
      BY <2>1 DEF NInv, MatchedInv
    <3>. QED  BY <1>4, <1>5, <2>1, <3>1 DEF Visible
  <2>. QED  BY <1>1, <2>1 DEF NInv, MatchedInv
<1>8. WaitInv'
  <2>1. ASSUME NEW x \in queued, NEW i \in Instances(x.stm), <<x.stm, i>> \in matched
        PROVE  Excluded(x, i)'
    <3>1. x.stm \in comp /\ IsInstantiator(x)
      BY DEF GInv, QueueInv, LInv
    <3>2. Visible(x.stm, i)
      BY <2>1, <3>1 DEF NInv, MatchedInv
    <3>3. PICK k \in Positive(x.stm) :
            x.types[k] = "NEW" /\ dom[LitPred(x.stm, k)].enqueued = 2
      BY <1>1 DEF NInv, QueuedInv
    <3>4. k \in Recursive(x.stm)
      BY <3>1, <3>3, LiteralTypes
    <3>5. IsOld(BodySym(x.stm, i, k))'
      BY <1>5, <3>1, <3>2, <3>3, <3>4
    <3>. QED  BY <1>4, <3>3, <3>4, <3>5 DEF Excluded
  <2>. QED  BY <1>1, <2>1 DEF Waiting, WaitInv
<1>9. QueuedInv' /\ ContentInv' /\ TryInv'
  BY <1>1, <1>2 DEF QueuedInv, ContentInv, TryInv
<1>. QED  BY <1>6, <1>7, <1>8, <1>9 DEF NInv

LEMMA StutterNStep ==
  ASSUME GInv, LInv, HInv, NInv, UNCHANGED vars
  PROVE  NInv'
<1>1. UNCHANGED <<program, step, done, comp, insts, dom, index, queued, current, running, left,
                  work, pc, matched>>
  BY DEF vars, callVars, compVars, indexVars, queueVars, instVars, history
<1>2. /\ \A stm : Recursive(stm)' = Recursive(stm)
      /\ \A s : IsOld(s)' = IsOld(s) /\ IsNow(s)' = IsNow(s)
  BY <1>1, SameRecursion DEF Recursive, IsOld, IsNow
<1>3. /\ \A stm, i : Visible(stm, i)' = Visible(stm, i)
      /\ \A x, i : Excluded(x, i) => Excluded(x, i)'
      /\ \A x, i : Fits(x, i) => Fits(x, i)'
  BY <1>2 DEF Visible, Excluded, Fits
<1>4. CompInv' /\ UniqueInv' /\ MatchedInv' /\ QueuedInv' /\ ContentInv'
  BY <1>1, <1>3 DEF NInv, CompInv, DependsPositively, DefinedBy, Part, UniqueInv, MatchedInv,
                    QueuedInv, ContentInv, CompPreds
<1>5. WaitInv' /\ TryInv'
  BY <1>1, <1>3 DEF NInv, Waiting, WaitInv, TryInv
<1>. QED  BY <1>4, <1>5 DEF NInv

LEMMA NInvStep ==
  ASSUME GInv, LInv, HInv, NInv, [Next]_vars
  PROVE  NInv'
<1>1. CASE UNCHANGED vars
  BY <1>1, StutterNStep
<1>2. CASE \E c \in {deps[s].comp : s \in DOMAIN deps} : StartComponent(c)
  BY <1>2, StartComponentNStep
<1>3. CASE Next /\ ~\E c \in {deps[s].comp : s \in DOMAIN deps} : StartComponent(c)
  BY <1>3, CallNSteps, LinearizeNSteps, EnqueueComponentNStep, BeginIterationNStep,
     RunInstantiatorNStep, TryNSteps, WorkNSteps, ReportBodyNStep, PropagateNStep,
     EndIterationNStep, EndComponentNStep DEF Next
<1>. QED  BY <1>1, <1>2, <1>3

(* Semi-naive evaluation: the instantiators of a statement partition its   *)
(* instances, in an iteration and over all iterations, so that a call      *)
(* reports no instance twice, for every program and every schedule.        *)
THEOREM SpecNoInstanceTwice == Spec => []NoInstanceTwice
<1>1. Init => GInv /\ LInv /\ HInv /\ NInv
  BY InitGInv, InitLInv, InitHInv, InitNInv
<1>2. GInv /\ LInv /\ HInv /\ NInv /\ [Next]_vars => GInv' /\ LInv' /\ HInv' /\ NInv'
  BY GInvStep, LInvStep, HInvStep, NInvStep
<1>3. GInv /\ NInv => NoInstanceTwice
  <2> SUFFICES ASSUME GInv, NInv, NEW x \in running, NEW w \in work, w.stage = "match", w.complete,
                      <<x.stm, w.inst>> \in matched
               PROVE  FALSE
    BY DEF NoInstanceTwice
  <2>1. x.stm \in comp /\ w.inst \in Instances(x.stm)
    BY DEF GInv, QueueInv, WorkInv
  <2>2. Fits(x, w.inst) /\ Excluded(x, w.inst)
    BY DEF NInv, TryInv
  <2>. QED  BY <2>1, <2>2, FitsNotExcluded DEF NInv
<1>. QED  BY <1>1, <1>2, <1>3, PTL DEF Spec
=============================================================================
