----------------------------- MODULE DomainProofs -----------------------------
(***************************************************************************)
(* Proofs about a single domain and its indices, for every number of       *)
(* symbols, every family of index terms and every length of grounding.     *)
(***************************************************************************)
EXTENDS Domain, SequenceTheorems, TLAPS

(* The domain by itself: the delayed vector is exact, and what init() has  *)
(* seen is of generation 0, or undefined and marked as delayed.            *)
DomOK(d) ==
  /\ d \in DomainRecord
  /\ d.initOffset <= Len(d.atoms)
  /\ d.initDelayedOffset <= Len(d.delayed)
  /\ \A k \in 1..Len(d.delayed) :
       d.delayed[k] \in Offsets(d) /\ d.atoms[d.delayed[k]].delayed
         /\ d.atoms[d.delayed[k]].gen > 0
  /\ \A k, l \in 1..Len(d.delayed) : d.delayed[k] = d.delayed[l] => k = l
  /\ \A o \in Offsets(d) : d.atoms[o].gen > 0 /\ d.atoms[o].delayed =>
       \E k \in 1..Len(d.delayed) : d.delayed[k] = o
  /\ \A o \in Offsets(d) : d.atoms[o].gen = 0 /\ o <= d.initOffset => d.atoms[o].delayed
  /\ \A o \in Offsets(d) : d.atoms[o].gen > 1 =>
       o > d.initOffset
         \/ \E k \in d.initDelayedOffset + 1 .. Len(d.delayed) : d.delayed[k] = o

(* What an index has imported so far. *)
Imported(d, ix) ==
  {o \in Offsets(d) :
     /\ d.atoms[o].gen > 0
     /\ d.atoms[o].sym \in ix.match
     /\ \/ ~d.atoms[o].delayed /\ o <= ix.imported
        \/ \E k \in 1..ix.importedDelayed : d.delayed[k] = o}

(* An index relative to its domain. *)
IdxOK(d, ix) ==
  /\ ix \in IndexRecord
  /\ ix.imported <= Len(d.atoms)
  /\ ix.importedDelayed <= Len(d.delayed)
  /\ \A o \in Offsets(d) : d.atoms[o].gen = 0 /\ o <= ix.imported => d.atoms[o].delayed
  /\ Content(ix) = Imported(d, ix)

(* d grows to e: no offset changes its symbol, defined atoms and the       *)
(* delayed vector are kept, an undefined atom keeps its mark.              *)
Grows(d, e) ==
  /\ Len(d.atoms) <= Len(e.atoms)
  /\ Len(d.delayed) <= Len(e.delayed)
  /\ \A k \in 1..Len(d.delayed) : e.delayed[k] = d.delayed[k]
  /\ \A o \in Offsets(d) :
       /\ e.atoms[o].sym = d.atoms[o].sym
       /\ d.atoms[o].gen > 0 => e.atoms[o].gen > 0
       /\ d.atoms[o].gen > 0 => e.atoms[o].delayed = d.atoms[o].delayed
       /\ d.atoms[o].delayed => e.atoms[o].delayed
       /\ d.atoms[o].gen = 0 /\ e.atoms[o].gen > 0 => e.atoms[o].delayed = d.atoms[o].delayed

(* In a step from d to e atoms keep their generation; those that become    *)
(* defined belong to the next generation.                                  *)
KeepsGenerations(d, e) ==
  /\ e.generation = d.generation
  /\ \A o \in Offsets(e) :
       \/ e.atoms[o].gen = 0
       \/ o \in Offsets(d) /\ e.atoms[o].gen = d.atoms[o].gen
       \/ e.atoms[o].gen = d.generation + 2 /\ (o \in Offsets(d) => d.atoms[o].gen = 0)

(* The types of the parts of a domain and of an index. *)
LEMMA DomainTypes ==
  ASSUME NEW d \in DomainRecord
  PROVE  /\ d.atoms \in Seq(AtomRecord)
         /\ d.delayed \in Seq(Nat \ {0})
         /\ Len(d.atoms) \in Nat
         /\ Len(d.delayed) \in Nat
         /\ d.generation \in Nat
         /\ d.enqueued \in 0..2
         /\ d.initOffset \in Nat
         /\ d.initDelayedOffset \in Nat
         /\ \A o \in Offsets(d) : d.atoms[o] \in AtomRecord
         /\ \A o \in Offsets(d) : d.atoms[o].gen \in Nat
         /\ \A o \in Offsets(d) : o \in Nat \ {0}
         /\ \A o \in Offsets(d) : d.atoms[o].sym \in Sym
         /\ \A o \in Offsets(d) : d.atoms[o].delayed \in BOOLEAN
         /\ \A k \in 1..Len(d.delayed) : d.delayed[k] \in Nat \ {0}
<1>1. d.atoms \in Seq(AtomRecord) /\ d.delayed \in Seq(Nat \ {0})
      /\ d.generation \in Nat /\ d.enqueued \in 0..2
      /\ d.initOffset \in Nat /\ d.initDelayedOffset \in Nat
  BY DEF DomainRecord
<1>2. Len(d.atoms) \in Nat /\ Len(d.delayed) \in Nat
  BY <1>1
<1>3. \A o \in Offsets(d) : d.atoms[o] \in AtomRecord
  BY <1>1 DEF Offsets
<1>4. \A o \in Offsets(d) : o \in Nat \ {0}
  BY <1>2 DEF Offsets
<1>5. \A k \in 1..Len(d.delayed) : d.delayed[k] \in Nat \ {0}
  BY <1>1
<1>. QED BY <1>1, <1>2, <1>3, <1>4, <1>5 DEF AtomRecord

LEMMA IndexTypes ==
  ASSUME NEW ix \in IndexRecord
  PROVE  /\ ix.match \in SUBSET Sym
         /\ ix.batches \in Seq(SUBSET (Nat \ {0}))
         /\ ix.imported \in Nat
         /\ ix.importedDelayed \in Nat
BY DEF IndexRecord

(* An index stays consistent with a domain that grows. *)
LEMMA IdxOKGrows ==
  ASSUME NEW d, NEW e, NEW ix, DomOK(d), DomOK(e), IdxOK(d, ix), Grows(d, e)
  PROVE  IdxOK(e, ix)
<1>1. d \in DomainRecord /\ e \in DomainRecord /\ ix \in IndexRecord
  BY DEF DomOK, IdxOK
<1>a. Len(d.atoms) \in Nat /\ Len(e.atoms) \in Nat
      /\ Len(d.delayed) \in Nat /\ Len(e.delayed) \in Nat
  BY <1>1, DomainTypes
<1>b. ix.imported \in Nat /\ ix.importedDelayed \in Nat
  BY <1>1, IndexTypes
<1>c. \A o \in Offsets(d) : d.atoms[o].gen \in Nat
  BY <1>1, DomainTypes
<1>d. \A o \in Offsets(e) : e.atoms[o].gen \in Nat
  BY <1>1, DomainTypes
<1>2. ix.imported <= Len(e.atoms) /\ ix.importedDelayed <= Len(e.delayed)
  BY <1>a, <1>b DEF IdxOK, Grows
<1>3. \A o \in Offsets(d) : o \in Offsets(e)
  BY <1>a DEF Grows, Offsets
<1>4. \A o \in Offsets(e) : o <= ix.imported => o \in Offsets(d)
  BY <1>a, <1>b DEF IdxOK, Offsets
<1>5. ASSUME NEW o \in Offsets(e), e.atoms[o].gen = 0, o <= ix.imported
      PROVE  e.atoms[o].delayed
  <2>1. o \in Offsets(d)
    BY <1>4, <1>5
  <2>2. d.atoms[o].gen = 0
    BY <2>1, <1>5, <1>c, <1>d DEF Grows
  <2>. QED BY <2>1, <2>2, <1>5 DEF Grows, IdxOK
<1>6. \A k \in 1..ix.importedDelayed : k \in 1..Len(d.delayed) /\ e.delayed[k] = d.delayed[k]
  BY <1>a, <1>b DEF IdxOK, Grows
<1>7. \A k \in 1..ix.importedDelayed : d.delayed[k] \in Offsets(d) /\ d.atoms[d.delayed[k]].gen > 0
  BY <1>6 DEF DomOK
<1>8. Imported(e, ix) = Imported(d, ix)
  <2>1. ASSUME NEW o \in Imported(d, ix) PROVE o \in Imported(e, ix)
    BY <2>1, <1>3, <1>6 DEF Imported, Grows
  <2>2. ASSUME NEW o \in Imported(e, ix) PROVE o \in Imported(d, ix)
    <3>1. CASE ~e.atoms[o].delayed /\ o <= ix.imported
      <4>1. o \in Offsets(d)
        BY <2>2, <3>1, <1>4 DEF Imported
      <4>2. d.atoms[o].gen > 0
        BY <4>1, <3>1, <1>c DEF Grows, IdxOK
      <4>3. ~d.atoms[o].delayed
        BY <4>1, <3>1 DEF Grows
      <4>. QED BY <2>2, <3>1, <4>1, <4>2, <4>3 DEF Imported, Grows
    <3>2. CASE \E k \in 1..ix.importedDelayed : e.delayed[k] = o
      <4>1. PICK k \in 1..ix.importedDelayed : e.delayed[k] = o
        BY <3>2
      <4>2. o \in Offsets(d) /\ d.atoms[o].gen > 0 /\ d.delayed[k] = o
        BY <4>1, <1>6, <1>7
      <4>. QED BY <4>1, <4>2, <2>2 DEF Imported, Grows
    <3>. QED BY <2>2, <3>1, <3>2 DEF Imported
  <2>. QED BY <2>1, <2>2
<1>. QED BY <1>1, <1>2, <1>5, <1>8 DEF IdxOK

-----------------------------------------------------------------------------
(* The operations of a domain *)

(* An atom that is reserved gets an undefined atom at the end. *)
LEMMA ReserveFields ==
  ASSUME NEW d, d \in DomainRecord, NEW s \in Sym, ~Contains(d, s)
  PROVE  LET e == Reserve(d, s) IN
         /\ e \in DomainRecord
         /\ e.generation = d.generation /\ e.enqueued = d.enqueued
         /\ e.initOffset = d.initOffset /\ e.initDelayedOffset = d.initDelayedOffset
         /\ e.delayed = d.delayed
         /\ Len(e.atoms) = Len(d.atoms) + 1
         /\ \A o \in Offsets(d) : e.atoms[o] = d.atoms[o]
         /\ e.atoms[Len(e.atoms)] = NewAtom(s)
<1> DEFINE e == Reserve(d, s)
<1>1. NewAtom(s) \in AtomRecord
  BY DEF NewAtom, AtomRecord
<1>2. e = [d EXCEPT !.atoms = Append(d.atoms, NewAtom(s))]
  BY DEF Reserve
<1>3. d.atoms \in Seq(AtomRecord)
  BY DomainTypes
<1>4. Append(d.atoms, NewAtom(s)) \in Seq(AtomRecord)
      /\ Len(Append(d.atoms, NewAtom(s))) = Len(d.atoms) + 1
      /\ Append(d.atoms, NewAtom(s))[Len(d.atoms) + 1] = NewAtom(s)
      /\ \A o \in Offsets(d) : Append(d.atoms, NewAtom(s))[o] = d.atoms[o]
  BY <1>1, <1>3 DEF Offsets
<1>5. e.atoms = Append(d.atoms, NewAtom(s)) /\ e.delayed = d.delayed
      /\ e.generation = d.generation /\ e.enqueued = d.enqueued
      /\ e.initOffset = d.initOffset /\ e.initDelayedOffset = d.initDelayedOffset
  BY <1>2 DEF DomainRecord
<1>6. e \in DomainRecord
  BY <1>2, <1>4 DEF DomainRecord
<1>. QED BY <1>4, <1>5, <1>6

LEMMA ReserveOK ==
  ASSUME NEW d, DomOK(d), NEW s \in Sym
  PROVE  LET e == Reserve(d, s) IN
         /\ DomOK(e) /\ Grows(d, e) /\ KeepsGenerations(d, e)
         /\ e.enqueued = d.enqueued
         /\ Contains(e, s)
         /\ \A o \in Offsets(e) : o \in Offsets(d) \/ e.atoms[o].gen = 0
         /\ \A o \in Offsets(d) : e.atoms[o] = d.atoms[o]
<1> DEFINE e == Reserve(d, s)
<1>1. d \in DomainRecord
  BY DEF DomOK
<1>t. Len(d.atoms) \in Nat /\ Len(d.delayed) \in Nat
      /\ d.initOffset \in Nat /\ d.initDelayedOffset \in Nat
      /\ \A o \in Offsets(d) : d.atoms[o].gen \in Nat
  BY <1>1, DomainTypes
<1>2. CASE Contains(d, s)
  <2>1. e = d
    BY <1>2 DEF Reserve
  <2>2. Grows(d, d)
    BY <1>t DEF Grows
  <2>3. KeepsGenerations(d, d)
    BY DEF KeepsGenerations
  <2>. QED BY <2>1, <2>2, <2>3, <1>2
<1>3. CASE ~Contains(d, s)
  <2>1. /\ e \in DomainRecord
        /\ e.generation = d.generation /\ e.enqueued = d.enqueued
        /\ e.initOffset = d.initOffset /\ e.initDelayedOffset = d.initDelayedOffset
        /\ e.delayed = d.delayed
        /\ Len(e.atoms) = Len(d.atoms) + 1
        /\ \A o \in Offsets(d) : e.atoms[o] = d.atoms[o]
        /\ e.atoms[Len(e.atoms)] = NewAtom(s)
    BY <1>1, <1>3, ReserveFields
  <2>2. \A o \in Offsets(e) : o \in Offsets(d) \/ o = Len(e.atoms)
    BY <2>1, <1>t DEF Offsets
  <2>3. e.atoms[Len(e.atoms)].gen = 0 /\ e.atoms[Len(e.atoms)].sym = s
        /\ ~e.atoms[Len(e.atoms)].delayed
    BY <2>1 DEF NewAtom
  <2>4. Len(e.atoms) \in Offsets(e) /\ \A o \in Offsets(d) : o \in Offsets(e)
    BY <2>1, <1>t DEF Offsets
  <2>5. Grows(d, e)
    BY <2>1, <1>t DEF Grows
  <2>6. KeepsGenerations(d, e)
    BY <2>1, <2>2, <2>3 DEF KeepsGenerations
  <2>7. Len(e.atoms) > d.initOffset
    BY <2>1, <1>t DEF DomOK
  <2>8. DomOK(e)
    <3> HIDE DEF e
    <3>1. e.initOffset <= Len(e.atoms) /\ e.initDelayedOffset <= Len(e.delayed)
      BY <2>1, <1>t DEF DomOK
    <3>2. \A k \in 1..Len(e.delayed) :
            e.delayed[k] \in Offsets(e) /\ e.atoms[e.delayed[k]].delayed
              /\ e.atoms[e.delayed[k]].gen > 0
      <4>1. ASSUME NEW k \in 1..Len(d.delayed)
            PROVE  d.delayed[k] \in Offsets(d) /\ d.atoms[d.delayed[k]].delayed
                     /\ d.atoms[d.delayed[k]].gen > 0
        BY DEF DomOK
      <4>2. ASSUME NEW k \in 1..Len(d.delayed)
            PROVE  d.delayed[k] \in Offsets(e) /\ e.atoms[d.delayed[k]] = d.atoms[d.delayed[k]]
        BY <4>1, <2>1, <2>4
      <4>3. e.delayed = d.delayed
        BY <2>1
      <4>. QED BY <4>1, <4>2, <4>3
    <3>3. \A k, l \in 1..Len(e.delayed) : e.delayed[k] = e.delayed[l] => k = l
      <4>1. \A k, l \in 1..Len(d.delayed) : d.delayed[k] = d.delayed[l] => k = l
        BY DEF DomOK
      <4>2. e.delayed = d.delayed
        BY <2>1
      <4>. QED BY <4>1, <4>2
    <3>4. \A o \in Offsets(e) : e.atoms[o].gen > 0 /\ e.atoms[o].delayed =>
            \E k \in 1..Len(e.delayed) : e.delayed[k] = o
      <4>1. ASSUME NEW o \in Offsets(e), e.atoms[o].gen > 0, e.atoms[o].delayed
            PROVE  \E k \in 1..Len(d.delayed) : d.delayed[k] = o
        <5>1. o \in Offsets(d) /\ e.atoms[o] = d.atoms[o]
          BY <4>1, <2>1, <2>2, <2>3
        <5>. QED BY <5>1, <4>1 DEF DomOK
      <4>. QED BY <4>1, <2>1
    <3>5. \A o \in Offsets(e) : e.atoms[o].gen = 0 /\ o <= e.initOffset => e.atoms[o].delayed
      BY <2>1, <2>2, <2>3, <2>7, <1>t DEF DomOK
    <3>6. \A o \in Offsets(e) : e.atoms[o].gen > 1 =>
            o > e.initOffset
              \/ \E k \in e.initDelayedOffset + 1 .. Len(e.delayed) : e.delayed[k] = o
      <4>1. ASSUME NEW o \in Offsets(e), e.atoms[o].gen > 1
            PROVE  o > d.initOffset
                     \/ \E k \in d.initDelayedOffset + 1 .. Len(d.delayed) : d.delayed[k] = o
        <5>1. o \in Offsets(d) /\ e.atoms[o] = d.atoms[o]
          BY <4>1, <2>1, <2>2, <2>3
        <5>. QED BY <5>1, <4>1 DEF DomOK
      <4>. QED BY <4>1, <2>1
    <3>. QED BY <2>1, <3>1, <3>2, <3>3, <3>4, <3>5, <3>6 DEF DomOK
  <2>9. Contains(e, s)
    BY <2>3, <2>4 DEF Contains
  <2>. QED BY <2>1, <2>2, <2>3, <2>5, <2>6, <2>8, <2>9
<1>. QED BY <1>2, <1>3

(* The components of an atom. *)
LEMMA AtomGen ==
  ASSUME NEW a \in AtomRecord, NEW n \in Nat
  PROVE  LET b == [a EXCEPT !.gen = n] IN
         b \in AtomRecord /\ b.gen = n /\ b.sym = a.sym /\ b.delayed = a.delayed
BY DEF AtomRecord

LEMMA AtomDelayed ==
  ASSUME NEW a \in AtomRecord
  PROVE  LET b == [a EXCEPT !.delayed = TRUE] IN
         b \in AtomRecord /\ b.gen = a.gen /\ b.sym = a.sym /\ b.delayed
BY DEF AtomRecord

(* An atom that becomes defined, in a domain that has it. *)
LEMMA DefineFields ==
  ASSUME NEW d, d \in DomainRecord, NEW o \in Offsets(d), ~IsDefined(d, o)
  PROVE  LET e == DefineOffset(d, o) IN
         /\ e \in DomainRecord
         /\ e.generation = d.generation /\ e.enqueued = d.enqueued
         /\ e.initOffset = d.initOffset /\ e.initDelayedOffset = d.initDelayedOffset
         /\ e.delayed = IF d.atoms[o].delayed THEN Append(d.delayed, o) ELSE d.delayed
         /\ Len(e.atoms) = Len(d.atoms)
         /\ \A p \in Offsets(d) : p # o => e.atoms[p] = d.atoms[p]
         /\ e.atoms[o] = [d.atoms[o] EXCEPT !.gen = d.generation + 2]
<1> DEFINE a == [d.atoms[o] EXCEPT !.gen = d.generation + 2]
           as == [d.atoms EXCEPT ![o] = a]
           dl == IF d.atoms[o].delayed THEN Append(d.delayed, o) ELSE d.delayed
           e == DefineOffset(d, o)
<1>1. d.atoms \in Seq(AtomRecord) /\ d.delayed \in Seq(Nat \ {0})
      /\ o \in Nat \ {0} /\ d.atoms[o] \in AtomRecord /\ d.generation \in Nat
  BY DomainTypes
<1>2. a \in AtomRecord
  <2>1. d.generation + 2 \in Nat
    BY <1>1
  <2>. QED BY <1>1, <2>1, AtomGen
<1>3. as \in Seq(AtomRecord) /\ Len(as) = Len(d.atoms) /\ as[o] = a
      /\ \A p \in Offsets(d) : p # o => as[p] = d.atoms[p]
  <2> HIDE DEF a
  <2>. QED BY <1>1, <1>2 DEF Offsets
<1>4. dl \in Seq(Nat \ {0})
  <2>1. Append(d.delayed, o) \in Seq(Nat \ {0})
    BY <1>1
  <2>2. CASE d.atoms[o].delayed
    BY <2>1, <2>2
  <2>3. CASE ~d.atoms[o].delayed
    BY <1>1, <2>3
  <2>. QED BY <2>2, <2>3
<1>5. e = [d EXCEPT !.atoms = as, !.delayed = dl]
  BY DEF DefineOffset
<1> HIDE DEF as, dl, e
<1>6. e \in DomainRecord /\ e.atoms = as /\ e.delayed = dl
      /\ e.generation = d.generation /\ e.enqueued = d.enqueued
      /\ e.initOffset = d.initOffset /\ e.initDelayedOffset = d.initDelayedOffset
  BY <1>3, <1>4, <1>5 DEF DomainRecord
<1>7. e.delayed = IF d.atoms[o].delayed THEN Append(d.delayed, o) ELSE d.delayed
  BY <1>6 DEF dl
<1>8. Len(e.atoms) = Len(d.atoms) /\ e.atoms[o] = a
      /\ \A p \in Offsets(d) : p # o => e.atoms[p] = d.atoms[p]
  BY <1>3, <1>6
<1>. QED BY <1>6, <1>7, <1>8, Zenon DEF e

LEMMA DefineOffsetOK ==
  ASSUME NEW d, DomOK(d), NEW o \in Offsets(d)
  PROVE  LET e == DefineOffset(d, o) IN
         DomOK(e) /\ Grows(d, e) /\ KeepsGenerations(d, e) /\ e.enqueued = d.enqueued
<1> DEFINE e == DefineOffset(d, o)
<1>1. d \in DomainRecord
  BY DEF DomOK
<1>t. Len(d.atoms) \in Nat /\ Len(d.delayed) \in Nat /\ d.generation \in Nat
      /\ d.initOffset \in Nat /\ d.initDelayedOffset \in Nat
      /\ d.delayed \in Seq(Nat \ {0}) /\ o \in Nat \ {0}
      /\ \A p \in Offsets(d) : d.atoms[p].gen \in Nat
      /\ d.atoms[o] \in AtomRecord
  BY <1>1, DomainTypes
<1>2. CASE IsDefined(d, o)
  <2>1. e = d
    BY <1>2 DEF DefineOffset
  <2>2. Grows(d, d)
    BY <1>t DEF Grows
  <2>3. KeepsGenerations(d, d)
    BY DEF KeepsGenerations
  <2>. QED BY <2>1, <2>2, <2>3
<1>3. CASE ~IsDefined(d, o)
  <2>1. /\ e \in DomainRecord
        /\ e.generation = d.generation /\ e.enqueued = d.enqueued
        /\ e.initOffset = d.initOffset /\ e.initDelayedOffset = d.initDelayedOffset
        /\ e.delayed = IF d.atoms[o].delayed THEN Append(d.delayed, o) ELSE d.delayed
        /\ Len(e.atoms) = Len(d.atoms)
        /\ \A p \in Offsets(d) : p # o => e.atoms[p] = d.atoms[p]
        /\ e.atoms[o] = [d.atoms[o] EXCEPT !.gen = d.generation + 2]
    BY <1>1, <1>3, DefineFields
  <2> HIDE DEF e
  <2>2. d.generation + 2 \in Nat
    BY <1>t
  <2>3. e.atoms[o].gen = d.generation + 2 /\ e.atoms[o].sym = d.atoms[o].sym
        /\ e.atoms[o].delayed = d.atoms[o].delayed
    BY <1>t, <2>1, <2>2, AtomGen
  <2>4. d.atoms[o].gen = 0
    BY <1>3, <1>t DEF IsDefined
  <2>5. Offsets(e) = Offsets(d)
    BY <2>1 DEF Offsets
  (* The delayed vector is kept and gets at most o. *)
  <2>6. /\ Len(e.delayed) \in Nat
        /\ Len(d.delayed) <= Len(e.delayed)
        /\ \A k \in 1..Len(d.delayed) : e.delayed[k] = d.delayed[k]
        /\ \A k \in 1..Len(e.delayed) :
             k \in 1..Len(d.delayed)
               \/ (k = Len(d.delayed) + 1 /\ e.delayed[k] = o /\ d.atoms[o].delayed)
        /\ d.atoms[o].delayed =>
             Len(e.delayed) = Len(d.delayed) + 1 /\ e.delayed[Len(d.delayed) + 1] = o
    <3>1. CASE d.atoms[o].delayed
      <4>1. e.delayed = Append(d.delayed, o)
        BY <2>1, <3>1
      <4>2. Len(e.delayed) = Len(d.delayed) + 1 /\ e.delayed[Len(d.delayed) + 1] = o
            /\ \A k \in 1..Len(d.delayed) : e.delayed[k] = d.delayed[k]
        BY <4>1, <1>t, AppendProperties
      <4>. QED BY <4>2, <3>1, <1>t, SMTT(20)
    <3>2. CASE ~d.atoms[o].delayed
      <4>1. e.delayed = d.delayed
        BY <2>1, <3>2
      <4>. QED BY <4>1, <3>2, <1>t
    <3>. QED BY <3>1, <3>2
  <2>7. ASSUME NEW k \in 1..Len(d.delayed)
        PROVE  d.delayed[k] \in Offsets(d) /\ d.delayed[k] # o
               /\ e.atoms[d.delayed[k]] = d.atoms[d.delayed[k]]
               /\ d.atoms[d.delayed[k]].delayed /\ d.atoms[d.delayed[k]].gen > 0
    <3>1. d.delayed[k] \in Offsets(d) /\ d.atoms[d.delayed[k]].gen > 0
          /\ d.atoms[d.delayed[k]].delayed
      BY DEF DomOK
    <3>. QED BY <3>1, <2>1, <2>4
  <2>8. DomOK(e)
    <3>1. e.initOffset <= Len(e.atoms) /\ e.initDelayedOffset <= Len(e.delayed)
      BY <2>1, <2>6, <1>t DEF DomOK
    <3>2. ASSUME NEW k \in 1..Len(e.delayed)
          PROVE  e.delayed[k] \in Offsets(e) /\ e.atoms[e.delayed[k]].delayed
                   /\ e.atoms[e.delayed[k]].gen > 0
      <4>1. CASE k \in 1..Len(d.delayed)
        BY <4>1, <2>5, <2>6, <2>7
      <4>2. CASE e.delayed[k] = o /\ d.atoms[o].delayed
        BY <4>2, <2>3, <2>5, <1>t
      <4>. QED BY <4>1, <4>2, <2>6
    <3>3. ASSUME NEW k \in 1..Len(e.delayed), NEW l \in 1..Len(e.delayed),
                 e.delayed[k] = e.delayed[l]
          PROVE  k = l
      <4>1. \A m, n \in 1..Len(d.delayed) : d.delayed[m] = d.delayed[n] => m = n
        BY DEF DomOK
      <4>2. CASE k \in 1..Len(d.delayed) /\ l \in 1..Len(d.delayed)
        BY <4>1, <4>2, <3>3, <2>6
      <4>3. CASE k \in 1..Len(d.delayed) /\ e.delayed[l] = o
        BY <4>3, <3>3, <2>6, <2>7
      <4>4. CASE l \in 1..Len(d.delayed) /\ e.delayed[k] = o
        BY <4>4, <3>3, <2>6, <2>7
      <4>5. CASE k = Len(d.delayed) + 1 /\ l = Len(d.delayed) + 1
        BY <4>5
      <4>. QED BY <4>2, <4>3, <4>4, <4>5, <2>6
    <3>4. ASSUME NEW p \in Offsets(e), e.atoms[p].gen > 0, e.atoms[p].delayed
          PROVE  \E k \in 1..Len(e.delayed) : e.delayed[k] = p
      <4>1. CASE p = o
        BY <4>1, <3>4, <2>3, <2>6, <1>t, SMTT(20)
      <4>2. CASE p # o
        <5>1. e.atoms[p] = d.atoms[p] /\ p \in Offsets(d)
          BY <4>2, <2>1, <2>5
        <5>2. PICK k \in 1..Len(d.delayed) : d.delayed[k] = p
          BY <5>1, <3>4 DEF DomOK
        <5>3. k \in 1..Len(e.delayed)
          BY <2>6, <1>t
        <5>. QED BY <5>2, <5>3, <2>6
      <4>. QED BY <4>1, <4>2
    <3>5. ASSUME NEW p \in Offsets(e), e.atoms[p].gen = 0, p <= e.initOffset
          PROVE  e.atoms[p].delayed
      <4>1. p # o
        BY <3>5, <2>2, <2>3, <1>t
      <4>2. e.atoms[p] = d.atoms[p] /\ p \in Offsets(d)
        BY <4>1, <2>1, <2>5
      <4>. QED BY <4>2, <3>5, <2>1 DEF DomOK
    <3>6. ASSUME NEW p \in Offsets(e), e.atoms[p].gen > 1
          PROVE  p > e.initOffset
                   \/ \E k \in e.initDelayedOffset + 1 .. Len(e.delayed) : e.delayed[k] = p
      <4>1. CASE p = o
        <5>1. CASE d.atoms[o].delayed
          <6>1. Len(d.delayed) + 1 \in e.initDelayedOffset + 1 .. Len(e.delayed)
            BY <5>1, <2>1, <2>6, <1>t DEF DomOK
          <6>. QED BY <6>1, <5>1, <4>1, <2>6
        <5>2. CASE ~d.atoms[o].delayed
          <6>1. ~(o <= d.initOffset)
            BY <5>2, <2>4 DEF DomOK
          <6>. QED BY <6>1, <4>1, <2>1, <1>t
        <5>. QED BY <5>1, <5>2
      <4>2. CASE p # o
        <5>1. e.atoms[p] = d.atoms[p] /\ p \in Offsets(d)
          BY <4>2, <2>1, <2>5
        <5>2. CASE p > d.initOffset
          BY <5>2, <2>1
        <5>3. CASE \E k \in d.initDelayedOffset + 1 .. Len(d.delayed) : d.delayed[k] = p
          <6>1. PICK k \in d.initDelayedOffset + 1 .. Len(d.delayed) : d.delayed[k] = p
            BY <5>3
          <6>2. k \in 1..Len(d.delayed) /\ k \in e.initDelayedOffset + 1 .. Len(e.delayed)
            BY <6>1, <2>1, <2>6, <1>t
          <6>. QED BY <6>1, <6>2, <2>6
        <5>. QED BY <5>1, <5>2, <5>3, <3>6 DEF DomOK
      <4>. QED BY <4>1, <4>2
    <3>. QED BY <2>1, <3>1, <3>2, <3>3, <3>4, <3>5, <3>6 DEF DomOK
  <2>9. Grows(d, e)
    <3>1. ASSUME NEW p \in Offsets(d)
          PROVE  /\ e.atoms[p].sym = d.atoms[p].sym
                 /\ d.atoms[p].gen > 0 => e.atoms[p].gen > 0
                 /\ e.atoms[p].delayed = d.atoms[p].delayed
      <4>1. CASE p = o
        BY <4>1, <2>3, <2>4
      <4>2. CASE p # o
        BY <4>2, <2>1
      <4>. QED BY <4>1, <4>2
    <3>2. Len(d.atoms) <= Len(e.atoms)
      BY <2>1, <1>t
    <3>. QED BY <3>1, <3>2, <2>6, Zenon DEF Grows
  <2>10. KeepsGenerations(d, e)
    BY <2>1, <2>3, <2>4, <2>5 DEF KeepsGenerations
  <2>. QED BY <2>1, <2>8, <2>9, <2>10 DEF e
<1>. QED BY <1>2, <1>3

(* A symbol is defined: reserved if it is not there yet. *)
LEMMA DefineOK ==
  ASSUME NEW d, DomOK(d), NEW s \in Sym
  PROVE  LET e == Define(d, s) IN
         DomOK(e) /\ Grows(d, e) /\ KeepsGenerations(d, e) /\ e.enqueued = d.enqueued
<1> DEFINE r == Reserve(d, s)
           o == Find(r, s)
           e == DefineOffset(r, o)
<1>1. /\ DomOK(r) /\ Grows(d, r) /\ KeepsGenerations(d, r)
      /\ r.enqueued = d.enqueued
      /\ Contains(r, s)
      /\ \A p \in Offsets(r) : p \in Offsets(d) \/ r.atoms[p].gen = 0
      /\ \A p \in Offsets(d) : r.atoms[p] = d.atoms[p]
  BY ReserveOK
<1>2. o \in Offsets(r)
  BY <1>1 DEF Contains, Find
<1> HIDE DEF r, o
<1>3. DomOK(e) /\ Grows(r, e) /\ KeepsGenerations(r, e) /\ e.enqueued = r.enqueued
  BY <1>1, <1>2, DefineOffsetOK
<1>4. Define(d, s) = e
  BY DEF Define, r, o
<1> HIDE DEF e
<1>t. Len(d.atoms) \in Nat /\ Len(r.atoms) \in Nat /\ Len(e.atoms) \in Nat
      /\ Len(d.delayed) \in Nat /\ Len(r.delayed) \in Nat /\ Len(e.delayed) \in Nat
  BY <1>1, <1>3, DomainTypes DEF DomOK
<1>5. Grows(d, e)
  <2>1. Len(d.atoms) <= Len(e.atoms) /\ Len(d.delayed) <= Len(e.delayed)
    BY <1>1, <1>3, <1>t DEF Grows
  <2>2. ASSUME NEW k \in 1..Len(d.delayed) PROVE e.delayed[k] = d.delayed[k]
    <3>1. k \in 1..Len(r.delayed) /\ r.delayed[k] = d.delayed[k]
      BY <1>1, <1>t DEF Grows
    <3>. QED BY <3>1, <1>3 DEF Grows
  <2>3. ASSUME NEW p \in Offsets(d)
        PROVE  /\ e.atoms[p].sym = d.atoms[p].sym
               /\ d.atoms[p].gen > 0 => e.atoms[p].gen > 0
               /\ d.atoms[p].gen > 0 => e.atoms[p].delayed = d.atoms[p].delayed
               /\ d.atoms[p].delayed => e.atoms[p].delayed
               /\ d.atoms[p].gen = 0 /\ e.atoms[p].gen > 0 =>
                    e.atoms[p].delayed = d.atoms[p].delayed
    <3>1. p \in Offsets(r) /\ r.atoms[p] = d.atoms[p]
      BY <1>1, <1>t DEF Grows, Offsets
    <3>. QED BY <3>1, <1>3 DEF Grows
  <2>. QED BY <2>1, <2>2, <2>3 DEF Grows
<1>6. KeepsGenerations(d, e)
  <2>1. e.generation = d.generation /\ r.generation = d.generation
    BY <1>1, <1>3 DEF KeepsGenerations
  <2>2. ASSUME NEW p \in Offsets(e)
        PROVE  \/ e.atoms[p].gen = 0
               \/ p \in Offsets(d) /\ e.atoms[p].gen = d.atoms[p].gen
               \/ e.atoms[p].gen = d.generation + 2
                    /\ (p \in Offsets(d) => d.atoms[p].gen = 0)
    <3>1. CASE e.atoms[p].gen = 0
      BY <3>1
    <3>2. CASE p \in Offsets(r) /\ e.atoms[p].gen = r.atoms[p].gen
      BY <3>2, <1>1
    <3>3. CASE e.atoms[p].gen = r.generation + 2 /\ (p \in Offsets(r) => r.atoms[p].gen = 0)
      <4>1. p \in Offsets(d) => p \in Offsets(r)
        BY <1>1, <1>t DEF Grows, Offsets
      <4>. QED BY <4>1, <3>3, <2>1, <1>1
    <3>. QED BY <3>1, <3>2, <3>3, <1>3 DEF KeepsGenerations
  <2>. QED BY <2>1, <2>2 DEF KeepsGenerations
<1>. QED BY <1>1, <1>3, <1>4, <1>5, <1>6

(* A sequence given by its elements. *)
LEMMA SeqOfElements ==
  ASSUME NEW S, NEW n \in Nat, NEW f \in [1..n -> S]
  PROVE  f \in Seq(S) /\ Len(f) = n
<1>1. f \in Seq(S)
  BY SeqDef
<1>2. Len(f) \in Nat /\ DOMAIN f = 1..Len(f)
  BY <1>1, LenProperties
<1>3. 1..Len(f) = 1..n
  BY <1>2
<1>4. Len(f) = n
  BY <1>2, <1>3
<1>. QED BY <1>1, <1>4

(* Marking undefined atoms as delayed changes nothing else. *)
LEMMA MarkFields ==
  ASSUME NEW d, d \in DomainRecord, NEW os
  PROVE  LET e == MarkDelayed(d, os) IN
         /\ e \in DomainRecord
         /\ e.generation = d.generation /\ e.enqueued = d.enqueued
         /\ e.initOffset = d.initOffset /\ e.initDelayedOffset = d.initDelayedOffset
         /\ e.delayed = d.delayed
         /\ Len(e.atoms) = Len(d.atoms)
         /\ \A o \in Offsets(d) :
              /\ e.atoms[o] \in AtomRecord
              /\ e.atoms[o].sym = d.atoms[o].sym
              /\ e.atoms[o].gen = d.atoms[o].gen
              /\ d.atoms[o].gen > 0 => e.atoms[o] = d.atoms[o]
              /\ d.atoms[o].delayed => e.atoms[o].delayed
              /\ d.atoms[o].gen = 0 /\ o \in os => e.atoms[o].delayed
<1> DEFINE as == [o \in Offsets(d) |->
                    IF o \in os /\ ~IsDefined(d, o)
                    THEN [d.atoms[o] EXCEPT !.delayed = TRUE] ELSE d.atoms[o]]
           e == MarkDelayed(d, os)
<1>t. Len(d.atoms) \in Nat /\ (\A o \in Offsets(d) : d.atoms[o] \in AtomRecord)
      /\ \A o \in Offsets(d) : d.atoms[o].gen \in Nat
  BY DomainTypes
<1>1. ASSUME NEW o \in Offsets(d)
      PROVE  /\ as[o] \in AtomRecord
             /\ as[o].sym = d.atoms[o].sym
             /\ as[o].gen = d.atoms[o].gen
             /\ d.atoms[o].gen > 0 => as[o] = d.atoms[o]
             /\ d.atoms[o].delayed => as[o].delayed
             /\ d.atoms[o].gen = 0 /\ o \in os => as[o].delayed
  <2>1. d.atoms[o] \in AtomRecord
    BY <1>t
  <2>2. CASE o \in os /\ ~IsDefined(d, o)
    <3>1. as[o] = [d.atoms[o] EXCEPT !.delayed = TRUE]
      BY <2>2
    <3>2. ~(d.atoms[o].gen > 0)
      BY <2>2 DEF IsDefined
    <3> HIDE DEF as
    <3>. QED BY <2>1, <3>1, <3>2, AtomDelayed
  <2>3. CASE ~(o \in os /\ ~IsDefined(d, o))
    <3>1. as[o] = d.atoms[o]
      BY <2>3
    <3>2. d.atoms[o].gen = 0 => ~(d.atoms[o].gen > 0)
      OBVIOUS
    <3> HIDE DEF as
    <3>. QED BY <2>1, <2>3, <3>1, <3>2 DEF IsDefined
  <2>. QED BY <2>2, <2>3
<1>2. as \in [1..Len(d.atoms) -> AtomRecord]
  BY <1>1 DEF Offsets
<1>3. e = [d EXCEPT !.atoms = as]
  BY DEF MarkDelayed
<1> HIDE DEF as, e
<1>4. as \in Seq(AtomRecord) /\ Len(as) = Len(d.atoms)
  BY <1>2, <1>t, SeqOfElements
<1>5. e \in DomainRecord /\ e.atoms = as /\ e.delayed = d.delayed
      /\ e.generation = d.generation /\ e.enqueued = d.enqueued
      /\ e.initOffset = d.initOffset /\ e.initDelayedOffset = d.initDelayedOffset
  BY <1>3, <1>4 DEF DomainRecord
<1>. QED BY <1>1, <1>4, <1>5 DEF e

(* A step that changes neither the offsets, nor what is defined, nor the   *)
(* delayed vector preserves DomOK if it respects the import offsets.       *)
LEMMA SameDelayedOK ==
  ASSUME NEW d, DomOK(d), NEW e, e \in DomainRecord,
         e.delayed = d.delayed, Len(e.atoms) = Len(d.atoms),
         d.initOffset <= e.initOffset, e.initOffset <= Len(e.atoms),
         d.initDelayedOffset <= e.initDelayedOffset,
         e.initDelayedOffset <= Len(e.delayed),
         \A o \in Offsets(d) :
           /\ e.atoms[o].sym = d.atoms[o].sym
           /\ e.atoms[o].gen > 0 <=> d.atoms[o].gen > 0
           /\ d.atoms[o].gen > 0 => e.atoms[o].delayed = d.atoms[o].delayed
           /\ d.atoms[o].delayed => e.atoms[o].delayed
           /\ d.atoms[o].gen = 0 /\ o <= e.initOffset => e.atoms[o].delayed
           /\ e.atoms[o].gen > 1 =>
                o > e.initOffset
                  \/ \E k \in e.initDelayedOffset + 1 .. Len(e.delayed) : e.delayed[k] = o
  PROVE  DomOK(e) /\ Grows(d, e)
<1>1. d \in DomainRecord
  BY DEF DomOK
<1>t. Len(d.atoms) \in Nat /\ Len(d.delayed) \in Nat
      /\ (\A o \in Offsets(d) : d.atoms[o].gen \in Nat)
      /\ Offsets(e) = Offsets(d)
      /\ (\A o \in Offsets(d) : e.atoms[o].gen \in Nat)
  <2>1. Offsets(e) = Offsets(d)
    BY DEF Offsets
  <2>. QED BY <1>1, <2>1, DomainTypes
<1>2. ASSUME NEW o \in Offsets(d) PROVE e.atoms[o].gen = 0 <=> d.atoms[o].gen = 0
  <2>1. e.atoms[o].gen \in Nat /\ d.atoms[o].gen \in Nat
        /\ (e.atoms[o].gen > 0 <=> d.atoms[o].gen > 0)
    BY <1>t
  <2>. QED BY <2>1
<1>3. Grows(d, e)
  <2>1. Len(d.atoms) <= Len(e.atoms) /\ Len(d.delayed) <= Len(e.delayed)
    BY <1>t
  <2>2. \A o \in Offsets(d) : ~(d.atoms[o].gen = 0 /\ e.atoms[o].gen > 0)
    BY <1>2
  <2>. QED BY <2>1, <2>2 DEF Grows
<1>4. DomOK(e)
  <2>1. ASSUME NEW k \in 1..Len(e.delayed)
        PROVE  e.delayed[k] \in Offsets(e) /\ e.atoms[e.delayed[k]].delayed
                 /\ e.atoms[e.delayed[k]].gen > 0
    <3>1. k \in 1..Len(d.delayed) /\ e.delayed[k] = d.delayed[k]
      OBVIOUS
    <3>2. d.delayed[k] \in Offsets(d) /\ d.atoms[d.delayed[k]].delayed
            /\ d.atoms[d.delayed[k]].gen > 0
      BY <3>1 DEF DomOK
    <3>. QED BY <3>1, <3>2, <1>t
  <2>2. \A k, l \in 1..Len(e.delayed) : e.delayed[k] = e.delayed[l] => k = l
    <3>1. \A k, l \in 1..Len(d.delayed) : d.delayed[k] = d.delayed[l] => k = l
      BY DEF DomOK
    <3>. QED BY <3>1
  <2>3. ASSUME NEW o \in Offsets(e), e.atoms[o].gen > 0, e.atoms[o].delayed
        PROVE  \E k \in 1..Len(e.delayed) : e.delayed[k] = o
    <3>1. o \in Offsets(d) /\ d.atoms[o].gen > 0 /\ d.atoms[o].delayed
      BY <2>3, <1>t
    <3>2. \E k \in 1..Len(d.delayed) : d.delayed[k] = o
      BY <3>1 DEF DomOK
    <3>. QED BY <3>2
  <2>4. \A o \in Offsets(e) : e.atoms[o].gen = 0 /\ o <= e.initOffset => e.atoms[o].delayed
    BY <1>2, <1>t
  <2>5. \A o \in Offsets(e) : e.atoms[o].gen > 1 =>
          o > e.initOffset
            \/ \E k \in e.initDelayedOffset + 1 .. Len(e.delayed) : e.delayed[k] = o
    BY <1>t
  <2>. QED BY <2>1, <2>2, <2>3, <2>4, <2>5 DEF DomOK
<1>. QED BY <1>3, <1>4

LEMMA MarkOK ==
  ASSUME NEW d, DomOK(d), NEW os
  PROVE  LET e == MarkDelayed(d, os) IN
         /\ DomOK(e) /\ Grows(d, e) /\ KeepsGenerations(d, e)
         /\ e.enqueued = d.enqueued /\ e.delayed = d.delayed
         /\ Offsets(e) = Offsets(d)
         /\ \A o \in Offsets(d) : e.atoms[o].gen = d.atoms[o].gen
<1> DEFINE e == MarkDelayed(d, os)
<1>1. d \in DomainRecord
  BY DEF DomOK
<1>2. /\ e \in DomainRecord
      /\ e.generation = d.generation /\ e.enqueued = d.enqueued
      /\ e.initOffset = d.initOffset /\ e.initDelayedOffset = d.initDelayedOffset
      /\ e.delayed = d.delayed
      /\ Len(e.atoms) = Len(d.atoms)
      /\ \A o \in Offsets(d) :
           /\ e.atoms[o].sym = d.atoms[o].sym
           /\ e.atoms[o].gen = d.atoms[o].gen
           /\ d.atoms[o].gen > 0 => e.atoms[o] = d.atoms[o]
           /\ d.atoms[o].delayed => e.atoms[o].delayed
  BY <1>1, MarkFields
<1> HIDE DEF e
<1>t. Offsets(e) = Offsets(d) /\ d.initOffset \in Nat /\ d.initDelayedOffset \in Nat
  BY <1>1, <1>2, DomainTypes DEF Offsets
<1>3. ASSUME NEW o \in Offsets(d)
      PROVE  /\ d.atoms[o].gen = 0 /\ o <= d.initOffset => d.atoms[o].delayed
             /\ d.atoms[o].gen > 1 =>
                  o > d.initOffset
                    \/ \E k \in d.initDelayedOffset + 1 .. Len(d.delayed) : d.delayed[k] = o
  BY DEF DomOK
<1>4. d.initOffset <= Len(d.atoms) /\ d.initDelayedOffset <= Len(d.delayed)
  BY DEF DomOK
<1>5. DomOK(e) /\ Grows(d, e)
  <2>1. \A o \in Offsets(d) :
           /\ e.atoms[o].sym = d.atoms[o].sym
           /\ e.atoms[o].gen > 0 <=> d.atoms[o].gen > 0
           /\ d.atoms[o].gen > 0 => e.atoms[o].delayed = d.atoms[o].delayed
           /\ d.atoms[o].delayed => e.atoms[o].delayed
           /\ d.atoms[o].gen = 0 /\ o <= e.initOffset => e.atoms[o].delayed
           /\ e.atoms[o].gen > 1 =>
                o > e.initOffset
                  \/ \E k \in e.initDelayedOffset + 1 .. Len(e.delayed) : e.delayed[k] = o
    BY <1>2, <1>3
  <2>2. d.initOffset <= e.initOffset /\ d.initDelayedOffset <= e.initDelayedOffset
        /\ e.initOffset <= Len(e.atoms) /\ e.initDelayedOffset <= Len(e.delayed)
    BY <1>2, <1>4, <1>t
  <2>. QED BY <1>2, <2>1, <2>2, SameDelayedOK
<1>6. KeepsGenerations(d, e)
  BY <1>2, <1>t DEF KeepsGenerations
<1>. QED BY <1>2, <1>5, <1>6, <1>t DEF e

(* The counters of a domain change without its atoms. *)
LEMMA CountersOK ==
  ASSUME NEW d, DomOK(d), NEW e, e \in DomainRecord, e.atoms = d.atoms,
         e.delayed = d.delayed, e.initOffset = d.initOffset,
         e.initDelayedOffset = d.initDelayedOffset
  PROVE  DomOK(e) /\ Grows(d, e)
<1>1. d \in DomainRecord
  BY DEF DomOK
<1>t. Len(d.atoms) \in Nat /\ Len(d.delayed) \in Nat
       /\ d.initOffset \in Nat /\ d.initDelayedOffset \in Nat
  BY <1>1, DomainTypes
<1>2. d.initOffset <= Len(d.atoms) /\ d.initDelayedOffset <= Len(d.delayed)
      /\ d.initOffset <= d.initOffset /\ d.initDelayedOffset <= d.initDelayedOffset
  BY <1>t DEF DomOK
<1>3. \A o \in Offsets(d) :
        /\ d.atoms[o].gen = 0 /\ o <= d.initOffset => d.atoms[o].delayed
        /\ d.atoms[o].gen > 1 =>
             o > d.initOffset
               \/ \E k \in d.initDelayedOffset + 1 .. Len(d.delayed) : d.delayed[k] = o
  BY DEF DomOK
<1>4. \A o \in Offsets(d) :
        /\ d.atoms[o].gen = 0 /\ o <= e.initOffset => d.atoms[o].delayed
        /\ d.atoms[o].gen > 1 =>
             o > e.initOffset
               \/ \E k \in e.initDelayedOffset + 1 .. Len(e.delayed) : e.delayed[k] = o
  BY <1>3
<1>. QED BY <1>2, <1>4, SameDelayedOK

(* init() leaves no atom of a later generation: those it has not seen      *)
(* before are reset, and the others are of generation 0 already.           *)
LEMMA InitDomainOK ==
  ASSUME NEW d, DomOK(d)
  PROVE  LET e == InitDomain(d) IN
         /\ DomOK(e) /\ Grows(d, e)
         /\ e.enqueued = d.enqueued /\ e.generation = 0
         /\ e.delayed = d.delayed /\ Offsets(e) = Offsets(d)
         /\ \A o \in Offsets(e) : e.atoms[o].gen <= 1
         /\ \A o \in Offsets(d) : e.atoms[o].gen > 0 => d.atoms[o].gen > 0
<1> DEFINE late == {d.delayed[k] : k \in d.initDelayedOffset + 1 .. Len(d.delayed)}
           m == MarkDelayed(d, d.initOffset + 1 .. Len(d.atoms))
           as == [o \in Offsets(d) |->
                    IF o \in late \/ (o > d.initOffset /\ IsDefined(d, o))
                    THEN [m.atoms[o] EXCEPT !.gen = 1] ELSE m.atoms[o]]
           e == InitDomain(d)
<1>1. d \in DomainRecord
  BY DEF DomOK
<1>t. Len(d.atoms) \in Nat /\ Len(d.delayed) \in Nat
      /\ d.initOffset \in Nat /\ d.initDelayedOffset \in Nat
      /\ \A o \in Offsets(d) : d.atoms[o].gen \in Nat /\ o \in Nat
  BY <1>1, DomainTypes
<1>2. \A o \in Offsets(d) :
        /\ m.atoms[o] \in AtomRecord
        /\ m.atoms[o].sym = d.atoms[o].sym
        /\ m.atoms[o].gen = d.atoms[o].gen
        /\ d.atoms[o].gen > 0 => m.atoms[o] = d.atoms[o]
        /\ d.atoms[o].delayed => m.atoms[o].delayed
        /\ d.atoms[o].gen = 0 /\ o \in d.initOffset + 1 .. Len(d.atoms) => m.atoms[o].delayed
  <2> DEFINE os == d.initOffset + 1 .. Len(d.atoms)
  <2> HIDE DEF os
  <2>1. \A o \in Offsets(d) :
          /\ MarkDelayed(d, os).atoms[o] \in AtomRecord
          /\ MarkDelayed(d, os).atoms[o].sym = d.atoms[o].sym
          /\ MarkDelayed(d, os).atoms[o].gen = d.atoms[o].gen
          /\ d.atoms[o].gen > 0 => MarkDelayed(d, os).atoms[o] = d.atoms[o]
          /\ d.atoms[o].delayed => MarkDelayed(d, os).atoms[o].delayed
          /\ d.atoms[o].gen = 0 /\ o \in os => MarkDelayed(d, os).atoms[o].delayed
    BY <1>1, MarkFields
  <2>. QED BY <2>1 DEF os
<1>3. ASSUME NEW o \in late
      PROVE  o \in Offsets(d) /\ d.atoms[o].gen > 0 /\ d.atoms[o].delayed
  <2>1. PICK k \in d.initDelayedOffset + 1 .. Len(d.delayed) : o = d.delayed[k]
    BY <1>3
  <2>2. k \in 1..Len(d.delayed)
    BY <1>t
  <2>. QED BY <2>1, <2>2 DEF DomOK
<1>4. ASSUME NEW o \in Offsets(d), d.atoms[o].gen > 1
      PROVE  o \in late \/ o > d.initOffset
  BY <1>4 DEF DomOK
<1>5. ASSUME NEW o \in Offsets(d), d.atoms[o].gen = 0, o <= d.initOffset
      PROVE  d.atoms[o].delayed
  BY <1>5 DEF DomOK
<1> HIDE DEF m, late
<1>6. ASSUME NEW o \in Offsets(d)
      PROVE  /\ as[o] \in AtomRecord
             /\ as[o].sym = d.atoms[o].sym
             /\ as[o].gen <= 1
             /\ as[o].gen > 0 <=> d.atoms[o].gen > 0
             /\ d.atoms[o].gen > 0 => as[o].delayed = d.atoms[o].delayed
             /\ d.atoms[o].delayed => as[o].delayed
             /\ d.atoms[o].gen = 0 => as[o].delayed
  <2>1. CASE o \in late \/ (o > d.initOffset /\ IsDefined(d, o))
    <3>1. as[o] = [m.atoms[o] EXCEPT !.gen = 1]
      BY <2>1
    <3>2. d.atoms[o].gen > 0
      BY <2>1, <1>3 DEF IsDefined
    <3> HIDE DEF as
    <3>3. as[o] \in AtomRecord /\ as[o].gen = 1 /\ as[o].sym = m.atoms[o].sym
          /\ as[o].delayed = m.atoms[o].delayed
      <4>1. 1 \in Nat /\ m.atoms[o] \in AtomRecord
        BY <1>2
      <4>. QED BY <3>1, <4>1, AtomGen
    <3>4. m.atoms[o].sym = d.atoms[o].sym /\ m.atoms[o].delayed = d.atoms[o].delayed
      BY <3>2, <1>2
    <3>5. ~(d.atoms[o].gen = 0)
      BY <3>2
    <3>6. as[o].gen <= 1 /\ as[o].gen > 0
      BY <3>3
    <3>. QED BY <3>2, <3>3, <3>4, <3>5, <3>6
  <2>2. CASE ~(o \in late \/ (o > d.initOffset /\ IsDefined(d, o)))
    <3>1. as[o] = m.atoms[o]
      BY <2>2
    <3> HIDE DEF as
    <3>2. ~(d.atoms[o].gen > 1)
      <4>1. d.atoms[o].gen > 1 => d.atoms[o].gen > 0
        BY <1>t
      <4>. QED BY <1>4, <2>2, <4>1 DEF IsDefined
    <3>3. d.atoms[o].gen = 0 => m.atoms[o].delayed
      <4>1. o <= d.initOffset \/ o \in d.initOffset + 1 .. Len(d.atoms)
        BY <1>t DEF Offsets
      <4>. QED BY <4>1, <1>2, <1>5
    <3>4. d.atoms[o].gen <= 1
      BY <3>2, <1>t
    <3>5. /\ m.atoms[o] \in AtomRecord
          /\ m.atoms[o].sym = d.atoms[o].sym
          /\ m.atoms[o].gen = d.atoms[o].gen
          /\ d.atoms[o].gen > 0 => m.atoms[o] = d.atoms[o]
          /\ d.atoms[o].delayed => m.atoms[o].delayed
      BY <1>2
    <3>. QED BY <3>1, <3>3, <3>4, <3>5
  <2>. QED BY <2>1, <2>2
<1>7. as \in [1..Len(d.atoms) -> AtomRecord]
  BY <1>6 DEF Offsets
<1>8. e = [d EXCEPT !.generation = 0, !.atoms = as, !.initOffset = Len(d.atoms),
                    !.initDelayedOffset = Len(d.delayed)]
  BY DEF InitDomain, m, late
<1> HIDE DEF as, e
<1>9. as \in Seq(AtomRecord) /\ Len(as) = Len(d.atoms)
  BY <1>7, <1>t, SeqOfElements
<1>10. e \in DomainRecord /\ e.atoms = as /\ e.delayed = d.delayed
      /\ e.generation = 0 /\ e.enqueued = d.enqueued
      /\ e.initOffset = Len(d.atoms) /\ e.initDelayedOffset = Len(d.delayed)
  BY <1>8, <1>9, <1>t, <1>1 DEF DomainRecord
<1>11. d.initOffset <= Len(d.atoms) /\ d.initDelayedOffset <= Len(d.delayed)
  BY DEF DomOK
<1>12. Offsets(e) = Offsets(d)
  BY <1>9, <1>10 DEF Offsets
<1>13. \A o \in Offsets(d) : ~(as[o].gen > 1)
  <2>1. ASSUME NEW o \in Offsets(d) PROVE ~(as[o].gen > 1)
    <3>1. as[o].gen \in Nat
      BY <1>6 DEF AtomRecord
    <3>2. as[o].gen <= 1
      BY <1>6
    <3>3. \A n \in Nat : n <= 1 => ~(n > 1)
      OBVIOUS
    <3>. QED BY <3>1, <3>2, <3>3, Zenon
  <2>. QED BY <2>1
<1>14. DomOK(e) /\ Grows(d, e)
  <2>1. \A o \in Offsets(d) :
           /\ e.atoms[o].sym = d.atoms[o].sym
           /\ e.atoms[o].gen > 0 <=> d.atoms[o].gen > 0
           /\ d.atoms[o].gen > 0 => e.atoms[o].delayed = d.atoms[o].delayed
           /\ d.atoms[o].delayed => e.atoms[o].delayed
           /\ d.atoms[o].gen = 0 /\ o <= e.initOffset => e.atoms[o].delayed
           /\ e.atoms[o].gen > 1 =>
                o > e.initOffset
                  \/ \E k \in e.initDelayedOffset + 1 .. Len(e.delayed) : e.delayed[k] = o
    BY <1>6, <1>10, <1>13
  <2>2. Len(e.atoms) = Len(d.atoms)
        /\ d.initOffset <= e.initOffset /\ d.initDelayedOffset <= e.initDelayedOffset
        /\ e.initOffset <= Len(e.atoms) /\ e.initDelayedOffset <= Len(e.delayed)
    <3>1. Len(e.atoms) = Len(d.atoms) /\ Len(e.delayed) = Len(d.delayed)
      BY <1>9, <1>10
    <3>2. e.initOffset = Len(d.atoms) /\ e.initDelayedOffset = Len(d.delayed)
      BY <1>10
    <3>. QED BY <3>1, <3>2, <1>11, <1>t
  <2>. QED BY <1>10, <2>1, <2>2, SameDelayedOK
<1>15. \A o \in Offsets(d) : e.atoms[o].gen <= 1 /\ (e.atoms[o].gen > 0 => d.atoms[o].gen > 0)
  BY <1>6, <1>10
<1>. QED BY <1>10, <1>12, <1>14, <1>15 DEF e

-----------------------------------------------------------------------------
(* The indices *)

(* The atoms an index should hold. *)
Matched(d, ix) == {o \in Offsets(d) : d.atoms[o].gen > 0 /\ d.atoms[o].sym \in ix.match}

BatchesDisjoint(ix) ==
  \A b, c \in DOMAIN ix.batches : b # c => ix.batches[b] \cap ix.batches[c] = {}

(* An update finds exactly what the index does not hold yet. *)
LEMMA FreshSplit ==
  ASSUME NEW d, DomOK(d), NEW ix, IdxOK(d, ix)
  PROVE  Fresh(d, ix) = Matched(d, ix) \ Content(ix) /\ Content(ix) \subseteq Matched(d, ix)
<1>t. Len(d.atoms) \in Nat /\ Len(d.delayed) \in Nat
      /\ ix.imported \in Nat /\ ix.importedDelayed \in Nat
      /\ ix.imported <= Len(d.atoms) /\ ix.importedDelayed <= Len(d.delayed)
      /\ (\A o \in Offsets(d) : o \in Nat \ {0})
  BY DomainTypes, IndexTypes DEF DomOK, IdxOK
<1>1. Content(ix) = Imported(d, ix)
  BY DEF IdxOK
<1>2. ASSUME NEW k \in 1..Len(d.delayed)
      PROVE  /\ d.delayed[k] \in Offsets(d)
             /\ d.atoms[d.delayed[k]].delayed
             /\ d.atoms[d.delayed[k]].gen > 0
  BY DEF DomOK
<1>3. ASSUME NEW o \in Fresh(d, ix) PROVE o \in Matched(d, ix) /\ o \notin Imported(d, ix)
  <2>1. CASE o \in ix.imported + 1 .. Len(d.atoms) /\ IsDefined(d, o)
             /\ ~d.atoms[o].delayed /\ d.atoms[o].sym \in ix.match
    <3>1. o \in Offsets(d) /\ ~(o <= ix.imported)
      BY <2>1, <1>t DEF Offsets
    <3>2. ~ \E k \in 1..ix.importedDelayed : d.delayed[k] = o
      BY <2>1, <1>2, <1>t
    <3>. QED BY <2>1, <3>1, <3>2 DEF Matched, Imported, IsDefined
  <2>2. CASE \E k \in ix.importedDelayed + 1 .. Len(d.delayed) :
               d.delayed[k] = o /\ d.atoms[o].sym \in ix.match
    <3>1. PICK k \in ix.importedDelayed + 1 .. Len(d.delayed) :
            d.delayed[k] = o /\ d.atoms[o].sym \in ix.match
      BY <2>2
    <3>2. k \in 1..Len(d.delayed) /\ ~(k \in 1..ix.importedDelayed)
      BY <1>t
    <3>3. o \in Offsets(d) /\ d.atoms[o].delayed /\ d.atoms[o].gen > 0
      BY <3>1, <3>2, <1>2
    <3>4. ASSUME NEW l \in 1..ix.importedDelayed PROVE d.delayed[l] # o
      <4>1. l \in 1..Len(d.delayed)
        BY <1>t
      <4>2. d.delayed[l] = d.delayed[k] => l = k
        BY <4>1, <3>2 DEF DomOK
      <4>. QED BY <4>2, <3>1, <3>2
    <3>. QED BY <3>1, <3>3, <3>4 DEF Matched, Imported
  <2>. QED BY <1>3, <2>1, <2>2 DEF Fresh, Scanned, Late
<1>4. ASSUME NEW o \in Matched(d, ix), o \notin Imported(d, ix) PROVE o \in Fresh(d, ix)
  <2>1. o \in Offsets(d) /\ d.atoms[o].gen > 0 /\ d.atoms[o].sym \in ix.match
    BY DEF Matched
  <2>2. CASE d.atoms[o].delayed
    <3>1. PICK k \in 1..Len(d.delayed) : d.delayed[k] = o
      BY <2>1, <2>2 DEF DomOK
    <3>2. ~(k \in 1..ix.importedDelayed)
      BY <3>1, <2>1, <1>4 DEF Imported
    <3>3. k \in ix.importedDelayed + 1 .. Len(d.delayed)
      BY <3>2, <1>t
    <3>. QED BY <2>1, <3>1, <3>3 DEF Fresh, Scanned, Late
  <2>3. CASE ~d.atoms[o].delayed
    <3>1. ~(o <= ix.imported)
      BY <2>1, <2>3, <1>4 DEF Imported
    <3>2. o \in ix.imported + 1 .. Len(d.atoms)
      BY <3>1, <2>1, <1>t DEF Offsets
    <3>. QED BY <2>1, <2>3, <3>2 DEF Fresh, Scanned, Late, IsDefined
  <2>. QED BY <2>2, <2>3
<1>5. Imported(d, ix) \subseteq Matched(d, ix)
  BY DEF Imported, Matched
<1>. QED BY <1>1, <1>3, <1>4, <1>5

(* Without new atoms there is nothing new to import. *)
LEMMA FreshSame ==
  ASSUME NEW d, NEW e, NEW ix, DomOK(d), DomOK(e), IdxOK(d, ix), Grows(d, e),
         \A o \in Offsets(e) : e.atoms[o].gen > 0 => o \in Offsets(d) /\ d.atoms[o].gen > 0
  PROVE  Fresh(e, ix) = Fresh(d, ix)
<1>1. IdxOK(e, ix)
  BY IdxOKGrows
<1>2. Offsets(d) \subseteq Offsets(e)
  <2>1. Len(d.atoms) \in Nat /\ Len(e.atoms) \in Nat
    BY DomainTypes DEF DomOK
  <2>. QED BY <2>1 DEF Grows, Offsets
<1>3. Matched(e, ix) = Matched(d, ix)
  BY <1>2 DEF Matched, Grows
<1>. QED BY <1>1, <1>3, FreshSplit

(* What an update adds to the batches. *)
LEMMA UpdateBatches ==
  ASSUME NEW d, DomOK(d), NEW ix, IdxOK(d, ix)
  PROVE  LET u == UpdateIndex(d, ix) IN
         /\ u \in IndexRecord
         /\ u.match = ix.match
         /\ u.imported = Len(d.atoms)
         /\ u.importedDelayed = Len(d.delayed)
         /\ Len(ix.batches) \in Nat /\ Len(ix.batches) <= Len(u.batches)
         /\ DOMAIN ix.batches = 1..Len(ix.batches)
         /\ DOMAIN u.batches = 1..Len(u.batches)
         /\ \A b \in DOMAIN ix.batches : b \in DOMAIN u.batches /\ u.batches[b] = ix.batches[b]
         /\ \A b \in DOMAIN u.batches :
              b \in DOMAIN ix.batches
                \/ (b = Len(ix.batches) + 1 /\ u.batches[b] = Fresh(d, ix))
         /\ Content(u) = Content(ix) \union Fresh(d, ix)
<1> DEFINE bs == IF Fresh(d, ix) = {} THEN ix.batches ELSE Append(ix.batches, Fresh(d, ix))
           u == UpdateIndex(d, ix)
<1>t. ix \in IndexRecord /\ ix.batches \in Seq(SUBSET (Nat \ {0}))
      /\ Len(d.atoms) \in Nat /\ Len(d.delayed) \in Nat
      /\ (\A o \in Offsets(d) : o \in Nat \ {0})
      /\ Len(ix.batches) \in Nat /\ DOMAIN ix.batches = 1..Len(ix.batches)
  BY DomainTypes, IndexTypes, LenProperties DEF DomOK, IdxOK
<1>1. Fresh(d, ix) \in SUBSET (Nat \ {0})
  BY <1>t, FreshSplit DEF Matched
<1>2. /\ bs \in Seq(SUBSET (Nat \ {0}))
      /\ Len(ix.batches) <= Len(bs)
      /\ DOMAIN bs = 1..Len(bs)
      /\ \A b \in DOMAIN ix.batches : b \in DOMAIN bs /\ bs[b] = ix.batches[b]
      /\ \A b \in DOMAIN bs :
           b \in DOMAIN ix.batches
             \/ (b = Len(ix.batches) + 1 /\ bs[b] = Fresh(d, ix))
      /\ Fresh(d, ix) # {} => \E b \in DOMAIN bs : bs[b] = Fresh(d, ix)
  <2>1. CASE Fresh(d, ix) = {}
    <3>1. bs = ix.batches
      BY <2>1
    <3> HIDE DEF bs
    <3>. QED BY <3>1, <2>1, <1>t
  <2>2. CASE Fresh(d, ix) # {}
    <3>1. bs = Append(ix.batches, Fresh(d, ix))
      BY <2>2
    <3> HIDE DEF bs
    <3>2. bs \in Seq(SUBSET (Nat \ {0})) /\ Len(bs) = Len(ix.batches) + 1
          /\ DOMAIN bs = 1..Len(bs)
          /\ bs[Len(ix.batches) + 1] = Fresh(d, ix)
          /\ \A b \in 1..Len(ix.batches) : bs[b] = ix.batches[b]
      BY <3>1, <1>t, <1>1, AppendProperties, LenProperties
    <3>3. Len(ix.batches) + 1 \in DOMAIN bs
      BY <3>2, <1>t
    <3>. QED BY <3>2, <3>3, <1>t
  <2>. QED BY <2>1, <2>2
<1>3. u = [ix EXCEPT !.batches = bs, !.imported = Len(d.atoms),
                     !.importedDelayed = Len(d.delayed)]
  BY DEF UpdateIndex
<1> HIDE DEF bs, u
<1>4. u \in IndexRecord /\ u.match = ix.match /\ u.batches = bs
      /\ u.imported = Len(d.atoms) /\ u.importedDelayed = Len(d.delayed)
  BY <1>2, <1>3, <1>t DEF IndexRecord
<1>5. Content(u) = Content(ix) \union Fresh(d, ix)
  <2>1. ASSUME NEW o \in Content(u) PROVE o \in Content(ix) \union Fresh(d, ix)
    <3>1. PICK b \in DOMAIN bs : o \in bs[b]
      BY <1>4 DEF Content
    <3>. QED BY <3>1, <1>2 DEF Content
  <2>2. ASSUME NEW o \in Content(ix) PROVE o \in Content(u)
    <3>1. PICK b \in DOMAIN ix.batches : o \in ix.batches[b]
      BY DEF Content
    <3>. QED BY <3>1, <1>2, <1>4 DEF Content
  <2>3. ASSUME NEW o \in Fresh(d, ix) PROVE o \in Content(u)
    <3>1. PICK b \in DOMAIN bs : bs[b] = Fresh(d, ix)
      BY <1>2
    <3>. QED BY <3>1, <1>4 DEF Content
  <2>. QED BY <2>1, <2>2, <2>3
<1>. QED BY <1>2, <1>4, <1>5, <1>t DEF u

(* An updated index holds everything; the scan marks what it has passed.   *)
LEMMA UpdateOK ==
  ASSUME NEW d, DomOK(d), NEW ix, IdxOK(d, ix), BatchesDisjoint(ix), NEW os,
         \A o \in Offsets(d) : o > ix.imported => o \in os
  PROVE  LET e == MarkDelayed(d, os)
             u == UpdateIndex(d, ix)
         IN /\ IdxOK(e, u)
            /\ BatchesDisjoint(u)
            /\ Fresh(e, u) = {}
<1> DEFINE e == MarkDelayed(d, os)
           u == UpdateIndex(d, ix)
<1>1. d \in DomainRecord
  BY DEF DomOK
<1>t. Len(d.atoms) \in Nat /\ Len(d.delayed) \in Nat /\ ix.imported \in Nat
      /\ \A o \in Offsets(d) : o \in Nat \ {0} /\ o <= Len(d.atoms)
  <2>1. \A o \in Offsets(d) : o \in Nat \ {0} /\ o <= Len(d.atoms)
    <3>1. Len(d.atoms) \in Nat
      BY <1>1, DomainTypes
    <3>. QED BY <3>1 DEF Offsets
  <2>. QED BY <1>1, <2>1, DomainTypes, IndexTypes DEF IdxOK
<1>2. /\ Len(e.atoms) = Len(d.atoms)
      /\ e.delayed = d.delayed
      /\ \A o \in Offsets(d) :
           /\ e.atoms[o].sym = d.atoms[o].sym
           /\ e.atoms[o].gen = d.atoms[o].gen
           /\ d.atoms[o].gen > 0 => e.atoms[o] = d.atoms[o]
           /\ d.atoms[o].delayed => e.atoms[o].delayed
           /\ d.atoms[o].gen = 0 /\ o \in os => e.atoms[o].delayed
  BY <1>1, MarkFields
<1>3. DomOK(e) /\ Offsets(e) = Offsets(d)
  BY MarkOK
<1>4. /\ u \in IndexRecord
      /\ u.match = ix.match
      /\ u.imported = Len(d.atoms)
      /\ u.importedDelayed = Len(d.delayed)
      /\ \A b \in DOMAIN ix.batches : b \in DOMAIN u.batches /\ u.batches[b] = ix.batches[b]
      /\ \A b \in DOMAIN u.batches :
           b \in DOMAIN ix.batches
             \/ (b = Len(ix.batches) + 1 /\ u.batches[b] = Fresh(d, ix))
      /\ Content(u) = Content(ix) \union Fresh(d, ix)
  BY UpdateBatches
<1>5. Fresh(d, ix) = Matched(d, ix) \ Content(ix) /\ Content(ix) \subseteq Matched(d, ix)
  BY FreshSplit
<1> HIDE DEF e, u
<1>6. Content(u) = Matched(d, ix)
  BY <1>4, <1>5
<1>7. Matched(e, u) = Matched(d, ix)
  BY <1>2, <1>3, <1>4 DEF Matched
<1>8. Imported(e, u) = Matched(e, u)
  <2>1. ASSUME NEW o \in Matched(e, u)
        PROVE  \/ ~e.atoms[o].delayed /\ o <= u.imported
               \/ \E k \in 1..u.importedDelayed : e.delayed[k] = o
    <3>1. o \in Offsets(e) /\ e.atoms[o].gen > 0
      BY DEF Matched
    <3>2. CASE e.atoms[o].delayed
      <4>1. \E k \in 1..Len(e.delayed) : e.delayed[k] = o
        BY <3>1, <3>2, <1>3 DEF DomOK
      <4>. QED BY <4>1, <1>2, <1>4
    <3>3. CASE ~e.atoms[o].delayed
      BY <3>1, <3>3, <1>3, <1>4, <1>t
    <3>. QED BY <3>2, <3>3
  <2>. QED BY <2>1 DEF Imported, Matched
<1>9. ASSUME NEW o \in Offsets(e), e.atoms[o].gen = 0, o <= u.imported
      PROVE  e.atoms[o].delayed
  <2>1. o \in Offsets(d) /\ d.atoms[o].gen = 0
    BY <1>2, <1>3, <1>9
  <2>2. o > ix.imported \/ o <= ix.imported
    BY <1>t, <2>1
  <2>3. CASE o > ix.imported
    BY <2>1, <2>3, <1>2
  <2>4. CASE o <= ix.imported
    BY <2>1, <2>4, <1>2 DEF IdxOK
  <2>. QED BY <2>2, <2>3, <2>4
<1>10. IdxOK(e, u)
  <2>1. u.imported <= Len(e.atoms) /\ u.importedDelayed <= Len(e.delayed)
    BY <1>2, <1>4, <1>t
  <2>. QED BY <2>1, <1>4, <1>6, <1>7, <1>8, <1>9 DEF IdxOK
<1>11. BatchesDisjoint(u)
  <2>1. ASSUME NEW b \in DOMAIN ix.batches PROVE ix.batches[b] \cap Fresh(d, ix) = {}
    <3>1. ix.batches[b] \subseteq Content(ix)
      BY DEF Content
    <3>. QED BY <3>1, <1>5
  <2>2. ASSUME NEW b \in DOMAIN u.batches, NEW c \in DOMAIN u.batches, b # c
        PROVE  u.batches[b] \cap u.batches[c] = {}
    BY <2>1, <2>2, <1>4 DEF BatchesDisjoint
  <2>. QED BY <2>2 DEF BatchesDisjoint
<1>12. Fresh(e, u) = {}
  <2>1. Fresh(e, u) = Matched(e, u) \ Content(u)
    BY <1>3, <1>10, FreshSplit
  <2>. QED BY <2>1, <1>6, <1>7
<1>. QED BY <1>10, <1>11, <1>12 DEF e, u

-----------------------------------------------------------------------------
(* The inductive invariant *)

(* Every index, registered or not, is consistent with the domain. *)
IndexInv ==
  /\ index \in [Index -> IndexRecord]
  /\ \A i \in Index :
       /\ IdxOK(dom, index[i])
       /\ BatchesDisjoint(index[i])
       /\ index[i].match = Match[i]

(* In a component, what a registered index has not imported yet was        *)
(* defined since the last change of generation.                            *)
GenerationInv ==
  phase # "idle" =>
    /\ \A o \in Offsets(dom) : dom.atoms[o].gen <= dom.generation + 2
    /\ \A i \in live : \A o \in Fresh(dom, index[i]) :
         dom.atoms[o].gen = dom.generation + 2
    /\ phase = "inst" =>
         \A i \in live : \A o \in Content(index[i]) : dom.atoms[o].gen <= dom.generation + 1

IdleInv == phase = "idle" => \A i \in live : Fresh(dom, index[i]) = {}

(* Sorted, without the generation of an atom that is not defined. *)
SortedInv ==
  phase # "idle" =>
    \A i \in live : \A b, c \in DOMAIN index[i].batches :
      \A o \in index[i].batches[b], p \in index[i].batches[c] :
        b <= c => dom.atoms[o].gen <= dom.atoms[p].gen

PhaseInv == live \in SUBSET Index /\ phase \in {"idle", "inst", "prop"}

IInv ==
  /\ DomOK(dom) /\ IndexInv /\ PhaseInv /\ GenerationInv /\ IdleInv /\ SortedInv
  /\ DequeuedInTime

(* Members of an index are offsets of defined atoms. *)
LEMMA ContentDefined ==
  ASSUME NEW d, DomOK(d), NEW ix, IdxOK(d, ix), NEW b \in DOMAIN ix.batches,
         NEW o \in ix.batches[b]
  PROVE  o \in Content(ix) /\ o \in Offsets(d) /\ d.atoms[o].gen > 0
<1>1. o \in Content(ix)
  BY DEF Content
<1>2. Content(ix) \subseteq Matched(d, ix)
  BY FreshSplit
<1>. QED BY <1>1, <1>2 DEF Matched

(* An index that has not seen anything. *)
LEMMA NewIndexOK ==
  ASSUME NEW d, DomOK(d), NEW i \in Index
  PROVE  LET ix == NewIndex(Match[i]) IN
         ix \in IndexRecord /\ ix.match = Match[i] /\ IdxOK(d, ix) /\ BatchesDisjoint(ix)
<1> DEFINE ix == NewIndex(Match[i])
<1>1. ix.batches = <<>> /\ ix.imported = 0 /\ ix.importedDelayed = 0 /\ ix.match = Match[i]
  BY DEF NewIndex
<1>2. Match[i] \in SUBSET Sym
  BY MatchAssumption
<1>3. ix \in IndexRecord
  BY <1>2 DEF NewIndex, IndexRecord
<1> HIDE DEF ix
<1>4. DOMAIN ix.batches = {} /\ 1..0 = {}
  BY <1>1
<1>5. Content(ix) = {} /\ BatchesDisjoint(ix)
  BY <1>4 DEF Content, BatchesDisjoint
<1>6. Len(d.atoms) \in Nat /\ Len(d.delayed) \in Nat /\ \A o \in Offsets(d) : o \in Nat \ {0}
  BY DomainTypes DEF DomOK
<1>7. \A o \in Offsets(d) : ~(o <= ix.imported)
  BY <1>1, <1>6
<1>8. Imported(d, ix) = {}
  BY <1>1, <1>4, <1>7 DEF Imported
<1>9. ix.imported <= Len(d.atoms) /\ ix.importedDelayed <= Len(d.delayed)
  BY <1>1, <1>6
<1>10. IdxOK(d, ix)
  BY <1>3, <1>5, <1>7, <1>8, <1>9 DEF IdxOK
<1>. QED BY <1>1, <1>3, <1>5, <1>10 DEF ix

THEOREM InitIInv == Init => IInv
<1> SUFFICES ASSUME Init PROVE IInv
  OBVIOUS
<1>1. dom = EmptyDomain /\ phase = "idle" /\ live = {}
      /\ index = [i \in Index |-> NewIndex(Match[i])]
  BY DEF Init
<1>2. dom \in DomainRecord /\ dom.atoms = <<>> /\ dom.delayed = <<>>
      /\ dom.initOffset = 0 /\ dom.initDelayedOffset = 0 /\ dom.enqueued = 0
  BY <1>1 DEF EmptyDomain, DomainRecord
<1>3. Offsets(dom) = {} /\ Len(dom.atoms) = 0 /\ Len(dom.delayed) = 0 /\ 1..0 = {}
  BY <1>2 DEF Offsets
<1>4. DomOK(dom)
  BY <1>2, <1>3 DEF DomOK
<1>5. ASSUME NEW i \in Index
      PROVE  /\ index[i] \in IndexRecord /\ IdxOK(dom, index[i])
             /\ BatchesDisjoint(index[i]) /\ index[i].match = Match[i]
  BY <1>1, <1>4, NewIndexOK
<1>6. IndexInv
  BY <1>1, <1>5 DEF IndexInv
<1>7. PhaseInv /\ GenerationInv /\ IdleInv /\ SortedInv
  BY <1>1 DEF PhaseInv, GenerationInv, IdleInv, SortedInv
<1>8. DequeuedInTime
  BY <1>2 DEF DequeuedInTime
<1>. QED BY <1>4, <1>6, <1>7, <1>8 DEF IInv

(* The indices survive every step that lets the domain grow. *)
LEMMA IndexInvGrows ==
  ASSUME IInv, DomOK(dom'), Grows(dom, dom'), index' = index
  PROVE  IndexInv'
<1>1. ASSUME NEW i \in Index PROVE IdxOK(dom', index[i])
  BY IdxOKGrows DEF IInv, IndexInv
<1>. QED BY <1>1 DEF IInv, IndexInv

(* A step that changes no generation and defines atoms for the next one    *)
(* only, while instantiators run.                                          *)
LEMMA DefiningStep ==
  ASSUME IInv, DomOK(dom'), Grows(dom, dom'), KeepsGenerations(dom, dom'),
         dom'.enqueued = dom.enqueued, UNCHANGED <<index, live, phase>>,
         phase = "inst"
  PROVE  IInv'
<1>t. dom.generation \in Nat /\ dom'.generation = dom.generation
      /\ Len(dom.atoms) \in Nat /\ Len(dom'.atoms) \in Nat
      /\ (\A o \in Offsets(dom) : dom.atoms[o].gen \in Nat)
  BY DomainTypes DEF IInv, DomOK, KeepsGenerations
<1>1. IndexInv'
  BY IndexInvGrows
<1>2. ASSUME NEW o \in Offsets(dom), dom.atoms[o].gen > 0
      PROVE  o \in Offsets(dom') /\ dom'.atoms[o].gen = dom.atoms[o].gen
             /\ dom'.atoms[o].sym = dom.atoms[o].sym
  <2>1. o \in Offsets(dom') /\ dom'.atoms[o].gen > 0 /\ dom'.atoms[o].sym = dom.atoms[o].sym
    BY <1>2, <1>t DEF Grows, Offsets
  <2>2. ~(dom.atoms[o].gen = 0) /\ ~(dom'.atoms[o].gen = 0)
    BY <1>2, <2>1
  <2>. QED BY <2>1, <2>2 DEF KeepsGenerations
<1>3. \A o \in Offsets(dom') : dom'.atoms[o].gen <= dom'.generation + 2
  <2>1. ASSUME NEW o \in Offsets(dom') PROVE dom'.atoms[o].gen <= dom.generation + 2
    <3>1. CASE dom'.atoms[o].gen = 0
      BY <3>1, <1>t
    <3>2. CASE o \in Offsets(dom) /\ dom'.atoms[o].gen = dom.atoms[o].gen
      BY <3>2 DEF IInv, GenerationInv
    <3>3. CASE dom'.atoms[o].gen = dom.generation + 2
      BY <3>3, <1>t
    <3>. QED BY <3>1, <3>2, <3>3 DEF KeepsGenerations
  <2>. QED BY <2>1, <1>t
<1>4. ASSUME NEW i \in live, NEW o \in Fresh(dom', index[i])
      PROVE  dom'.atoms[o].gen = dom.generation + 2
  <2>0. i \in Index /\ IdxOK(dom, index[i]) /\ IdxOK(dom', index[i]) /\ DomOK(dom)
    BY <1>1 DEF IInv, IndexInv, PhaseInv
  <2>1. o \in Offsets(dom') /\ dom'.atoms[o].gen > 0 /\ o \notin Content(index[i])
        /\ dom'.atoms[o].sym \in index[i].match
    BY <2>0, <1>4, FreshSplit DEF Matched
  <2>2. ~(dom'.atoms[o].gen = 0)
    BY <2>1
  <2>3. CASE o \in Offsets(dom) /\ dom'.atoms[o].gen = dom.atoms[o].gen
    <3>1. o \in Matched(dom, index[i])
      BY <2>1, <2>3, <1>2 DEF Matched
    <3>2. o \in Fresh(dom, index[i])
      BY <3>1, <2>0, <2>1, FreshSplit
    <3>. QED BY <3>2, <2>3 DEF IInv, GenerationInv
  <2>. QED BY <2>1, <2>2, <2>3 DEF KeepsGenerations
<1>5. ASSUME NEW i \in live, NEW o \in Content(index[i])
      PROVE  o \in Offsets(dom) /\ dom.atoms[o].gen > 0
             /\ dom'.atoms[o].gen = dom.atoms[o].gen
  <2>1. IdxOK(dom, index[i]) /\ DomOK(dom)
    BY DEF IInv, IndexInv, PhaseInv
  <2>2. o \in Matched(dom, index[i])
    BY <2>1, <1>5, FreshSplit
  <2>. QED BY <2>2, <1>2 DEF Matched
<1>6. GenerationInv'
  <2>1. ASSUME NEW i \in live, NEW o \in Content(index[i])
        PROVE  dom'.atoms[o].gen <= dom'.generation + 1
    <3>1. dom.atoms[o].gen <= dom.generation + 1
      BY DEF IInv, GenerationInv
    <3>. QED BY <3>1, <1>5, <1>t
  <2>. QED BY <2>1, <1>3, <1>4, <1>t DEF GenerationInv
<1>7. SortedInv'
  <2>1. ASSUME NEW i \in live, NEW b \in DOMAIN index[i].batches, NEW o \in index[i].batches[b]
        PROVE  dom'.atoms[o].gen = dom.atoms[o].gen
    <3>1. o \in Content(index[i])
      BY DEF Content
    <3>. QED BY <3>1, <1>5
  <2>2. ASSUME NEW i \in live, NEW b \in DOMAIN index[i].batches, NEW c \in DOMAIN index[i].batches,
               NEW o \in index[i].batches[b], NEW q \in index[i].batches[c], b <= c
        PROVE  dom'.atoms[o].gen <= dom'.atoms[q].gen
    <3>1. dom.atoms[o].gen <= dom.atoms[q].gen
      BY <2>2 DEF IInv, SortedInv
    <3>. QED BY <3>1, <2>1
  <2>. QED BY <2>2 DEF SortedInv
<1>8. PhaseInv' /\ IdleInv' /\ DequeuedInTime'
  BY DEF IInv, PhaseInv, IdleInv, DequeuedInTime
<1>. QED BY <1>1, <1>6, <1>7, <1>8 DEF IInv

LEMMA AddIndexStep ==
  ASSUME IInv, NEW i \in Index, AddIndex(i)
  PROVE  IInv'
<1>1. phase = "idle" /\ phase' = "idle" /\ live' = live \union {i}
      /\ index' = [index EXCEPT ![i] = UpdateIndex(dom, index[i])]
      /\ dom' = MarkDelayed(dom, index[i].imported + 1 .. Len(dom.atoms))
  BY DEF AddIndex, PassedBy
<1>2. DomOK(dom) /\ IdxOK(dom, index[i]) /\ BatchesDisjoint(index[i])
      /\ index[i].match = Match[i] /\ index \in [Index -> IndexRecord]
  BY DEF IInv, IndexInv
<1>3. \A o \in Offsets(dom) : o > index[i].imported =>
        o \in index[i].imported + 1 .. Len(dom.atoms)
  <2>1. Len(dom.atoms) \in Nat /\ index[i].imported \in Nat
    BY <1>2, DomainTypes, IndexTypes DEF DomOK, IdxOK
  <2>. QED BY <2>1 DEF Offsets
<1>4. /\ DomOK(dom') /\ Grows(dom, dom')
      /\ dom'.enqueued = dom.enqueued
      /\ Offsets(dom') = Offsets(dom)
      /\ \A o \in Offsets(dom) : dom'.atoms[o].gen = dom.atoms[o].gen
  BY <1>1, <1>2, MarkOK
<1>5. /\ IdxOK(dom', index'[i]) /\ BatchesDisjoint(index'[i])
      /\ Fresh(dom', index'[i]) = {} /\ index'[i] = UpdateIndex(dom, index[i])
  BY <1>1, <1>2, <1>3, UpdateOK
<1>6. index'[i] \in IndexRecord /\ index'[i].match = Match[i]
  BY <1>2, <1>5, UpdateBatches
<1>7. ASSUME NEW j \in Index, j # i
      PROVE  IdxOK(dom', index'[j]) /\ index'[j] = index[j]
             /\ Fresh(dom', index'[j]) = Fresh(dom, index[j])
  <2>1. index'[j] = index[j] /\ IdxOK(dom, index[j])
    BY <1>1, <1>2, <1>7 DEF IInv, IndexInv
  <2>. QED BY <2>1, <1>2, <1>4, IdxOKGrows, FreshSame
<1>8. IndexInv'
  <2>1. index' \in [Index -> IndexRecord]
    BY <1>1, <1>2, <1>5, <1>6
  <2>2. ASSUME NEW j \in Index
        PROVE  IdxOK(dom', index'[j]) /\ BatchesDisjoint(index'[j])
               /\ index'[j].match = Match[j]
    BY <1>5, <1>6, <1>7 DEF IInv, IndexInv
  <2>. QED BY <2>1, <2>2 DEF IndexInv
<1>9. IdleInv'
  <2>1. ASSUME NEW j \in live' PROVE Fresh(dom', index'[j]) = {}
    <3>1. CASE j = i
      BY <3>1, <1>5
    <3>2. CASE j # i
      <4>1. j \in live /\ j \in Index
        BY <3>2, <1>1 DEF IInv, PhaseInv
      <4>. QED BY <4>1, <3>2, <1>1, <1>7 DEF IInv, IdleInv
    <3>. QED BY <3>1, <3>2
  <2>. QED BY <2>1 DEF IdleInv
<1>10. PhaseInv' /\ GenerationInv' /\ SortedInv' /\ DequeuedInTime'
  BY <1>1, <1>4 DEF IInv, PhaseInv, GenerationInv, SortedInv, DequeuedInTime
<1>. QED BY <1>4, <1>8, <1>9, <1>10 DEF IInv

LEMMA NewMatcherStep ==
  ASSUME IInv, NEW i \in Index, NewMatcher(i)
  PROVE  IInv'
<1>1. phase = "idle" /\ i \notin live /\ UNCHANGED <<dom, live, phase>>
      /\ index' = [index EXCEPT ![i] = NewIndex(Match[i])]
  BY DEF NewMatcher
<1>2. DomOK(dom) /\ index \in [Index -> IndexRecord] /\ live \subseteq Index
  BY DEF IInv, IndexInv, PhaseInv
<1>3. index'[i] = NewIndex(Match[i]) /\ \A j \in Index : j # i => index'[j] = index[j]
  BY <1>1, <1>2
<1>4. NewIndex(Match[i]) \in IndexRecord /\ NewIndex(Match[i]).match = Match[i]
      /\ IdxOK(dom, NewIndex(Match[i])) /\ BatchesDisjoint(NewIndex(Match[i]))
  BY <1>2, NewIndexOK
<1>5. IndexInv'
  <2>1. index' \in [Index -> IndexRecord]
    BY <1>1, <1>2, <1>4
  <2>2. ASSUME NEW j \in Index
        PROVE  IdxOK(dom, index'[j]) /\ BatchesDisjoint(index'[j])
               /\ index'[j].match = Match[j]
    BY <1>3, <1>4 DEF IInv, IndexInv
  <2>. QED BY <1>1, <2>1, <2>2 DEF IndexInv
<1>6. \A j \in live : j \in Index /\ index'[j] = index[j]
  BY <1>1, <1>2, <1>3
<1>7. PhaseInv' /\ IdleInv' /\ DequeuedInTime'
  BY <1>1, <1>6 DEF IInv, PhaseInv, IdleInv, DequeuedInTime
<1>8. GenerationInv' /\ SortedInv'
  BY <1>1, <1>6 DEF IInv, GenerationInv, SortedInv
<1>. QED BY <1>1, <1>2, <1>5, <1>7, <1>8 DEF IInv

LEMMA StartComponentStep ==
  ASSUME IInv, StartComponent
  PROVE  IInv'
<1>1. phase = "idle" /\ phase' = "inst" /\ index' = index /\ live' = live
      /\ dom' = InitDomain(dom) /\ DomOK(dom)
  BY DEF StartComponent, IInv
<1>2. /\ DomOK(dom') /\ Grows(dom, dom')
      /\ dom'.enqueued = dom.enqueued /\ dom'.generation = 0
      /\ Offsets(dom') = Offsets(dom)
      /\ \A o \in Offsets(dom') : dom'.atoms[o].gen <= 1
      /\ \A o \in Offsets(dom) : dom'.atoms[o].gen > 0 => dom.atoms[o].gen > 0
  BY <1>1, InitDomainOK
<1>3. IndexInv'
  BY <1>1, <1>2, IndexInvGrows
<1>t. \A o \in Offsets(dom') : dom'.atoms[o].gen \in Nat
  BY <1>2, DomainTypes DEF DomOK
<1>4. ASSUME NEW i \in live
      PROVE  Fresh(dom', index[i]) = {} /\ DomOK(dom') /\ IdxOK(dom', index[i])
  <2>1. IdxOK(dom, index[i]) /\ Fresh(dom, index[i]) = {}
    BY <1>1 DEF IInv, IndexInv, PhaseInv, IdleInv
  <2>2. \A o \in Offsets(dom') : dom'.atoms[o].gen > 0 => o \in Offsets(dom) /\ dom.atoms[o].gen > 0
    BY <1>2
  <2>. QED BY <2>1, <2>2, <1>1, <1>2, FreshSame, IdxOKGrows
<1>5. ASSUME NEW i \in live, NEW b \in DOMAIN index[i].batches, NEW o \in index[i].batches[b]
      PROVE  dom'.atoms[o].gen = 1
  <2>1. o \in Offsets(dom') /\ dom'.atoms[o].gen > 0
    BY <1>4, ContentDefined
  <2>2. dom'.atoms[o].gen \in Nat /\ dom'.atoms[o].gen <= 1
    BY <2>1, <1>2, <1>t
  <2>. QED BY <2>1, <2>2
<1>6. SortedInv'
  <2>1. ASSUME NEW i \in live, NEW b \in DOMAIN index[i].batches, NEW c \in DOMAIN index[i].batches,
               NEW o \in index[i].batches[b], NEW p \in index[i].batches[c]
        PROVE  dom'.atoms[o].gen <= dom'.atoms[p].gen
    <3>1. dom'.atoms[o].gen = 1 /\ dom'.atoms[p].gen = 1
      BY <1>5
    <3>. QED BY <3>1
  <2>. QED BY <2>1, <1>1 DEF SortedInv
<1>7. GenerationInv'
  <2>1. \A o \in Offsets(dom') : dom'.atoms[o].gen <= dom'.generation + 2
    <3>1. ASSUME NEW o \in Offsets(dom') PROVE dom'.atoms[o].gen <= 0 + 2
      <4>1. dom'.atoms[o].gen \in Nat /\ dom'.atoms[o].gen <= 1
        BY <1>2, <1>t
      <4>. QED BY <4>1
    <3>. QED BY <3>1, <1>2
  <2>2. ASSUME NEW i \in live, NEW o \in Content(index[i])
        PROVE  dom'.atoms[o].gen <= dom'.generation + 1
    <3>1. dom'.atoms[o].gen = 1
      BY <1>5 DEF Content
    <3>. QED BY <3>1, <1>2
  <2>. QED BY <2>1, <2>2, <1>1, <1>4 DEF GenerationInv
<1>8. PhaseInv' /\ IdleInv' /\ DequeuedInTime'
  BY <1>1, <1>2 DEF IInv, PhaseInv, IdleInv, DequeuedInTime
<1>. QED BY <1>2, <1>3, <1>6, <1>7, <1>8 DEF IInv

LEMMA ReserveAtomStep ==
  ASSUME IInv, NEW s \in Sym, ReserveAtom(s)
  PROVE  IInv'
<1>1. phase \in {"idle", "inst"} /\ UNCHANGED <<index, live, phase>>
      /\ dom' = Reserve(dom, s) /\ DomOK(dom)
  BY DEF ReserveAtom, IInv
<1>2. /\ DomOK(dom') /\ Grows(dom, dom') /\ KeepsGenerations(dom, dom')
      /\ dom'.enqueued = dom.enqueued
      /\ \A o \in Offsets(dom') : o \in Offsets(dom) \/ dom'.atoms[o].gen = 0
      /\ \A o \in Offsets(dom) : dom'.atoms[o] = dom.atoms[o]
  BY <1>1, ReserveOK
<1>3. CASE phase = "inst"
  BY <1>1, <1>2, <1>3, DefiningStep
<1>4. CASE phase = "idle"
  <2>1. IndexInv'
    BY <1>1, <1>2, IndexInvGrows
  <2>2. \A o \in Offsets(dom') : dom'.atoms[o].gen > 0 => o \in Offsets(dom) /\ dom.atoms[o].gen > 0
    <3>1. ASSUME NEW o \in Offsets(dom'), dom'.atoms[o].gen > 0
          PROVE  o \in Offsets(dom) /\ dom.atoms[o].gen > 0
      <4>1. ~(dom'.atoms[o].gen = 0)
        BY <3>1
      <4>. QED BY <4>1, <3>1, <1>2
    <3>. QED BY <3>1
  <2>3. ASSUME NEW i \in live PROVE Fresh(dom', index[i]) = {}
    <3>1. IdxOK(dom, index[i]) /\ Fresh(dom, index[i]) = {}
      BY <1>4 DEF IInv, IndexInv, PhaseInv, IdleInv
    <3>. QED BY <3>1, <2>2, <1>1, <1>2, FreshSame
  <2>4. PhaseInv' /\ GenerationInv' /\ SortedInv' /\ DequeuedInTime' /\ IdleInv'
    BY <1>1, <1>2, <1>4, <2>3
    DEF IInv, PhaseInv, GenerationInv, SortedInv, DequeuedInTime, IdleInv
  <2>. QED BY <2>1, <2>4, <1>2 DEF IInv
<1>. QED BY <1>1, <1>3, <1>4

LEMMA DefineAtomStep ==
  ASSUME IInv, NEW s \in Sym, DefineAtom(s)
  PROVE  IInv'
<1>1. (phase = "inst" \/ (phase = "idle" /\ live = {})) /\ UNCHANGED <<index, live, phase>>
      /\ dom' = Define(dom, s) /\ DomOK(dom)
  BY DEF DefineAtom, IInv
<1>2. /\ DomOK(dom') /\ Grows(dom, dom') /\ KeepsGenerations(dom, dom')
      /\ dom'.enqueued = dom.enqueued
  BY <1>1, DefineOK
<1>3. CASE phase = "inst"
  BY <1>1, <1>2, <1>3, DefiningStep
<1>4. CASE phase = "idle" /\ live = {}
  <2>1. IndexInv'
    BY <1>1, <1>2, IndexInvGrows
  <2>2. PhaseInv' /\ GenerationInv' /\ SortedInv' /\ DequeuedInTime' /\ IdleInv'
    BY <1>1, <1>2, <1>4
    DEF IInv, PhaseInv, GenerationInv, SortedInv, DequeuedInTime, IdleInv
  <2>. QED BY <2>1, <2>2, <1>2 DEF IInv
<1>. QED BY <1>1, <1>3, <1>4

LEMMA PropagateStep ==
  ASSUME IInv, NEW is \in SUBSET Index, Propagate(is)
  PROVE  IInv'
<1> DEFINE os == {o \in Offsets(dom) : \E i \in is : o > index[i].imported}
           m == MarkDelayed(dom, os)
<1>1. phase \in {"inst", "prop"} /\ phase' = "prop" /\ live' = live
      /\ index' = [i \in Index |-> IF i \in is THEN UpdateIndex(dom, index[i]) ELSE index[i]]
      /\ dom' = [m EXCEPT !.enqueued = 2] /\ DomOK(dom)
      /\ live \subseteq Index /\ is \subseteq Index
  BY DEF Propagate, EnqueueDomain, IInv, PhaseInv
<1>2. /\ DomOK(m) /\ Grows(dom, m) /\ m.generation = dom.generation
      /\ m.delayed = dom.delayed /\ Offsets(m) = Offsets(dom)
      /\ \A o \in Offsets(dom) : m.atoms[o].gen = dom.atoms[o].gen
  BY <1>1, MarkOK DEF KeepsGenerations
<1>3. \A i \in is : \A o \in Offsets(dom) : o > index[i].imported => o \in os
  OBVIOUS
<1>4. \A i \in is : IdxOK(m, UpdateIndex(dom, index[i]))
        /\ BatchesDisjoint(UpdateIndex(dom, index[i]))
        /\ Fresh(m, UpdateIndex(dom, index[i])) = {}
  <2> HIDE DEF os
  <2>. QED BY <1>1, <1>3, UpdateOK DEF IInv, IndexInv
<1> HIDE DEF m
<1>5. /\ dom' \in DomainRecord /\ dom'.atoms = m.atoms /\ dom'.delayed = m.delayed
      /\ dom'.generation = dom.generation
      /\ dom'.initOffset = m.initOffset /\ dom'.initDelayedOffset = m.initDelayedOffset
  <2>1. m \in DomainRecord
    BY <1>2 DEF DomOK
  <2>2. dom' = [m EXCEPT !.enqueued = 2] /\ m.generation = dom.generation
    BY <1>1, <1>2
  <2>. QED BY <2>1, <2>2, SMTT(30) DEF DomainRecord
<1>6. DomOK(dom') /\ Grows(m, dom') /\ Offsets(dom') = Offsets(dom)
  <2>1. DomOK(dom') /\ Grows(m, dom')
    BY <1>2, <1>5, CountersOK
  <2>. QED BY <2>1, <1>2, <1>5 DEF Offsets
<1>7. \A ix : Fresh(dom', ix) = Fresh(m, ix)
  BY <1>5 DEF Fresh, Scanned, Late, IsDefined
<1>8. ASSUME NEW i \in is
      PROVE  /\ index'[i] = UpdateIndex(dom, index[i])
             /\ IdxOK(dom', index'[i]) /\ BatchesDisjoint(index'[i])
             /\ Fresh(dom', index'[i]) = {}
             /\ index'[i].match = Match[i]
  <2>1. index'[i] = UpdateIndex(dom, index[i]) /\ IdxOK(dom, index[i]) /\ index[i].match = Match[i]
    BY <1>1 DEF IInv, IndexInv
  <2>2. index'[i].match = Match[i]
    BY <2>1, <1>1, UpdateBatches
  <2>3. IdxOK(dom', index'[i])
    BY <2>1, <1>2, <1>4, <1>6, IdxOKGrows
  <2>. QED BY <2>1, <2>2, <2>3, <1>4, <1>7
<1>9. ASSUME NEW i \in Index, i \notin is
      PROVE  /\ index'[i] = index[i]
             /\ IdxOK(dom', index[i])
             /\ Fresh(dom', index[i]) = Fresh(dom, index[i])
  <2>1. index'[i] = index[i] /\ IdxOK(dom, index[i])
    BY <1>1, <1>9 DEF IInv, IndexInv
  <2>2. IdxOK(dom', index[i])
    BY <2>1, <1>1, <1>2, <1>6, IdxOKGrows
  <2>3. Fresh(m, index[i]) = Fresh(dom, index[i])
    BY <2>1, <1>1, <1>2, FreshSame
  <2>. QED BY <2>1, <2>2, <2>3, <1>7
<1>10. IndexInv'
  <2>1. ASSUME NEW i \in Index
        PROVE  IdxOK(dom', index'[i]) /\ BatchesDisjoint(index'[i]) /\ index'[i].match = Match[i]
    BY <1>8, <1>9 DEF IInv, IndexInv
  <2>2. index' \in [Index -> IndexRecord]
    <3>1. \A i \in Index : index'[i] \in IndexRecord
      BY <2>1 DEF IdxOK
    <3>2. index' = [i \in Index |-> index'[i]]
      BY <1>1
    <3>. QED BY <3>1, <3>2
  <2>. QED BY <2>1, <2>2 DEF IndexInv
<1>11. GenerationInv'
  <2>1. \A o \in Offsets(dom') : dom'.atoms[o].gen <= dom'.generation + 2
    BY <1>1, <1>2, <1>5, <1>6 DEF IInv, GenerationInv
  <2>2. ASSUME NEW i \in live, NEW o \in Fresh(dom', index'[i])
        PROVE  dom'.atoms[o].gen = dom'.generation + 2
    <3>1. i \in Index /\ i \notin is
      BY <2>2, <1>1, <1>8
    <3>2. o \in Fresh(dom, index[i]) /\ IdxOK(dom, index[i])
      BY <2>2, <3>1, <1>9 DEF IInv, IndexInv
    <3>3. dom.atoms[o].gen = dom.generation + 2
      BY <3>2, <1>1 DEF IInv, GenerationInv
    <3>4. o \in Offsets(dom)
      BY <3>2, <1>1, FreshSplit DEF Matched
    <3>. QED BY <3>3, <3>4, <1>2, <1>5
  <2>. QED BY <2>1, <2>2, <1>1 DEF GenerationInv
<1>12. SortedInv'
  <2>1. ASSUME NEW i \in live, NEW b \in DOMAIN index'[i].batches, NEW c \in DOMAIN index'[i].batches,
               NEW o \in index'[i].batches[b], NEW p \in index'[i].batches[c], b <= c
        PROVE  dom'.atoms[o].gen <= dom'.atoms[p].gen
    <3>0. i \in Index /\ IdxOK(dom, index[i]) /\ IdxOK(dom', index'[i])
      BY <1>1, <1>10 DEF IInv, IndexInv
    <3>1. o \in Offsets(dom) /\ p \in Offsets(dom)
          /\ dom'.atoms[o].gen = dom.atoms[o].gen /\ dom'.atoms[p].gen = dom.atoms[p].gen
      BY <3>0, <2>1, <1>2, <1>5, <1>6, ContentDefined
    <3>2. SUFFICES dom.atoms[o].gen <= dom.atoms[p].gen
      BY <3>1
    <3>3. CASE i \notin is
      BY <3>3, <3>0, <2>1, <1>1, <1>9 DEF IInv, SortedInv
    <3>4. CASE i \in is
      <4>1. index'[i] = UpdateIndex(dom, index[i])
        BY <3>4, <1>8
      <4>2. /\ Len(index[i].batches) \in Nat
            /\ DOMAIN index[i].batches = 1..Len(index[i].batches)
            /\ \A k \in DOMAIN index[i].batches : index'[i].batches[k] = index[i].batches[k]
            /\ \A k \in DOMAIN index'[i].batches :
                 k \in DOMAIN index[i].batches
                   \/ (k = Len(index[i].batches) + 1 /\ index'[i].batches[k] = Fresh(dom, index[i]))
        <5> DEFINE u == UpdateIndex(dom, index[i])
        <5>1. /\ Len(index[i].batches) \in Nat
              /\ DOMAIN index[i].batches = 1..Len(index[i].batches)
              /\ \A k \in DOMAIN index[i].batches : u.batches[k] = index[i].batches[k]
              /\ \A k \in DOMAIN u.batches :
                   k \in DOMAIN index[i].batches
                     \/ (k = Len(index[i].batches) + 1 /\ u.batches[k] = Fresh(dom, index[i]))
          BY <3>0, <1>1, UpdateBatches
        <5>2. index'[i] = u
          BY <4>1
        <5> HIDE DEF u
        <5>. QED BY <5>1, <5>2
      <4>3. CASE c = Len(index[i].batches) + 1 /\ index'[i].batches[c] = Fresh(dom, index[i])
        <5>1. dom.atoms[p].gen = dom.generation + 2
          BY <4>3, <2>1, <1>1 DEF IInv, GenerationInv
        <5>2. dom.atoms[o].gen <= dom.generation + 2
          BY <3>1, <1>1 DEF IInv, GenerationInv
        <5>. QED BY <5>1, <5>2
      <4>4. CASE c \in DOMAIN index[i].batches
        <5>1. b \in DOMAIN index[i].batches
          BY <4>2, <4>4, <2>1
        <5>2. o \in index[i].batches[b] /\ p \in index[i].batches[c]
          BY <5>1, <4>2, <4>4, <2>1
        <5>3. \A k, l \in DOMAIN index[i].batches :
                \A x \in index[i].batches[k], y \in index[i].batches[l] :
                  k <= l => dom.atoms[x].gen <= dom.atoms[y].gen
          BY <1>1 DEF IInv, SortedInv
        <5>. QED BY <5>1, <5>2, <5>3, <4>4, <2>1
      <4>. QED BY <4>2, <4>3, <4>4
    <3>. QED BY <3>3, <3>4
  <2>. QED BY <2>1, <1>1 DEF SortedInv
<1>13. PhaseInv' /\ IdleInv' /\ DequeuedInTime'
  BY <1>1 DEF IInv, PhaseInv, IdleInv, DequeuedInTime
<1>. QED BY <1>6, <1>10, <1>11, <1>12, <1>13 DEF IInv

(* Queue::process advances the domains that are enqueued. *)
LEMMA AdvanceOK ==
  ASSUME NEW d, DomOK(d)
  PROVE  LET e == IF d.enqueued > 0 THEN AdvanceDomain(d) ELSE d IN
         /\ DomOK(e) /\ Grows(d, e)
         /\ e.atoms = d.atoms /\ e.delayed = d.delayed
         /\ e.generation \in {d.generation, d.generation + 1}
         /\ d.enqueued = 2 => e.generation = d.generation + 1
         /\ e.enqueued <= 1
<1> DEFINE e == IF d.enqueued > 0 THEN AdvanceDomain(d) ELSE d
<1>1. d \in DomainRecord /\ d.generation \in Nat /\ d.enqueued \in 0..2
  BY DomainTypes DEF DomOK
<1>2. CASE d.enqueued > 0
  <2>1. e = [d EXCEPT !.generation = d.generation + 1, !.enqueued = d.enqueued - 1]
    BY <1>2 DEF AdvanceDomain
  <2>2. d.generation + 1 \in Nat /\ d.enqueued - 1 \in 0..2 /\ d.enqueued - 1 <= 1
    BY <1>1, <1>2
  <2> HIDE DEF e
  <2>3. /\ e \in DomainRecord /\ e.atoms = d.atoms /\ e.delayed = d.delayed
        /\ e.initOffset = d.initOffset /\ e.initDelayedOffset = d.initDelayedOffset
        /\ e.generation = d.generation + 1 /\ e.enqueued = d.enqueued - 1
    BY <1>1, <2>1, <2>2 DEF DomainRecord
  <2>4. DomOK(e) /\ Grows(d, e)
    BY <2>3, CountersOK
  <2>. QED BY <2>2, <2>3, <2>4 DEF e
<1>3. CASE ~(d.enqueued > 0)
  <2>1. e = d /\ d.enqueued # 2 /\ d.enqueued <= 1
    BY <1>1, <1>3
  <2> HIDE DEF e
  <2>2. Grows(d, d)
    BY <1>1, CountersOK
  <2>. QED BY <2>1, <2>2 DEF e
<1>. QED BY <1>2, <1>3

(* Content and Fresh look at the atoms and the delayed vector only. *)
LEMMA FreshByAtoms ==
  ASSUME NEW d, NEW e, e.atoms = d.atoms, e.delayed = d.delayed, NEW ix
  PROVE  Fresh(e, ix) = Fresh(d, ix)
BY DEF Fresh, Scanned, Late, IsDefined

(* Without open atoms nothing is left to import in a component. *)
LEMMA NothingOpen ==
  ASSUME IInv, phase # "idle", Open = {}
  PROVE  /\ \A o \in Offsets(dom) : dom.atoms[o].gen <= dom.generation + 1
         /\ UpToDate
<1>1. DomOK(dom)
  BY DEF IInv
<1>t. dom.generation \in Nat /\ \A o \in Offsets(dom) : dom.atoms[o].gen \in Nat
  BY <1>1, DomainTypes DEF DomOK
<1>2. ASSUME NEW o \in Offsets(dom) PROVE dom.atoms[o].gen <= dom.generation + 1
  <2>1. ~(dom.atoms[o].gen > 0 /\ dom.atoms[o].gen - 1 > dom.generation)
    BY DEF Open, IsDefined, Generation
  <2>2. dom.atoms[o].gen \in Nat
    BY <1>t
  <2>. QED BY <2>1, <2>2, <1>t
<1>3. ASSUME NEW i \in live PROVE Fresh(dom, index[i]) = {}
  <2>1. SUFFICES ASSUME NEW o \in Fresh(dom, index[i]) PROVE FALSE
    OBVIOUS
  <2>2. IdxOK(dom, index[i])
    BY DEF IInv, IndexInv, PhaseInv
  <2>3. o \in Offsets(dom)
    BY <1>1, <2>2, <2>1, FreshSplit DEF Matched
  <2>4. dom.atoms[o].gen = dom.generation + 2
    BY <2>1 DEF IInv, GenerationInv
  <2>5. dom.atoms[o].gen <= dom.generation + 1
    BY <2>3, <1>2
  <2>. QED BY <2>4, <2>5, <1>t
<1>. QED BY <1>2, <1>3 DEF UpToDate

LEMMA EndIterationStep ==
  ASSUME IInv, EndIteration
  PROVE  IInv'
<1>1. phase \in {"inst", "prop"} /\ phase' = "inst" /\ index' = index /\ live' = live
      /\ (Open # {} => phase = "prop" /\ dom.enqueued = 2 /\ UpToDate)
      /\ dom' = (IF dom.enqueued > 0 THEN AdvanceDomain(dom) ELSE dom) /\ DomOK(dom)
  BY DEF EndIteration, IInv
<1>2. /\ DomOK(dom') /\ Grows(dom, dom')
      /\ dom'.atoms = dom.atoms /\ dom'.delayed = dom.delayed
      /\ dom'.generation \in {dom.generation, dom.generation + 1}
      /\ dom.enqueued = 2 => dom'.generation = dom.generation + 1
      /\ dom'.enqueued <= 1
  BY <1>1, AdvanceOK
<1>t. dom.generation \in Nat /\ Offsets(dom') = Offsets(dom)
      /\ \A o \in Offsets(dom) : dom.atoms[o].gen \in Nat
  BY <1>1, <1>2, DomainTypes DEF DomOK, Offsets
<1>3. IndexInv'
  BY <1>1, <1>2, IndexInvGrows
<1>4. /\ UpToDate
      /\ \A o \in Offsets(dom) : dom.atoms[o].gen <= dom'.generation + 1
  <2>1. CASE Open = {}
    <3>1. UpToDate /\ \A o \in Offsets(dom) : dom.atoms[o].gen <= dom.generation + 1
      BY <2>1, <1>1, NothingOpen
    <3>2. ASSUME NEW o \in Offsets(dom) PROVE dom.atoms[o].gen <= dom'.generation + 1
      <4>1. dom.atoms[o].gen <= dom.generation + 1 /\ dom.atoms[o].gen \in Nat
        BY <3>1, <1>t
      <4>. QED BY <4>1, <1>2, <1>t
    <3>. QED BY <3>1, <3>2
  <2>2. CASE Open # {}
    <3>1. UpToDate /\ dom'.generation = dom.generation + 1
      BY <2>2, <1>1, <1>2
    <3>2. ASSUME NEW o \in Offsets(dom) PROVE dom.atoms[o].gen <= dom'.generation + 1
      <4>1. dom.atoms[o].gen <= dom.generation + 2 /\ dom.atoms[o].gen \in Nat
        BY <1>1, <1>t DEF IInv, GenerationInv
      <4>. QED BY <4>1, <3>1, <1>t
    <3>. QED BY <3>1, <3>2
  <2>. QED BY <2>1, <2>2
<1>5. \A i \in live : Fresh(dom', index[i]) = {}
  BY <1>2, <1>4, FreshByAtoms DEF UpToDate
<1>6. GenerationInv'
  <2>1. ASSUME NEW o \in Offsets(dom') PROVE dom'.atoms[o].gen <= dom'.generation + 2
    <3>1. dom.atoms[o].gen <= dom'.generation + 1 /\ dom.atoms[o].gen \in Nat
      BY <1>4, <1>t
    <3>2. dom'.generation \in Nat
      BY <1>2, <1>t
    <3>. QED BY <3>1, <3>2, <1>2
  <2>2. ASSUME NEW i \in live, NEW o \in Content(index[i])
        PROVE  dom'.atoms[o].gen <= dom'.generation + 1
    <3>1. IdxOK(dom, index[i])
      BY DEF IInv, IndexInv, PhaseInv
    <3>2. o \in Offsets(dom)
      BY <3>1, <2>2, <1>1, FreshSplit DEF Matched
    <3>. QED BY <3>2, <1>2, <1>4
  <2>. QED BY <2>1, <2>2, <1>1, <1>5 DEF GenerationInv
<1>7. SortedInv'
  BY <1>1, <1>2 DEF IInv, SortedInv
<1>8. PhaseInv' /\ IdleInv' /\ DequeuedInTime'
  BY <1>1, <1>2 DEF IInv, PhaseInv, IdleInv, DequeuedInTime
<1>. QED BY <1>2, <1>3, <1>6, <1>7, <1>8 DEF IInv

LEMMA QuietStep ==
  ASSUME IInv, DomOK(dom'), Grows(dom, dom'), index' = index,
         phase' = "idle", live' = {}, dom'.enqueued <= 1
  PROVE  IInv'
<1>1. IndexInv'
  BY IndexInvGrows
<1>2. PhaseInv' /\ GenerationInv' /\ SortedInv' /\ DequeuedInTime' /\ IdleInv'
  BY DEF PhaseInv, GenerationInv, SortedInv, DequeuedInTime, IdleInv
<1>. QED BY <1>1, <1>2 DEF IInv

(* The invariant is inductive. *)
THEOREM NextIInv == IInv /\ [Next]_vars => IInv'
<1> SUFFICES ASSUME IInv, [Next]_vars PROVE IInv'
  OBVIOUS
<1>t. DomOK(dom) /\ dom \in DomainRecord /\ dom.generation \in Nat
  BY DomainTypes DEF IInv, DomOK
<1>1. ASSUME NEW i \in Index, AddIndex(i) PROVE IInv'
  BY <1>1, AddIndexStep
<1>2. CASE StartComponent
  BY <1>2, StartComponentStep
<1>11. ASSUME NEW i \in Index, NewMatcher(i) PROVE IInv'
  BY <1>11, NewMatcherStep
<1>3. ASSUME NEW s \in Sym, ReserveAtom(s) PROVE IInv'
  BY <1>3, ReserveAtomStep
<1>4. ASSUME NEW s \in Sym, DefineAtom(s) PROVE IInv'
  BY <1>4, DefineAtomStep
<1>5. ASSUME NEW is \in SUBSET Index, Propagate(is) PROVE IInv'
  BY <1>5, PropagateStep
<1>6. CASE EndIteration
  BY <1>6, EndIterationStep
<1>7. CASE EndComponent
  <2>1. dom' = (IF dom.enqueued > 0 THEN AdvanceDomain(dom) ELSE dom)
        /\ phase' = "idle" /\ live' = {} /\ index' = index
    BY <1>7 DEF EndComponent
  <2>2. DomOK(dom') /\ Grows(dom, dom') /\ dom'.enqueued <= 1
    BY <2>1, <1>t, AdvanceOK
  <2>. QED BY <2>1, <2>2, QuietStep
<1>8. CASE LeaveComponent
  <2>1. dom' = dom /\ phase' = "idle" /\ phase = "idle" /\ live' = {} /\ index' = index
    BY <1>8 DEF LeaveComponent
  <2>2. DomOK(dom') /\ Grows(dom, dom') /\ dom'.enqueued <= 1
    BY <2>1, <1>t, CountersOK DEF IInv, DequeuedInTime
  <2>. QED BY <2>1, <2>2, QuietStep
<1>9. CASE NextStep
  <2>1. dom' = [dom EXCEPT !.generation = dom.generation + 1]
        /\ phase' = "idle" /\ phase = "idle" /\ live' = {} /\ index' = index
    BY <1>9 DEF NextStep
  <2>2. dom' \in DomainRecord /\ dom'.atoms = dom.atoms /\ dom'.delayed = dom.delayed
        /\ dom'.initOffset = dom.initOffset /\ dom'.initDelayedOffset = dom.initDelayedOffset
        /\ dom'.enqueued = dom.enqueued
    <3>1. dom.generation + 1 \in Nat
      BY <1>t
    <3>. QED BY <2>1, <3>1, <1>t DEF DomainRecord
  <2>3. DomOK(dom') /\ Grows(dom, dom')
    BY <2>2, <1>t, CountersOK
  <2>4. dom'.enqueued <= 1
    BY <2>1, <2>2 DEF IInv, DequeuedInTime
  <2>. QED BY <2>1, <2>3, <2>4, QuietStep
<1>10. CASE UNCHANGED vars
  <2>1. dom' = dom /\ index' = index /\ live' = live /\ phase' = phase
    BY <1>10 DEF vars
  <2>2. IndexInv' /\ PhaseInv' /\ IdleInv' /\ DequeuedInTime'
    BY <2>1 DEF IInv, IndexInv, PhaseInv, IdleInv, DequeuedInTime
  <2>3. GenerationInv' /\ SortedInv'
    BY <2>1 DEF IInv, GenerationInv, SortedInv
  <2>. QED BY <2>1, <2>2, <2>3 DEF IInv
<1>. QED BY <1>1, <1>2, <1>3, <1>4, <1>5, <1>6, <1>7, <1>8, <1>9, <1>10, <1>11 DEF Next

-----------------------------------------------------------------------------
(* Properties of the specification *)

THEOREM SpecIInv == Spec => []IInv
BY InitIInv, NextIInv, PTL DEF Spec

(* Every reachable state is well-typed. *)
THEOREM SpecTypeOK == Spec => []TypeOK
<1>1. IInv => TypeOK
  BY DEF IInv, DomOK, IndexInv, PhaseInv, TypeOK
<1>. QED BY SpecIInv, <1>1, PTL

(* No offset is imported twice by an index. *)
THEOREM SpecImportedOnce == Spec => []ImportedOnce
<1>1. IInv => ImportedOnce
  <2>1. ASSUME IInv, NEW i \in Index
        PROVE  Fresh(dom, index[i]) \cap Content(index[i]) = {} /\ BatchesDisjoint(index[i])
    <3>1. DomOK(dom) /\ IdxOK(dom, index[i]) /\ BatchesDisjoint(index[i])
      BY <2>1 DEF IInv, IndexInv
    <3>. QED BY <3>1, FreshSplit
  <2>2. ASSUME IInv, NEW i \in Index
        PROVE  Scanned(dom, index[i]) \cap Late(dom, index[i]) = {}
    <3>1. \A k \in 1..Len(dom.delayed) : dom.atoms[dom.delayed[k]].delayed
      BY <2>2 DEF IInv, DomOK
    <3>2. \A k \in index[i].importedDelayed + 1 .. Len(dom.delayed) : k \in 1..Len(dom.delayed)
      <4>1. index[i].importedDelayed \in Nat /\ Len(dom.delayed) \in Nat
        BY <2>2, IndexTypes, DomainTypes DEF IInv, IndexInv, DomOK, IdxOK
      <4>. QED BY <4>1
    <3>3. \A o \in Late(dom, index[i]) : dom.atoms[o].delayed
      BY <3>1, <3>2 DEF Late
    <3>. QED BY <3>3 DEF Scanned
  <2>. QED BY <2>1, <2>2 DEF ImportedOnce, BatchesDisjoint
<1>. QED BY SpecIInv, <1>1, PTL

(* The delayed vector names every late defined atom exactly once. *)
THEOREM SpecDelayedExact == Spec => []DelayedExact
<1>1. IInv => DelayedExact
  <2>1. SUFFICES ASSUME IInv PROVE DelayedExact
    OBVIOUS
  <2>2. DomOK(dom) /\ dom.delayed \in Seq(Nat \ {0})
    BY <2>1, DomainTypes DEF IInv, DomOK
  <2>3. DOMAIN dom.delayed = 1..Len(dom.delayed)
    BY <2>2, LenProperties
  <2>4. ASSUME NEW k \in DOMAIN dom.delayed, NEW l \in DOMAIN dom.delayed,
               dom.delayed[k] = dom.delayed[l]
        PROVE  k = l
    <3>1. \A m, n \in 1..Len(dom.delayed) : dom.delayed[m] = dom.delayed[n] => m = n
      BY <2>2 DEF DomOK
    <3>. QED BY <3>1, <2>3, <2>4
  <2>5. ASSUME NEW k \in DOMAIN dom.delayed
        PROVE  dom.delayed[k] \in Offsets(dom) /\ IsDefined(dom, dom.delayed[k])
               /\ dom.atoms[dom.delayed[k]].delayed
    BY <2>2, <2>3 DEF DomOK, IsDefined
  <2>6. ASSUME NEW o \in Offsets(dom), IsDefined(dom, o), dom.atoms[o].delayed
        PROVE  \E k \in DOMAIN dom.delayed : dom.delayed[k] = o
    BY <2>2, <2>3, <2>6 DEF DomOK, IsDefined
  <2>. QED BY <2>4, <2>5, <2>6 DEF DelayedExact
<1>. QED BY SpecIInv, <1>1, PTL

(* Whenever instantiators run, registered indices hold exactly the         *)
(* matching atoms of the current and of earlier generations.               *)
LEMMA IInvIndexExact == IInv => IndexExact
<1> SUFFICES ASSUME IInv, phase = "inst", NEW i \in live
             PROVE  Content(index[i]) = {o \in Matching(i) : Generation(dom, o) <= dom.generation}
  BY DEF IndexExact
<1>1. DomOK(dom) /\ IdxOK(dom, index[i]) /\ index[i].match = Match[i]
  BY DEF IInv, IndexInv, PhaseInv
<1>t. dom.generation \in Nat /\ \A o \in Offsets(dom) : dom.atoms[o].gen \in Nat
  BY <1>1, DomainTypes DEF DomOK
<1>2. Matched(dom, index[i]) = Matching(i)
  BY <1>1 DEF Matched, Matching, IsDefined
<1>3. Fresh(dom, index[i]) = Matching(i) \ Content(index[i])
      /\ Content(index[i]) \subseteq Matching(i)
  BY <1>1, <1>2, FreshSplit
<1>4. ASSUME NEW o \in Content(index[i]) PROVE Generation(dom, o) <= dom.generation
  <2>1. dom.atoms[o].gen <= dom.generation + 1
    BY DEF IInv, GenerationInv
  <2>2. dom.atoms[o].gen \in Nat
    BY <1>3, <1>t DEF Matching
  <2>. QED BY <2>1, <2>2, <1>t DEF Generation
<1>5. ASSUME NEW o \in Matching(i), Generation(dom, o) <= dom.generation
      PROVE  o \in Content(index[i])
  <2>1. SUFFICES ASSUME o \in Fresh(dom, index[i]) PROVE FALSE
    BY <1>3
  <2>2. dom.atoms[o].gen = dom.generation + 2
    BY <2>1 DEF IInv, GenerationInv
  <2>. QED BY <2>2, <1>5, <1>t DEF Generation
<1>. QED BY <1>3, <1>4, <1>5

THEOREM SpecIndexExact == Spec => []IndexExact
BY SpecIInv, IInvIndexExact, PTL

(* While other components are processed, registered indices are complete.  *)
THEOREM SpecIndexComplete == Spec => []IndexComplete
<1>1. IInv => IndexComplete
  <2>1. ASSUME IInv, phase = "idle", NEW i \in live
        PROVE  Content(index[i]) = Matching(i)
    <3>1. DomOK(dom) /\ IdxOK(dom, index[i]) /\ index[i].match = Match[i]
      BY <2>1 DEF IInv, IndexInv, PhaseInv
    <3>2. Matched(dom, index[i]) = Matching(i)
      BY <3>1 DEF Matched, Matching, IsDefined
    <3>3. Fresh(dom, index[i]) = {}
      BY <2>1 DEF IInv, IdleInv
    <3>. QED BY <3>1, <3>2, <3>3, FreshSplit
  <2>. QED BY <2>1 DEF IndexComplete
<1>. QED BY SpecIInv, <1>1, PTL

(* Indices are sorted by generation while a component is processed. *)
LEMMA IInvSorted == IInv => Sorted
<1> SUFFICES ASSUME IInv, phase # "idle", NEW i \in live,
                    NEW b \in DOMAIN index[i].batches, NEW c \in DOMAIN index[i].batches,
                    NEW o \in index[i].batches[b], NEW p \in index[i].batches[c], b <= c
             PROVE  Generation(dom, o) <= Generation(dom, p)
  BY DEF Sorted
<1>1. dom.atoms[o].gen <= dom.atoms[p].gen
  BY DEF IInv, SortedInv
<1>2. DomOK(dom) /\ IdxOK(dom, index[i])
  BY DEF IInv, IndexInv, PhaseInv
<1>3. dom.atoms[o].gen \in Nat /\ dom.atoms[p].gen \in Nat
  <2>1. o \in Offsets(dom) /\ p \in Offsets(dom)
    BY <1>2, ContentDefined
  <2>. QED BY <2>1, <1>2, DomainTypes DEF DomOK
<1>. QED BY <1>1, <1>3 DEF Generation

THEOREM SpecSorted == Spec => []Sorted
BY SpecIInv, IInvSorted, PTL

(* The lookups that stop early find what the domain itself contains.       *)
THEOREM SpecLookupsAgree == Spec => []LookupsAgree
<1>1. IInv => LookupsAgree
  <2>1. SUFFICES ASSUME IInv, phase = "inst", NEW i \in live
                 PROVE  /\ LookupNew(dom, index[i]) = MatchNew(dom, Match[i])
                        /\ LookupOld(dom, index[i]) = MatchOld(dom, Match[i])
                        /\ LookupAll(index[i]) = MatchAll(dom, Match[i])
    BY DEF LookupsAgree
  <2>2. Content(index[i]) = {o \in Matching(i) : Generation(dom, o) <= dom.generation}
    BY <2>1, IInvIndexExact DEF IndexExact
  <2>3. Content(index[i]) = MatchAll(dom, Match[i])
    BY <2>2 DEF Matching, MatchAll
  <2>4. ASSUME NEW o, NEW p, EntryBefore(dom, index[i], o, p)
        PROVE  Generation(dom, o) <= Generation(dom, p) /\ o \in Content(index[i]) /\ p \in Content(index[i])
    <3>1. PICK b \in DOMAIN index[i].batches, c \in DOMAIN index[i].batches :
            o \in index[i].batches[b] /\ p \in index[i].batches[c] /\ (b < c \/ b = c)
      BY <2>4 DEF EntryBefore
    <3>2. index[i].batches \in Seq(SUBSET (Nat \ {0}))
      BY <2>1, IndexTypes DEF IInv, IndexInv, PhaseInv
    <3>3. b \in Nat /\ c \in Nat
      BY <3>2
    <3>4. b <= c
      BY <3>1, <3>3
    <3>5. Sorted
      BY <2>1, IInvSorted
    <3>. QED BY <3>1, <3>4, <3>5, <2>1 DEF Sorted, Content
  <2>t. dom.generation \in Nat /\ \A o \in Content(index[i]) : Generation(dom, o) \in Int
    <3>1. DomOK(dom)
      BY <2>1 DEF IInv
    <3>2. dom.generation \in Nat /\ \A o \in Offsets(dom) : dom.atoms[o].gen \in Nat
      BY <3>1, DomainTypes DEF DomOK
    <3>. QED BY <3>2, <2>2 DEF Matching, Generation
  <2>5. LookupNew(dom, index[i]) =
          {o \in Content(index[i]) : Generation(dom, o) >= dom.generation}
    <3>1. ASSUME NEW o \in Content(index[i]), Generation(dom, o) >= dom.generation,
                 NEW p \in Content(index[i]), EntryBefore(dom, index[i], o, p)
          PROVE  Generation(dom, p) >= dom.generation
      BY <3>1, <2>4, <2>t
    <3>. QED BY <3>1 DEF LookupNew
  <2>6. LookupOld(dom, index[i]) =
          {o \in Content(index[i]) : Generation(dom, o) < dom.generation}
    <3>1. ASSUME NEW o \in Content(index[i]), Generation(dom, o) < dom.generation,
                 NEW p \in Content(index[i]), EntryBefore(dom, index[i], p, o)
          PROVE  Generation(dom, p) < dom.generation
      BY <3>1, <2>4, <2>t
    <3>. QED BY <3>1 DEF LookupOld
  <2>7. ASSUME NEW o \in Offsets(dom)
        PROVE  dom.generation \in Int /\ Generation(dom, o) \in Int
    <3>1. DomOK(dom)
      BY <2>1 DEF IInv
    <3>2. dom.generation \in Nat /\ dom.atoms[o].gen \in Nat
      BY <3>1, DomainTypes DEF DomOK
    <3>. QED BY <3>2 DEF Generation
  <2>8. {o \in Content(index[i]) : Generation(dom, o) >= dom.generation} = MatchNew(dom, Match[i])
    <3>1. ASSUME NEW o \in Offsets(dom)
          PROVE  Generation(dom, o) <= dom.generation /\ Generation(dom, o) >= dom.generation
                   <=> Generation(dom, o) = dom.generation
      BY <2>7
    <3>. QED BY <3>1, <2>3 DEF MatchAll, MatchNew
  <2>9. {o \in Content(index[i]) : Generation(dom, o) < dom.generation} = MatchOld(dom, Match[i])
    <3>1. ASSUME NEW o \in Offsets(dom)
          PROVE  Generation(dom, o) < dom.generation => Generation(dom, o) <= dom.generation
      BY <2>7
    <3>. QED BY <3>1, <2>3 DEF MatchAll, MatchOld
  <2>. QED BY <2>3, <2>5, <2>6, <2>8, <2>9 DEF LookupAll
<1>. QED BY SpecIInv, <1>1, PTL

(* No domain is enqueued for longer than the iteration after the one that  *)
(* defined its last atom.                                                  *)
THEOREM SpecDequeuedInTime == Spec => []DequeuedInTime
<1>1. IInv => DequeuedInTime
  BY DEF IInv
<1>. QED BY SpecIInv, <1>1, PTL

(* In a component, no atom is NEW in two iterations, and none becomes OLD  *)
(* that was not NEW before.                                                *)
THEOREM SpecNewExactlyOnce == Spec => NewExactlyOnce
<1> DEFINE P ==
      (phase # "idle" /\ phase' = "inst") =>
         \A i \in live :
           /\ MatchNew(dom', Match[i]) \cap MatchNew(dom, Match[i]) = {}
                \/ dom'.generation = dom.generation
           /\ MatchOld(dom', Match[i])
                \subseteq MatchOld(dom, Match[i]) \union MatchNew(dom, Match[i])
<1>1. IInv /\ Next => P
  <2>1. SUFFICES ASSUME IInv, Next, phase # "idle", phase' = "inst", NEW i \in live
                 PROVE  /\ MatchNew(dom', Match[i]) \cap MatchNew(dom, Match[i]) = {}
                             \/ dom'.generation = dom.generation
                        /\ MatchOld(dom', Match[i])
                             \subseteq MatchOld(dom, Match[i]) \union MatchNew(dom, Match[i])
    OBVIOUS
  <2>t. DomOK(dom) /\ dom.generation \in Nat /\ \A o \in Offsets(dom) : dom.atoms[o].gen \in Nat
    BY <2>1, DomainTypes DEF IInv, DomOK
  <2>2. ASSUME DomOK(dom'), Grows(dom, dom'), KeepsGenerations(dom, dom')
        PROVE  dom'.generation = dom.generation
               /\ MatchOld(dom', Match[i]) \subseteq MatchOld(dom, Match[i])
    <3>1. dom'.generation = dom.generation
      BY <2>2 DEF KeepsGenerations
    <3>2. ASSUME NEW o \in MatchOld(dom', Match[i]) PROVE o \in MatchOld(dom, Match[i])
      <4>1. /\ o \in Offsets(dom') /\ dom'.atoms[o].gen > 0
            /\ dom'.atoms[o].gen - 1 < dom.generation /\ dom'.atoms[o].sym \in Match[i]
        BY <3>1 DEF MatchOld, IsDefined, Generation
      <4>2. ~(dom'.atoms[o].gen = 0) /\ ~(dom'.atoms[o].gen = dom.generation + 2)
        BY <4>1, <2>t
      <4>3. o \in Offsets(dom) /\ dom'.atoms[o].gen = dom.atoms[o].gen
        BY <4>1, <4>2, <2>2 DEF KeepsGenerations
      <4>4. dom'.atoms[o].sym = dom.atoms[o].sym
        BY <4>3, <2>2 DEF Grows
      <4>. QED BY <4>1, <4>3, <4>4 DEF MatchOld, IsDefined, Generation
    <3>. QED BY <3>1, <3>2
  <2>3. ASSUME NEW s \in Sym, ReserveAtom(s) \/ DefineAtom(s)
        PROVE  DomOK(dom') /\ Grows(dom, dom') /\ KeepsGenerations(dom, dom')
    <3>1. dom' = Reserve(dom, s) \/ dom' = Define(dom, s)
      BY <2>3 DEF ReserveAtom, DefineAtom
    <3>. QED BY <3>1, <2>t, ReserveOK, DefineOK
  <2>4. CASE EndIteration
    <3>1. dom' = (IF dom.enqueued > 0 THEN AdvanceDomain(dom) ELSE dom)
      BY <2>4 DEF EndIteration
    <3>2. dom'.atoms = dom.atoms /\ dom'.generation \in {dom.generation, dom.generation + 1}
      BY <3>1, <2>t, AdvanceOK
    <3>3. Offsets(dom') = Offsets(dom)
      BY <3>2 DEF Offsets
    <3>4. CASE dom'.generation = dom.generation
      BY <3>2, <3>3, <3>4 DEF MatchOld, IsDefined, Generation
    <3>5. CASE dom'.generation = dom.generation + 1
      <4>1. ASSUME NEW o \in MatchNew(dom', Match[i]), o \in MatchNew(dom, Match[i]) PROVE FALSE
        <5>1. Generation(dom, o) = dom.generation + 1 /\ Generation(dom, o) = dom.generation
          BY <4>1, <3>2, <3>5 DEF MatchNew, Generation
        <5>. QED BY <5>1, <2>t
      <4>2. ASSUME NEW o \in MatchOld(dom', Match[i])
            PROVE  o \in MatchOld(dom, Match[i]) \union MatchNew(dom, Match[i])
        <5>1. /\ o \in Offsets(dom) /\ IsDefined(dom, o) /\ dom.atoms[o].sym \in Match[i]
              /\ Generation(dom, o) < dom.generation + 1
          BY <3>2, <3>3, <3>5 DEF MatchOld, IsDefined, Generation
        <5>2. Generation(dom, o) < dom.generation \/ Generation(dom, o) = dom.generation
          BY <5>1, <2>t DEF Generation
        <5>. QED BY <5>1, <5>2 DEF MatchOld, MatchNew
      <4>. QED BY <4>1, <4>2
    <3>. QED BY <3>2, <3>4, <3>5
  <2>5. ASSUME NEW j \in Index, AddIndex(j) PROVE FALSE
    BY <2>1, <2>5 DEF AddIndex
  <2>8. ASSUME NEW j \in Index, NewMatcher(j) PROVE FALSE
    BY <2>1, <2>8 DEF NewMatcher
  <2>6. ASSUME NEW is \in SUBSET Index, Propagate(is) PROVE FALSE
    BY <2>1, <2>6 DEF Propagate
  <2>7. ~StartComponent /\ ~EndComponent /\ ~LeaveComponent /\ ~NextStep
    BY <2>1 DEF StartComponent, EndComponent, LeaveComponent, NextStep
  <2>. QED BY <2>1, <2>2, <2>3, <2>4, <2>5, <2>6, <2>7, <2>8 DEF Next
<1>2. IInv /\ [Next]_vars => [P]_vars
  BY <1>1
<1>. QED BY SpecIInv, <1>2, PTL DEF Spec, NewExactlyOnce
=============================================================================
