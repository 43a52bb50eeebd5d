------------------------------ MODULE DomainOps ------------------------------
(***************************************************************************)
(* The operations of AbstractDomain and of the indices over it             *)
(* (libgringo/gringo/domain.hh) as operators on values, shared by the      *)
(* state machine of a single domain (Domain) and by the grounder that owns *)
(* one domain per predicate (Grounder).                                    *)
(*                                                                         *)
(* A domain is a record                                                    *)
(*   atoms             the vector of the ordered set atoms_                *)
(*   delayed           the offsets of atoms defined after they were passed *)
(*   generation        the current generation                              *)
(*   enqueued          for how many grounding iterations it is enqueued    *)
(*   initOffset,                                                           *)
(*   initDelayedOffset how much of atoms and delayed init() has seen       *)
(*                                                                         *)
(* An atom stores its generation plus one, as PredicateAtom does: gen = 0  *)
(* means the atom is reserved but not defined.  Offsets start at 1.        *)
(*                                                                         *)
(* An index is a record with the set of symbols its term matches, the two  *)
(* import offsets, and the imported offsets as a sequence of batches, one  *)
(* for each update that found something.  A batch is a set: the order in   *)
(* it follows from the atoms (see EntryBefore).                            *)
(***************************************************************************)
EXTENDS Integers, Sequences

NewAtom(s) == [sym |-> s, gen |-> 0, fact |-> FALSE, delayed |-> FALSE]

EmptyDomain ==
  [atoms |-> <<>>, delayed |-> <<>>, generation |-> 0, enqueued |-> 0,
   initOffset |-> 0, initDelayedOffset |-> 0]

NewIndex(match) ==
  [match |-> match, batches |-> <<>>, imported |-> 0, importedDelayed |-> 0]

Offsets(d) == 1..Len(d.atoms)

IsDefined(d, o) == d.atoms[o].gen > 0

(* PredicateAtom::generation(), for defined atoms only. *)
Generation(d, o) == d.atoms[o].gen - 1

Contains(d, s) == \E o \in Offsets(d) : d.atoms[o].sym = s

Find(d, s) == CHOOSE o \in Offsets(d) : d.atoms[o].sym = s

(* AbstractDomain::reserve: the atom gets an offset but no generation. *)
Reserve(d, s) ==
  IF Contains(d, s) THEN d
  ELSE [d EXCEPT !.atoms = Append(@, NewAtom(s))]

(* Slips in define: the delayed vector forgotten, or always extended. *)
DefineWithoutDelayed(d, o) ==
  IF IsDefined(d, o) THEN d ELSE [d EXCEPT !.atoms[o].gen = d.generation + 2]

DefineAlwaysDelayed(d, o) ==
  IF IsDefined(d, o) THEN d
  ELSE [d EXCEPT !.atoms[o].gen = d.generation + 2, !.delayed = Append(@, o)]

(* AbstractDomain::define(offset): atoms that some scan has passed while   *)
(* they were undefined also go to the delayed vector.                      *)
DefineOffset(d, o) ==
  IF IsDefined(d, o) THEN d
  ELSE [d EXCEPT !.atoms[o].gen = d.generation + 2,
                 !.delayed = IF d.atoms[o].delayed THEN Append(@, o) ELSE @]

(* AbstractDomain::define(symbol). *)
Define(d, s) == LET r == Reserve(d, s) IN DefineOffset(r, Find(r, s))

SetFact(d, o) == [d EXCEPT !.atoms[o].fact = TRUE]

(* Undefined atoms in a set of offsets are marked as delayed. *)
MarkDelayed(d, os) ==
  [d EXCEPT !.atoms = [o \in Offsets(d) |->
     IF o \in os /\ ~IsDefined(d, o)
     THEN [d.atoms[o] EXCEPT !.delayed = TRUE] ELSE d.atoms[o]]]

(* A slip in init: late atoms keep their generation. *)
InitWithoutDelayed(d) ==
  LET passed == MarkDelayed(d, d.initOffset + 1 .. Len(d.atoms))
  IN [d EXCEPT
        !.generation = 0,
        !.atoms = [o \in Offsets(d) |->
          IF o > d.initOffset /\ IsDefined(d, o)
          THEN [passed.atoms[o] EXCEPT !.gen = 1] ELSE passed.atoms[o]],
        !.initOffset = Len(d.atoms),
        !.initDelayedOffset = Len(d.delayed)]

(* AbstractDomain::init: everything defined so far becomes generation 0.   *)
InitDomain(d) ==
  LET late == {d.delayed[k] : k \in d.initDelayedOffset + 1 .. Len(d.delayed)}
      passed == MarkDelayed(d, d.initOffset + 1 .. Len(d.atoms))
  IN [d EXCEPT
        !.generation = 0,
        !.atoms = [o \in Offsets(d) |->
          IF o \in late \/ (o > d.initOffset /\ IsDefined(d, o))
          THEN [passed.atoms[o] EXCEPT !.gen = 1] ELSE passed.atoms[o]],
        !.initOffset = Len(d.atoms),
        !.initDelayedOffset = Len(d.delayed)]

(* The offsets AbstractDomain::update passes to the callback of an index:  *)
(* those of the scan behind imported, which skips atoms of the delayed     *)
(* vector (before it a slip that does not), and those of the delayed       *)
(* vector behind importedDelayed.                                          *)
ScannedWithDelayed(d, ix) ==
  {o \in ix.imported + 1 .. Len(d.atoms) : IsDefined(d, o) /\ d.atoms[o].sym \in ix.match}

Scanned(d, ix) ==
  {o \in ix.imported + 1 .. Len(d.atoms) :
     IsDefined(d, o) /\ ~d.atoms[o].delayed /\ d.atoms[o].sym \in ix.match}

Late(d, ix) ==
  {o \in {d.delayed[k] : k \in ix.importedDelayed + 1 .. Len(d.delayed)} :
     d.atoms[o].sym \in ix.match}

Fresh(d, ix) == Scanned(d, ix) \union Late(d, ix)

UpdateIndex(d, ix) ==
  [ix EXCEPT !.batches = IF Fresh(d, ix) = {} THEN @ ELSE Append(@, Fresh(d, ix)),
             !.imported = Len(d.atoms),
             !.importedDelayed = Len(d.delayed)]

(* The side effect of the same update on the atoms of the domain. *)
PassedBy(d, ix) == MarkDelayed(d, ix.imported + 1 .. Len(d.atoms))

(* Domain::enqueue and Domain::nextGeneration with Domain::dequeue; before *)
(* them, slips that enqueue for too long, advance twice, or do not dequeue. *)
EnqueueLonger(d) == [d EXCEPT !.enqueued = 3]

EnqueueDomain(d) == [d EXCEPT !.enqueued = 2]

AdvanceTwice(d) == [d EXCEPT !.generation = @ + 2, !.enqueued = @ - 1]
AdvanceEnqueued(d) == [d EXCEPT !.generation = @ + 1]

AdvanceDomain(d) ==
  [d EXCEPT !.generation = @ + 1, !.enqueued = @ - 1]

-----------------------------------------------------------------------------
(* What an index holds, and the order in which a traversal visits it. *)

Content(ix) == UNION {ix.batches[b] : b \in DOMAIN ix.batches}

(* A traversal visits batch after batch, in a batch first the atoms        *)
(* imported by the scan of atoms, by offset, then the delayed ones in the  *)
(* order they were defined.                                                *)
EntryBefore(d, ix, o, p) ==
  \E b, c \in DOMAIN ix.batches :
    /\ o \in ix.batches[b]
    /\ p \in ix.batches[c]
    /\ \/ b < c
       \/ /\ b = c
          /\ \/ ~d.atoms[o].delayed /\ (d.atoms[p].delayed \/ o < p)
             \/ \E k, l \in DOMAIN d.delayed :
                  d.delayed[k] = o /\ d.delayed[l] = p /\ k < l

(* FullIndex::OffsetRange::next stops a backward traversal for NEW atoms   *)
(* at the first atom of an older generation and a forward traversal for    *)
(* OLD atoms at the first one that is not older; BindIndex::lookup cuts    *)
(* the vector by lower_bound at the same place.                            *)
LookupNew(d, ix) ==
  {o \in Content(ix) :
     /\ Generation(d, o) >= d.generation
     /\ \A p \in Content(ix) :
          EntryBefore(d, ix, o, p) => Generation(d, p) >= d.generation}

LookupOld(d, ix) ==
  {o \in Content(ix) :
     /\ Generation(d, o) < d.generation
     /\ \A p \in Content(ix) :
          EntryBefore(d, ix, p, o) => Generation(d, p) < d.generation}

LookupAll(ix) == Content(ix)

(* AbstractDomain::lookup(offset, repr, type) for a ground positive        *)
(* literal of a recursive occurrence: the domain itself is asked.          *)
MatchNew(d, m) ==
  {o \in Offsets(d) :
     d.atoms[o].sym \in m /\ IsDefined(d, o) /\ Generation(d, o) = d.generation}

MatchOld(d, m) ==
  {o \in Offsets(d) :
     d.atoms[o].sym \in m /\ IsDefined(d, o) /\ Generation(d, o) < d.generation}

MatchAll(d, m) ==
  {o \in Offsets(d) :
     d.atoms[o].sym \in m /\ IsDefined(d, o) /\ Generation(d, o) <= d.generation}
=============================================================================
