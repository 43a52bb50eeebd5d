---------------------------- MODULE CleanupProofs ----------------------------
(***************************************************************************)
(* Proofs about Cleanup for domains of any size.                           *)
(*                                                                         *)
(* The first part is about CleanupOps: what one iteration of the loop in   *)
(* cleanup_ preserves, and what a loop that ran to its end leaves behind.  *)
(* It is stated for a loop over the atoms b that deletes those in del and  *)
(* replaces any other atom a by kept[a], and MultiShotProofs takes it from *)
(* an instance of this module.  The invariant of the loop says where the   *)
(* atoms are: those behind next have not moved, the one at next is the     *)
(* original atom at old, and those in front of next have their entry in    *)
(* the mapping.                                                            *)
(*                                                                         *)
(* The inductive invariant of Cleanup is that of the loop, for atoms that  *)
(* are kept as they are.                                                   *)
(***************************************************************************)
EXTENDS Cleanup, WellFoundedInduction, TLAPS

-----------------------------------------------------------------------------
(* Induction over the natural numbers, in a form that has no operator as   *)
(* parameter.                                                              *)

LEMMA LessIsWellFounded ==
  \E R : IsWellFoundedOn(R, Nat) /\ \A x, y \in Nat : y < x => <<y, x>> \in R
<1> DEFINE R == OpToRel(<, Nat)
<1>1. IsWellFoundedOn(R, Nat)
  BY NatLessThanWellFounded
<1>2. \A x, y \in Nat : y < x => <<y, x>> \in R
  BY DEF OpToRel
<1> HIDE DEF R
<1> QED BY <1>1, <1>2

LEMMA LeastElement ==
  ASSUME NEW T \in SUBSET Nat, T # {}
  PROVE  \E x \in T : \A y \in T : x <= y
<1>1. PICK R : IsWellFoundedOn(R, Nat) /\ \A x, y \in Nat : y < x => <<y, x>> \in R
  BY LessIsWellFounded
<1>2. PICK x \in T : \A y \in T : ~(<<y, x>> \in R)
  BY <1>1, WFMin
<1>3. ASSUME NEW y \in T PROVE x <= y
  <2>1. x \in Nat /\ y \in Nat
    OBVIOUS
  <2>2. ~(y < x)
    BY <1>1, <1>2, <2>1
  <2> QED BY <2>1, <2>2
<1> QED BY <1>3

LEMMA SetInduction ==
  ASSUME NEW S \in SUBSET Nat, 0 \in S, \A n \in S : n + 1 \in S
  PROVE  S = Nat
<1>1. SUFFICES ASSUME Nat \ S # {} PROVE FALSE
  OBVIOUS
<1>2. PICK x \in Nat \ S : \A y \in Nat \ S : x <= y
  BY <1>1, LeastElement
<1>3. x - 1 \in S
  BY <1>2
<1> QED BY <1>2, <1>3

-----------------------------------------------------------------------------
(* The invariant of the loop                                               *)

IdRange == [first : Nat \ {0}, last : Nat \ {0}]

(* The ranges of a mapping lie below a bound. *)
RangesBelow(m, bound) ==
  /\ m.id \in Seq(IdRange)
  /\ \A k \in DOMAIN m.id : m.id[k].first <= m.id[k].last /\ m.id[k].last < bound

Shape(m) == m = [id |-> m.id, map |-> m.map]

LoopShape(c) ==
  c = [atoms |-> c.atoms, next |-> c.next, rev |-> c.rev, old |-> c.old, map |-> c.map]

LoopRuns(c) == c.next <= Len(c.atoms)

(* The original offsets that the loop is done with. *)
Visits(c) == IF LoopRuns(c) THEN {c.old} \union (c.next + 1)..(c.rev - 1) ELSE {}

DoneOf(b, c) == (1..Len(b)) \ Visits(c)

LoopPlaces(X, b, c) ==
  /\ b \in Seq(X)
  /\ LoopShape(c)
  /\ c.atoms \in Seq(X)
  /\ Len(c.atoms) <= Len(b)
  /\ c.rev = Len(c.atoms) + 1
  /\ c.next \in 1..(Len(c.atoms) + 1)
  /\ c.old \in {c.next, c.rev}

LoopUnmoved(b, c) ==
  /\ \A p \in (c.next + 1)..Len(c.atoms) : c.atoms[p] = b[p]
  /\ LoopRuns(c) => c.old <= Len(b) /\ c.atoms[c.next] = b[c.old]

LoopMapping(b, c) ==
  /\ Shape(c.map)
  /\ RangesBelow(c.map, c.next)
  /\ DOMAIN c.map.map \subseteq DoneOf(b, c)

(* Visited atoms are deleted, or replaced and where the mapping says.      *)
LoopExact(b, del, kept, c) ==
  \A o \in DoneOf(b, c) :
    IF b[o] \in del
    THEN GetMapping(c.map, o) = 0
    ELSE /\ GetMapping(c.map, o) \in 1..(c.next - 1)
         /\ c.atoms[GetMapping(c.map, o)] = kept[b[o]]

(* No two of them are in one place, and there is one in every place.       *)
LoopApart(b, del, c) ==
  \A o, p \in DoneOf(b, c) :
    b[o] \notin del /\ b[p] \notin del /\ GetMapping(c.map, o) = GetMapping(c.map, p) => o = p

LoopOnto(b, del, c) ==
  \A p \in 1..(c.next - 1) : \E o \in DoneOf(b, c) : b[o] \notin del /\ GetMapping(c.map, o) = p

CleanupLoop(X, b, del, kept, c) ==
  /\ LoopPlaces(X, b, c)
  /\ LoopUnmoved(b, c)
  /\ LoopMapping(b, c)
  /\ LoopExact(b, del, kept, c)
  /\ LoopApart(b, del, c)
  /\ LoopOnto(b, del, c)

-----------------------------------------------------------------------------
(* What Mapping::add does to Mapping::get when the offset changed. *)
LEMMA AddMoved ==
  ASSUME NEW m, Shape(m), NEW old, NEW new, old # new, old \notin DOMAIN m.map,
         NEW o
  PROVE  GetMapping(AddMapping(m, old, new), o)
           = IF o = old THEN new ELSE GetMapping(m, o)
  BY DEF AddMapping, GetMapping, Unchanged, Shape

(* The same when it did not change and lies behind all ranges. *)
LEMMA AddUnmoved ==
  ASSUME NEW m, Shape(m), NEW old \in Nat \ {0}, RangesBelow(m, old),
         old \notin DOMAIN m.map, NEW o \in Nat
  PROVE  /\ GetMapping(AddMapping(m, old, old), o)
              = IF o = old THEN old ELSE GetMapping(m, o)
         /\ RangesBelow(AddMapping(m, old, old), old + 1)
         /\ Shape(AddMapping(m, old, old))
         /\ AddMapping(m, old, old).map = m.map
<1> DEFINE n == AddMapping(m, old, old)
           l == Len(m.id)
<1>1. m.id \in Seq(IdRange) /\ l \in Nat /\ DOMAIN m.id = 1..l
  BY DEF RangesBelow
<1>2. \A k \in 1..l : /\ m.id[k] \in IdRange
                      /\ m.id[k].first \in Nat \ {0} /\ m.id[k].last \in Nat \ {0}
                      /\ m.id[k].first <= m.id[k].last /\ m.id[k].last < old
  <2> TAKE k \in 1..l
  <2>1. m.id[k] \in IdRange
    BY <1>1
  <2>2. m.id[k].first <= m.id[k].last /\ m.id[k].last < old
    BY <1>1 DEF RangesBelow
  <2> QED BY <2>1, <2>2 DEF IdRange
<1>3. CASE m.id = <<>> \/ m.id[l].last < old - 1
  <2> DEFINE r == [first |-> old, last |-> old]
  <2>1. n = [id |-> Append(m.id, r), map |-> m.map]
    BY <1>3 DEF AddMapping, Shape
  <2>2. r \in IdRange
    BY DEF IdRange
  <2>3. /\ n.id \in Seq(IdRange) /\ DOMAIN n.id = 1..(l + 1)
        /\ n.id[l + 1] = r /\ \A k \in 1..l : n.id[k] = m.id[k]
    BY <1>1, <2>1, <2>2
  <2>4. RangesBelow(n, old + 1)
    <3> SUFFICES ASSUME NEW k \in 1..(l + 1)
                 PROVE  n.id[k].first <= n.id[k].last /\ n.id[k].last < old + 1
      BY <2>3 DEF RangesBelow
    <3>1. CASE k \in 1..l
      <4>1. n.id[k] = m.id[k]
        BY <3>1, <2>3
      <4>2. m.id[k].first <= m.id[k].last /\ m.id[k].last < old /\ m.id[k].last \in Nat
        BY <3>1, <1>2
      <4> HIDE DEF n
      <4> QED BY <4>1, <4>2
    <3>2. CASE k = l + 1
      BY <3>2, <2>3
    <3> QED BY <3>1, <3>2, <1>1
  <2>5. Unchanged(n, o) <=> (o = old \/ Unchanged(m, o))
    <3>1. ASSUME o = old PROVE Unchanged(n, o)
      <4>1. \A j \in 1..((l + 1) - 1) : n.id[j].last < o
        BY <1>1, <1>2, <2>3, <3>1
      <4>2. n.id[l + 1].first <= o /\ o <= n.id[l + 1].last
        BY <2>3, <3>1
      <4>3. l + 1 \in DOMAIN n.id
        BY <2>3, <1>1
      <4> HIDE DEF n
      <4> QED BY <4>1, <4>2, <4>3 DEF Unchanged
    <3>2. ASSUME Unchanged(m, o) PROVE Unchanged(n, o)
      <4>1. PICK k \in 1..l : /\ m.id[k].first <= o /\ o <= m.id[k].last
                              /\ \A j \in 1..(k - 1) : m.id[j].last < o
        BY <3>2, <1>1 DEF Unchanged
      <4>2. k \in 1..(l + 1) /\ 1..(k - 1) \subseteq 1..l
        BY <1>1
      <4> QED BY <4>1, <4>2, <2>3 DEF Unchanged
    <3>3. ASSUME Unchanged(n, o), o # old PROVE Unchanged(m, o)
      <4>1. PICK k \in 1..(l + 1) : /\ n.id[k].first <= o /\ o <= n.id[k].last
                                    /\ \A j \in 1..(k - 1) : n.id[j].last < o
        BY <3>3, <2>3 DEF Unchanged
      <4>2. k # l + 1
        BY <4>1, <2>3, <3>3
      <4>3. k \in 1..l /\ 1..(k - 1) \subseteq 1..l
        BY <4>2, <1>1
      <4> QED BY <4>1, <4>3, <2>3, <1>1 DEF Unchanged
    <3> QED BY <3>1, <3>2, <3>3
  <2>6. n.map = m.map /\ Shape(n)
    BY <2>1 DEF Shape
  <2> QED BY <2>4, <2>5, <2>6 DEF GetMapping
<1>4. CASE m.id # <<>> /\ ~(m.id[l].last < old - 1)
  <2>1. l \in 1..l
    BY <1>1, <1>4
  <2>2. m.id[l].last = old - 1
    BY <2>1, <1>2, <1>4
  <2>3. n = [id |-> [m.id EXCEPT ![l].last = @ + 1], map |-> m.map]
    BY <1>4 DEF AddMapping, Shape
  <2>4. n.id[l] = [m.id[l] EXCEPT !.last = old]
    <3>1. n.id = [m.id EXCEPT ![l] = [m.id[l] EXCEPT !.last = m.id[l].last + 1]]
      BY <2>3
    <3>2. m.id[l].last + 1 = old
      BY <2>2
    <3> QED BY <2>1, <3>1, <3>2, <1>1
  <2>5. n.id[l].first = m.id[l].first /\ n.id[l].last = old /\ n.id[l] \in IdRange
    BY <2>4, <2>1, <1>2 DEF IdRange
  <2>6. /\ DOMAIN n.id = 1..l /\ \A k \in 1..l : k # l => n.id[k] = m.id[k]
    BY <2>3, <1>1
  <2>7. n.id \in Seq(IdRange)
    <3>1. \A k \in 1..l : n.id[k] \in IdRange
      BY <2>5, <2>6, <1>2
    <3>2. n.id = [k \in 1..l |-> n.id[k]]
      <4>1. n.id = [m.id EXCEPT ![l] = [m.id[l] EXCEPT !.last = m.id[l].last + 1]]
        BY <2>3
      <4> QED BY <4>1, <1>1
    <3> QED BY <3>1, <3>2, <1>1
  <2>8. RangesBelow(n, old + 1)
    <3> SUFFICES ASSUME NEW k \in 1..l
                 PROVE  n.id[k].first <= n.id[k].last /\ n.id[k].last < old + 1
      BY <2>6, <2>7 DEF RangesBelow
    <3>1. CASE k = l
      BY <3>1, <2>1, <2>5, <1>2
    <3>2. CASE k # l
      BY <3>2, <2>6, <1>2
    <3> QED BY <3>1, <3>2
  <2>9. Unchanged(n, o) <=> (o = old \/ Unchanged(m, o))
    <3>0. \A k \in 1..l : \A j \in 1..(k - 1) : j \in 1..l /\ n.id[j] = m.id[j]
      BY <2>6, <1>1
    <3>1. ASSUME o = old PROVE Unchanged(n, o)
      <4>1. \A j \in 1..(l - 1) : n.id[j].last < o
        BY <3>0, <2>1, <1>2, <3>1
      <4>2. n.id[l].first <= o /\ o <= n.id[l].last
        BY <2>5, <2>1, <1>2, <3>1
      <4> QED BY <4>1, <4>2, <2>6, <2>1 DEF Unchanged
    <3>2. ASSUME Unchanged(m, o) PROVE Unchanged(n, o)
      <4>1. PICK k \in 1..l : /\ m.id[k].first <= o /\ o <= m.id[k].last
                              /\ \A j \in 1..(k - 1) : m.id[j].last < o
        BY <3>2, <1>1 DEF Unchanged
      <4>2. n.id[k].first <= o /\ o <= n.id[k].last
        BY <4>1, <2>1, <2>2, <2>5, <2>6, <1>2
      <4>3. \A j \in 1..(k - 1) : n.id[j].last < o
        BY <4>1, <3>0
      <4> QED BY <4>2, <4>3, <2>6 DEF Unchanged
    <3>3. ASSUME Unchanged(n, o), o # old PROVE Unchanged(m, o)
      <4>1. PICK k \in 1..l : /\ n.id[k].first <= o /\ o <= n.id[k].last
                              /\ \A j \in 1..(k - 1) : n.id[j].last < o
        BY <3>3, <2>6 DEF Unchanged
      <4>2. m.id[k].first <= o /\ o <= m.id[k].last
        BY <4>1, <2>1, <2>2, <2>5, <2>6, <1>2, <3>3
      <4>3. \A j \in 1..(k - 1) : m.id[j].last < o
        BY <4>1, <3>0
      <4> QED BY <4>2, <4>3, <1>1 DEF Unchanged
    <3> QED BY <3>1, <3>2, <3>3
  <2>10. n.map = m.map /\ Shape(n)
    BY <2>3 DEF Shape
  <2> QED BY <2>8, <2>9, <2>10 DEF GetMapping
<1> QED BY <1>3, <1>4

-----------------------------------------------------------------------------
(* The loop                                                                *)

LEMMA LoopStarts ==
  ASSUME NEW X, NEW b \in Seq(X), NEW del, NEW kept
  PROVE  CleanupLoop(X, b, del, kept, StartCleanup(b))
<1> DEFINE c == StartCleanup(b)
<1>1. c = [atoms |-> b, next |-> 1, rev |-> Len(b) + 1, old |-> 1,
           map |-> [id |-> <<>>, map |-> [o \in {} |-> 0]]]
  BY DEF StartCleanup, EmptyMapping
<1>2. /\ c.atoms = b /\ c.next = 1 /\ c.rev = Len(b) + 1 /\ c.old = 1
      /\ c.map.id = <<>> /\ DOMAIN c.map.map = {} /\ LoopShape(c) /\ Shape(c.map)
  BY <1>1 DEF LoopShape, Shape
<1> HIDE DEF c
<1>3. Len(b) \in Nat
  OBVIOUS
<1>4. DoneOf(b, c) = {}
  <2>1. CASE Len(b) = 0
    BY <2>1, <1>2 DEF DoneOf
  <2>2. CASE Len(b) # 0
    <3>1. LoopRuns(c)
      BY <1>3, <1>2, <2>2 DEF LoopRuns
    <3> QED BY <1>3, <1>2, <3>1 DEF DoneOf, Visits
  <2> QED BY <2>1, <2>2
<1>5. LoopPlaces(X, b, c)
  BY <1>2, <1>3 DEF LoopPlaces
<1>6. LoopUnmoved(b, c)
  BY <1>2, <1>3 DEF LoopUnmoved, LoopRuns
<1>7. LoopMapping(b, c)
  <2>1. RangesBelow(c.map, c.next)
    BY <1>2 DEF RangesBelow
  <2> QED BY <2>1, <1>2, <1>4 DEF LoopMapping
<1>8. LoopExact(b, del, kept, c) /\ LoopApart(b, del, c) /\ LoopOnto(b, del, c)
  BY <1>2, <1>4 DEF LoopExact, LoopApart, LoopOnto
<1> QED BY <1>5, <1>6, <1>7, <1>8 DEF CleanupLoop, c

(* What an iteration of the loop starts from. *)
LEMMA IterationFacts ==
  ASSUME NEW X, NEW b, NEW del, NEW kept, NEW c, CleanupLoop(X, b, del, kept, c), LoopRuns(c)
  PROVE  /\ b \in Seq(X) /\ Len(b) \in Nat
         /\ c.atoms \in Seq(X) /\ Len(c.atoms) \in Nat
         /\ Len(c.atoms) <= Len(b)
         /\ c.rev = Len(c.atoms) + 1
         /\ c.next \in Nat \ {0} /\ c.next <= Len(c.atoms)
         /\ c.old \in Nat \ {0} /\ c.old <= Len(b)
         /\ c.old = c.next \/ c.old = Len(c.atoms) + 1
         /\ c.atoms[c.next] = b[c.old]
         /\ c.old \notin DoneOf(b, c) /\ c.old \notin DOMAIN c.map.map
         /\ DoneOf(b, c) \union {c.old} = (1..Len(b)) \ ((c.next + 1)..Len(c.atoms))
<1>1. /\ b \in Seq(X) /\ Len(b) \in Nat
      /\ c.atoms \in Seq(X) /\ Len(c.atoms) \in Nat
      /\ Len(c.atoms) <= Len(b)
      /\ c.rev = Len(c.atoms) + 1
      /\ c.next \in Nat \ {0}
      /\ c.old = c.next \/ c.old = Len(c.atoms) + 1
  BY DEF CleanupLoop, LoopPlaces
<1>2. c.next <= Len(c.atoms)
  BY DEF LoopRuns
<1>3. c.old <= Len(b) /\ c.atoms[c.next] = b[c.old]
  BY DEF CleanupLoop, LoopUnmoved
<1>4. c.old \notin DoneOf(b, c)
  BY DEF DoneOf, Visits
<1>5. c.old \notin DOMAIN c.map.map
  BY <1>4 DEF CleanupLoop, LoopMapping
<1>6. DoneOf(b, c) = (1..Len(b)) \ ({c.old} \union (c.next + 1)..Len(c.atoms))
  BY <1>1 DEF DoneOf, Visits
<1>7. DoneOf(b, c) \union {c.old} = (1..Len(b)) \ ((c.next + 1)..Len(c.atoms))
  BY <1>1, <1>2, <1>3, <1>6
<1> QED BY <1>1, <1>2, <1>3, <1>4, <1>5, <1>7

(* An iteration that deletes an atom. *)
LEMMA EraseStep ==
  ASSUME NEW X, NEW b, NEW del, NEW kept, NEW c, CleanupLoop(X, b, del, kept, c), LoopRuns(c),
         c.atoms[c.next] \in del
  PROVE  CleanupLoop(X, b, del, kept, EraseAtom(c))
<1> SUFFICES ASSUME NEW d, d = EraseAtom(c)
             PROVE  CleanupLoop(X, b, del, kept, d)
  OBVIOUS
<1> DEFINE L == Len(c.atoms)
<1>1. /\ b \in Seq(X) /\ Len(b) \in Nat
      /\ c.atoms \in Seq(X) /\ L \in Nat
      /\ L <= Len(b)
      /\ c.rev = L + 1
      /\ c.next \in Nat \ {0} /\ c.next <= L
      /\ c.old \in Nat \ {0} /\ c.old <= Len(b)
      /\ c.old = c.next \/ c.old = L + 1
      /\ c.atoms[c.next] = b[c.old]
      /\ c.old \notin DoneOf(b, c) /\ c.old \notin DOMAIN c.map.map
      /\ DoneOf(b, c) \union {c.old} = (1..Len(b)) \ ((c.next + 1)..L)
  BY IterationFacts
<1>2. d = [atoms |-> UnorderedErase(c.atoms, c.next), next |-> c.next, rev |-> L, old |-> L,
           map |-> c.map]
  <2>1. d = [atoms |-> UnorderedErase(c.atoms, c.next), next |-> c.next, rev |-> c.rev - 1,
             old |-> c.rev - 1, map |-> c.map]
    <3>1. LoopShape(c)
      BY DEF CleanupLoop, LoopPlaces
    <3> QED BY <3>1 DEF EraseAtom, LoopShape
  <2>2. c.rev - 1 = L
    BY <1>1
  <2> QED BY <2>1, <2>2
<1>3. /\ d.next = c.next /\ d.rev = L /\ d.old = L /\ d.map = c.map /\ LoopShape(d)
      /\ d.atoms = [k \in 1..(L - 1) |-> IF k = c.next THEN c.atoms[L] ELSE c.atoms[k]]
  BY <1>2 DEF LoopShape, UnorderedErase
<1>4. d.atoms \in Seq(X) /\ Len(d.atoms) = L - 1
  <2>1. \A k \in 1..L : c.atoms[k] \in X
    BY <1>1
  <2>2. d.atoms \in [1..(L - 1) -> X]
    BY <1>1, <1>3, <2>1
  <2>3. L - 1 \in Nat
    BY <1>1
  <2>4. \A m \in Nat : d.atoms \in [1..m -> X] => d.atoms \in Seq(X) /\ Len(d.atoms) = m
    OBVIOUS
  <2> QED BY <2>2, <2>3, <2>4
<1>5. \A k \in 1..(L - 1) : d.atoms[k] = IF k = c.next THEN c.atoms[L] ELSE c.atoms[k]
  BY <1>3
<1>6. DoneOf(b, d) = DoneOf(b, c) \union {c.old}
  <2>1. CASE c.next <= L - 1
    <3>1. LoopRuns(d)
      BY <1>3, <1>4, <2>1 DEF LoopRuns
    <3>2. Visits(d) = (c.next + 1)..L
      BY <3>1, <1>3, <2>1, <1>1 DEF Visits
    <3> QED BY <3>2, <1>1 DEF DoneOf
  <2>2. CASE ~(c.next <= L - 1)
    <3>1. ~LoopRuns(d)
      BY <1>3, <1>4, <2>2 DEF LoopRuns
    <3>2. Visits(d) = {} /\ (c.next + 1)..L = {}
      BY <3>1, <2>2, <1>1 DEF Visits
    <3> QED BY <3>2, <1>1 DEF DoneOf
  <2> QED BY <2>1, <2>2
<1>7. LoopPlaces(X, b, d)
  BY <1>1, <1>3, <1>4 DEF LoopPlaces
<1>8. LoopUnmoved(b, d)
  <2>1. \A p \in (c.next + 1)..L : c.atoms[p] = b[p]
    BY DEF CleanupLoop, LoopUnmoved
  <2>2. \A p \in (d.next + 1)..Len(d.atoms) : d.atoms[p] = b[p]
    BY <2>1, <1>1, <1>3, <1>4, <1>5
  <2>3. ASSUME LoopRuns(d) PROVE d.old <= Len(b) /\ d.atoms[d.next] = b[d.old]
    <3>1. c.next <= L - 1
      BY <2>3, <1>3, <1>4 DEF LoopRuns
    <3>2. c.next \in 1..(L - 1) /\ L \in (c.next + 1)..L
      BY <3>1, <1>1
    <3>3. d.atoms[d.next] = c.atoms[L] /\ c.atoms[L] = b[L]
      BY <3>2, <1>3, <1>5, <2>1
    <3> QED BY <3>3, <1>1, <1>3
  <2> QED BY <2>2, <2>3 DEF LoopUnmoved
<1>9. LoopMapping(b, d)
  BY <1>3, <1>6 DEF LoopMapping, CleanupLoop
<1>10. GetMapping(c.map, c.old) = 0
  <2>1. ~Unchanged(c.map, c.old)
    <3>1. \A k \in DOMAIN c.map.id : c.map.id[k].last < c.next
      BY DEF CleanupLoop, LoopMapping, RangesBelow
    <3>2. \A k \in DOMAIN c.map.id : c.map.id[k].last \in Nat
      <4>1. c.map.id \in Seq(IdRange)
        BY DEF CleanupLoop, LoopMapping, RangesBelow
      <4>2. \A k \in DOMAIN c.map.id : c.map.id[k] \in IdRange
        BY <4>1
      <4> QED BY <4>2 DEF IdRange
    <3>3. c.next <= c.old
      BY <1>1
    <3> QED BY <3>1, <3>2, <3>3, <1>1 DEF Unchanged
  <2> QED BY <2>1, <1>1 DEF GetMapping
<1>11. \A p \in 1..(c.next - 1) : d.atoms[p] = c.atoms[p]
  <2>1. \A p \in 1..(c.next - 1) : p \in 1..(L - 1) /\ p # c.next
    BY <1>1
  <2> QED BY <2>1, <1>5
<1>12. LoopExact(b, del, kept, d)
  <2> SUFFICES ASSUME NEW o \in DoneOf(b, d)
               PROVE  IF b[o] \in del THEN GetMapping(c.map, o) = 0
                      ELSE /\ GetMapping(c.map, o) \in 1..(c.next - 1)
                           /\ d.atoms[GetMapping(c.map, o)] = kept[b[o]]
    BY <1>3 DEF LoopExact
  <2>1. CASE o = c.old
    BY <2>1, <1>1, <1>10
  <2>2. CASE o # c.old
    <3>1. o \in DoneOf(b, c)
      BY <2>2, <1>6
    <3>2. IF b[o] \in del THEN GetMapping(c.map, o) = 0
          ELSE /\ GetMapping(c.map, o) \in 1..(c.next - 1)
               /\ c.atoms[GetMapping(c.map, o)] = kept[b[o]]
      BY <3>1 DEF CleanupLoop, LoopExact
    <3> QED BY <3>2, <1>11
  <2> QED BY <2>1, <2>2
<1>13. b[c.old] \in del
  BY <1>1
<1>14. LoopApart(b, del, d)
  BY <1>3, <1>6, <1>13 DEF LoopApart, CleanupLoop
<1>15. LoopOnto(b, del, d)
  BY <1>3, <1>6 DEF LoopOnto, CleanupLoop
<1> QED BY <1>7, <1>8, <1>9, <1>12, <1>14, <1>15 DEF CleanupLoop

(* An iteration that keeps an atom. *)
LEMMA KeepStep ==
  ASSUME NEW X, NEW b, NEW del, NEW kept \in [X -> X], NEW c,
         CleanupLoop(X, b, del, kept, c), LoopRuns(c), c.atoms[c.next] \notin del
  PROVE  CleanupLoop(X, b, del, kept, KeepAtom(c, kept[c.atoms[c.next]]))
<1> DEFINE L == Len(c.atoms)
           a == kept[c.atoms[c.next]]
<1> SUFFICES ASSUME NEW d, d = KeepAtom(c, a)
             PROVE  CleanupLoop(X, b, del, kept, d)
  OBVIOUS
<1>1. /\ b \in Seq(X) /\ Len(b) \in Nat
      /\ c.atoms \in Seq(X) /\ L \in Nat
      /\ L <= Len(b)
      /\ c.rev = L + 1
      /\ c.next \in Nat \ {0} /\ c.next <= L
      /\ c.old \in Nat \ {0} /\ c.old <= Len(b)
      /\ c.old = c.next \/ c.old = L + 1
      /\ c.atoms[c.next] = b[c.old]
      /\ c.old \notin DoneOf(b, c) /\ c.old \notin DOMAIN c.map.map
      /\ DoneOf(b, c) \union {c.old} = (1..Len(b)) \ ((c.next + 1)..L)
  BY IterationFacts
<1>2. d = [atoms |-> [c.atoms EXCEPT ![c.next] = a], next |-> c.next + 1, rev |-> c.rev,
           old |-> c.next + 1, map |-> AddMapping(c.map, c.old, c.next)]
  <2> HIDE DEF a
  <2>1. LoopShape(c)
    BY DEF CleanupLoop, LoopPlaces
  <2> QED BY <2>1 DEF KeepAtom, LoopShape
<1>3. a \in X
  BY <1>1
<1> HIDE DEF a
<1>4. /\ d.atoms = [c.atoms EXCEPT ![c.next] = a] /\ d.next = c.next + 1
      /\ d.rev = L + 1 /\ d.old = c.next + 1
      /\ d.map = AddMapping(c.map, c.old, c.next) /\ LoopShape(d)
  <2>1. /\ d.atoms = [c.atoms EXCEPT ![c.next] = a] /\ d.next = c.next + 1
        /\ d.rev = c.rev /\ d.old = c.next + 1 /\ d.map = AddMapping(c.map, c.old, c.next)
    BY <1>2
  <2>2. LoopShape(d)
    BY <1>2, <2>1 DEF LoopShape
  <2> QED BY <1>1, <2>1, <2>2
<1>5. /\ d.atoms \in Seq(X) /\ Len(d.atoms) = L /\ d.atoms[c.next] = a
      /\ \A k \in 1..L : k # c.next => d.atoms[k] = c.atoms[k]
  BY <1>1, <1>3, <1>4
<1>6. DoneOf(b, d) = DoneOf(b, c) \union {c.old}
  <2>1. CASE c.next + 1 <= L
    <3>1. LoopRuns(d)
      BY <1>4, <1>5, <2>1 DEF LoopRuns
    <3>2. Visits(d) = (c.next + 1)..L
      BY <3>1, <1>4, <2>1, <1>1 DEF Visits
    <3> QED BY <3>2, <1>1 DEF DoneOf
  <2>2. CASE ~(c.next + 1 <= L)
    <3>1. ~LoopRuns(d)
      BY <1>4, <1>5, <2>2 DEF LoopRuns
    <3>2. Visits(d) = {} /\ (c.next + 1)..L = {}
      BY <3>1, <2>2, <1>1 DEF Visits
    <3> QED BY <3>2, <1>1 DEF DoneOf
  <2> QED BY <2>1, <2>2
<1>7. LoopPlaces(X, b, d)
  BY <1>1, <1>4, <1>5 DEF LoopPlaces
<1>8. LoopUnmoved(b, d)
  <2>1. \A p \in (c.next + 1)..L : c.atoms[p] = b[p]
    BY DEF CleanupLoop, LoopUnmoved
  <2>2. \A p \in (c.next + 1)..L : d.atoms[p] = b[p]
    BY <2>1, <1>1, <1>5
  <2>3. \A p \in (d.next + 1)..Len(d.atoms) : d.atoms[p] = b[p]
    BY <2>2, <1>1, <1>4, <1>5
  <2>4. ASSUME LoopRuns(d) PROVE d.old <= Len(b) /\ d.atoms[d.next] = b[d.old]
    <3>1. c.next + 1 \in (c.next + 1)..L
      BY <2>4, <1>1, <1>4, <1>5 DEF LoopRuns
    <3> QED BY <3>1, <2>2, <1>1, <1>4
  <2> QED BY <2>3, <2>4 DEF LoopUnmoved
<1>9. Shape(c.map) /\ RangesBelow(c.map, c.next)
  BY DEF CleanupLoop, LoopMapping
<1>10. /\ \A o \in Nat : GetMapping(d.map, o) = IF o = c.old THEN c.next ELSE GetMapping(c.map, o)
       /\ Shape(d.map) /\ RangesBelow(d.map, d.next)
       /\ DOMAIN d.map.map \subseteq DOMAIN c.map.map \union {c.old}
  <2>1. CASE c.old = c.next
    <3>1. \A o \in Nat :
            /\ GetMapping(AddMapping(c.map, c.next, c.next), o)
                 = IF o = c.next THEN c.next ELSE GetMapping(c.map, o)
            /\ RangesBelow(AddMapping(c.map, c.next, c.next), c.next + 1)
            /\ Shape(AddMapping(c.map, c.next, c.next))
            /\ AddMapping(c.map, c.next, c.next).map = c.map.map
      BY <2>1, <1>1, <1>9, AddUnmoved
    <3> QED BY <3>1, <2>1, <1>1, <1>4
  <2>2. CASE c.old # c.next
    <3>1. \A o \in Nat : GetMapping(d.map, o)
                           = IF o = c.old THEN c.next ELSE GetMapping(c.map, o)
      BY <2>2, <1>1, <1>4, <1>9, AddMoved
    <3>2. /\ d.map = [id |-> c.map.id, map |-> d.map.map]
          /\ DOMAIN d.map.map = DOMAIN c.map.map \union {c.old}
      BY <2>2, <1>4, <1>9 DEF AddMapping, Shape
    <3>3. d.map.id = c.map.id /\ Shape(d.map)
      BY <3>2 DEF Shape
    <3>4. RangesBelow(d.map, c.next + 1)
      <4>1. c.map.id \in Seq(IdRange)
        BY <1>9 DEF RangesBelow
      <4>2. ASSUME NEW k \in DOMAIN c.map.id
            PROVE  c.map.id[k].first <= c.map.id[k].last /\ c.map.id[k].last < c.next + 1
        <5>1. c.map.id[k] \in IdRange
          BY <4>1
        <5>2. c.map.id[k].last \in Nat
          BY <5>1 DEF IdRange
        <5>3. c.map.id[k].first <= c.map.id[k].last /\ c.map.id[k].last < c.next
          BY <1>9 DEF RangesBelow
        <5> QED BY <5>2, <5>3, <1>1
      <4> QED BY <4>1, <4>2, <3>3 DEF RangesBelow
    <3> QED BY <3>1, <3>2, <3>3, <3>4, <1>4
  <2> QED BY <2>1, <2>2
<1>11. LoopMapping(b, d)
  BY <1>6, <1>10 DEF LoopMapping, CleanupLoop
<1>12. \A o \in DoneOf(b, c) : o \in Nat /\ o # c.old
  BY <1>1 DEF DoneOf
<1>13. ASSUME NEW o \in DoneOf(b, c), b[o] \notin del
       PROVE  /\ GetMapping(d.map, o) = GetMapping(c.map, o)
              /\ GetMapping(d.map, o) \in 1..L /\ GetMapping(d.map, o) < c.next
              /\ d.atoms[GetMapping(d.map, o)] = kept[b[o]]
  <2>1. GetMapping(c.map, o) \in 1..(c.next - 1) /\ c.atoms[GetMapping(c.map, o)] = kept[b[o]]
    BY <1>13 DEF CleanupLoop, LoopExact
  <2>2. GetMapping(d.map, o) = GetMapping(c.map, o)
    BY <1>10, <1>12
  <2>3. \A k \in 1..(c.next - 1) : k \in 1..L /\ k < c.next /\ d.atoms[k] = c.atoms[k]
    <3> SUFFICES ASSUME NEW k \in 1..(c.next - 1) PROVE k \in 1..L /\ k < c.next /\ d.atoms[k] = c.atoms[k]
      OBVIOUS
    <3>1. k \in 1..L /\ k < c.next
      BY <1>1
    <3>. QED  BY <3>1, <1>5
  <2> QED BY <2>1, <2>2, <2>3
<1>14. GetMapping(d.map, c.old) = c.next /\ b[c.old] \notin del /\ d.atoms[c.next] = kept[b[c.old]]
  BY <1>1, <1>5, <1>10 DEF a
<1>15. LoopExact(b, del, kept, d)
  <2> SUFFICES ASSUME NEW o \in DoneOf(b, d)
               PROVE  IF b[o] \in del THEN GetMapping(d.map, o) = 0
                      ELSE /\ GetMapping(d.map, o) \in 1..c.next
                           /\ d.atoms[GetMapping(d.map, o)] = kept[b[o]]
    BY <1>1, <1>4 DEF LoopExact
  <2>1. CASE o = c.old
    BY <2>1, <1>1, <1>14
  <2>2. CASE o # c.old /\ b[o] \notin del
    BY <2>2, <1>1, <1>6, <1>13
  <2>3. CASE o # c.old /\ b[o] \in del
    <3>1. o \in DoneOf(b, c)
      BY <2>3, <1>6
    <3>2. GetMapping(c.map, o) = 0
      BY <3>1, <2>3 DEF CleanupLoop, LoopExact
    <3> QED BY <3>1, <3>2, <2>3, <1>10, <1>12
  <2> QED BY <2>1, <2>2, <2>3
<1>16. LoopApart(b, del, d)
  <2> SUFFICES ASSUME NEW o \in DoneOf(b, d), NEW p \in DoneOf(b, d), b[o] \notin del,
                      b[p] \notin del, GetMapping(d.map, o) = GetMapping(d.map, p)
               PROVE  o = p
    BY DEF LoopApart
  <2>1. CASE o \in DoneOf(b, c) /\ p \in DoneOf(b, c)
    BY <2>1, <1>13 DEF CleanupLoop, LoopApart
  <2>2. CASE o = c.old /\ p # c.old
    BY <2>2, <1>1, <1>6, <1>13, <1>14
  <2>3. CASE o # c.old /\ p = c.old
    BY <2>3, <1>1, <1>6, <1>13, <1>14
  <2> QED BY <2>1, <2>2, <2>3, <1>6
<1>17. LoopOnto(b, del, d)
  <2> SUFFICES ASSUME NEW p \in 1..c.next
               PROVE  \E o \in DoneOf(b, d) : b[o] \notin del /\ GetMapping(d.map, o) = p
    BY <1>1, <1>4 DEF LoopOnto
  <2>1. CASE p = c.next
    BY <2>1, <1>6, <1>14
  <2>2. CASE p # c.next
    <3>1. p \in 1..(c.next - 1)
      BY <2>2, <1>1
    <3>2. PICK o \in DoneOf(b, c) : b[o] \notin del /\ GetMapping(c.map, o) = p
      BY <3>1 DEF CleanupLoop, LoopOnto
    <3> QED BY <3>2, <1>6, <1>13
  <2> QED BY <2>1, <2>2
<1> QED BY <1>7, <1>8, <1>11, <1>15, <1>16, <1>17 DEF CleanupLoop

(* What the loop leaves behind when it has looked at every atom. *)
LEMMA LoopEnds ==
  ASSUME NEW X, NEW b, NEW del, NEW kept, NEW c, CleanupLoop(X, b, del, kept, c), ~LoopRuns(c)
  PROVE  /\ c.atoms \in Seq(X) /\ DOMAIN c.atoms = 1..Len(c.atoms)
         /\ \A o \in DOMAIN b :
              IF b[o] \in del
              THEN GetMapping(c.map, o) = 0
              ELSE /\ GetMapping(c.map, o) \in DOMAIN c.atoms
                   /\ c.atoms[GetMapping(c.map, o)] = kept[b[o]]
         /\ \A o, p \in DOMAIN b :
              b[o] \notin del /\ b[p] \notin del /\ GetMapping(c.map, o) = GetMapping(c.map, p)
                => o = p
         /\ \A p \in DOMAIN c.atoms :
              \E o \in DOMAIN b : b[o] \notin del /\ GetMapping(c.map, o) = p
<1>1. DOMAIN b = 1..Len(b) /\ DoneOf(b, c) = DOMAIN b
  BY DEF CleanupLoop, LoopPlaces, DoneOf, Visits
<1>2. /\ c.atoms \in Seq(X) /\ DOMAIN c.atoms = 1..Len(c.atoms)
      /\ 1..(c.next - 1) = DOMAIN c.atoms
  BY DEF CleanupLoop, LoopPlaces, LoopRuns
<1> QED BY <1>1, <1>2 DEF CleanupLoop, LoopExact, LoopApart, LoopOnto

-----------------------------------------------------------------------------
(* The invariant of Cleanup                                                *)

Same == [a \in Symbol |-> a]

NoDuplicates(s, n) == \A o, p \in 1..n : s[o] = s[p] => o = p

IInv ==
  /\ CleanupLoop(Symbol, before, dead, Same, clean)
  /\ NoDuplicates(before, Len(before))

LEMMA InitIInv == Init => IInv
<1> SUFFICES ASSUME Init PROVE IInv
  OBVIOUS
<1>1. before \in Seq(Symbol) /\ NoDuplicates(before, Len(before))
  <2>1. PICK n \in 0..MaxAtoms :
          before \in {s \in [1..n -> Symbol] : \A o, p \in 1..n : s[o] = s[p] => o = p}
    BY DEF Init, AtomSeqs
  <2>2. n \in Nat
    BY <2>1
  <2>3. before \in [1..n -> Symbol] /\ \A o, p \in 1..n : before[o] = before[p] => o = p
    BY <2>1
  <2>4. before \in Seq(Symbol) /\ Len(before) = n
    BY <2>2, <2>3
  <2> QED BY <2>2, <2>3, <2>4 DEF NoDuplicates
<1>2. clean = StartCleanup(before)
  BY DEF Init
<1> QED BY <1>1, <1>2, LoopStarts DEF IInv

(* An iteration of the loop. *)
LEMMA NextIInv == IInv /\ [Next]_vars => IInv'
<1> SUFFICES ASSUME IInv, [Next]_vars PROVE IInv'
  OBVIOUS
<1>1. CleanupLoop(Symbol, before, dead, Same, clean) /\ NoDuplicates(before, Len(before))
  BY DEF IInv
<1>2. CASE Erase
  <2>1. /\ LoopRuns(clean) /\ clean.atoms[clean.next] \in dead
        /\ clean' = EraseAtom(clean) /\ UNCHANGED <<before, dead>>
    BY <1>2 DEF Erase, Running, Current, LoopRuns
  <2>2. CleanupLoop(Symbol, before, dead, Same, EraseAtom(clean))
    BY <1>1, <2>1, EraseStep
  <2> QED BY <1>1, <2>1, <2>2 DEF IInv
<1>3. CASE Keep
  <2>1. /\ LoopRuns(clean) /\ clean.atoms[clean.next] \notin dead
        /\ clean' = KeepAtom(clean, clean.atoms[clean.next]) /\ UNCHANGED <<before, dead>>
    BY <1>3 DEF Keep, Running, Current, LoopRuns
  <2>2. Same \in [Symbol -> Symbol]
    BY DEF Same
  <2>3. CleanupLoop(Symbol, before, dead, Same, KeepAtom(clean, Same[clean.atoms[clean.next]]))
    BY <1>1, <2>1, <2>2, KeepStep
  <2>4. clean.atoms[clean.next] \in Symbol
    BY <1>1, <2>1, IterationFacts
  <2>5. Same[clean.atoms[clean.next]] = clean.atoms[clean.next]
    BY <2>4 DEF Same
  <2> QED BY <1>1, <2>1, <2>3, <2>5 DEF IInv
<1>4. CASE UNCHANGED vars
  BY <1>1, <1>4 DEF vars, IInv
<1> QED BY <1>2, <1>3, <1>4 DEF Next

(* The invariant holds in every state of the loop. *)
THEOREM SpecIInv == Spec => []IInv
BY InitIInv, NextIInv, PTL DEF Spec

(* The offsets of Cleanup and of its lemmas are the same. *)
LEMMA DoneIsDone == Done = DoneOf(before, clean)
BY DEF Done, ToVisit, Running, DoneOf, Visits, LoopRuns

-----------------------------------------------------------------------------
(* Whatever a cleanup deletes, the mapping it leaves behind sends every    *)
(* offset the translator may have kept to the same symbol, or to           *)
(* InvalidId if the atom is gone (cleanup_ and Mapping).                   *)
THEOREM SpecMappingExact == Spec => []MappingExact
<1>1. IInv => MappingExact
  <2> SUFFICES ASSUME IInv, NEW o \in Done
               PROVE  IF before[o] \in dead
                      THEN GetMapping(clean.map, o) = 0
                      ELSE /\ GetMapping(clean.map, o) \in 1..(clean.next - 1)
                           /\ clean.atoms[GetMapping(clean.map, o)] = before[o]
    BY DEF MappingExact
  <2>1. before[o] \in Symbol
    BY DEF IInv, CleanupLoop, LoopPlaces, Done
  <2>2. Same[before[o]] = before[o]
    BY <2>1 DEF Same
  <2> QED BY <2>2, DoneIsDone DEF IInv, CleanupLoop, LoopExact
<1> QED BY <1>1, SpecIInv, PTL

(* A cleanup keeps exactly the atoms it should, each once (cleanup_ over a *)
(* container that fills holes from its end).                               *)
THEOREM SpecNothingLost == Spec => []NothingLost
<1>1. IInv => NothingLost
  <2> SUFFICES ASSUME IInv, ~Running PROVE
        /\ Done = 1..Len(before)
        /\ {clean.atoms[o] : o \in DOMAIN clean.atoms}
             = {before[o] : o \in DOMAIN before} \ dead
        /\ \A o, p \in DOMAIN clean.atoms : clean.atoms[o] = clean.atoms[p] => o = p
    BY DEF NothingLost
  <2>1. Done = 1..Len(before)
    BY DEF Done, ToVisit
  <2>2. ~LoopRuns(clean) /\ CleanupLoop(Symbol, before, dead, Same, clean)
    BY DEF Running, LoopRuns, IInv
  <2>3. /\ \A o \in DOMAIN before :
             before[o] \notin dead =>
               /\ GetMapping(clean.map, o) \in DOMAIN clean.atoms
               /\ clean.atoms[GetMapping(clean.map, o)] = Same[before[o]]
        /\ \A p \in DOMAIN clean.atoms :
             \E o \in DOMAIN before : before[o] \notin dead /\ GetMapping(clean.map, o) = p
    BY <2>2, LoopEnds
  <2>4. \A o \in DOMAIN before : Same[before[o]] = before[o]
    BY DEF Same, IInv, CleanupLoop, LoopPlaces
  <2>5. \A o, p \in DOMAIN before : before[o] = before[p] => o = p
    BY DEF IInv, NoDuplicates, CleanupLoop, LoopPlaces
  <2> QED BY <2>1, <2>3, <2>4, <2>5
<1> QED BY <1>1, SpecIInv, PTL

(* The assertions of Mapping::add hold whenever the loop calls it.         *)
THEOREM SpecAddedInOrder == Spec => []AddedInOrder
<1>1. IInv => AddedInOrder
  <2> SUFFICES ASSUME IInv, Running PROVE
        IF clean.old # clean.next
        THEN clean.old \notin DOMAIN clean.map.map
        ELSE \A k \in DOMAIN clean.map.id : clean.map.id[k].last < clean.old
    BY DEF AddedInOrder
  <2>1. CleanupLoop(Symbol, before, dead, Same, clean) /\ LoopRuns(clean)
    BY DEF IInv, Running, LoopRuns
  <2>2. clean.old \notin DOMAIN clean.map.map
    BY <2>1, IterationFacts
  <2>3. \A k \in DOMAIN clean.map.id : clean.map.id[k].last < clean.next
    BY <2>1 DEF CleanupLoop, LoopMapping, RangesBelow
  <2> QED BY <2>2, <2>3
<1> QED BY <1>1, SpecIInv, PTL
=============================================================================
