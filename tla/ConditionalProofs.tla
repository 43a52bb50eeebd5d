-------------------------- MODULE ConditionalProofs --------------------------
(***************************************************************************)
(* Proofs about conditional literals for any elements, clauses and atoms.  *)
(*                                                                         *)
(* The first part is about the formulas of an element, and shows that the  *)
(* rules an element is translated to mean what has been collected in its   *)
(* formulas.  The second part has the inductive invariant: the formulas    *)
(* collect what was reported, the counters agree with it, and the flags    *)
(* tell what may still be reported.                                        *)
(***************************************************************************)
EXTENDS Conditional, TLAPS, FiniteSetTheorems

Clauses == {{}} \union Conditions \union Heads \union UNION HeadSets

Formula == Seq(Clauses)

(* A formula f has collected the clauses cs. *)
Collected(f, cs) ==
  /\ f = <<>> <=> cs = {}
  /\ IsTop(f) <=> {} \in cs
  /\ {} \notin cs => {f[i] : i \in DOMAIN f} = cs

-----------------------------------------------------------------------------
(* Formulas *)

LEMMA ClauseCollected ==
  ASSUME NEW f \in Formula, NEW c \in Clauses, NEW cs \in SUBSET Clauses, Collected(f, cs)
  PROVE  AddClause(f, c) \in Formula /\ Collected(AddClause(f, c), cs \union {c})
<1>. USE DEF Collected
<1>1. CASE IsTop(f)
  BY <1>1 DEF AddClause, IsTop
<1>2. CASE ~IsTop(f) /\ c = {}
  BY <1>2 DEF AddClause, IsTop, Formula
<1>3. CASE ~IsTop(f) /\ c # {}
  <2>1. AddClause(f, c) = Append(f, c) /\ {} \notin cs
    BY <1>3 DEF AddClause
  <2>2. /\ Append(f, c) \in Formula
        /\ Len(Append(f, c)) = Len(f) + 1
        /\ Append(f, c)[Len(f) + 1] = c
        /\ \A i \in 1..Len(f) : Append(f, c)[i] = f[i]
        /\ DOMAIN f = 1..Len(f) /\ Len(f) \in Nat
        /\ DOMAIN Append(f, c) = 1..(Len(f) + 1)
    BY DEF Formula
  <2>3. {Append(f, c)[i] : i \in DOMAIN Append(f, c)} = cs \union {c}
    <3>1. {f[i] : i \in 1..Len(f)} = cs
      BY <2>1, <2>2
    <3>2. {Append(f, c)[i] : i \in 1..(Len(f) + 1)} = {f[i] : i \in 1..Len(f)} \union {c}
      <4>1. 1..(Len(f) + 1) = (1..Len(f)) \union {Len(f) + 1}
        BY <2>2
      <4>. HIDE DEF Formula
      <4>. QED  BY <4>1, <2>2
    <3>. QED  BY <3>1, <3>2, <2>2
  <2>4. ~IsTop(Append(f, c))
    <3>1. SUFFICES ASSUME Append(f, c) = <<{}>> PROVE FALSE
      BY DEF IsTop
    <3>2. Len(f) + 1 = 1 /\ Append(f, c)[1] = {}
      BY <3>1, <2>2
    <3>. QED  BY <1>3, <2>2, <3>2
  <2>5. Append(f, c) # <<>>
    BY <2>2
  <2>. QED  BY <1>3, <2>1, <2>2, <2>3, <2>4, <2>5
<1>. QED  BY <1>1, <1>2, <1>3

(* The sequence of a finite set that is not empty. *)
LEMMA SequenceOfSet ==
  ASSUME NEW S, IsFiniteSet(S)
  PROVE  /\ SetToSeq(S) \in [1..Cardinality(S) -> S]
         /\ {SetToSeq(S)[i] : i \in 1..Cardinality(S)} = S
<1>1. Cardinality(S) \in Nat /\ ExistsBijection(1..Cardinality(S), S)
  BY FS_CardinalityType
<1>2. PICK f \in [1..Cardinality(S) -> S] : IsInjective(f)
  BY <1>1 DEF ExistsBijection, Bijection, Injection, IsInjective
<1>3. SetToSeq(S) \in [1..Cardinality(S) -> S] /\ IsInjective(SetToSeq(S))
  BY <1>2 DEF SetToSeq
<1>. DEFINE g == SetToSeq(S)
            T == {g[i] : i \in 1..Cardinality(S)}
<1>4. T \subseteq S
  BY <1>3
<1>5. ExistsBijection(1..Cardinality(S), T)
  <2>1. g \in Bijection(1..Cardinality(S), T)
    BY <1>3 DEF Bijection, Injection, Surjection, IsInjective
  <2>. QED  BY <2>1 DEF ExistsBijection
<1>6. Cardinality(T) = Cardinality(S) /\ IsFiniteSet(T)
  BY <1>1, <1>5, FS_CountingElements, FS_NatBijection
<1>7. T = S
  BY <1>4, <1>6, FS_Subset
<1>. QED  BY <1>3, <1>7

LEMMA ClausesCollected ==
  ASSUME NEW f \in Formula, NEW hs \in SUBSET Clauses, IsFiniteSet(hs), hs # {},
         NEW cs \in SUBSET Clauses, Collected(f, cs)
  PROVE  AddClauses(f, hs) \in Formula /\ Collected(AddClauses(f, hs), cs \union hs)
<1>. USE DEF Collected
<1>1. CASE IsTop(f) \/ {} \in hs
  <2>1. AddClauses(f, hs) = <<{}>> /\ IsTop(<<{}>>) /\ {} \in cs \union hs
    BY <1>1 DEF AddClauses, IsTop
  <2>2. <<{}>> \in Formula
    BY DEF Formula, Clauses
  <2>. QED  BY <2>1, <2>2
<1>2. CASE ~IsTop(f) /\ {} \notin hs
  <2>. DEFINE g == SetToSeq(hs)
              n == Cardinality(hs)
              m == Len(f)
  <2>1. g \in [1..n -> hs] /\ {g[i] : i \in 1..n} = hs /\ n \in Nat
    BY SequenceOfSet, FS_CardinalityType
  <2>2. g \in Formula /\ Len(g) = n
    BY <2>1 DEF Formula
  <2>3. n # 0
    BY <2>1
  <2>4. AddClauses(f, hs) = f \o g
    BY <1>2 DEF AddClauses
  <2>. HIDE DEF g, n
  <2>5. /\ f \o g \in Formula
        /\ m \in Nat /\ DOMAIN f = 1..m
        /\ DOMAIN (f \o g) = 1..(m + n) /\ Len(f \o g) = m + n
        /\ \A i \in 1..m : (f \o g)[i] = f[i]
        /\ \A i \in 1..n : (f \o g)[m + i] = g[i]
    BY <2>1, <2>2 DEF Formula
  <2>6. {(f \o g)[i] : i \in 1..(m + n)} = {f[i] : i \in 1..m} \union {g[i] : i \in 1..n}
    <3>1. \A i \in 1..(m + n) : i \in 1..m \/ (i - m \in 1..n /\ i = m + (i - m))
      BY <2>1, <2>5
    <3>2. \A i \in 1..m : i \in 1..(m + n)
      BY <2>1, <2>5
    <3>3. \A i \in 1..n : m + i \in 1..(m + n)
      BY <2>1, <2>5
    <3>. QED  BY <3>1, <3>2, <3>3, <2>5
  <2>7. {(f \o g)[i] : i \in DOMAIN (f \o g)} = cs \union hs /\ {} \notin cs \union hs
    BY <1>2, <2>1, <2>5, <2>6
  <2>8. f \o g # <<>>
    BY <2>1, <2>3, <2>5
  <2>9. ~IsTop(f \o g)
    <3>1. SUFFICES ASSUME f \o g = <<{}>> PROVE FALSE
      BY DEF IsTop
    <3>2. 1 \in DOMAIN (f \o g) /\ (f \o g)[1] = {}
      BY <3>1
    <3>. QED  BY <2>7, <3>2
  <2>. QED  BY <2>4, <2>5, <2>7, <2>8, <2>9, <1>2
<1>. QED  BY <1>1, <1>2

-----------------------------------------------------------------------------
(* Worlds *)

Top(w) == <<w[2], w[2]>>

LEMMA Totals == \A w \in Worlds : Top(w) \in Worlds /\ Top(w)[2] = w[2] /\ Top(Top(w)) = Top(w)
BY DEF Worlds, Top

(* What holds in a smaller world holds in the world it is taken from. *)
LEMMA Persistent ==
  ASSUME NEW w \in Worlds, NEW c
  PROVE  /\ w \in AllOf(c) => Top(w) \in AllOf(c)
         /\ w \in AnyOf(c) => Top(w) \in AnyOf(c)
<1>1. \A l : w \in LitWorlds(l) => Top(w) \in LitWorlds(l)
  BY Totals DEF LitWorlds, Worlds, Top
<1>. QED  BY <1>1, Totals DEF AllOf, AnyOf

LEMMA EmptyClauses == AllOf({}) = Worlds /\ AnyOf({}) = {}
BY DEF AllOf, AnyOf

(* getEqualFormula gives the clauses that were collected. *)
LEMMA SomeClauseCollected ==
  ASSUME NEW f, NEW cs, Collected(f, cs)
  PROVE  SomeClause(f) = UNION {AllOf(c) : c \in cs}
<1>1. CASE IsTop(f)
  <2>1. SomeClause(f) = AllOf({})
    BY <1>1 DEF IsTop, SomeClause
  <2>2. \A c : AllOf(c) \subseteq Worlds
    BY DEF AllOf
  <2>. QED  BY <1>1, <2>1, <2>2, EmptyClauses DEF Collected
<1>2. CASE ~IsTop(f)
  <2>1. {f[i] : i \in DOMAIN f} = cs
    BY <1>2 DEF Collected
  <2>. QED  BY <2>1 DEF SomeClause
<1>. QED  BY <1>1, <1>2

LEMMA AllHeadsCollected ==
  ASSUME NEW f, NEW g, NEW cs, Collected(f, cs)
  PROVE  AllHeads([heads |-> f, bodies |-> g]) = {w \in Worlds : \A c \in cs : w \in AnyOf(c)}
<1>1. CASE IsTop(f)
  BY <1>1, EmptyClauses DEF IsTop, AllHeads, Collected
<1>2. CASE ~IsTop(f)
  <2>1. {f[i] : i \in DOMAIN f} = cs
    BY <1>2 DEF Collected
  <2>. QED  BY <2>1 DEF AllHeads
<1>. QED  BY <1>1, <1>2

-----------------------------------------------------------------------------
(* Translations of elements                                                *)

BodyWorlds(cs) == UNION {AllOf(c) : c \in cs}
HeadWorlds(cs) == {w \in Worlds : \A c \in cs : w \in AnyOf(c)}

LEMMA BodiesPersist ==
  ASSUME NEW w \in Worlds, NEW cs
  PROVE  /\ w \in BodyWorlds(cs) => Top(w) \in BodyWorlds(cs)
         /\ w \in HeadWorlds(cs) => Top(w) \in HeadWorlds(cs)
         /\ BodyWorlds(cs) \subseteq Worlds
<1>1. BodyWorlds(cs) \subseteq Worlds
  BY DEF BodyWorlds, AllOf
<1>2. w \in BodyWorlds(cs) => Top(w) \in BodyWorlds(cs)
  BY Persistent DEF BodyWorlds
<1>3. w \in HeadWorlds(cs) => Top(w) \in HeadWorlds(cs)
  BY Persistent, Totals DEF HeadWorlds
<1>. QED  BY <1>1, <1>2, <1>3

(* The rules for one element of a conjunction hold in the worlds in which  *)
(* its bodies imply its heads, if the bodies are decided or the            *)
(* conjunction is treated as non-monotone.                                 *)
THEOREM ElementTranslated ==
  ASSUME NEW el, NEW bs, NEW hs, Collected(el.bodies, bs), Collected(el.heads, hs),
         NEW nonmonotone \in BOOLEAN, NEW w \in Worlds,
         nonmonotone \/ (w \in BodyWorlds(bs) <=> Top(w) \in BodyWorlds(bs))
  PROVE  w \in ElementWorlds(el, nonmonotone) <=> w \in Implies(BodyWorlds(bs), BodyWorlds(hs))
<1>. DEFINE B == BodyWorlds(bs)
            H == BodyWorlds(hs)
<1>1. SomeClause(el.bodies) = B /\ SomeClause(el.heads) = H
  BY SomeClauseCollected DEF BodyWorlds
<1>2. /\ w \in B => Top(w) \in B
      /\ w \in H => Top(w) \in H
      /\ B \subseteq Worlds /\ H \subseteq Worlds
      /\ Top(w) \in Worlds
  BY BodiesPersist, Totals
<1>3. w \in Implies(B, H) <=> (w \in B => w \in H) /\ (Top(w) \in B => Top(w) \in H)
  BY DEF Implies, Top
<1>4. \A D : w \in Negate(D) <=> Top(w) \notin D
  BY DEF Negate, Top
<1>. HIDE DEF B, H
<1>5. CASE IsTop(el.heads)
  <2>1. H = Worlds
    BY <1>5, <1>2, EmptyClauses DEF H, BodyWorlds, Collected
  <2>. QED  BY <1>2, <1>3, <1>5, <2>1 DEF ElementWorlds, B, H
<1>6. CASE el.bodies = <<>>
  <2>1. B = {}
    BY <1>6 DEF B, BodyWorlds, Collected
  <2>. QED  BY <1>3, <1>6, <2>1 DEF ElementWorlds, B, H
<1>7. CASE ~IsTop(el.heads) /\ el.bodies # <<>> /\ IsSimple(el) /\ IsTop(el.bodies)
  <2>1. B = Worlds
    BY <1>7, <1>2, EmptyClauses DEF B, BodyWorlds, Collected
  <2>2. ElementWorlds(el, nonmonotone) = H
    BY <1>1, <1>7 DEF ElementWorlds
  <2>. QED  BY <1>2, <1>3, <2>1, <2>2 DEF B, H
<1>8. CASE ~IsTop(el.heads) /\ el.bodies # <<>> /\ IsSimple(el) /\ ~IsTop(el.bodies)
  <2>1. el.heads = <<>> /\ Len(el.bodies) = 1
    BY <1>8 DEF IsSimple
  <2>2. H = {}
    BY <2>1 DEF H, BodyWorlds, Collected
  <2>3. bs = {el.bodies[1]}
    BY <1>8, <2>1 DEF Collected
  <2>4. B = AllOf(el.bodies[1])
    BY <2>3 DEF B, BodyWorlds
  <2>5. ElementWorlds(el, nonmonotone) = Negate(B)
    BY <1>8, <2>4 DEF ElementWorlds
  <2>. QED  BY <1>2, <1>3, <1>4, <2>2, <2>5 DEF B, H
<1>9. CASE ~IsTop(el.heads) /\ el.bodies # <<>> /\ ~IsSimple(el)
  <2>1. ElementWorlds(el, nonmonotone) = Aux(el, nonmonotone)
    BY <1>9 DEF ElementWorlds
  <2>2. w \in Aux(el, nonmonotone) <=>
          w \in H \/ Top(w) \notin B
          \/ (nonmonotone /\ el.heads # <<>> /\ w \notin B /\ Top(w) \in H)
    BY <1>1, <1>4 DEF Aux
  <2>3. el.heads = <<>> => H = {}
    BY DEF H, BodyWorlds, Collected
  <2>. QED  BY <1>2, <1>3, <2>1, <2>2, <2>3 DEF B, H
<1>. QED  BY <1>5, <1>6, <1>7, <1>8, <1>9

(* The rules for a disjunction hold in the worlds in which one of its      *)
(* elements does, whatever the reduct does with the rules for its parts:   *)
(* they are derived or only admitted.                                      *)
THEOREM DisjunctionTranslated ==
  ASSUME NEW elems, NEW bs, NEW hs, NEW w \in Worlds,
         \A e \in DOMAIN elems :
           /\ elems[e] = [heads |-> elems[e].heads, bodies |-> elems[e].bodies]
           /\ Collected(elems[e].bodies, bs[e])
           /\ Collected(elems[e].heads, hs[e])
           /\ w \in BodyWorlds(bs[e]) <=> Top(w) \in BodyWorlds(bs[e])
  PROVE  LET meant == \E e \in DOMAIN elems : w \in BodyWorlds(bs[e]) \intersect HeadWorlds(hs[e])
         IN /\ w \in DisjunctionWorlds(elems, Derived) <=> meant
            /\ w \in DisjunctionWorlds(elems, Admitted) <=> meant
<1>. DEFINE B(e) == BodyWorlds(bs[e])
            A(e) == HeadWorlds(hs[e])
            rest == Remaining(elems)
            inBody == {e \in rest : elems[e].heads = <<>>}
            meant == \E e \in DOMAIN elems : w \in B(e) \intersect A(e)
<1>1. Top(w) \in Worlds /\ Top(w) = <<w[2], w[2]>> /\ Top(Top(w)) = Top(w)
  BY Totals DEF Top
<1>2. ASSUME NEW e \in DOMAIN elems
      PROVE  /\ SomeClause(elems[e].bodies) = B(e)
             /\ AllHeads(elems[e]) = A(e)
             /\ w \in B(e) <=> Top(w) \in B(e)
             /\ w \in A(e) => Top(w) \in A(e)
             /\ B(e) \subseteq Worlds /\ A(e) \subseteq Worlds
  <2>1. SomeClause(elems[e].bodies) = B(e)
    BY SomeClauseCollected DEF BodyWorlds
  <2>2. AllHeads(elems[e]) = A(e)
    BY AllHeadsCollected DEF HeadWorlds
  <2>3. A(e) \subseteq Worlds
    BY DEF HeadWorlds
  <2>. QED  BY <2>1, <2>2, <2>3, BodiesPersist
<1>3. ASSUME NEW e \in DOMAIN elems, elems[e].heads = <<>>
      PROVE  A(e) = Worlds
  BY <1>3 DEF HeadWorlds, Collected
<1>4. ASSUME NEW e \in DOMAIN elems, e \notin rest
      PROVE  w \notin B(e) \intersect A(e)
  <2>1. bs[e] = {} \/ {} \in hs[e]
    BY <1>4 DEF Remaining, Collected
  <2>2. bs[e] = {} => B(e) = {}
    BY DEF BodyWorlds
  <2>3. {} \in hs[e] => A(e) = {}
    BY EmptyClauses DEF HeadWorlds
  <2>. QED  BY <2>1, <2>2, <2>3
<1>5. rest \subseteq DOMAIN elems
  BY DEF Remaining
<1>6. CASE \E e \in rest : HasFactHead(elems[e])
  <2>1. PICK e \in rest : HasFactHead(elems[e])
    BY <1>6
  <2>2. e \in DOMAIN elems /\ A(e) = Worlds
    BY <1>3, <1>5, <2>1 DEF HasFactHead
  <2>3. B(e) = Worlds
    <3>1. {} \in bs[e]
      BY <2>1, <2>2 DEF HasFactHead, Collected
    <3>. QED  BY <3>1, <2>2, <1>2, EmptyClauses DEF BodyWorlds
  <2>4. meant
    BY <2>2, <2>3
  <2>5. /\ DisjunctionWorlds(elems, Derived) = Worlds
        /\ DisjunctionWorlds(elems, Admitted) = Worlds
    BY <1>6 DEF DisjunctionWorlds
  <2>. QED  BY <2>4, <2>5
<1>7. CASE ~\E e \in rest : HasFactHead(elems[e])
  <2>. DEFINE X == {v \in Worlds : \A e \in inBody : v \in Negate(SomeClause(elems[e].bodies))}
  <2>1. /\ DisjunctionWorlds(elems, Derived)
             = Implies(X, UNION {Derived(elems[e]) : e \in rest \ inBody})
        /\ DisjunctionWorlds(elems, Admitted)
             = Implies(X, UNION {Admitted(elems[e]) : e \in rest \ inBody})
    BY <1>7 DEF DisjunctionWorlds
  <2>2. (w \in X <=> \A e \in inBody : w \notin B(e)) /\ (Top(w) \in X <=> \A e \in inBody : w \notin B(e))
    BY <1>1, <1>2, <1>5 DEF Negate, Top
  <2>3. ASSUME NEW e \in rest
        PROVE  /\ w \in Derived(elems[e]) <=> w \in B(e) \intersect A(e)
               /\ w \in Admitted(elems[e]) <=> w \in B(e) \intersect A(e)
               /\ w \in Derived(elems[e]) => Top(w) \in Derived(elems[e])
               /\ w \in Admitted(elems[e]) => Top(w) \in Admitted(elems[e])
    <3>1. /\ Derived(elems[e]) = B(e) \intersect A(e)
          /\ Admitted(elems[e]) = Implies(B(e), A(e)) \intersect Negate(Negate(B(e)))
      BY <1>2, <1>5 DEF Derived, Admitted
    <3>2. \A v \in {w, Top(w)} :
            v \in Implies(B(e), A(e)) \intersect Negate(Negate(B(e)))
              <=> (v \in B(e) => v \in A(e)) /\ (Top(w) \in B(e) => Top(w) \in A(e)) /\ Top(w) \in B(e)
      BY <1>1 DEF Implies, Negate, Top
    <3>. HIDE DEF A, B
    <3>. QED  BY <3>1, <3>2, <1>2, <1>5
  <2>. HIDE DEF X, A, B, rest
  <2>4. ASSUME NEW Y, w \in Y <=> \E e \in rest \ inBody : w \in B(e) \intersect A(e),
               w \in Y => Top(w) \in Y
        PROVE  w \in Implies(X, Y) <=> meant
    <3>1. w \in Implies(X, Y) <=> (w \in X => w \in Y)
      BY <2>2, <2>4, <1>1 DEF Implies
    <3>2. \A e \in inBody : w \in A(e)
      BY <1>3, <1>5
    <3>. QED  BY <3>1, <3>2, <2>2, <2>4, <1>4, <1>5
  <2>5. LET Y == UNION {Derived(elems[e]) : e \in rest \ inBody}
        IN (w \in Y <=> \E e \in rest \ inBody : w \in B(e) \intersect A(e)) /\ (w \in Y => Top(w) \in Y)
    BY <2>3
  <2>6. LET Y == UNION {Admitted(elems[e]) : e \in rest \ inBody}
        IN (w \in Y <=> \E e \in rest \ inBody : w \in B(e) \intersect A(e)) /\ (w \in Y => Top(w) \in Y)
    BY <2>3
  <2>. QED  BY <2>1, <2>4, <2>5, <2>6 DEF B, A
<1>. QED  BY <1>6, <1>7

-----------------------------------------------------------------------------
(* The inductive invariant                                                 *)

ElementType == [heads : Formula, bodies : Formula]

DisjunctionType ==
  [elems : [Elements -> ElementType], headFact : Int, enqueued : BOOLEAN, todo : BOOLEAN,
   recursive : BOOLEAN]

Types ==
  /\ kind \in {"conjunction", "disjunction"}
  /\ mode \in {"stratified", "heads", "recursive"}
  /\ open \in {"rule", "all", "heads", "none"}
  /\ pending \in BOOLEAN /\ trusted \in BOOLEAN /\ delayed \in BOOLEAN
  /\ conj \in [elems : [Elements -> ElementType], blocked : Int, fact : Int, defined : BOOLEAN,
               enqueued : BOOLEAN, headRecursive : BOOLEAN, condRecursive : BOOLEAN]
  /\ disj \in DisjunctionType
  /\ conds \subseteq Elements \X Clauses
  /\ heads \subseteq Elements \X Clauses

(* The clauses that were reported for an element. *)
Of(R, e) == {b[2] : b \in {b \in R : b[1] = e}}

BodiesOf(e) == Of(conds, e)
HeadsOf(e) == Of(heads, e)

(* The formulas of the elements collect what was reported. *)
Formulas ==
  LET elems == IF kind = "conjunction" THEN conj.elems ELSE disj.elems
  IN \A e \in Elements : /\ Collected(elems[e].bodies, BodiesOf(e))
                         /\ Collected(elems[e].heads, HeadsOf(e))

(* Conditions are about stable atoms unless the literal is recursive, and  *)
(* heads come with conditions.                                             *)
Fitting ==
  kind = "conjunction" =>
    /\ mode # "recursive" => \A b \in conds : \A l \in b[2] : l.atom \in Stable
    /\ \A e \in Elements : HeadsOf(e) # {} => BodiesOf(e) # {}

ConjunctionFlags ==
  kind = "conjunction" =>
    /\ ~conj.condRecursive => mode # "recursive" /\ open \in {"heads", "none"}
    /\ conj.defined => /\ conj.condRecursive = (mode = "recursive")
                       /\ conj.headRecursive = (mode \in {"heads", "recursive"})
                       /\ mode = "stratified" => open = "none"
    /\ conj.enqueued => pending
    /\ open # "rule" /\ ~conj.defined /\ ~conj.enqueued => conj.blocked > 0
    /\ delayed => conj.defined
    /\ trusted => /\ ~conj.condRecursive
                  /\ \A e \in Elements : BodiesOf(e) # {} => {} \in HeadsOf(e)
    /\ translated # <<>> =>
         /\ open = "none"
         /\ translated = <<[elems |-> conj.elems, nonmonotone |-> mode = "recursive"]>>

DisjunctionFlags ==
  kind = "disjunction" =>
    /\ ~trusted
    /\ disj.enqueued => disj.todo
    /\ open # "rule" => disj.todo
    /\ open # "rule" /\ ~pending => HeadFact(disj) \/ HeadAtoms(disj.elems) \subseteq headsDefined
    /\ translated # <<>> => open = "none" /\ translated = <<[elems |-> disj.elems]>>

Started == pending => open # "rule"

IInv ==
  /\ Types /\ Formulas /\ Fitting /\ CountersExact
  /\ ConjunctionFlags /\ DisjunctionFlags /\ Started

-----------------------------------------------------------------------------
(* Counting elements *)

LEMMA Finite ==
  ASSUME NEW S \in SUBSET Elements
  PROVE  IsFiniteSet(S) /\ Cardinality(S) \in Nat /\ (Cardinality(S) = 0 <=> S = {})
BY ElementsAssumption, FS_Subset, FS_CardinalityType, FS_EmptySet

LEMMA Counting ==
  ASSUME NEW S \in SUBSET Elements, NEW e \in Elements
  PROVE  /\ Cardinality(S \union {e}) = IF e \in S THEN Cardinality(S) ELSE Cardinality(S) + 1
         /\ Cardinality(S \ {e}) = IF e \in S THEN Cardinality(S) - 1 ELSE Cardinality(S)
<1>1. IsFiniteSet(S) /\ Cardinality(S) \in Nat
  BY Finite
<1>2. CASE e \in S
  <2>1. S \union {e} = S
    BY <1>2
  <2>. QED  BY <1>1, <1>2, <2>1, FS_RemoveElement
<1>3. CASE e \notin S
  <2>1. S \ {e} = S
    BY <1>3
  <2>. QED  BY <1>1, <1>3, <2>1, FS_AddElement
<1>. QED  BY <1>2, <1>3

(* The elements that the counters count. *)
BlockedBy(R, Q) == {e \in Elements : {} \in Of(R, e) /\ Of(Q, e) = {}}
OpenBy(R, Q) == {e \in Elements : Of(R, e) # {} /\ {} \notin Of(Q, e)}

LEMMA Counted ==
  ASSUME NEW R \in SUBSET (Elements \X Clauses), NEW Q \in SUBSET (Elements \X Clauses)
  PROVE  /\ \A e \in Elements : Of(R, e) \in SUBSET Clauses
         /\ {e \in Elements : <<e, {}>> \in R} \intersect {e \in Elements : \A h \in Q : h[1] # e}
              = BlockedBy(R, Q)
         /\ {e \in Elements : (\E b \in R : b[1] = e) /\ <<e, {}>> \notin Q} = OpenBy(R, Q)
<1>1. ASSUME NEW P \in SUBSET (Elements \X Clauses), NEW e \in Elements
      PROVE  /\ Of(P, e) \in SUBSET Clauses
             /\ <<e, {}>> \in P <=> {} \in Of(P, e)
             /\ (\E b \in P : b[1] = e) <=> Of(P, e) # {}
  <2>1. \A b \in P : b[1] = e /\ b[2] = {} => b = <<e, {}>>
    OBVIOUS
  <2>2. {} \in Of(P, e) <=> \E b \in P : b[1] = e /\ b[2] = {}
    BY DEF Of
  <2>. QED  BY <2>1, <2>2 DEF Of
<1>. QED  BY <1>1 DEF BlockedBy, OpenBy

LEMMA CountersAlternative ==
  ASSUME Types
  PROVE  CountersExact <=>
           IF kind = "conjunction"
           THEN /\ conj.blocked = Cardinality(BlockedBy(conds, heads))
                /\ conj.fact = Cardinality(OpenBy(conds, heads))
           ELSE disj.headFact = Cardinality(BlockedBy(conds, heads))
<1>1. conds \in SUBSET (Elements \X Clauses) /\ heads \in SUBSET (Elements \X Clauses)
  BY DEF Types
<1>2. /\ Unconditional \intersect Headless = BlockedBy(conds, heads)
      /\ {e \in Elements : /\ \E b \in conds : b[1] = e
                           /\ <<e, {}>> \notin heads} = OpenBy(conds, heads)
  BY <1>1, Counted DEF Unconditional, Headless
<1>. QED  BY <1>2 DEF CountersExact

(* The same after a step. *)
LEMMA CountersAfter ==
  ASSUME Types'
  PROVE  CountersExact' <=>
           IF kind' = "conjunction"
           THEN /\ conj'.blocked = Cardinality(BlockedBy(conds', heads'))
                /\ conj'.fact = Cardinality(OpenBy(conds', heads'))
           ELSE disj'.headFact = Cardinality(BlockedBy(conds', heads'))
<1>1. conds' \in SUBSET (Elements \X Clauses) /\ heads' \in SUBSET (Elements \X Clauses)
  BY DEF Types
<1>2. /\ (Unconditional \intersect Headless)' = BlockedBy(conds', heads')
      /\ {e \in Elements : /\ \E b \in conds' : b[1] = e
                           /\ <<e, {}>> \notin heads'} = OpenBy(conds', heads')
  BY <1>1, Counted DEF Unconditional, Headless
<1>. QED  BY <1>2 DEF CountersExact

LEMMA InitIInv == Init => IInv
<1>. SUFFICES ASSUME Init PROVE IInv
  OBVIOUS
<1>. USE DEF Init
<1>1. Types
  <2>1. <<>> \in Formula
    BY DEF Formula
  <2>2. NoElements \in [Elements -> ElementType]
    BY <2>1 DEF NoElements, Element, ElementType
  <2>3. mode \in {"stratified", "heads", "recursive"}
    OBVIOUS
  <2>4. conj \in [elems : [Elements -> ElementType], blocked : Int, fact : Int, defined : BOOLEAN,
                  enqueued : BOOLEAN, headRecursive : BOOLEAN, condRecursive : BOOLEAN]
    BY <2>2 DEF NewConjunction
  <2>5. disj \in DisjunctionType
    BY <2>2 DEF NewDisjunction, DisjunctionType
  <2>. QED  BY <2>3, <2>4, <2>5 DEF Types
<1>2. \A e \in Elements : BodiesOf(e) = {} /\ HeadsOf(e) = {}
  BY DEF BodiesOf, HeadsOf, Of
<1>3. Formulas
  <2>1. Collected(<<>>, {})
    BY DEF Collected, IsTop
  <2>. QED  BY <1>2, <2>1 DEF Formulas, NewConjunction, NewDisjunction, NoElements, Element
<1>4. CountersExact
  <2>1. BlockedBy(conds, heads) = {} /\ OpenBy(conds, heads) = {}
    BY <1>2 DEF BlockedBy, OpenBy, BodiesOf, HeadsOf
  <2>2. Cardinality({}) = 0
    BY FS_EmptySet
  <2>. QED  BY <1>1, <2>1, <2>2, CountersAlternative DEF NewConjunction, NewDisjunction
<1>5. Fitting /\ ConjunctionFlags /\ DisjunctionFlags /\ Started
  BY <1>2 DEF Started, Fitting, ConjunctionFlags, DisjunctionFlags, NewConjunction, NewDisjunction
<1>. QED  BY <1>1, <1>3, <1>4, <1>5 DEF IInv

-----------------------------------------------------------------------------
(* Reports *)

LEMMA Member ==
  ASSUME NEW R, NEW d, NEW x
  PROVE  x \in Of(R, d) <=> \E b \in R : b[1] = d /\ b[2] = x
BY DEF Of

(* The clauses cs are reported for an element. *)
More(R, e, cs) == R \union {<<e, c>> : c \in cs}

LEMMA ManyMore ==
  ASSUME NEW R, NEW e, NEW cs, NEW d
  PROVE  Of(More(R, e, cs), d) = Of(R, d) \union (IF d = e THEN cs ELSE {})
<1>0. \A b : b \in More(R, e, cs) <=> b \in R \/ \E c \in cs : b = <<e, c>>
  BY DEF More
<1>1. ASSUME NEW x \in Of(More(R, e, cs), d)
      PROVE  x \in Of(R, d) \union (IF d = e THEN cs ELSE {})
  <2>1. PICK b \in More(R, e, cs) : b[1] = d /\ b[2] = x
    BY <1>1, Member
  <2>2. CASE b \in R
    BY <2>1, <2>2, Member
  <2>3. CASE \E c \in cs : b = <<e, c>>
    BY <2>1, <2>3
  <2>. QED  BY <1>0, <2>1, <2>2, <2>3
<1>2. ASSUME NEW x \in Of(R, d) \union (IF d = e THEN cs ELSE {})
      PROVE  x \in Of(More(R, e, cs), d)
  <2>1. CASE x \in Of(R, d)
    <3>1. PICK b \in R : b[1] = d /\ b[2] = x
      BY <2>1, Member
    <3>. QED  BY <1>0, <3>1, Member
  <2>2. CASE x \in cs /\ d = e
    <3>1. <<e, x>> \in More(R, e, cs) /\ <<e, x>>[1] = d /\ <<e, x>>[2] = x
      BY <1>0, <2>2
    <3>. QED  BY <3>1, Member
  <2>. QED  BY <1>2, <2>1, <2>2
<1>. QED  BY <1>1, <1>2

LEMMA OneMore ==
  ASSUME NEW R, NEW e, NEW c
  PROVE  R \union {<<e, c>>} = More(R, e, {c})
BY DEF More

LEMMA EmptyReported == IInv /\ ReportEmpty => IInv'
<1>. SUFFICES ASSUME IInv, ReportEmpty PROVE IInv'
  OBVIOUS
<1>. USE DEF IInv, ReportEmpty
<1>1. /\ conj' = [conj EXCEPT !.enqueued = conj.enqueued \/ (conj.blocked = 0 /\ ~conj.defined)]
      /\ conj'.elems = conj.elems /\ conj'.blocked = conj.blocked /\ conj'.fact = conj.fact
      /\ conj'.defined = conj.defined /\ conj'.headRecursive = conj.headRecursive
      /\ conj'.condRecursive = conj.condRecursive
      /\ conj'.enqueued = (conj.enqueued \/ (conj.blocked = 0 /\ ~conj.defined))
  BY DEF EnqueueConjunction, Types
<1>2. \A e \in Elements : BodiesOf(e)' = BodiesOf(e) /\ HeadsOf(e)' = HeadsOf(e)
  BY DEF BodiesOf, HeadsOf
<1>3. Types'
  BY <1>1 DEF Types
<1>4. Formulas' /\ Fitting'
  BY <1>1, <1>2 DEF Formulas, Fitting
<1>5. CountersExact'
  BY <1>1 DEF CountersExact, Unconditional, Headless
<1>6. conj.blocked \in Nat
  <2>1. BlockedBy(conds, heads) \in SUBSET Elements /\ kind = "conjunction"
    BY DEF BlockedBy
  <2>. QED  BY <2>1, CountersAlternative, Finite
<1>7. ConjunctionFlags'
  BY <1>1, <1>2, <1>6 DEF ConjunctionFlags, Types
<1>8. DisjunctionFlags'
  BY DEF DisjunctionFlags
<1>9. Started'
  BY DEF Started
<1>. QED  BY <1>3, <1>4, <1>5, <1>7, <1>8, <1>9

LEMMA CondReported ==
  ASSUME IInv, NEW e \in Elements, NEW c \in Conditions, ReportCond(e, c)
  PROVE  IInv'
<1>. USE DEF IInv, ReportCond
<1>. DEFINE el == conj.elems[e]
            more == [el EXCEPT !.bodies = AddClause(el.bodies, c)]
<1>1. c \in Clauses /\ el \in ElementType /\ el.bodies \in Formula /\ kind = "conjunction"
      /\ kind' = kind /\ disj' = disj
  BY DEF Clauses, Types, ElementType
<1>2. /\ conj'.elems = [conj.elems EXCEPT ![e] = more]
      /\ conj'.fact = IF el.bodies = <<>> THEN conj.fact + 1 ELSE conj.fact
      /\ conj'.blocked = IF ~IsTop(el.bodies) /\ c = {} /\ el.heads = <<>>
                         THEN conj.blocked + 1 ELSE conj.blocked
      /\ conj'.defined = conj.defined /\ conj'.headRecursive = conj.headRecursive
      /\ conj'.condRecursive = conj.condRecursive
      /\ conj'.enqueued = (conj.enqueued \/ (conj'.blocked = 0 /\ ~conj.defined))
      /\ conj' = [elems |-> conj'.elems, blocked |-> conj'.blocked, fact |-> conj'.fact,
                  defined |-> conj'.defined, enqueued |-> conj'.enqueued,
                  headRecursive |-> conj'.headRecursive, condRecursive |-> conj'.condRecursive]
  BY DEF EnqueueConjunction, AccumulateCond, Types, ElementType
<1>3. \A d \in Elements : /\ BodiesOf(d)' = BodiesOf(d) \union (IF d = e THEN {c} ELSE {})
                          /\ HeadsOf(d)' = HeadsOf(d)
  <2>1. conds' = More(conds, e, {c}) /\ heads' = heads
    BY OneMore
  <2>. HIDE DEF ReportCond, IInv
  <2>. QED  BY <2>1, ManyMore DEF BodiesOf, HeadsOf
<1>4. Collected(el.bodies, BodiesOf(e)) /\ Collected(el.heads, HeadsOf(e)) /\ BodiesOf(e) \in SUBSET Clauses
  <2>1. conds \in SUBSET (Elements \X Clauses) /\ heads \in SUBSET (Elements \X Clauses)
    BY DEF Types
  <2>2. BodiesOf(e) \in SUBSET Clauses
    BY <2>1, Counted DEF BodiesOf
  <2>. QED  BY <1>1, <2>2 DEF Formulas
<1>5. /\ AddClause(el.bodies, c) \in Formula
      /\ Collected(AddClause(el.bodies, c), BodiesOf(e) \union {c})
  BY <1>1, <1>4, ClauseCollected
<1>6. Types'
  <2>1. more \in ElementType
    BY <1>1, <1>5 DEF ElementType
  <2>2. conj'.elems \in [Elements -> ElementType]
    BY <1>2, <2>1 DEF Types
  <2>3. conds' \subseteq Elements \X Clauses /\ heads' = heads
    BY <1>1 DEF Types
  <2>4. pending' \in BOOLEAN /\ mode' = mode /\ open' = open /\ trusted' = trusted /\ delayed' = delayed
    OBVIOUS
  <2>5. conj'.blocked \in Int /\ conj'.fact \in Int /\ conj'.enqueued \in BOOLEAN
    BY <1>2 DEF Types
  <2>. QED  BY <1>1, <1>2, <2>2, <2>3, <2>4, <2>5 DEF Types
<1>7. Formulas'
  <2>1. \A d \in Elements : conj'.elems[d] = IF d = e THEN more ELSE conj.elems[d]
    BY <1>2 DEF Types
  <2>2. more.bodies = AddClause(el.bodies, c) /\ more.heads = el.heads
    BY <1>1 DEF ElementType
  <2>. QED  BY <1>1, <1>3, <1>4, <1>5, <2>1, <2>2 DEF Formulas
<1>8. /\ BlockedBy(conds', heads') = IF c = {} /\ HeadsOf(e) = {} THEN BlockedBy(conds, heads) \union {e}
                                     ELSE BlockedBy(conds, heads)
      /\ OpenBy(conds', heads') = IF {} \notin HeadsOf(e) THEN OpenBy(conds, heads) \union {e}
                                  ELSE OpenBy(conds, heads)
  BY <1>3 DEF BlockedBy, OpenBy, BodiesOf, HeadsOf
<1>9. /\ e \in BlockedBy(conds, heads) <=> {} \in BodiesOf(e) /\ HeadsOf(e) = {}
      /\ e \in OpenBy(conds, heads) <=> BodiesOf(e) # {} /\ {} \notin HeadsOf(e)
      /\ HeadsOf(e) # {} => BodiesOf(e) # {}
      /\ BlockedBy(conds, heads) \in SUBSET Elements /\ OpenBy(conds, heads) \in SUBSET Elements
      /\ conj.blocked = Cardinality(BlockedBy(conds, heads))
      /\ conj.fact = Cardinality(OpenBy(conds, heads))
  BY <1>1, CountersAlternative DEF Fitting, BlockedBy, OpenBy, BodiesOf, HeadsOf
<1>10. CountersExact' /\ conj'.blocked \in Nat
  <2>. HIDE DEF IInv, ReportCond, el, more
  <2>1. conj'.blocked = Cardinality(BlockedBy(conds', heads'))
    <3>1. /\ IsTop(el.bodies) <=> {} \in BodiesOf(e)
          /\ el.heads = <<>> <=> HeadsOf(e) = {}
      BY <1>4 DEF Collected
    <3>2. Cardinality(BlockedBy(conds, heads) \union {e})
            = IF e \in BlockedBy(conds, heads) THEN Cardinality(BlockedBy(conds, heads))
              ELSE Cardinality(BlockedBy(conds, heads)) + 1
      BY <1>9, Counting
    <3>. QED  BY <1>2, <1>8, <1>9, <3>1, <3>2
  <2>2. conj'.fact = Cardinality(OpenBy(conds', heads'))
    <3>1. el.bodies = <<>> <=> BodiesOf(e) = {}
      BY <1>4 DEF Collected
    <3>2. Cardinality(OpenBy(conds, heads) \union {e})
            = IF e \in OpenBy(conds, heads) THEN Cardinality(OpenBy(conds, heads))
              ELSE Cardinality(OpenBy(conds, heads)) + 1
      BY <1>9, Counting
    <3>. QED  BY <1>2, <1>8, <1>9, <3>1, <3>2
  <2>3. BlockedBy(conds', heads') \in SUBSET Elements
    BY DEF BlockedBy
  <2>. QED  BY <1>1, <1>6, <2>1, <2>2, <2>3, CountersAfter, Finite
<1>11. Fitting'
  BY <1>1, <1>3 DEF Fitting, Fits
<1>12. ConjunctionFlags'
  <2>1. conj.condRecursive /\ (conj.defined => mode # "stratified") /\ ~trusted /\ translated = <<>>
    BY <1>1 DEF ConjunctionFlags, Types
  <2>2. /\ conj.defined => /\ conj.condRecursive = (mode = "recursive")
                           /\ conj.headRecursive = (mode \in {"heads", "recursive"})
        /\ delayed => conj.defined
    BY <1>1 DEF ConjunctionFlags
  <2>3. pending' = TRUE /\ open' = open /\ mode' = mode /\ delayed' = delayed /\ trusted' = trusted
        /\ translated' = translated
    OBVIOUS
  <2>4. conj'.defined \in BOOLEAN /\ conj'.enqueued \in BOOLEAN
    BY <1>6 DEF Types
  <2>5. ~conj'.defined /\ ~conj'.enqueued => conj'.blocked > 0
    <3>1. conj'.blocked = 0 \/ conj'.blocked > 0
      BY <1>10
    <3>2. conj'.blocked = 0 /\ ~conj'.defined => conj'.enqueued
      BY <1>2, Zenon
    <3>. QED  BY <3>1, <3>2, Zenon
  <2>. HIDE DEF el, more, IInv, ReportCond
  <2>. QED  BY <1>1, <1>2, <2>1, <2>2, <2>3, <2>4, <2>5 DEF ConjunctionFlags
<1>13. DisjunctionFlags'
  BY <1>1 DEF DisjunctionFlags
<1>14. Started'
  BY DEF Started
<1>. QED  BY <1>6, <1>7, <1>10, <1>11, <1>12, <1>13, <1>14

LEMMA HeadReported ==
  ASSUME IInv, NEW e \in Elements, NEW c \in Heads, ReportHead(e, c)
  PROVE  IInv'
<1>. USE DEF IInv, ReportHead
<1>. DEFINE el == conj.elems[e]
            more == [el EXCEPT !.heads = AddClause(el.heads, c)]
<1>1. c \in Clauses /\ el \in ElementType /\ el.heads \in Formula /\ kind = "conjunction"
      /\ kind' = kind /\ disj' = disj
  BY DEF Clauses, Types, ElementType
<1>2. /\ conj'.elems = [conj.elems EXCEPT ![e] = more]
      /\ conj'.fact = IF ~IsTop(el.heads) /\ c = {} THEN conj.fact - 1 ELSE conj.fact
      /\ conj'.blocked = IF el.heads = <<>> /\ IsTop(el.bodies)
                         THEN conj.blocked - 1 ELSE conj.blocked
      /\ conj'.defined = conj.defined /\ conj'.headRecursive = conj.headRecursive
      /\ conj'.condRecursive = conj.condRecursive
      /\ conj'.enqueued = (conj.enqueued \/ (conj'.blocked = 0 /\ ~conj.defined))
      /\ conj' = [elems |-> conj'.elems, blocked |-> conj'.blocked, fact |-> conj'.fact,
                  defined |-> conj'.defined, enqueued |-> conj'.enqueued,
                  headRecursive |-> conj'.headRecursive, condRecursive |-> conj'.condRecursive]
  BY DEF EnqueueConjunction, AccumulateHead, Types, ElementType
<1>3. \A d \in Elements : /\ HeadsOf(d)' = HeadsOf(d) \union (IF d = e THEN {c} ELSE {})
                          /\ BodiesOf(d)' = BodiesOf(d)
  <2>1. heads' = More(heads, e, {c}) /\ conds' = conds
    BY OneMore
  <2>. HIDE DEF ReportHead, IInv
  <2>. QED  BY <2>1, ManyMore DEF BodiesOf, HeadsOf
<1>4. Collected(el.bodies, BodiesOf(e)) /\ Collected(el.heads, HeadsOf(e)) /\ HeadsOf(e) \in SUBSET Clauses
  <2>1. conds \in SUBSET (Elements \X Clauses) /\ heads \in SUBSET (Elements \X Clauses)
    BY DEF Types
  <2>2. HeadsOf(e) \in SUBSET Clauses
    BY <2>1, Counted DEF HeadsOf
  <2>. QED  BY <1>1, <2>2 DEF Formulas
<1>5. /\ AddClause(el.heads, c) \in Formula
      /\ Collected(AddClause(el.heads, c), HeadsOf(e) \union {c})
  BY <1>1, <1>4, ClauseCollected
<1>6. Types'
  <2>1. more \in ElementType
    BY <1>1, <1>5 DEF ElementType
  <2>2. conj'.elems \in [Elements -> ElementType]
    BY <1>2, <2>1 DEF Types
  <2>3. heads' \subseteq Elements \X Clauses /\ conds' = conds
    BY <1>1 DEF Types
  <2>4. pending' \in BOOLEAN /\ mode' = mode /\ open' = open /\ trusted' = trusted /\ delayed' = delayed
    OBVIOUS
  <2>5. conj'.blocked \in Int /\ conj'.fact \in Int /\ conj'.enqueued \in BOOLEAN
    BY <1>2 DEF Types
  <2>. QED  BY <1>1, <1>2, <2>2, <2>3, <2>4, <2>5 DEF Types
<1>7. Formulas'
  <2>1. \A d \in Elements : conj'.elems[d] = IF d = e THEN more ELSE conj.elems[d]
    BY <1>2 DEF Types
  <2>2. more.heads = AddClause(el.heads, c) /\ more.bodies = el.bodies
    BY <1>1 DEF ElementType
  <2>3. \A d \in Elements : /\ Collected(conj.elems[d].bodies, BodiesOf(d))
                            /\ Collected(conj.elems[d].heads, HeadsOf(d))
    BY <1>1 DEF Formulas
  <2>. HIDE DEF IInv, ReportHead, el, more
  <2>4. ASSUME NEW d \in Elements
        PROVE  /\ Collected(conj'.elems[d].bodies, BodiesOf(d)')
               /\ Collected(conj'.elems[d].heads, HeadsOf(d)')
    BY <1>3, <1>4, <1>5, <2>1, <2>2, <2>3
  <2>. QED  BY <1>1, <2>4 DEF Formulas
<1>8. /\ BlockedBy(conds', heads') = BlockedBy(conds, heads) \ {e}
      /\ OpenBy(conds', heads') = IF c = {} THEN OpenBy(conds, heads) \ {e} ELSE OpenBy(conds, heads)
  BY <1>3 DEF BlockedBy, OpenBy, BodiesOf, HeadsOf
<1>9. /\ e \in BlockedBy(conds, heads) <=> {} \in BodiesOf(e) /\ HeadsOf(e) = {}
      /\ e \in OpenBy(conds, heads) <=> BodiesOf(e) # {} /\ {} \notin HeadsOf(e)
      /\ BodiesOf(e) # {}
      /\ BlockedBy(conds, heads) \in SUBSET Elements /\ OpenBy(conds, heads) \in SUBSET Elements
      /\ conj.blocked = Cardinality(BlockedBy(conds, heads))
      /\ conj.fact = Cardinality(OpenBy(conds, heads))
  <2>1. BodiesOf(e) # {}
    <3>1. PICK b \in conds : b[1] = e
      OBVIOUS
    <3>. HIDE DEF IInv, ReportHead, el, more
    <3>2. b[2] \in Of(conds, e)
      BY <3>1, Member
    <3>. QED  BY <3>2 DEF BodiesOf
  <2>. QED  BY <1>1, <2>1, CountersAlternative DEF BlockedBy, OpenBy, BodiesOf, HeadsOf
<1>10. CountersExact' /\ conj'.blocked \in Nat
  <2>. HIDE DEF IInv, ReportHead, el, more
  <2>1. conj'.blocked = Cardinality(BlockedBy(conds', heads'))
    <3>1. /\ IsTop(el.bodies) <=> {} \in BodiesOf(e)
          /\ el.heads = <<>> <=> HeadsOf(e) = {}
      BY <1>4 DEF Collected
    <3>2. Cardinality(BlockedBy(conds, heads) \ {e})
            = IF e \in BlockedBy(conds, heads) THEN Cardinality(BlockedBy(conds, heads)) - 1
              ELSE Cardinality(BlockedBy(conds, heads))
      BY <1>9, Counting
    <3>. QED  BY <1>2, <1>8, <1>9, <3>1, <3>2
  <2>2. conj'.fact = Cardinality(OpenBy(conds', heads'))
    <3>1. IsTop(el.heads) <=> {} \in HeadsOf(e)
      BY <1>4 DEF Collected
    <3>2. Cardinality(OpenBy(conds, heads) \ {e})
            = IF e \in OpenBy(conds, heads) THEN Cardinality(OpenBy(conds, heads)) - 1
              ELSE Cardinality(OpenBy(conds, heads))
      BY <1>9, Counting
    <3>. QED  BY <1>2, <1>8, <1>9, <3>1, <3>2
  <2>3. BlockedBy(conds', heads') \in SUBSET Elements
    BY DEF BlockedBy
  <2>. QED  BY <1>1, <1>6, <2>1, <2>2, <2>3, CountersAfter, Finite
<1>11. Fitting'
  <2>1. conds' = conds /\ mode' = mode
    OBVIOUS
  <2>. QED  BY <1>1, <1>3, <1>9, <2>1 DEF Fitting
<1>12. ConjunctionFlags'
  <2>1. /\ ~conj.condRecursive => mode # "recursive" /\ open \in {"heads", "none"}
        /\ conj.defined => /\ conj.condRecursive = (mode = "recursive")
                           /\ conj.headRecursive = (mode \in {"heads", "recursive"})
                           /\ mode = "stratified" => open = "none"
        /\ delayed => conj.defined
        /\ translated = <<>>
    BY <1>1 DEF ConjunctionFlags
  <2>2. trusted => ~conj.condRecursive /\ \A d \in Elements : BodiesOf(d) # {} => {} \in HeadsOf(d)
    BY <1>1 DEF ConjunctionFlags
  <2>3. pending' = TRUE /\ open' = open /\ mode' = mode /\ delayed' = delayed /\ trusted' = trusted
        /\ translated' = translated
    OBVIOUS
  <2>4. conj'.defined \in BOOLEAN /\ conj'.enqueued \in BOOLEAN
    BY <1>6 DEF Types
  <2>5. ~conj'.defined /\ ~conj'.enqueued => conj'.blocked > 0
    <3>1. conj'.blocked = 0 \/ conj'.blocked > 0
      BY <1>10
    <3>2. conj'.blocked = 0 /\ ~conj'.defined => conj'.enqueued
      BY <1>2, Zenon
    <3>. QED  BY <3>1, <3>2, Zenon
  <2>. HIDE DEF el, more, IInv, ReportHead
  <2>6. trusted' => ~conj'.condRecursive /\ \A d \in Elements : BodiesOf(d)' # {} => {} \in HeadsOf(d)'
    BY <1>2, <1>3, <2>2, <2>3
  <2>. QED  BY <1>1, <1>2, <2>1, <2>3, <2>4, <2>5, <2>6 DEF ConjunctionFlags
<1>13. DisjunctionFlags'
  BY <1>1 DEF DisjunctionFlags
<1>14. Started'
  BY DEF Started
<1>. QED  BY <1>6, <1>7, <1>10, <1>11, <1>12, <1>13, <1>14

(* What is accumulated for a disjunction. *)
LEMMA DisjCondAccumulated ==
  ASSUME NEW d \in DisjunctionType, NEW e \in Elements, NEW c,
         AddClause(d.elems[e].bodies, c) \in Formula
  PROVE  LET a == AccumulateDisjCond(d, e, c)
             el == d.elems[e]
         IN /\ a \in DisjunctionType
            /\ a.elems[e].bodies = AddClause(el.bodies, c)
            /\ a.elems[e].heads = el.heads
            /\ \A x \in Elements : x # e => a.elems[x] = d.elems[x]
            /\ a.headFact = IF ~IsTop(el.bodies) /\ c = {} /\ el.heads = <<>> THEN d.headFact + 1
                            ELSE d.headFact
            /\ a.enqueued = d.enqueued /\ a.todo = d.todo
<1>. DEFINE el == d.elems[e]
            more == [el EXCEPT !.bodies = AddClause(el.bodies, c)]
            n == IF ~IsTop(el.bodies) /\ c = {} /\ el.heads = <<>> THEN d.headFact + 1 ELSE d.headFact
<1>1. el \in ElementType /\ more \in ElementType /\ n \in Int
      /\ more.bodies = AddClause(el.bodies, c) /\ more.heads = el.heads
  BY DEF DisjunctionType, ElementType
<1>2. AccumulateDisjCond(d, e, c)
        = [elems |-> [d.elems EXCEPT ![e] = more], headFact |-> n, enqueued |-> d.enqueued,
           todo |-> d.todo, recursive |-> d.recursive]
  <2>1. AccumulateDisjCond(d, e, c)
          = [[d EXCEPT !.elems = [d.elems EXCEPT ![e] = more]] EXCEPT !.headFact = n]
    BY DEF AccumulateDisjCond, DisjunctionType
  <2>. HIDE DEF more, n, el
  <2>. QED  BY <2>1 DEF DisjunctionType
<1>3. /\ [d.elems EXCEPT ![e] = more] \in [Elements -> ElementType]
      /\ [d.elems EXCEPT ![e] = more][e] = more
      /\ \A x \in Elements : x # e => [d.elems EXCEPT ![e] = more][x] = d.elems[x]
      /\ d.enqueued \in BOOLEAN /\ d.todo \in BOOLEAN /\ d.recursive \in BOOLEAN
      /\ n = IF ~IsTop(el.bodies) /\ c = {} /\ el.heads = <<>> THEN d.headFact + 1 ELSE d.headFact
  BY <1>1 DEF DisjunctionType
<1>. HIDE DEF more, n, el
<1>. QED  BY <1>1, <1>2, <1>3 DEF DisjunctionType, el

LEMMA DisjHeadsAccumulated ==
  ASSUME NEW d \in DisjunctionType, NEW e \in Elements, NEW cs,
         AddClauses(d.elems[e].heads, cs) \in Formula
  PROVE  LET a == AccumulateDisjHeads(d, e, cs)
             el == d.elems[e]
         IN /\ a \in DisjunctionType
            /\ a.elems[e].heads = AddClauses(el.heads, cs)
            /\ a.elems[e].bodies = el.bodies
            /\ \A x \in Elements : x # e => a.elems[x] = d.elems[x]
            /\ a.headFact = IF IsTop(el.bodies) /\ el.heads = <<>> THEN d.headFact - 1 ELSE d.headFact
            /\ a.enqueued = d.enqueued /\ a.todo = d.todo
<1>. DEFINE el == d.elems[e]
            more == [el EXCEPT !.heads = AddClauses(el.heads, cs)]
            n == IF HasFactHead(el) THEN d.headFact - 1 ELSE d.headFact
<1>1. el \in ElementType /\ more \in ElementType /\ n \in Int
      /\ more.heads = AddClauses(el.heads, cs) /\ more.bodies = el.bodies
  BY DEF DisjunctionType, ElementType
<1>2. AccumulateDisjHeads(d, e, cs)
        = [elems |-> [d.elems EXCEPT ![e] = more], headFact |-> n, enqueued |-> d.enqueued,
           todo |-> d.todo, recursive |-> d.recursive]
  <2>1. AccumulateDisjHeads(d, e, cs)
          = [[d EXCEPT !.elems = [d.elems EXCEPT ![e] = more]] EXCEPT !.headFact = n]
    BY DEF AccumulateDisjHeads, DisjunctionType
  <2>. HIDE DEF more, n, el
  <2>. QED  BY <2>1 DEF DisjunctionType
<1>3. /\ [d.elems EXCEPT ![e] = more] \in [Elements -> ElementType]
      /\ [d.elems EXCEPT ![e] = more][e] = more
      /\ \A x \in Elements : x # e => [d.elems EXCEPT ![e] = more][x] = d.elems[x]
      /\ d.enqueued \in BOOLEAN /\ d.todo \in BOOLEAN /\ d.recursive \in BOOLEAN
      /\ n = IF IsTop(el.bodies) /\ el.heads = <<>> THEN d.headFact - 1 ELSE d.headFact
  BY <1>1 DEF DisjunctionType, HasFactHead
<1>. HIDE DEF more, n, el
<1>. QED  BY <1>1, <1>2, <1>3 DEF DisjunctionType, el

LEMMA DisjEnqueued ==
  ASSUME NEW d \in DisjunctionType
  PROVE  LET a == EnqueueDisjunction(d)
         IN /\ a \in DisjunctionType
            /\ a.elems = d.elems /\ a.headFact = d.headFact
            /\ a.enqueued /\ a.todo = (d.todo \/ ~d.enqueued)
BY DEF EnqueueDisjunction, DisjunctionType

LEMMA ElementReported ==
  ASSUME IInv, NEW e \in Elements, NEW c \in Conditions, NEW hs \in HeadSets, ReportElement(e, c, hs)
  PROVE  IInv'
<1>. USE DEF IInv, ReportElement
<1>. DEFINE el == disj.elems[e]
            bodies == AddClause(el.bodies, c)
            after == IF hs = {} THEN el.heads ELSE AddClauses(el.heads, hs)
            counted == IF ~IsTop(el.bodies) /\ c = {} /\ el.heads = <<>> THEN disj.headFact + 1
                       ELSE disj.headFact
<1>1. /\ c \in Clauses /\ hs \in SUBSET Clauses /\ IsFiniteSet(hs)
      /\ el \in ElementType /\ el.heads \in Formula /\ el.bodies \in Formula
      /\ disj \in DisjunctionType
      /\ kind = "disjunction" /\ kind' = kind /\ conj' = conj
  BY HeadSetsAssumption DEF Clauses, Types, ElementType, DisjunctionType
<1>2. \A d \in Elements : /\ BodiesOf(d)' = BodiesOf(d) \union (IF d = e THEN {c} ELSE {})
                          /\ HeadsOf(d)' = HeadsOf(d) \union (IF d = e THEN hs ELSE {})
  <2>1. conds' = More(conds, e, {c}) /\ heads' = More(heads, e, hs)
    BY OneMore DEF More
  <2>. HIDE DEF ReportElement, IInv
  <2>. QED  BY <2>1, ManyMore DEF BodiesOf, HeadsOf
<1>3. /\ Collected(el.bodies, BodiesOf(e)) /\ Collected(el.heads, HeadsOf(e))
      /\ BodiesOf(e) \in SUBSET Clauses /\ HeadsOf(e) \in SUBSET Clauses
  <2>1. conds \in SUBSET (Elements \X Clauses) /\ heads \in SUBSET (Elements \X Clauses)
    BY DEF Types
  <2>2. BodiesOf(e) \in SUBSET Clauses /\ HeadsOf(e) \in SUBSET Clauses
    BY <2>1, Counted DEF BodiesOf, HeadsOf
  <2>. QED  BY <1>1, <2>2 DEF Formulas
<1>4. /\ bodies \in Formula /\ Collected(bodies, BodiesOf(e) \union {c})
      /\ after \in Formula /\ Collected(after, HeadsOf(e) \union hs)
  <2>1. bodies \in Formula /\ Collected(bodies, BodiesOf(e) \union {c})
    BY <1>1, <1>3, ClauseCollected
  <2>2. CASE hs = {}
    <3>1. HeadsOf(e) \union hs = HeadsOf(e) /\ after = el.heads
      BY <2>2
    <3>. HIDE DEF IInv, ReportElement, el, after
    <3>. QED  BY <1>1, <1>3, <2>1, <3>1 DEF el
  <2>3. CASE hs # {}
    <3>1. AddClauses(el.heads, hs) \in Formula /\ Collected(AddClauses(el.heads, hs), HeadsOf(e) \union hs)
      <4>. HIDE DEF IInv, ReportElement, el
      <4>. QED  BY <1>1, <1>3, <2>3, ClausesCollected
    <3>. QED  BY <2>1, <2>3, <3>1
  <2>. QED  BY <2>2, <2>3
<1>5. /\ disj' \in DisjunctionType
      /\ disj'.elems[e].bodies = bodies
      /\ disj'.elems[e].heads = after
      /\ \A x \in Elements : x # e => disj'.elems[x] = disj.elems[x]
      /\ disj'.headFact = IF hs # {} /\ IsTop(bodies) /\ el.heads = <<>> THEN counted - 1 ELSE counted
      /\ disj.todo => disj'.todo
  <2>. DEFINE first == AccumulateDisjCond(disj, e, c)
              second == AccumulateDisjHeads(first, e, hs)
  <2>1. /\ first \in DisjunctionType
        /\ first.elems[e].bodies = bodies /\ first.elems[e].heads = el.heads
        /\ \A x \in Elements : x # e => first.elems[x] = disj.elems[x]
        /\ first.headFact = counted /\ first.todo = disj.todo
    <3>. HIDE DEF IInv, ReportElement
    <3>. QED  BY <1>1, <1>4, DisjCondAccumulated
  <2>2. CASE hs = {}
    <3>1. disj' = first
      BY <2>2
    <3>. HIDE DEF IInv, ReportElement, first, bodies, counted, el
    <3>. QED  BY <2>1, <2>2, <3>1 DEF after
  <2>3. CASE hs # {}
    <3>1. disj' = EnqueueDisjunction(second)
      BY <2>3
    <3>2. /\ second \in DisjunctionType
          /\ second.elems[e].heads = after /\ second.elems[e].bodies = bodies
          /\ \A x \in Elements : x # e => second.elems[x] = disj.elems[x]
          /\ second.headFact = IF IsTop(bodies) /\ el.heads = <<>> THEN counted - 1 ELSE counted
          /\ second.todo = disj.todo
      <4>1. after = AddClauses(first.elems[e].heads, hs)
        BY <2>1, <2>3
      <4>. HIDE DEF IInv, ReportElement, first, bodies, counted, el, after
      <4>. QED  BY <1>4, <2>1, <4>1, DisjHeadsAccumulated
    <3>. HIDE DEF IInv, ReportElement, first, second, bodies, counted, el, after
    <3>. QED  BY <2>3, <3>1, <3>2, DisjEnqueued
  <2>. QED  BY <2>2, <2>3
<1>. HIDE DEF bodies, after
<1>6. Types'
  <2>1. conds' \subseteq Elements \X Clauses /\ heads' \subseteq Elements \X Clauses
    BY <1>1 DEF Types
  <2>2. pending' \in BOOLEAN /\ mode' = mode /\ open' = open /\ trusted' = trusted /\ delayed' = delayed
    OBVIOUS
  <2>. QED  BY <1>1, <1>5, <2>1, <2>2 DEF Types
<1>7. Formulas'
  <2>3. \A d \in Elements : /\ Collected(disj.elems[d].bodies, BodiesOf(d))
                            /\ Collected(disj.elems[d].heads, HeadsOf(d))
    BY <1>1 DEF Formulas
  <2>. HIDE DEF IInv, ReportElement, el
  <2>4. ASSUME NEW d \in Elements
        PROVE  /\ Collected(disj'.elems[d].bodies, BodiesOf(d)')
               /\ Collected(disj'.elems[d].heads, HeadsOf(d)')
    <3>1. CASE d = e
      BY <1>5, <1>2, <1>4, <3>1
    <3>2. CASE d # e
      BY <1>5, <1>2, <2>3, <3>2
    <3>. QED  BY <3>1, <3>2
  <2>. QED  BY <1>1, <2>4 DEF Formulas
<1>8. BlockedBy(conds', heads')
        = IF hs # {} THEN BlockedBy(conds, heads) \ {e}
          ELSE IF c = {} /\ HeadsOf(e) = {} THEN BlockedBy(conds, heads) \union {e}
          ELSE BlockedBy(conds, heads)
  <2>. HIDE DEF IInv, ReportElement, el
  <2>. QED  BY <1>2 DEF BlockedBy, BodiesOf, HeadsOf
<1>9. /\ e \in BlockedBy(conds, heads) <=> {} \in BodiesOf(e) /\ HeadsOf(e) = {}
      /\ BlockedBy(conds, heads) \in SUBSET Elements
      /\ disj.headFact = Cardinality(BlockedBy(conds, heads))
  BY <1>1, CountersAlternative DEF BlockedBy, BodiesOf, HeadsOf
<1>10. CountersExact'
  <2>1. /\ IsTop(el.bodies) <=> {} \in BodiesOf(e)
        /\ IsTop(bodies) <=> {} \in BodiesOf(e) \/ c = {}
        /\ el.heads = <<>> <=> HeadsOf(e) = {}
    BY <1>3, <1>4 DEF Collected
  <2>. HIDE DEF IInv, ReportElement, el
  <2>2. /\ Cardinality(BlockedBy(conds, heads) \ {e})
             = IF e \in BlockedBy(conds, heads) THEN Cardinality(BlockedBy(conds, heads)) - 1
               ELSE Cardinality(BlockedBy(conds, heads))
        /\ Cardinality(BlockedBy(conds, heads) \union {e})
             = IF e \in BlockedBy(conds, heads) THEN Cardinality(BlockedBy(conds, heads))
               ELSE Cardinality(BlockedBy(conds, heads)) + 1
        /\ Cardinality(BlockedBy(conds, heads)) \in Nat
    BY <1>9, Counting, Finite
  <2>3. disj'.headFact = Cardinality(BlockedBy(conds', heads'))
    BY <1>5, <1>8, <1>9, <2>1, <2>2
  <2>. QED  BY <1>1, <1>6, <2>3, CountersAfter
<1>11. Fitting' /\ ConjunctionFlags'
  BY <1>1 DEF Fitting, ConjunctionFlags
<1>12. DisjunctionFlags'
  <2>1. disj.todo /\ translated = <<>> /\ ~trusted
    BY <1>1 DEF DisjunctionFlags
  <2>2. pending' = TRUE /\ open' = open /\ trusted' = trusted /\ translated' = translated
    OBVIOUS
  <2>3. disj'.todo
    BY <1>5, <2>1
  <2>. HIDE DEF el, IInv, ReportElement
  <2>. QED  BY <1>1, <2>1, <2>2, <2>3 DEF DisjunctionFlags
<1>13. Started'
  BY DEF Started
<1>. QED  BY <1>6, <1>7, <1>10, <1>11, <1>12, <1>13

-----------------------------------------------------------------------------
(* The other steps: they leave the formulas alone                          *)

(* What is about formulas and counters holds while they are left alone.    *)
LEMMA FormulasKept ==
  ASSUME IInv, conj'.elems = conj.elems, conj'.blocked = conj.blocked, conj'.fact = conj.fact,
         disj'.elems = disj.elems, disj'.headFact = disj.headFact,
         UNCHANGED <<kind, mode, conds, heads>>
  PROVE  /\ Formulas' /\ Fitting' /\ CountersExact'
         /\ \A e \in Elements : BodiesOf(e)' = BodiesOf(e) /\ HeadsOf(e)' = HeadsOf(e)
<1>1. \A e \in Elements : BodiesOf(e)' = BodiesOf(e) /\ HeadsOf(e)' = HeadsOf(e)
  BY DEF BodiesOf, HeadsOf
<1>2. Formulas' /\ Fitting'
  BY <1>1 DEF IInv, Formulas, Fitting
<1>3. CountersExact'
  BY DEF IInv, CountersExact, Unconditional, Headless
<1>. QED  BY <1>1, <1>2, <1>3

LEMMA RuleReported == IInv /\ ReportRule => IInv'
<1>. SUFFICES ASSUME IInv, ReportRule PROVE IInv'
  OBVIOUS
<1>1. /\ disj \in DisjunctionType /\ disj' = EnqueueDisjunction(disj)
      /\ disj.enqueued => disj.todo
      /\ kind = "disjunction" /\ kind' = kind /\ conj' = conj /\ open = "rule" /\ open' = "all"
      /\ UNCHANGED <<mode, trusted, translated, conds, heads>>
      /\ pending' = TRUE /\ delayed' = TRUE
  BY DEF IInv, ReportRule, Types, DisjunctionFlags
<1>2. /\ disj' \in DisjunctionType /\ disj'.elems = disj.elems /\ disj'.headFact = disj.headFact
      /\ disj'.enqueued /\ disj'.todo
  <2>1. /\ disj' \in DisjunctionType /\ disj'.elems = disj.elems /\ disj'.headFact = disj.headFact
        /\ disj'.enqueued /\ disj'.todo = (disj.todo \/ ~disj.enqueued)
    BY <1>1, DisjEnqueued
  <2>. QED  BY <1>1, <2>1, Zenon
<1>3. Types'
  BY <1>1, <1>2 DEF IInv, Types
<1>4. Formulas' /\ Fitting' /\ CountersExact'
  BY <1>1, <1>2, FormulasKept
<1>5. ConjunctionFlags' /\ Started'
  BY <1>1 DEF ConjunctionFlags, Started
<1>6. DisjunctionFlags'
  BY <1>1, <1>2 DEF IInv, DisjunctionFlags
<1>. QED  BY <1>3, <1>4, <1>5, <1>6 DEF IInv

LEMMA Closed == IInv /\ (CloseConds \/ CloseHeads) => IInv'
<1>. SUFFICES ASSUME IInv, CloseConds \/ CloseHeads PROVE IInv'
  OBVIOUS
<1>1. /\ UNCHANGED <<kind, mode, conj, disj, pending, headsDefined, trusted, delayed, translated,
                     conds, heads>>
      /\ open \in {"all", "heads"} /\ open' \in {"heads", "none"}
      /\ open = "heads" => open' = "none"
  BY DEF CloseConds, CloseHeads
<1>2. Types'
  BY <1>1 DEF IInv, Types
<1>3. Formulas' /\ Fitting' /\ CountersExact'
      /\ \A e \in Elements : BodiesOf(e)' = BodiesOf(e) /\ HeadsOf(e)' = HeadsOf(e)
  BY <1>1, FormulasKept
<1>4. ConjunctionFlags'
  BY <1>1, <1>3 DEF IInv, ConjunctionFlags
<1>5. DisjunctionFlags' /\ Started'
  BY <1>1 DEF IInv, DisjunctionFlags, HeadFact, HeadAtoms, Started
<1>. QED  BY <1>2, <1>3, <1>4, <1>5 DEF IInv

LEMMA ConjunctionCompleted == IInv /\ CompleteConjunction => IInv'
<1>. SUFFICES ASSUME IInv, CompleteConjunction PROVE IInv'
  OBVIOUS
<1>1. /\ UNCHANGED <<kind, mode, disj, headsDefined, open, trusted, delayed, translated, conds, heads>>
      /\ kind = "conjunction" /\ pending' = FALSE /\ open # "rule"
      /\ mode \in {"stratified", "heads", "recursive"} /\ open \in {"all", "heads", "none"}
      /\ mode = "stratified" => open = "none"
      /\ mode = "heads" => open \in {"heads", "none"}
  BY DEF IInv, Types, Started, CompleteConjunction, MayComplete
<1>2. /\ conj'.elems = conj.elems /\ conj'.blocked = conj.blocked /\ conj'.fact = conj.fact
      /\ ~conj'.enqueued
      /\ \/ /\ conj'.defined = conj.defined
            /\ conj'.condRecursive = conj.condRecursive /\ conj'.headRecursive = conj.headRecursive
            /\ ~conj.enqueued \/ conj.blocked > 0
         \/ /\ conj'.defined
            /\ conj'.condRecursive = (mode = "recursive")
            /\ conj'.headRecursive = (mode \in {"heads", "recursive"})
      /\ conj' = [elems |-> conj'.elems, blocked |-> conj'.blocked, fact |-> conj'.fact,
                  defined |-> conj'.defined, enqueued |-> conj'.enqueued,
                  headRecursive |-> conj'.headRecursive, condRecursive |-> conj'.condRecursive]
      /\ conj'.defined \in BOOLEAN /\ conj'.enqueued \in BOOLEAN
      /\ conj'.condRecursive \in BOOLEAN /\ conj'.headRecursive \in BOOLEAN
  <2>1. CASE ~conj.enqueued
    <3>1. conj' = conj
      BY <2>1 DEF CompleteConjunction
    <3>. QED  BY <2>1, <3>1 DEF IInv, Types
  <2>2. CASE conj.enqueued /\ conj.blocked > 0
    <3>1. conj' = [conj EXCEPT !.enqueued = FALSE]
      BY <2>2 DEF CompleteConjunction
    <3>. QED  BY <2>2, <3>1 DEF IInv, Types
  <2>3. CASE conj.enqueued /\ ~(conj.blocked > 0)
    <3>1. conj' = [InitConjunction(conj) EXCEPT !.defined = TRUE, !.enqueued = FALSE]
      BY <2>3 DEF CompleteConjunction
    <3>2. conj' = [elems |-> conj.elems, blocked |-> conj.blocked, fact |-> conj.fact,
                   defined |-> TRUE, enqueued |-> FALSE, headRecursive |-> mode \in {"heads", "recursive"},
                   condRecursive |-> mode = "recursive"]
      BY <3>1 DEF IInv, Types, InitConjunction
    <3>3. /\ conj'.elems = conj.elems /\ conj'.blocked = conj.blocked /\ conj'.fact = conj.fact
          /\ conj'.defined = TRUE /\ conj'.enqueued = FALSE
          /\ conj'.condRecursive = (mode = "recursive")
          /\ conj'.headRecursive = (mode \in {"heads", "recursive"})
      BY <3>2
    <3>4. (mode = "recursive") \in BOOLEAN /\ (mode \in {"heads", "recursive"}) \in BOOLEAN
      OBVIOUS
    <3>. QED  BY <3>2, <3>3, <3>4
  <2>. QED  BY <2>1, <2>2, <2>3
<1>3. Types'
  BY <1>1, <1>2 DEF IInv, Types
<1>4. Formulas' /\ Fitting' /\ CountersExact'
      /\ \A e \in Elements : BodiesOf(e)' = BodiesOf(e) /\ HeadsOf(e)' = HeadsOf(e)
  BY <1>1, <1>2, FormulasKept
<1>5. ConjunctionFlags'
  <2>1. trusted => mode # "recursive"
    BY <1>1 DEF IInv, ConjunctionFlags
  <2>2. /\ ~conj'.condRecursive => mode # "recursive" /\ open \in {"heads", "none"}
        /\ conj'.defined => /\ conj'.condRecursive = (mode = "recursive")
                            /\ conj'.headRecursive = (mode \in {"heads", "recursive"})
                            /\ mode = "stratified" => open = "none"
    BY <1>1, <1>2 DEF IInv, ConjunctionFlags
  <2>3. ~conj'.defined => conj'.blocked > 0
    BY <1>1, <1>2 DEF IInv, ConjunctionFlags
  <2>4. delayed => conj'.defined
    BY <1>1, <1>2 DEF IInv, ConjunctionFlags
  <2>5. trusted => /\ ~conj'.condRecursive
                   /\ \A e \in Elements : BodiesOf(e) # {} => {} \in HeadsOf(e)
    BY <1>1, <1>2, <2>1 DEF IInv, ConjunctionFlags
  <2>6. translated # <<>> =>
          /\ open = "none"
          /\ translated = <<[elems |-> conj'.elems, nonmonotone |-> mode = "recursive"]>>
    BY <1>1, <1>2 DEF IInv, ConjunctionFlags
  <2>. QED  BY <1>1, <1>2, <1>4, <2>2, <2>3, <2>4, <2>5, <2>6 DEF ConjunctionFlags
<1>6. DisjunctionFlags' /\ Started'
  BY <1>1 DEF DisjunctionFlags, Started
<1>. QED  BY <1>3, <1>4, <1>5, <1>6 DEF IInv

LEMMA ConjunctionRead == IInv /\ ReadConjunction => IInv'
<1>. SUFFICES ASSUME IInv, ReadConjunction PROVE IInv'
  OBVIOUS
<1>1. /\ UNCHANGED <<kind, mode, conj, disj, pending, headsDefined, open, conds, heads>>
      /\ kind = "conjunction" /\ conj.defined /\ translated = <<>>
  BY DEF ReadConjunction
<1>2. \/ IsFact(conj) /\ trusted' = TRUE /\ UNCHANGED <<delayed, translated>>
      \/ ~IsFact(conj) /\ delayed' = TRUE /\ UNCHANGED <<trusted, translated>>
      \/ /\ ~IsFact(conj) /\ ~IsRecursive(conj)
         /\ translated' = Translation /\ UNCHANGED <<trusted, delayed>>
  BY DEF ReadConjunction
<1>3. Types' /\ Started'
  BY <1>1, <1>2 DEF IInv, Types, Started
<1>4. Formulas' /\ Fitting' /\ CountersExact'
      /\ \A e \in Elements : BodiesOf(e)' = BodiesOf(e) /\ HeadsOf(e)' = HeadsOf(e)
  BY <1>1, FormulasKept
<1>5. ConjunctionFlags'
  <2>1. CASE IsFact(conj) /\ trusted' = TRUE /\ UNCHANGED <<delayed, translated>>
    <3>1. conj.fact = Cardinality(OpenBy(conds, heads)) /\ OpenBy(conds, heads) \in SUBSET Elements
      BY <1>1, CountersAlternative DEF IInv, OpenBy
    <3>2. OpenBy(conds, heads) = {}
      BY <2>1, <3>1, Finite DEF IsFact
    <3>3. \A e \in Elements : BodiesOf(e) # {} => {} \in HeadsOf(e)
      BY <3>2 DEF OpenBy, BodiesOf, HeadsOf
    <3>4. ~conj.condRecursive
      BY <2>1 DEF IsFact
    <3>. QED  BY <1>1, <1>4, <2>1, <3>3, <3>4 DEF IInv, ConjunctionFlags
  <2>2. CASE delayed' = TRUE /\ UNCHANGED <<trusted, translated>>
    BY <1>1, <1>4, <2>2 DEF IInv, ConjunctionFlags
  <2>3. CASE /\ ~IsFact(conj) /\ ~IsRecursive(conj)
             /\ translated' = Translation /\ UNCHANGED <<trusted, delayed>>
    <3>1. ~conj.headRecursive /\ ~conj.condRecursive
      BY <2>3 DEF IsRecursive
    <3>2. mode = "stratified" /\ open = "none"
      BY <1>1, <3>1 DEF IInv, Types, ConjunctionFlags
    <3>3. IsNonmonotone(conj) = (mode = "recursive")
      BY <3>1, <3>2 DEF IsNonmonotone
    <3>4. translated' = <<[elems |-> conj.elems, nonmonotone |-> mode = "recursive"]>>
      BY <2>3, <3>3 DEF Translation
    <3>. QED  BY <1>1, <1>4, <2>3, <3>2, <3>4 DEF IInv, ConjunctionFlags
  <2>. QED  BY <1>2, <2>1, <2>2, <2>3
<1>6. DisjunctionFlags'
  BY <1>1 DEF DisjunctionFlags
<1>. QED  BY <1>3, <1>4, <1>5, <1>6 DEF IInv

LEMMA ConjunctionTranslated == IInv /\ TranslateConjunction => IInv'
<1>. SUFFICES ASSUME IInv, TranslateConjunction PROVE IInv'
  OBVIOUS
<1>1. /\ UNCHANGED <<kind, mode, conj, disj, pending, headsDefined, open, trusted, conds, heads>>
      /\ kind = "conjunction" /\ delayed /\ delayed' = FALSE /\ open = "none"
      /\ translated' = IF translated = <<>> THEN Translation ELSE translated
  BY DEF TranslateConjunction, Grounded
<1>2. Types' /\ Started'
  BY <1>1 DEF IInv, Types, Started
<1>3. Formulas' /\ Fitting' /\ CountersExact'
      /\ \A e \in Elements : BodiesOf(e)' = BodiesOf(e) /\ HeadsOf(e)' = HeadsOf(e)
  BY <1>1, FormulasKept
<1>4. ConjunctionFlags'
  <2>1. conj.condRecursive = (mode = "recursive")
    BY <1>1 DEF IInv, ConjunctionFlags
  <2>2. IsNonmonotone(conj) = (mode = "recursive")
    BY <2>1 DEF IsNonmonotone, IsFact
  <2>3. Translation = <<[elems |-> conj.elems, nonmonotone |-> mode = "recursive"]>>
    BY <2>2 DEF Translation
  <2>. QED  BY <1>1, <1>3, <2>3 DEF IInv, ConjunctionFlags
<1>5. DisjunctionFlags'
  BY <1>1 DEF DisjunctionFlags
<1>. QED  BY <1>2, <1>3, <1>4, <1>5 DEF IInv

LEMMA DisjunctionCompleted == IInv /\ CompleteDisjunction => IInv'
<1>. SUFFICES ASSUME IInv, CompleteDisjunction PROVE IInv'
  OBVIOUS
<1>1. /\ UNCHANGED <<kind, mode, conj, open, trusted, delayed, translated, conds, heads>>
      /\ kind = "disjunction" /\ pending' = FALSE /\ open # "rule" /\ disj.todo
      /\ disj \in DisjunctionType
  BY DEF IInv, Started, CompleteDisjunction, DisjunctionFlags, Types
<1>. DEFINE d == [disj EXCEPT !.recursive = (mode = "recursive")]
<1>2. /\ disj' = d
      /\ headsDefined' = headsDefined \union IF HeadFact(d) THEN {} ELSE HeadAtoms(d.elems)
  BY <1>1 DEF CompleteDisjunction, TodoAfterReport
<1>3. /\ d \in DisjunctionType /\ d.elems = disj.elems /\ d.headFact = disj.headFact
      /\ d.enqueued = disj.enqueued /\ d.todo = disj.todo
  BY <1>1 DEF DisjunctionType
<1>. HIDE DEF d
<1>4. Types' /\ Started'
  BY <1>1, <1>2, <1>3 DEF IInv, Types, Started
<1>5. Formulas' /\ Fitting' /\ CountersExact'
  BY <1>1, <1>2, <1>3, FormulasKept
<1>6. ConjunctionFlags'
  BY <1>1 DEF ConjunctionFlags
<1>7. DisjunctionFlags'
  <2>1. HeadFact(disj)' \/ HeadAtoms(disj.elems)' \subseteq headsDefined'
    <3>1. HeadFact(d) \/ HeadAtoms(d.elems) \subseteq headsDefined'
      BY <1>2
    <3>2. HeadFact(disj)' = HeadFact(d) /\ HeadAtoms(disj.elems)' = HeadAtoms(d.elems)
      BY <1>2 DEF HeadFact, HeadAtoms
    <3>. QED  BY <3>1, <3>2
  <2>. QED  BY <1>1, <1>2, <1>3, <2>1 DEF IInv, DisjunctionFlags
<1>. QED  BY <1>4, <1>5, <1>6, <1>7 DEF IInv

LEMMA DisjunctionDone == IInv /\ TranslateDisjunction => IInv'
<1>. SUFFICES ASSUME IInv, TranslateDisjunction PROVE IInv'
  OBVIOUS
<1>1. /\ UNCHANGED <<kind, mode, conj, disj, pending, headsDefined, open, trusted, conds, heads>>
      /\ kind = "disjunction" /\ delayed' = FALSE /\ open = "none"
      /\ translated' = <<[elems |-> disj.elems]>>
  BY DEF TranslateDisjunction, Grounded
<1>2. Types' /\ Started'
  BY <1>1 DEF IInv, Types, Started
<1>3. Formulas' /\ Fitting' /\ CountersExact'
  BY <1>1, FormulasKept
<1>4. ConjunctionFlags' /\ DisjunctionFlags'
  BY <1>1 DEF IInv, ConjunctionFlags, DisjunctionFlags, HeadFact, HeadAtoms
<1>. QED  BY <1>2, <1>3, <1>4 DEF IInv

LEMMA NothingDone == IInv /\ UNCHANGED vars => IInv'
<1>. SUFFICES ASSUME IInv, UNCHANGED vars PROVE IInv'
  OBVIOUS
<1>. USE DEF vars
<1>1. Types' /\ Started'
  BY DEF IInv, Types, Started
<1>2. Formulas' /\ Fitting' /\ CountersExact'
      /\ \A e \in Elements : BodiesOf(e)' = BodiesOf(e) /\ HeadsOf(e)' = HeadsOf(e)
  BY FormulasKept
<1>3. ConjunctionFlags' /\ DisjunctionFlags'
  BY <1>2 DEF IInv, ConjunctionFlags, DisjunctionFlags, HeadFact, HeadAtoms
<1>. QED  BY <1>1, <1>2, <1>3 DEF IInv

(* The invariant holds in every state, whatever is reported in whatever    *)
(* order.                                                                  *)
THEOREM Invariance == Spec => []IInv
<1>1. IInv /\ [Next]_vars => IInv'
  BY EmptyReported, CondReported, HeadReported, Closed, ConjunctionCompleted, ConjunctionRead,
     ConjunctionTranslated, RuleReported, ElementReported, DisjunctionCompleted, DisjunctionDone,
     NothingDone DEF Next
<1>. QED  BY InitIInv, <1>1, PTL DEF Spec

(* The counters of conjunctions and disjunctions agree with what has been  *)
(* reported, for any number of elements and any clauses (accumulateCond,   *)
(* accumulateHead of the elements).                                        *)
THEOREM CountersAreExact == Spec => []CountersExact
<1>1. IInv => CountersExact
  BY DEF IInv
<1>. QED  BY Invariance, <1>1, PTL

-----------------------------------------------------------------------------
(* What the invariant says of the meaning                                  *)

LEMMA Meanings ==
  ASSUME NEW e
  PROVE  /\ Bodies(e) = BodyWorlds(BodiesOf(e))
         /\ SomeHead(e) = BodyWorlds(HeadsOf(e))
         /\ EveryHead(e) = HeadWorlds(HeadsOf(e))
<1>1. Bodies(e) = BodyWorlds(BodiesOf(e)) /\ SomeHead(e) = BodyWorlds(HeadsOf(e))
  BY DEF Bodies, SomeHead, BodyWorlds, BodiesOf, HeadsOf, Of
<1>2. EveryHead(e) = HeadWorlds(HeadsOf(e))
  BY Member DEF EveryHead, HeadWorlds, HeadsOf
<1>. QED  BY <1>1, <1>2

LEMMA EmptyCollected ==
  /\ BodyWorlds({}) = {} /\ HeadWorlds({}) = Worlds
  /\ \A cs : {} \in cs => BodyWorlds(cs) = Worlds /\ HeadWorlds(cs) = {}
<1>1. \A c : AllOf(c) \subseteq Worlds
  BY DEF AllOf
<1>. QED  BY <1>1, EmptyClauses DEF BodyWorlds, HeadWorlds

(* Where the literal is used, conditions are decided.                      *)
LEMMA BodiesDecided ==
  ASSUME IInv, NEW w \in Relevant, NEW e \in Elements, kind = "disjunction" \/ mode # "recursive"
  PROVE  w \in BodyWorlds(BodiesOf(e)) <=> Top(w) \in BodyWorlds(BodiesOf(e))
<1>1. w \in Worlds /\ Top(w) \in Worlds /\ w[1] \intersect Decided = w[2] \intersect Decided
      /\ Top(w)[1] = w[2] /\ Top(w)[2] = w[2]
  BY Totals DEF Relevant, Top
<1>2. ASSUME NEW c \in BodiesOf(e), NEW l \in c
      PROVE  l.atom \in Decided
  <2>1. PICK b \in conds : b[1] = e /\ b[2] = c
    BY Member DEF BodiesOf
  <2>2. CASE kind = "disjunction"
    BY <2>1, <2>2 DEF Decided
  <2>3. CASE kind = "conjunction"
    <3>1. mode # "recursive"
      BY <2>3
    <3>2. Decided = Stable
      BY <2>3, <3>1 DEF Decided
    <3>. QED  BY <2>1, <2>3, <3>1, <3>2 DEF IInv, Fitting
  <2>. QED  BY <2>2, <2>3 DEF IInv, Types
<1>3. ASSUME NEW c \in BodiesOf(e)
      PROVE  w \in AllOf(c) <=> Top(w) \in AllOf(c)
  <2>1. \A l \in c : w \in LitWorlds(l) <=> Top(w) \in LitWorlds(l)
    BY <1>1, <1>2 DEF LitWorlds
  <2>. QED  BY <1>1, <2>1 DEF AllOf
<1>. QED  BY <1>3 DEF BodyWorlds

(* An element that blocks a conjunction, or makes a disjunction a fact.    *)
LEMMA Blocking ==
  ASSUME IInv, BlockedBy(conds, heads) # {}
  PROVE  IF kind = "conjunction" THEN Meaning = {} ELSE Worlds \subseteq Meaning
<1>1. PICK e \in Elements : {} \in BodiesOf(e) /\ HeadsOf(e) = {}
  BY DEF BlockedBy, BodiesOf, HeadsOf
<1>2. Bodies(e) = Worlds /\ SomeHead(e) = {} /\ EveryHead(e) = Worlds
  BY <1>1, Meanings, EmptyCollected
<1>. QED  BY <1>2 DEF Meaning, Implies

-----------------------------------------------------------------------------
(* A conjunction is left out of a rule as true only if it is true whatever *)
(* is reported afterwards (ConjunctionAtom::fact).                         *)
THEOREM VerdictsAreSound == Spec => []VerdictsSound
<1>1. ASSUME IInv PROVE VerdictsSound
  <2>1. SUFFICES ASSUME trusted PROVE Holds(Meaning)
    BY DEF VerdictsSound
  <2>2. kind = "conjunction" /\ \A e \in Elements : BodiesOf(e) # {} => {} \in HeadsOf(e)
    BY <1>1, <2>1 DEF IInv, Types, ConjunctionFlags, DisjunctionFlags
  <2>3. ASSUME NEW e \in Elements
        PROVE  Bodies(e) = {} \/ SomeHead(e) = Worlds
    BY <2>2, Meanings, EmptyCollected
  <2>4. \A w \in Worlds : Top(w) \in Worlds /\ Top(w) = <<w[2], w[2]>>
    BY Totals DEF Top
  <2>5. \A w \in Worlds, e \in Elements : w \in Implies(Bodies(e), SomeHead(e))
    BY <2>3, <2>4 DEF Implies
  <2>6. Worlds \subseteq Meaning
    BY <2>2, <2>5 DEF Meaning
  <2>. QED  BY <2>6 DEF Holds, Relevant
<1>. QED  BY Invariance, <1>1, PTL

(* Conjunctions that may hold and the head atoms of disjunctions that may  *)
(* be derived are defined once the component is grounded (reportOther and  *)
(* enqueue, the todo lists of ConjunctionComplete and DisjunctionComplete).*)
THEOREM PossibleAreDefined == Spec => []DefinedWhenPossible
<1>1. ASSUME IInv PROVE DefinedWhenPossible
  <2>1. SUFFICES ASSUME Grounded
                 PROVE  IF kind = "conjunction" THEN Meaning \intersect Relevant # {} => conj.defined
                        ELSE ~Holds(Meaning) =>
                               \A e \in Elements : Bodies(e) \intersect EveryHead(e) # {} =>
                                 {l.atom : l \in {k \in UNION {h[2] : h \in {g \in heads : g[1] = e}} :
                                                 k.sign = "POS"}} \subseteq headsDefined
    BY DEF DefinedWhenPossible
  <2>2. open = "none" /\ ~pending
    BY <2>1 DEF Grounded
  <2>3. BlockedBy(conds, heads) \in SUBSET Elements
    BY DEF BlockedBy
  <2>4. CASE kind = "conjunction"
    <3>1. SUFFICES ASSUME ~conj.defined PROVE Meaning = {}
      BY <2>4
    <3>2. conj.blocked > 0
      BY <1>1, <2>2, <2>4, <3>1 DEF IInv, ConjunctionFlags
    <3>3. conj.blocked = Cardinality(BlockedBy(conds, heads))
      BY <1>1, <2>4, CountersAlternative DEF IInv
    <3>4. BlockedBy(conds, heads) # {}
      BY <2>3, <3>2, <3>3, Finite
    <3>. QED  BY <1>1, <2>4, <3>4, Blocking
  <2>5. CASE kind = "disjunction"
    <3>1. SUFFICES ASSUME ~Holds(Meaning), NEW e \in Elements, Bodies(e) \intersect EveryHead(e) # {}
                   PROVE  {l.atom : l \in {k \in UNION {h[2] : h \in {g \in heads : g[1] = e}} :
                                          k.sign = "POS"}} \subseteq headsDefined
      BY <2>5
    <3>2. ~HeadFact(disj)
      <4>1. SUFFICES ASSUME HeadFact(disj) PROVE FALSE
        OBVIOUS
      <4>2. disj.headFact > 0 /\ disj.headFact = Cardinality(BlockedBy(conds, heads))
        BY <1>1, <2>5, <4>1, CountersAlternative DEF IInv, HeadFact
      <4>3. BlockedBy(conds, heads) # {}
        BY <2>3, <4>2, Finite
      <4>4. Worlds \subseteq Meaning
        BY <1>1, <2>5, <4>3, Blocking
      <4>. QED  BY <3>1, <4>4 DEF Holds, Relevant
    <3>3. HeadAtoms(disj.elems) \subseteq headsDefined
      BY <1>1, <2>2, <2>5, <3>2 DEF IInv, DisjunctionFlags
    <3>4. {} \notin HeadsOf(e)
      BY <3>1, Meanings, EmptyCollected
    <3>5. ToSet(disj.elems[e].heads) = HeadsOf(e)
      BY <1>1, <2>5, <3>4 DEF IInv, Formulas, Collected, ToSet
    <3>6. {h[2] : h \in {g \in heads : g[1] = e}} = HeadsOf(e)
      BY DEF HeadsOf, Of
    <3>7. UNION HeadsOf(e) \subseteq UNION {UNION ToSet(disj.elems[d].heads) : d \in Elements}
      BY <3>5
    <3>. QED  BY <3>3, <3>6, <3>7 DEF HeadAtoms
  <2>. QED  BY <1>1, <2>4, <2>5 DEF IInv, Types
<1>. QED  BY Invariance, <1>1, PTL

(* The rules that a conjunction or disjunction is translated to mean what  *)
(* has been reported (ConjunctionLiteral::translate and                    *)
(* DisjunctionLiteral::translate), whether the translation is delayed or   *)
(* not.                                                                    *)
THEOREM TranslationsAreExact == Spec => []TranslationExact
<1>1. ASSUME IInv PROVE TranslationExact
  <2>1. SUFFICES ASSUME translated # <<>>
                 PROVE  TranslationExact
    BY DEF TranslationExact
  <2>2. CASE kind = "conjunction"
    <3>1. translated[1] = [elems |-> conj.elems, nonmonotone |-> mode = "recursive"]
      BY <1>1, <2>1, <2>2 DEF IInv, ConjunctionFlags
    <3>2. DOMAIN conj.elems = Elements
      BY <1>1 DEF IInv, Types
    <3>3. ASSUME NEW w \in Relevant, NEW e \in Elements
          PROVE  w \in ElementWorlds(conj.elems[e], mode = "recursive")
                   <=> w \in Implies(Bodies(e), SomeHead(e))
      <4>1. /\ Collected(conj.elems[e].bodies, BodiesOf(e))
            /\ Collected(conj.elems[e].heads, HeadsOf(e))
        BY <1>1, <2>2 DEF IInv, Formulas
      <4>2. mode = "recursive" \/ (w \in BodyWorlds(BodiesOf(e)) <=> Top(w) \in BodyWorlds(BodiesOf(e)))
        BY <1>1, BodiesDecided
      <4>3. w \in Worlds
        BY DEF Relevant
      <4>4. (mode = "recursive") \in BOOLEAN
        OBVIOUS
      <4>. DEFINE nonmonotone == mode = "recursive"
                  el == conj.elems[e]
      <4>. HIDE DEF nonmonotone, el
      <4>5. /\ nonmonotone \in BOOLEAN
            /\ Collected(el.bodies, BodiesOf(e)) /\ Collected(el.heads, HeadsOf(e))
            /\ nonmonotone \/ (w \in BodyWorlds(BodiesOf(e)) <=> Top(w) \in BodyWorlds(BodiesOf(e)))
        BY <4>1, <4>2, <4>4 DEF nonmonotone, el
      <4>6. w \in ElementWorlds(el, nonmonotone)
              <=> w \in Implies(BodyWorlds(BodiesOf(e)), BodyWorlds(HeadsOf(e)))
        BY <4>3, <4>5, ElementTranslated
      <4>7. w \in ElementWorlds(el, nonmonotone) <=> w \in Implies(Bodies(e), SomeHead(e))
        BY <4>6, Meanings
      <4>. QED  BY <4>7 DEF nonmonotone, el
    <3>4. ConjunctionWorlds(conj.elems, mode = "recursive") \intersect Relevant = Meaning \intersect Relevant
      BY <2>2, <3>2, <3>3 DEF ConjunctionWorlds, Meaning
    <3>. QED  BY <2>2, <3>1, <3>4 DEF TranslationExact
  <2>3. CASE kind = "disjunction"
    <3>1. translated[1].elems = disj.elems
      BY <1>1, <2>1, <2>3 DEF IInv, DisjunctionFlags
    <3>2. DOMAIN disj.elems = Elements
          /\ \A e \in Elements : disj.elems[e] = [heads |-> disj.elems[e].heads,
                                                   bodies |-> disj.elems[e].bodies]
      BY <1>1 DEF IInv, Types, DisjunctionType, ElementType
    <3>. DEFINE bs == [e \in Elements |-> BodiesOf(e)]
                hs == [e \in Elements |-> HeadsOf(e)]
    <3>3. ASSUME NEW w \in Relevant
          PROVE  /\ w \in DisjunctionWorlds(disj.elems, Derived) <=> w \in Meaning
                 /\ w \in DisjunctionWorlds(disj.elems, Admitted) <=> w \in Meaning
      <4>1. \A e \in Elements : /\ Collected(disj.elems[e].bodies, bs[e])
                                /\ Collected(disj.elems[e].heads, hs[e])
        BY <1>1, <2>3 DEF IInv, Formulas
      <4>2. \A e \in Elements : w \in BodyWorlds(bs[e]) <=> Top(w) \in BodyWorlds(bs[e])
        BY <1>1, <2>3, BodiesDecided
      <4>3. w \in Worlds
        BY DEF Relevant
      <4>4. w \in Meaning <=> \E e \in Elements : w \in BodyWorlds(bs[e]) \intersect HeadWorlds(hs[e])
        BY <2>3, Meanings DEF Meaning
      <4>. DEFINE elems == disj.elems
      <4>. HIDE DEF bs, hs, elems
      <4>5. \A e \in DOMAIN elems :
              /\ elems[e] = [heads |-> elems[e].heads, bodies |-> elems[e].bodies]
              /\ Collected(elems[e].bodies, bs[e])
              /\ Collected(elems[e].heads, hs[e])
              /\ w \in BodyWorlds(bs[e]) <=> Top(w) \in BodyWorlds(bs[e])
        BY <3>2, <4>1, <4>2 DEF elems
      <4>6. LET meant == \E e \in DOMAIN elems : w \in BodyWorlds(bs[e]) \intersect HeadWorlds(hs[e])
            IN /\ w \in DisjunctionWorlds(elems, Derived) <=> meant
               /\ w \in DisjunctionWorlds(elems, Admitted) <=> meant
        BY <4>3, <4>5, DisjunctionTranslated
      <4>. QED  BY <3>2, <4>4, <4>6 DEF elems
    <3>4. /\ DisjunctionWorlds(disj.elems, Derived) \intersect Relevant = Meaning \intersect Relevant
          /\ DisjunctionWorlds(disj.elems, Admitted) \intersect Relevant = Meaning \intersect Relevant
      BY <3>3
    <3>. QED  BY <2>3, <3>1, <3>4 DEF TranslationExact
  <2>. QED  BY <1>1, <2>2, <2>3 DEF IInv, Types
<1>. QED  BY Invariance, <1>1, PTL
=============================================================================
