-------------------------------- MODULE Domain --------------------------------
(***************************************************************************)
(* One atom domain and the indices over it, as the grounding of a sequence *)
(* of components uses them (domain.hh; callers in ground/program.cc,       *)
(* ground/statements.cc and ground/instantiation.cc).                      *)
(*                                                                         *)
(* phase is where the grounder is, seen from this domain:                  *)
(*   "idle"  no statement that defines atoms of the domain is processed;   *)
(*           indices are (re)registered when a component is linearized     *)
(*   "inst"  instantiators run: atoms are reserved and defined             *)
(*   "prop"  the callbacks of these instantiators propagate                *)
(* live is the set of indices the current component reads through.         *)
(***************************************************************************)
EXTENDS DomainOps

CONSTANTS
  Sym,            (* symbols that can become atoms of the domain            *)
  Index,          (* identities of the index terms over the domain          *)
  Match,          (* for each index the symbols its term matches            *)
  Generations     (* those an iteration can end in: bounds their number     *)

ASSUME MatchAssumption == Match \in [Index -> SUBSET Sym]
ASSUME BoundAssumption == Generations \subseteq Nat

VARIABLES dom, index, live, phase

vars == <<dom, index, live, phase>>

AtomRecord == [sym : Sym, gen : Nat, fact : BOOLEAN, delayed : BOOLEAN]

DomainRecord ==
  [atoms : Seq(AtomRecord), delayed : Seq(Nat \ {0}), generation : Nat,
   enqueued : 0..2, initOffset : Nat, initDelayedOffset : Nat]

IndexRecord ==
  [match : SUBSET Sym, batches : Seq(SUBSET (Nat \ {0})),
   imported : Nat, importedDelayed : Nat]

TypeOK ==
  /\ dom \in DomainRecord
  /\ index \in [Index -> IndexRecord]
  /\ live \in SUBSET Index
  /\ phase \in {"idle", "inst", "prop"}

Init ==
  /\ dom = EmptyDomain
  /\ index = [i \in Index |-> NewIndex(Match[i])]
  /\ live = {}
  /\ phase = "idle"

(* Atoms defined since the last change of generation. *)
Open == {o \in Offsets(dom) : IsDefined(dom, o) /\ Generation(dom, o) > dom.generation}

(* No registered index has anything left to import. *)
UpToDate == \A i \in live : Fresh(dom, index[i]) = {}

-----------------------------------------------------------------------------
(* AbstractDomain::add: an index that exists is reused; it is updated in   *)
(* both cases.                                                             *)
AddIndex(i) ==
  /\ phase = "idle"
  /\ index' = [index EXCEPT ![i] = UpdateIndex(dom, index[i])]
  /\ dom' = PassedBy(dom, index[i])
  /\ live' = live \union {i}
  /\ UNCHANGED phase

(* A PosMatcher of a new rule: it is an updater that has not seen anything *)
(* and is not updated when it is created.  Reads do not go through it.     *)
NewMatcher(i) ==
  /\ phase = "idle"
  /\ i \notin live
  /\ index' = [index EXCEPT ![i] = NewIndex(Match[i])]
  /\ UNCHANGED <<dom, live, phase>>

(* AbstractDomain::init, from the enqueue of the statements of a component *)
(* that defines atoms of the domain.                                       *)
StartComponent ==
  /\ phase = "idle"
  /\ dom' = InitDomain(dom)
  /\ phase' = "inst"
  /\ UNCHANGED <<index, live>>

(* A lookup for a recursive negative literal.  The component need not be   *)
(* one that defines atoms of the domain.                                   *)
ReserveAtom(s) ==
  /\ phase \in {"idle", "inst"}
  /\ dom' = Reserve(dom, s)
  /\ UNCHANGED <<index, live, phase>>

(* A rule instance is reported (phase "inst"), or Program::prepare and the *)
(* backend define atoms before any component is linearized.  Whether the   *)
(* atom also becomes a fact does not matter to the domain.                 *)
DefineAtom(s) ==
  /\ phase = "inst" \/ (phase = "idle" /\ live = {})
  /\ dom' = Define(dom, s)
  /\ UNCHANGED <<index, live, phase>>

(* HeadDefinition::enqueue: the domain is enqueued and the indices and     *)
(* matchers that depend on the head are updated.                           *)
Propagate(is) ==
  /\ phase \in {"inst", "prop"}
  /\ index' = [i \in Index |->
                 IF i \in is THEN UpdateIndex(dom, index[i]) ELSE index[i]]
  /\ dom' = EnqueueDomain(MarkDelayed(dom,
              {o \in Offsets(dom) : \E i \in is : o > index[i].imported}))
  /\ phase' = "prop"
  /\ UNCHANGED live

(* The end of an iteration of Queue::process.  Every head that defined an  *)
(* atom has propagated: the domain is enqueued, its indices are updated.   *)
EndIteration ==
  /\ phase \in {"inst", "prop"}
  /\ Open # {} => phase = "prop" /\ dom.enqueued = 2 /\ UpToDate
  /\ dom.generation \in Generations
  /\ dom' = IF dom.enqueued > 0 THEN AdvanceDomain(dom) ELSE dom
  /\ phase' = "inst"
  /\ UNCHANGED <<index, live>>

(* The end of Queue::process: what is new becomes old. *)
EndComponent ==
  /\ phase = "inst"
  /\ Open = {}
  /\ dom.generation \in Generations
  /\ dom' = IF dom.enqueued > 0 THEN AdvanceDomain(dom) ELSE dom
  /\ phase' = "idle"
  /\ live' = {}
  /\ UNCHANGED index

(* A component that does not define atoms of the domain is done. *)
LeaveComponent ==
  /\ phase = "idle"
  /\ live' = {}
  /\ UNCHANGED <<dom, index, phase>>

(* The end of Program::prepare. *)
NextStep ==
  /\ phase = "idle"
  /\ live = {}
  /\ dom.generation \in Generations
  /\ dom' = [dom EXCEPT !.generation = @ + 1]
  /\ UNCHANGED <<index, live, phase>>

Next ==
  \/ \E i \in Index : AddIndex(i)
  \/ \E i \in Index : NewMatcher(i)
  \/ StartComponent
  \/ \E s \in Sym : ReserveAtom(s)
  \/ \E s \in Sym : DefineAtom(s)
  \/ \E is \in SUBSET Index : Propagate(is)
  \/ EndIteration
  \/ EndComponent
  \/ LeaveComponent
  \/ NextStep

Spec == Init /\ [][Next]_vars

-----------------------------------------------------------------------------
(* Properties *)

Matching(i) == {o \in Offsets(dom) : IsDefined(dom, o) /\ dom.atoms[o].sym \in Match[i]}

(* Whenever instantiators run, every registered index holds exactly the    *)
(* matching atoms up to the current generation: no join misses an atom     *)
(* because it was reserved first and defined behind the scan, and none     *)
(* sees an atom of the running iteration.  This is what makes a lookup     *)
(* through an index agree with a lookup in the domain itself.              *)
IndexExact ==
  phase = "inst" =>
    \A i \in live :
      Content(index[i]) = {o \in Matching(i) : Generation(dom, o) <= dom.generation}

(* While other components are processed, a registered index holds all      *)
(* matching atoms.                                                         *)
IndexComplete ==
  phase = "idle" => \A i \in live : Content(index[i]) = Matching(i)

(* An update never finds an atom that an earlier update of the index has   *)
(* imported, and finds none in both of its loops: no offset is in an index *)
(* twice, whichever order atoms are reserved, passed, and defined in.      *)
ImportedOnce ==
  \A i \in Index :
    /\ Scanned(dom, index[i]) \cap Late(dom, index[i]) = {}
    /\ Fresh(dom, index[i]) \cap Content(index[i]) = {}
    /\ \A b, c \in DOMAIN index[i].batches :
         b # c => index[i].batches[b] \cap index[i].batches[c] = {}

(* In a component, indices are sorted by generation, which the searches    *)
(* for NEW and OLD atoms rely on: they cut the index at one place.         *)
Sorted ==
  phase # "idle" =>
    \A i \in live : \A b, c \in DOMAIN index[i].batches :
      \A o \in index[i].batches[b], p \in index[i].batches[c] :
        b <= c => Generation(dom, o) <= Generation(dom, p)

(* The delayed vector names every late defined atom exactly once. *)
DelayedExact ==
  /\ \A k, l \in DOMAIN dom.delayed : dom.delayed[k] = dom.delayed[l] => k = l
  /\ {dom.delayed[k] : k \in DOMAIN dom.delayed}
       = {o \in Offsets(dom) : IsDefined(dom, o) /\ dom.atoms[o].delayed}

(* The two lookups of NEW and OLD atoms that stop early find what the      *)
(* lookups in the domain itself define.                                    *)
LookupsAgree ==
  phase = "inst" =>
    \A i \in live :
      /\ LookupNew(dom, index[i]) = MatchNew(dom, Match[i])
      /\ LookupOld(dom, index[i]) = MatchOld(dom, Match[i])
      /\ LookupAll(index[i]) = MatchAll(dom, Match[i])

(* A domain stays enqueued for the iteration after one that defined atoms, *)
(* but not longer: the assertion at the end of Queue::process.             *)
DequeuedInTime == phase # "prop" => dom.enqueued <= 1

(* An atom that instantiators could see as NEW is never NEW again before   *)
(* the next component starts, and none becomes OLD without having been NEW *)
(* in an iteration.                                                        *)
NewExactlyOnce ==
  [][(phase # "idle" /\ phase' = "inst") =>
       \A i \in live :
         /\ MatchNew(dom', Match[i]) \cap MatchNew(dom, Match[i]) = {}
              \/ dom'.generation = dom.generation
         /\ MatchOld(dom', Match[i])
              \subseteq MatchOld(dom, Match[i]) \union MatchNew(dom, Match[i])]_vars
=============================================================================
