------------------------------- MODULE Cleanup -------------------------------
(***************************************************************************)
(* The loop of AbstractDomain::cleanup_ over one domain, one iteration per *)
(* step.  An atom is its symbol; which symbols go (the atoms that are not  *)
(* defined and those that are false) is fixed when the loop starts.        *)
(***************************************************************************)
EXTENDS CleanupOps

CONSTANTS
  Symbol,     (* the symbols atoms are made of                             *)
  MaxAtoms    (* bounds the number of atoms of the domain                  *)

ASSUME MaxAtomsAssumption == MaxAtoms \in Nat

VARIABLES
  before,     (* the atoms when the loop starts                            *)
  dead,       (* the symbols of atoms to delete                            *)
  clean       (* the cleanup in progress                                   *)

vars == <<before, dead, clean>>

(* The container is a set: no symbol occurs twice. *)
AtomSeqs == UNION {{s \in [1..n -> Symbol] :
                      \A o, p \in 1..n : s[o] = s[p] => o = p} : n \in 0..MaxAtoms}

Running == clean.next <= Len(clean.atoms)

Current == clean.atoms[clean.next]

Mapped(m) ==
  /\ m.id \in Seq([first : Nat \ {0}, last : Nat \ {0}])
  /\ DOMAIN m.map \subseteq 1..Len(before)
  /\ \A o \in DOMAIN m.map : m.map[o] \in 1..Len(before)

TypeOK ==
  /\ before \in Seq(Symbol)
  /\ dead \in SUBSET Symbol
  /\ clean.atoms \in Seq(Symbol)
  /\ clean.next \in 1..(Len(clean.atoms) + 1)
  /\ clean.rev = Len(clean.atoms) + 1
  /\ clean.old \in {clean.next, clean.rev}
  /\ Mapped(clean.map)

Init ==
  /\ before \in AtomSeqs
  /\ dead \in SUBSET Symbol
  /\ clean = StartCleanup(before)

Erase ==
  /\ Running
  /\ Current \in dead
  /\ clean' = EraseAtom(clean)
  /\ UNCHANGED <<before, dead>>

Keep ==
  /\ Running
  /\ Current \notin dead
  /\ clean' = KeepAtom(clean, Current)
  /\ UNCHANGED <<before, dead>>

Next == Erase \/ Keep

Spec == Init /\ [][Next]_vars

-----------------------------------------------------------------------------
(* Properties *)

(* The offsets of the original atoms the loop still has to look at, and of *)
(* those it is done with.                                                  *)
ToVisit ==
  IF Running THEN {clean.old} \union (clean.next + 1)..(clean.rev - 1) ELSE {}

Done == (1..Len(before)) \ ToVisit

(* Whatever has been moved into holes so far, the mapping sends every      *)
(* visited atom that stays to where it is now and every deleted one to     *)
(* InvalidId: a literal that the translator keeps across steps never ends  *)
(* up at the offset of another atom.                                       *)
MappingExact ==
  \A o \in Done :
    IF before[o] \in dead
    THEN GetMapping(clean.map, o) = 0
    ELSE /\ GetMapping(clean.map, o) \in 1..(clean.next - 1)
         /\ clean.atoms[GetMapping(clean.map, o)] = before[o]

(* When the loop ends every original atom has been visited, and what is    *)
(* left are the atoms to keep, each once.                                  *)
NothingLost ==
  ~Running =>
    /\ Done = 1..Len(before)
    /\ {clean.atoms[o] : o \in DOMAIN clean.atoms}
         = {before[o] : o \in DOMAIN before} \ dead
    /\ \A o, p \in DOMAIN clean.atoms : clean.atoms[o] = clean.atoms[p] => o = p

(* The assertions in Mapping::add and in the loop: unchanged offsets are   *)
(* added in order and no offset is added twice.                            *)
AddedInOrder ==
  Running /\ Current \notin dead =>
    IF clean.old # clean.next
    THEN clean.old \notin DOMAIN clean.map.map
    ELSE \A k \in DOMAIN clean.map.id : clean.map.id[k].last < clean.old
=============================================================================
