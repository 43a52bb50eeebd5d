----------------------------- MODULE CleanupOps -----------------------------
(***************************************************************************)
(* The removal of atoms from a domain (AbstractDomain::cleanup_ in         *)
(* gringo/domain.hh) and the mapping from old to new offsets it leaves     *)
(* behind (Mapping in gringo/output/literal.hh).  Offsets start at 1, and  *)
(* 0 stands for InvalidId.                                                 *)
(*                                                                         *)
(* A mapping stores the offsets that did not change as ranges and the      *)
(* others in a hash map.  A cleanup in progress is a record                *)
(*   atoms   the atoms that are left                                       *)
(*   next    the offset the loop looks at                                  *)
(*   rev     the end of the atoms that are still where they were           *)
(*   old     the offset the atom at next had before the cleanup            *)
(*   map     the mapping built so far                                      *)
(***************************************************************************)
EXTENDS Integers, Sequences

EmptyMapping == [id |-> <<>>, map |-> [o \in {} |-> 0]]

(* Mapping::add; before it, a slip that joins all unchanged offsets. *)
AddWithoutGaps(m, old, new) ==
  IF old # new
  THEN [m EXCEPT !.map = [o \in DOMAIN m.map \union {old} |->
                            IF o = old THEN new ELSE m.map[o]]]
  ELSE IF m.id = <<>>
  THEN [m EXCEPT !.id = <<[first |-> old, last |-> old]>>]
  ELSE [m EXCEPT !.id[Len(m.id)].last = old]

AddMapping(m, old, new) ==
  IF old # new
  THEN [m EXCEPT !.map = [o \in DOMAIN m.map \union {old} |->
                            IF o = old THEN new ELSE m.map[o]]]
  ELSE IF m.id = <<>> \/ m.id[Len(m.id)].last < old - 1
  THEN [m EXCEPT !.id = Append(m.id, [first |-> old, last |-> old])]
  ELSE [m EXCEPT !.id[Len(m.id)].last = @ + 1]

(* The offset is in the range that lower_bound finds. *)
Unchanged(m, o) ==
  \E k \in DOMAIN m.id :
    /\ m.id[k].first <= o /\ o <= m.id[k].last
    /\ \A j \in 1..(k - 1) : m.id[j].last < o

(* Mapping::get *)
GetMapping(m, o) ==
  IF o \in DOMAIN m.map THEN m.map[o] ELSE IF Unchanged(m, o) THEN o ELSE 0

(* The last element moves into the hole. *)
UnorderedErase(s, i) ==
  [k \in 1..(Len(s) - 1) |-> IF k = i THEN s[Len(s)] ELSE s[k]]

StartCleanup(atoms) ==
  [atoms |-> atoms, next |-> 1, rev |-> Len(atoms) + 1, old |-> 1,
   map |-> EmptyMapping]

(* The two branches of the loop in cleanup_; before them slips that take   *)
(* the atom moved into the hole from one offset too far, do not look at    *)
(* it, or keep counting from there.                                        *)
EraseTooFar(c) ==
  [c EXCEPT !.atoms = UnorderedErase(c.atoms, c.next), !.rev = @ - 1,
            !.old = c.rev]

EraseAndSkip(c) ==
  [c EXCEPT !.atoms = UnorderedErase(c.atoms, c.next), !.rev = @ - 1,
            !.next = @ + 1, !.old = c.next + 1]

EraseAtom(c) ==
  [c EXCEPT !.atoms = UnorderedErase(c.atoms, c.next), !.rev = @ - 1,
            !.old = c.rev - 1]

KeepWithoutReset(c, atom) ==
  [c EXCEPT !.atoms[c.next] = atom, !.next = @ + 1, !.old = @ + 1,
            !.map = AddMapping(c.map, c.old, c.next)]

KeepAtom(c, atom) ==
  [c EXCEPT !.atoms[c.next] = atom, !.next = @ + 1, !.old = c.next + 1,
            !.map = AddMapping(c.map, c.old, c.next)]
=============================================================================
