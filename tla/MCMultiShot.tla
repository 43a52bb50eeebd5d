----------------------------- MODULE MCMultiShot -----------------------------
(* An atom and its complement; an atom over four ground calls; two atoms   *)
(* of one signature that can change places in a cleanup; a domain that is  *)
(* asked for choices; the backend; the incremental mode with up to three   *)
(* steps, or two steps and an atom of the program.                         *)
EXTENDS IncMode

PairNames == [pos |-> {"a"}, neg |-> {"a"}]

SingleNames == [pos |-> {"a"}, neg |-> {}]

PlaceNames == [pos |-> {"a", "b"}, neg |-> {}]

StepNames == [pos |-> {"q0", "q1", "a"}, neg |-> {}]

QueryOnly == [pos |-> {"q0", "q1", "q2"}, neg |-> {}]

Pair == [names |-> PairNames, cleanupModes |-> {TRUE}, asked |-> {}, queries |-> <<>>,
         externals |-> TRUE, sessions |-> FALSE, grounds |-> 2, perStep |-> 1, tuples |-> 0]

LongPair == [Pair EXCEPT !.externals = FALSE, !.grounds = 3]

Single == [Pair EXCEPT !.names = SingleNames, !.grounds = 4, !.tuples = 1]

Places == [Pair EXCEPT !.names = PlaceNames, !.cleanupModes = BOOLEAN, !.perStep = 2,
                       !.tuples = 1]

Asked == [Pair EXCEPT !.names = PlaceNames, !.asked = {"pos"}]

Sessions == [Pair EXCEPT !.sessions = TRUE, !.tuples = 1]

Steps == [Pair EXCEPT !.names = StepNames, !.queries = <<"q0", "q1">>]

LongSteps == [Pair EXCEPT !.names = QueryOnly, !.queries = <<"q0", "q1", "q2">>, !.grounds = 3]

AllScenarios ==
  [pair |-> Pair, longpair |-> LongPair, single |-> Single, places |-> Places, asked |-> Asked,
   sessions |-> Sessions, steps |-> Steps, longsteps |-> LongSteps]

TwoGrounds == [pair |-> [Pair EXCEPT !.perStep = 2]]

OnlyAsked == [asked |-> Asked]
=============================================================================
