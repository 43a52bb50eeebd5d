------------------------------ MODULE MCGrounder ------------------------------
(* Small programs that exercise each kind of dependency. *)
EXTENDS Grounder, TLC

inst(heads, body) == [heads |-> heads, body |-> body]
stm(kind, naf, is) == [kind |-> kind, naf |-> naf, insts |-> is]
part(choices, facts, stms) == [choices |-> choices, facts |-> facts, stms |-> stms]

MCStatements == [
  (* p(X,Y) :- e(X,Y).  p(X,Z) :- p(X,Y), p(Y,Z).  for X < Y < Z in 1..4 *)
  base |-> stm("rule", <<"pos">>, <<
    inst(<< <<"p",1,2>> >>, << <<"e",1,2>> >>),
    inst(<< <<"p",2,3>> >>, << <<"e",2,3>> >>),
    inst(<< <<"p",3,4>> >>, << <<"e",3,4>> >>)>>),
  trans |-> stm("rule", <<"pos", "pos">>, <<
    inst(<< <<"p",1,3>> >>, << <<"p",1,2>>, <<"p",2,3>> >>),
    inst(<< <<"p",1,4>> >>, << <<"p",1,2>>, <<"p",2,4>> >>),
    inst(<< <<"p",1,4>> >>, << <<"p",1,3>>, <<"p",3,4>> >>),
    inst(<< <<"p",2,4>> >>, << <<"p",2,3>>, <<"p",3,4>> >>)>>),
  (* a(X) :- d(X), not b(X).  b(X) :- d(X), e(X), not a(X). *)
  even |-> stm("rule", <<"pos", "not">>, <<
    inst(<< <<"a",1>> >>, << <<"d",1>>, <<"b",1>> >>),
    inst(<< <<"a",2>> >>, << <<"d",2>>, <<"b",2>> >>)>>),
  odd |-> stm("rule", <<"pos", "pos", "not">>, <<
    inst(<< <<"b",1>> >>, << <<"d",1>>, <<"e",1>>, <<"a",1>> >>),
    inst(<< <<"b",2>> >>, << <<"d",2>>, <<"e",2>>, <<"a",2>> >>)>>),
  (* x(X) :- not not x(X), not b(X), a(X).  y :- not not a(1), not c. *)
  self |-> stm("rule", <<"notnot", "not", "pos">>, <<
    inst(<< <<"x",1>> >>, << <<"x",1>>, <<"b",1>>, <<"a",1>> >>),
    inst(<< <<"x",2>> >>, << <<"x",2>>, <<"b",2>>, <<"a",2>> >>)>>),
  why |-> stm("rule", <<"notnot", "not">>, <<
    inst(<< <<"y">> >>, << <<"a",1>>, <<"c",1>> >>)>>),
  (* b(X) :- a(Y), o(Y,X).  w(X) :- b(X), e(X).  v :- b(X).  b(2) :- f. *)
  cross |-> stm("rule", <<"pos", "pos">>, <<
    inst(<< <<"b",1>> >>, << <<"a",2>>, <<"o",2,1>> >>),
    inst(<< <<"b",2>> >>, << <<"a",1>>, <<"o",1,2>> >>)>>),
  watch |-> stm("rule", <<"pos", "pos">>, <<
    inst(<< <<"w",1>> >>, << <<"b",1>>, <<"e",1>> >>),
    inst(<< <<"w",2>> >>, << <<"b",2>>, <<"e",2>> >>)>>),
  again |-> stm("rule", <<"pos">>, <<
    inst(<< <<"v">> >>, << <<"b",1>> >>),
    inst(<< <<"v">> >>, << <<"b",2>> >>)>>),
  late |-> stm("rule", <<"pos">>, <<
    inst(<< <<"b",2>> >>, << <<"f">> >>)>>),
  (* {c(X)} :- d(X).  some :- d(X).  any :- c(X).  :- c(X). *)
  (* l; r(X) :- c(X).  :- l, not r(2). *)
  pick |-> stm("choice", <<"pos">>, <<
    inst(<< <<"c",1>> >>, << <<"d",1>> >>),
    inst(<< <<"c",2>> >>, << <<"d",2>> >>)>>),
  some |-> stm("rule", <<"pos">>, <<
    inst(<< <<"some">> >>, << <<"d",1>> >>),
    inst(<< <<"some">> >>, << <<"d",2>> >>)>>),
  any |-> stm("rule", <<"pos">>, <<
    inst(<< <<"any">> >>, << <<"c",1>> >>),
    inst(<< <<"any">> >>, << <<"c",2>> >>)>>),
  none |-> stm("rule", <<"pos">>, <<
    inst(<<>>, << <<"c",1>> >>),
    inst(<<>>, << <<"c",2>> >>)>>),
  split |-> stm("rule", <<"pos">>, <<
    inst(<< <<"l">>, <<"r",1>> >>, << <<"c",1>> >>),
    inst(<< <<"l">>, <<"r",2>> >>, << <<"c",2>> >>)>>),
  both |-> stm("rule", <<"pos", "not">>, <<
    inst(<<>>, << <<"l">>, <<"r",2>> >>)>>),
  (* g(X) :- s(X).  h(X) :- g(X), not g(Y), n(X,Y).  g(Y) :- h(X), n(X,Y). *)
  go |-> stm("rule", <<"pos">>, <<
    inst(<< <<"g",1>> >>, << <<"s",1>> >>)>>),
  halt |-> stm("rule", <<"pos", "not", "pos">>, <<
    inst(<< <<"h",1>> >>, << <<"g",1>>, <<"g",2>>, <<"n",1,2>> >>),
    inst(<< <<"h",2>> >>, << <<"g",2>>, <<"g",3>>, <<"n",2,3>> >>)>>),
  hop |-> stm("rule", <<"pos", "pos">>, <<
    inst(<< <<"g",2>> >>, << <<"h",1>>, <<"n",1,2>> >>),
    inst(<< <<"g",3>> >>, << <<"h",2>>, <<"n",2,3>> >>)>>),
  (* q :- a(X). *)
  quick |-> stm("rule", <<"pos">>, <<
    inst(<< <<"q">> >>, << <<"a",1>> >>),
    inst(<< <<"q">> >>, << <<"a",2>> >>)>>),
  (* win(X) :- m(X,Y), not win(Y). *)
  win |-> stm("rule", <<"pos", "not">>, <<
    inst(<< <<"win",1>> >>, << <<"m",1,2>>, <<"win",2>> >>),
    inst(<< <<"win",2>> >>, << <<"m",2,1>>, <<"win",1>> >>),
    inst(<< <<"win",2>> >>, << <<"m",2,3>>, <<"win",3>> >>)>>),
  (* ev(Y) :- od(X), n(X,Y).  od(Y) :- ev(X), n(X,Y).  od(1) :- s(1). *)
  seed |-> stm("rule", <<"pos">>, <<
    inst(<< <<"od",1>> >>, << <<"s",1>> >>)>>),
  ev |-> stm("rule", <<"pos", "pos">>, <<
    inst(<< <<"ev",2>> >>, << <<"od",1>>, <<"n",1,2>> >>),
    inst(<< <<"ev",1>> >>, << <<"od",3>>, <<"n",3,1>> >>)>>),
  od |-> stm("rule", <<"pos", "pos">>, <<
    inst(<< <<"od",2>> >>, << <<"ev",1>>, <<"n",1,2>> >>),
    inst(<< <<"od",3>> >>, << <<"ev",2>>, <<"n",2,3>> >>)>>),
  (* a(X) :- d(X), not c(X).  c(g) :- d(g), not a(g).                       *)
  (* :- a(f(1)), c(f(1)).  The terms f(1), f(2), g are the numbers 1, 2, 3. *)
  free |-> stm("rule", <<"pos", "not">>, <<
    inst(<< <<"a",1>> >>, << <<"d",1>>, <<"c",1>> >>),
    inst(<< <<"a",2>> >>, << <<"d",2>>, <<"c",2>> >>),
    inst(<< <<"a",3>> >>, << <<"d",3>>, <<"c",3>> >>)>>),
  back |-> stm("rule", <<"pos", "not">>, <<
    inst(<< <<"c",3>> >>, << <<"d",3>>, <<"a",3>> >>)>>),
  ask |-> stm("rule", <<"pos", "pos">>, <<
    inst(<<>>, << <<"a",1>>, <<"c",1>> >>)>>)
]

DefaultPrograms == [
  reach |-> <<part({}, {<<"e",1,2>>, <<"e",2,3>>, <<"e",3,4>>}, {"base", "trans"})>>,
  loops |-> <<part({}, {<<"d",1>>, <<"d",2>>, <<"e",1>>}, {"even", "odd", "self", "why"})>>,
  calls |-> <<part({}, {<<"d",1>>, <<"d",2>>, <<"e",1>>, <<"o",2,1>>}, {"even", "cross", "watch"}),
              part({}, {<<"f">>}, {"late", "again"})>>,
  mixed |-> <<part({}, {<<"d",1>>, <<"d",2>>}, {"pick", "some", "split", "both"}),
              part({}, {}, {"any"})>>,
  given |-> <<part({<<"c",1>>}, {<<"d",1>>, <<"d",2>>}, {"free", "ask", "none"}),
              part({<<"c",2>>}, {}, {"none", "split"})>>,
  strat |-> <<part({<<"c",1>>, <<"c",2>>}, {<<"d",1>>}, {"none", "some"})>>,
  chase |-> <<part({<<"s",1>>}, {<<"n",1,2>>, <<"n",2,3>>}, {"go", "halt", "hop"})>>,
  game  |-> <<part({}, {<<"m",1,2>>, <<"m",2,1>>, <<"m",2,3>>}, {"win"})>>,
  cycle |-> <<part({}, {<<"s",1>>, <<"n",1,2>>, <<"n",2,3>>, <<"n",3,1>>}, {"seed", "ev", "od"})>>,
  grow  |-> <<part({}, {<<"e",1,2>>, <<"e",2,3>>}, {"base", "trans"}),
              part({}, {<<"e",3,4>>}, {"base", "trans"})>>
]

(* Programs in which facts occur in bodies, with OutputBase::keepFacts. *)
KeepingPrograms == [
  keep_loops |-> DefaultPrograms["loops"],
  keep_mixed |-> DefaultPrograms["mixed"],
  keep_chase |-> DefaultPrograms["chase"]
]

MCKeepingFacts == DOMAIN KeepingPrograms

MCPrograms == DefaultPrograms @@ KeepingPrograms

(* One more than any component above needs. *)
MCGenerations == 0..4

(* A rule over atoms that a backend has added as choices. *)
BackendPrograms == [backend |-> <<part({<<"a",1>>, <<"a",2>>}, {}, {"quick"})>>]

(* Choices of a backend that an earlier call has looked up in vain.  Here  *)
(* none is the rule :- c(f(X)).                                            *)
ReservedPrograms == [
  reserved |-> <<part({}, {<<"d",1>>, <<"d",2>>}, {"free", "back", "ask"}),
                 part({<<"c",1>>, <<"c",2>>}, {}, {"none"})>>]
=============================================================================
