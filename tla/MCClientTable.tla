----------------------------- MODULE MCClientTable -----------------------------
(***************************************************************************)
(* Model checking of ClientTable.                                          *)
(***************************************************************************)
EXTENDS ClientTable

(* The configuration names no client, or "a", or "a" and one that never    *)
(* runs.  "a" may run twice.                                               *)
Configurations == {[i \in {} |-> "a"], [i \in {0} |-> "a"], [i \in {0, 1} |-> IF i = 0 THEN "a" ELSE "b"]}
Processes == {<<"f", 1>>, <<"a", 1>>, <<"a", 2>>}

(* The least that goes wrong: no program is named, and none runs twice. *)
NoneNamed == {[i \in {} |-> "a"]}
OnceEach == {<<"f", 1>>, <<"a", 1>>}
==============================================================================
