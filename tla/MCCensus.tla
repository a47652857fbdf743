------------------------------- MODULE MCCensus -------------------------------
(* Constants for the model checking of Census: two students of a department *)
(* and one administrator of the university it belongs to.                   *)
EXTENDS Census, TLC

CONSTANTS s1, s2, a, uni, dept

MCDomainOf == [p \in Students \cup Admins |-> IF p = a THEN uni ELSE dept]
MCBelow    == [d \in Domains |-> IF d = uni THEN {uni, dept} ELSE {dept}]
MCCalls    == {[opens |-> {}, who |-> "student", schools |-> {}],
               [opens |-> {dept}, who |-> "both", schools |-> {}],
               [opens |-> {}, who |-> "admin", schools |-> {}],
               [opens |-> {uni}, who |-> "student", schools |-> {s1, s2}]}
MCFiles    == {<<s1, s2>>, <<s2, s1>>}

Symmetry   == Permutations(Students)

===============================================================================
