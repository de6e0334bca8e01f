---------------------------- MODULE MCPageCache ----------------------------
(* Instances of PageCache: one tab and three pages for eviction, two tabs  *)
(* and one page for races between answers.                                 *)
EXTENDS PageCache

CONSTANTS t1, t2, u1, u2, u3, e1, e2

MCSizeOf == [e \in Etags |-> IF e = e1 THEN 1 ELSE 3]

Control(words, s, m) == [cc |-> [words |-> words, smaxage |-> s, maxage |-> m], expires |-> None]

EvictionHeaders == {Control({}, None, 1)}

\* Private, to be asked for, for a shared cache shorter than for others, longer
\* than both limits, by Expires, nothing.
RaceHeaders == {Control({"private"}, None, 3), Control({"no-cache"}, None, 3),
                Control({}, 1, 3), Control({}, None, 4),
                [cc |-> None, expires |-> 1], [cc |-> None, expires |-> None]}

Symmetry == Permutations(Tabs) \cup Permutations(Urls)
=============================================================================
