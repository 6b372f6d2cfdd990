------------------------------ MODULE MCWatcher ------------------------------
(***************************************************************************)
(* Instances of Watcher for TLC: two tests, two sources.  t1 imports s1, t2 *)
(* and s1 import s2: both tests depend on s2, one by way of s1.            *)
(***************************************************************************)
EXTENDS Watcher

CONSTANTS t1, t2, s1, s2, g

TwoTests == {t1, t2}
TwoSources == {s1, s2}
Chain == {<<t1, s1>>, <<t2, s2>>, <<s1, s2>>}

\* vitest was started with a pattern only t1 matches.
OnePattern == {{t1}}

\* It was started with a pattern both match.
WidePattern == {{t1, t2}}
=============================================================================
