----------------------------- MODULE MCFixtures -----------------------------
\* Fixtures on small instances.
EXTENDS Fixtures
CONSTANTS t1, t2, db, user, page

\* page needs user, and user needs the database, which the file shares.
ThreeDeps == (db :> <<>>) @@ (user :> <<db>>) @@ (page :> <<db, user>>)

\* Two tests with the hooks of either kind between them, one of which may run again.
TwoTests == (t1 :> [around |-> <<user>>, before1 |-> <<db>>, fn |-> <<page>>])
              @@ (t2 :> [fn |-> <<user>>, after |-> <<db>>])
OnlyTheFirst == (t1 :> 1) @@ (t2 :> 0)

\* Two hooks that use the same fixture.
TwoHooks == (t1 :> [before1 |-> <<user>>, before2 |-> <<user>>, fn |-> <<user>>])
Once == (t1 :> 1)
JustTheTest == (t1 :> [fn |-> <<user>>])
=============================================================================
