--------------------------- MODULE MCSuiteRunner ---------------------------
(* A file with a suite of two concurrent tests and a suite, and a test     *)
(* after it.                                                               *)
EXTENDS SuiteRunner, TLC

CONSTANTS f, s, s2, t1, t2, t3, t4

MCGroups == f :> <<{s}, {t3}>> @@ s :> <<{t1, t2}, {s2}>> @@ s2 :> <<{t4}>>
MCRetry == t1 :> 1 @@ t2 :> 0 @@ t3 :> 0 @@ t4 :> 0
MCRepeats == t1 :> 1 @@ t2 :> 0 @@ t3 :> 0 @@ t4 :> 0

=============================================================================
