----------------------------- MODULE BodyStream -----------------------------
(***************************************************************************)
(* What a streamed answer promises the browser: pieces of the body come in *)
(* order, each at most once, none that the local service has not produced, *)
(* and nothing after the end.  It does not promise that all of them come.  *)
(***************************************************************************)
EXTENDS Naturals

CONSTANT N      \* pieces of the body

VARIABLES
    offered,    \* pieces the client has handed over
    got,        \* pieces the browser has been given
    over        \* the body has ended

bodyVars == <<offered, got, over>>

Pieces == 1..N

BodyInit == offered = {} /\ got = {} /\ over = FALSE

\* The next piece is handed over.
Offer(n) ==
    /\ n \notin offered
    /\ \A m \in Pieces : m < n => m \in offered
    /\ offered' = offered \cup {n}
    /\ UNCHANGED <<got, over>>

\* A piece passes; those skipped never will.
Pass(n) ==
    /\ ~over
    /\ n \in offered
    /\ \A m \in got : m < n
    /\ got' = got \cup {n}
    /\ UNCHANGED <<offered, over>>

End ==
    /\ over' = TRUE
    /\ UNCHANGED <<offered, got>>

BodyNext == (\E n \in Pieces : Offer(n) \/ Pass(n)) \/ End

BodySpec == BodyInit /\ [][BodyNext]_bodyVars
=============================================================================
