--------------------------- MODULE MCApplication ---------------------------
EXTENDS Application
CONSTANTS t1, t2, t3

Todo(u, parent, done) == [uid |-> u, related |-> parent, done |-> done, text |-> 0]

\* A chain of three to-dos of which the lowest is open or not, and a pair with a to-do apart.
Chain(done) == t1 :> Todo(t1, None, TRUE) @@ t2 :> Todo(t2, t1, TRUE) @@ t3 :> Todo(t3, t2, done)
Pair == t1 :> Todo(t1, None, FALSE) @@ t2 :> Todo(t2, t1, TRUE) @@ t3 :> Todo(t3, None, TRUE)
MCCalls == [p \in Parts |-> IF p = "todos" THEN 2 ELSE IF p = "publish" THEN 5 ELSE 3]
MCTrees == {Chain(TRUE), Chain(FALSE), Pair}
=============================================================================
