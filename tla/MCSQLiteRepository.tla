--------------------------- MODULE MCSQLiteRepository ---------------------------
EXTENDS SQLiteRepository

CONSTANTS i1, i2, p1, p2, h1, h2, c1, c2

Symmetric == Permutations({i1, i2}) \union Permutations({p1, p2})
               \union Permutations({h1, h2}) \union Permutations({c1, c2})

(* What the last call returned has no bearing on the next.                 *)
View == <<tables, process, pending, used>>
=============================================================================
