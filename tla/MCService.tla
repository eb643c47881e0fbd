-------------------------------- MODULE MCService --------------------------------
EXTENDS Service, TLC

CONSTANTS i1, i2, r1, r2, h1, h2, root, other, k1, k2

(* The callers of the three parts have the same names.                     *)
Symmetric == Permutations({i1, i2}) \union Permutations({r1, r2})

(* Passwords among administrators; who is one; and how long it shows.      *)
MCWorkloads ==
  {[names |-> {root, other}, roles |-> {"admin"}, hashes |-> {h1, h2}, last |-> 0],
   [names |-> {root, other}, roles |-> {"admin", "viewer"}, hashes |-> {h1}, last |-> 0],
   [names |-> {other}, roles |-> {"admin", "viewer"}, hashes |-> {h1}, last |-> 2]}

MCChanges ==
  {[timeout |-> "other"], [timeout |-> ""], [timeout |-> "wrong"], [enabled |-> "on"],
   [enabled |-> "on", host |-> "smtp"], [enabled |-> "off", host |-> ""]}
===================================================================================
