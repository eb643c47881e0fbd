----------------------------- MODULE MCInventory -----------------------------
EXTENDS Inventory, TLC

CONSTANTS i1, i2, i3, r1, r2

Symmetric == Permutations({i1, i2, i3}) \union Permutations({r1, r2})
=============================================================================
