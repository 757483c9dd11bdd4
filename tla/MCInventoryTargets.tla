-------------------------- MODULE MCInventoryTargets --------------------------
\* Tokens for checking InventoryTargets.
EXTENDS InventoryTargets

TwoTokens == {1, 2}
=============================================================================
