--------------------------- MODULE MCAdminTokens ---------------------------
(* Browsers, token values and requests at a time, each kind                *)
(* interchangeable: the properties of the run are safety properties.       *)
EXTENDS AdminTokens, TLC

Symmetry == Permutations(Visitors) \cup Permutations(Values) \cup Permutations(Slots)
=============================================================================
