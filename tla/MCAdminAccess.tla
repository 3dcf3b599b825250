--------------------------- MODULE MCAdminAccess ---------------------------
(* The slots are interchangeable, and the properties are about safety.     *)
EXTENDS AdminAccess, TLC

MCSymmetry == Permutations(Slots)
=============================================================================
