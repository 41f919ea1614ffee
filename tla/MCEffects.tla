------------------------------ MODULE MCEffects ------------------------------
(* A caretaker, who may haste, pray and go berserk, and a cleric.           *)
EXTENDS Effects

CONSTANTS p1, p2

MCMaxLevel == (p1 :> 1) @@ (p2 :> 2)
MCclass == (p1 :> "CARETAKER") @@ (p2 :> "CLERIC")

=============================================================================
