------------------------- MODULE MC_ManagerInstance -------------------------
(* Instances of ManagerInstance for TLC. *)
EXTENDS ManagerInstance, TLC

CONSTANTS a, b, p1, p2, p3

ThreeStart == p1 :> a @@ p2 :> b @@ p3 :> None
Same       == a :> 1 @@ b :> 1
(* The two processes with links may change roles, links included. *)
Exchange   == {f \in Permutations({p1, p2, a, b}) :
                 \A p \in {p1, p2} : f[p] \in {p1, p2} /\ f[ThreeStart[p]] = ThreeStart[f[p]]}
TwoClicks  == "click" :> 2 @@ "event" :> 1
=============================================================================
