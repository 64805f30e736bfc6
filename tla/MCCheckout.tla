------------------------------ MODULE MCCheckout ------------------------------
(* Basket contents are interchangeable. *)
EXTENDS Checkout, TLC

Symmetry == Permutations(Baskets)
=============================================================================
