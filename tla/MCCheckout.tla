------------------------------ MODULE MCCheckout ------------------------------
(* Instances of Checkout for TLC. *)
EXTENDS CheckoutLedger, TLC

CardCoupon == [cod |-> FALSE, coupon |-> TRUE]

CodCoupon == [cod |-> TRUE, coupon |-> TRUE]

CardPlain == [cod |-> FALSE, coupon |-> FALSE]

BothMethods == {CardCoupon, CodCoupon}

CardOnly == {CardCoupon}

CardPlainOnly == {CardPlain}

CardCarts == {CardCoupon, CardPlain}

AllCarts == {CardCoupon, CodCoupon, CardPlain}

SlotSymmetry == Permutations(Slots)

OrderSymmetry == Permutations(Slots) \cup Permutations(Orders)
=============================================================================
