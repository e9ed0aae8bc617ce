---------------------------- MODULE MCLoyaltyCredit ----------------------------
(* LoyaltyCredit on a few calls: r1 and r2 are deliveries of one event, r3 is  *)
(* a request of the same customer, r4 one that asks for no points.             *)
EXTENDS LoyaltyCredit, TLC

CONSTANTS r1, r2, r3, r4, c1, e1

OneCustomer == r1 :> c1 @@ r2 :> c1 @@ r3 :> c1 @@ r4 :> c1
TwoDeliveries == r1 :> e1 @@ r2 :> e1 @@ r3 :> None @@ r4 :> e1
Deliveries == {r1, r2}

\* 500 points each from the order, 1000 from the request: every threshold is met.
Amounts == r1 :> 5000 @@ r2 :> 5000 @@ r3 :> 1000 @@ r4 :> 0
===============================================================================
