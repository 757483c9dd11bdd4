----------------------------- MODULE MCCheckoutSaga -----------------------------
\* Model values for checking CheckoutSaga. Either two checkouts race for the cart
\* and the key, or requests about the order and its payments follow one checkout.
EXTENDS CheckoutSaga
CONSTANTS c1, c2, s1, s2, p1, p2

MCInit ==
  /\ Init
  /\ keyOf[c1] = 1
  /\ \A q \in Op : asks[q].order = c1 /\ (asks[q].kind # "pay" => asks[q].payment = p1)
  /\ IF keyOf[c2] = None
     THEN edits = 0 /\ \A p \in Payment : payment[p].order = c1
     ELSE edits = MaxEdits /\ (\A p \in Payment : payment[p].order = None)
          /\ \A q \in Op : asks[q].kind = "none"
MCSpec == MCInit /\ [][Next]_vars /\ Fairness
=============================================================================
