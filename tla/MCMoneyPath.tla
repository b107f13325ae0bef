------------------------------ MODULE MCMoneyPath ------------------------------
(***************************************************************************)
(* Amounts below, at and above one unit, with and without zeros in their    *)
(* cents.                                                                  *)
(***************************************************************************)
EXTENDS MoneyPath

MCAmounts == {0, 1, 5, 10, 50, 99, 100, 105, 150, 1000, 1250}

\* The text of an order is read until it is charged and the payment's notifications until there is a
\* refund: no later step reads them, and neither does a property whose answer could still change.
View ==
    <<path, provider, attempt, trade, refund, paidOut, advanced, rejected,
      IF trade = None \/ order = None THEN order ELSE <<order.currency, order.meant>>,
      IF refund = None THEN <<settled, refused>> ELSE <<>>>>
=============================================================================
