---------------------------- MODULE MoneyPath_proofs ----------------------------
(***************************************************************************)
(* The conversions of MoneyPath undo each other for every amount, and what  *)
(* is charged and what settles agree with the order whatever amounts there  *)
(* are.  MoneyInv is inductive: the attempt holds what the order meant, the *)
(* trade what the attempt holds, and a notification in the provider's own   *)
(* format reads back as the amount it was written from.                     *)
(***************************************************************************)
EXTENDS MoneyPath, TLAPS

-----------------------------------------------------------------------------
(* Conversions *)

LEMMA DivMod == ASSUME NEW n \in Nat
                PROVE  /\ n \div 100 \in Nat /\ n % 100 \in 0 .. 99
                       /\ n = 100 * (n \div 100) + (n % 100)
                       /\ (n % 100) \div 10 \in 0 .. 9 /\ n % 10 \in 0 .. 9
                       /\ n % 100 = 10 * ((n % 100) \div 10) + (n % 10)
  BY Z3

LEMMA TwoDigits == ASSUME NEW a, NEW b
                   PROVE  /\ Len(<<a, b>>) = 2 /\ <<a, b>> # <<>>
                          /\ <<a, b>>[1] = a /\ <<a, b>>[2] = b
                          /\ DOMAIN <<a, b>> = 1 .. 2
  OBVIOUS

LEMMA OneDigit == ASSUME NEW a
                  PROVE  /\ Len(<<a>>) = 1 /\ <<a>> # <<>> /\ <<a>>[1] = a
                         /\ DOMAIN <<a>> = 1 .. 1
  OBVIOUS

LEMMA NoDigit == Len(<<>>) = 0 /\ DOMAIN <<>> = 1 .. 0
  OBVIOUS

\* What the reader of decimals makes of none, one and two digits.
LEMMA MajorOfTwo == ASSUME NEW text, NEW a \in Nat, NEW b \in Nat, text.whole \in Nat, text.fraction = <<a, b>>
                    PROVE  MajorToMinor(text) = 100 * text.whole + (10 * a + b)
  <1>1. Cents(text.fraction) = 10 * a + b
    BY TwoDigits DEF Cents
  <1>2. Len(text.fraction) = 2
    BY TwoDigits
  <1> QED
    BY <1>1, <1>2 DEF MajorToMinor

LEMMA MajorOfOne == ASSUME NEW text, NEW a \in Nat, text.whole \in Nat, text.fraction = <<a>>
                    PROVE  MajorToMinor(text) = 100 * text.whole + 10 * a
  <1>1. Cents(text.fraction) = 10 * a
    BY OneDigit DEF Cents
  <1>2. Len(text.fraction) = 1
    BY OneDigit
  <1> QED
    BY <1>1, <1>2 DEF MajorToMinor

LEMMA MajorOfNone == ASSUME NEW text, text.whole \in Nat, text.fraction = <<>>
                     PROVE  MajorToMinor(text) = 100 * text.whole
  <1>1. Cents(text.fraction) = 0
    BY DEF Cents
  <1>2. Len(text.fraction) = 0
    BY NoDigit
  <1> QED
    BY <1>1, <1>2 DEF MajorToMinor

\* An amount written for Alipay or PayPal reads back as the same number of smallest units, for every
\* amount (money.rs:30 against webhook_amount.rs:119).
THEOREM DecimalRoundTrip == ASSUME NEW n \in Nat
                            PROVE  MajorToMinor(MinorToDecimal(n)) = n
  <1> DEFINE text == MinorToDecimal(n)
  <1>1. text.whole = n \div 100 /\ text.fraction = <<(n % 100) \div 10, n % 10>>
    BY DEF MinorToDecimal
  <1>2. MajorToMinor(text) = 100 * (n \div 100) + (10 * ((n % 100) \div 10) + (n % 10))
    BY <1>1, DivMod, MajorOfTwo
  <1> QED
    BY <1>2, DivMod

LEMMA MinorIsText == ASSUME NEW n \in Nat
                     PROVE  MinorToDecimal(n) \in Text /\ MinorToDecimal(n).fraction # <<>>
  <1>1. <<(n % 100) \div 10, n % 10>> \in [1 .. 2 -> 0 .. 9]
    BY DivMod
  <1>2. <<(n % 100) \div 10, n % 10>> \in UNION {[1 .. k -> 0 .. 9] : k \in 0 .. 3}
    BY <1>1
  <1> QED
    BY <1>2, DivMod, TwoDigits DEF MinorToDecimal, Text

LEMMA DigitsIsText == ASSUME NEW n \in Nat
                      PROVE  Digits(n) \in Text /\ Digits(n).whole = n /\ Digits(n).fraction = <<>>
  <1>1. <<>> \in [1 .. 0 -> 0 .. 9]
    OBVIOUS
  <1>2. <<>> \in UNION {[1 .. k -> 0 .. 9] : k \in 0 .. 3}
    BY <1>1
  <1> QED
    BY <1>2 DEF Digits, Text

LEMMA ZerosAreText == ASSUME NEW n \in Nat
                      PROVE  [whole |-> n, fraction |-> <<0, 0>>] \in Text
  <1>1. <<0, 0>> \in [1 .. 2 -> 0 .. 9]
    OBVIOUS
  <1>2. <<0, 0>> \in UNION {[1 .. k -> 0 .. 9] : k \in 0 .. 3}
    BY <1>1
  <1> QED
    BY <1>2 DEF Text

LEMMA DecimalIsText == ASSUME NEW n \in Nat, NEW places \in 1 .. 2
                       PROVE  Decimal(n, places) \in Text
  <1>1. <<(n % 100) \div 10>> \in [1 .. 1 -> 0 .. 9]
    BY DivMod
  <1>2. <<(n % 100) \div 10, n % 10>> \in [1 .. 2 -> 0 .. 9]
    BY DivMod
  <1>3. Decimal(n, places).fraction \in UNION {[1 .. k -> 0 .. 9] : k \in 0 .. 3}
    BY <1>1, <1>2 DEF Decimal
  <1> QED
    BY <1>3, DivMod DEF Decimal, Text

\* Whatever format a provider writes an amount in, both readers give the amount back.
LEMMA ReadBack == ASSUME NEW n \in Nat
                  PROVE  /\ Written(n) \in Text
                         /\ Notified(Written(n)) = n
                         /\ NotifiedRefund(Written(n)) = n
  BY DecimalRoundTrip, MinorIsText, DigitsIsText DEF Written, Notified, NotifiedRefund

\* The three ways smallest units and old decimals are stored are told apart.
LEMMA StoredIsRead == ASSUME NEW n \in Nat
                      PROVE  /\ NormalizeStored(Digits(n)) = n
                             /\ NormalizeStored([whole |-> n, fraction |-> <<0, 0>>]) = n
                             /\ n % 100 # 0 =>
                                  NormalizeStored(Decimal(n, IF n % 10 = 0 THEN 1 ELSE 2)) = n
  <1>1. NormalizeStored(Digits(n)) = n
    BY DigitsIsText, NoDigit DEF NormalizeStored
  <1>2. NormalizeStored([whole |-> n, fraction |-> <<0, 0>>]) = n
    BY TwoDigits DEF NormalizeStored
  <1>3. ASSUME n % 100 # 0 PROVE NormalizeStored(Decimal(n, IF n % 10 = 0 THEN 1 ELSE 2)) = n
    <2>1. CASE n % 10 = 0
      <3> DEFINE text == Decimal(n, 1)
      <3>1. text.whole = n \div 100 /\ text.fraction = <<(n % 100) \div 10>>
        BY DEF Decimal
      <3>2. text.fraction[1] # 0 /\ 1 \in DOMAIN text.fraction
        BY <1>3, <2>1, <3>1, DivMod, OneDigit
      <3>3. MajorToMinor(text) = n
        <4>1. MajorToMinor(text) = 100 * (n \div 100) + 10 * ((n % 100) \div 10)
          BY <3>1, DivMod, MajorOfOne
        <4> QED
          BY <4>1, <2>1, DivMod
      <3> QED
        BY <2>1, <3>2, <3>3 DEF NormalizeStored
    <2>2. CASE n % 10 # 0
      <3> DEFINE text == Decimal(n, 2)
      <3>1. text.whole = n \div 100 /\ text.fraction = <<(n % 100) \div 10, n % 10>>
        BY DEF Decimal
      <3>2. text.fraction[2] # 0 /\ 2 \in DOMAIN text.fraction
        BY <2>2, <3>1, TwoDigits
      <3>3. MajorToMinor(text) = n
        <4>1. MajorToMinor(text) = 100 * (n \div 100) + (10 * ((n % 100) \div 10) + (n % 10))
          BY <3>1, DivMod, MajorOfTwo
        <4> QED
          BY <4>1, DivMod
      <3> QED
        BY <2>2, <3>2, <3>3 DEF NormalizeStored
    <2> QED
      BY <2>1, <2>2
  <1> QED
    BY <1>1, <1>2, <1>3

\* A test payment's decimal is stored as the amount its writer meant.
LEMMA EnteredIsMeant == ASSUME NEW n \in Nat, NEW places \in 0 .. 2,
                               places = 0 => n % 100 = 0, places = 1 => n % 10 = 0
                        PROVE  MajorToMinor(Decimal(n, places)) = n
  <1> DEFINE text == Decimal(n, places)
  <1>0. text.whole = n \div 100
    BY DEF Decimal
  <1>1. CASE places = 0
    <2>1. text.fraction = <<>>
      BY <1>1 DEF Decimal
    <2>2. MajorToMinor(text) = 100 * (n \div 100)
      BY <1>0, <2>1, DivMod, MajorOfNone
    <2> QED
      BY <2>2, <1>1, DivMod
  <1>2. CASE places = 1
    <2>1. text.fraction = <<(n % 100) \div 10>>
      BY <1>2 DEF Decimal
    <2>2. MajorToMinor(text) = 100 * (n \div 100) + 10 * ((n % 100) \div 10)
      BY <1>0, <2>1, DivMod, MajorOfOne
    <2> QED
      BY <2>2, <1>2, DivMod
  <1>3. CASE places = 2
    <2>1. text.fraction = <<(n % 100) \div 10, n % 10>>
      BY <1>3 DEF Decimal
    <2>2. MajorToMinor(text) = 100 * (n \div 100) + (10 * ((n % 100) \div 10) + (n % 10))
      BY <1>0, <2>1, DivMod, MajorOfTwo
    <2> QED
      BY <2>2, DivMod
  <1> QED
    BY <1>1, <1>2, <1>3

-----------------------------------------------------------------------------
(* The invariant *)

\* The order reads back as what its writer meant.
OrderRead ==
    order # None =>
        /\ order \in [text : Text, currency : Currencies, meant : Nat]
        /\ NormalizeStored(order.text) = order.meant

\* The attempt holds what the order meant; the one-step route has checked the currency.
AttemptMeant ==
    attempt # None =>
        /\ order # None /\ attempt = order.meant
        /\ path = "pay" => order.currency # "JPY"

\* The provider charges what the attempt holds.
TradeCharges ==
    trade # None =>
        /\ attempt # None /\ trade.currency = order.currency
        /\ Hundredths => trade.amount = attempt

\* Nothing is answered before it is asked, and what is paid out is the refund.
Asked ==
    /\ settled # None \/ refused # {} => trade # None
    /\ refund # None => settled # None
    /\ advanced # None \/ rejected # {} => paidOut # None
    /\ paidOut # None => refund # None /\ (Hundredths => paidOut = refund)

MoneyInv ==
    /\ TypeOK /\ OrderRead /\ AttemptMeant /\ TradeCharges /\ Asked
    /\ HonestNoticeSettles /\ ForeignNoticeRefused /\ RefundNoticeMatches

LEMMA MoneyInit == Init => MoneyInv
  BY DEF Init, MoneyInv, TypeOK, OrderRead, AttemptMeant, TradeCharges, Asked, Hundredths,
         HonestNoticeSettles, ForeignNoticeRefused, RefundNoticeMatches

LEMMA OrderStep == MoneyInv /\ (PlaceOrder \/ OldOrder \/ TestPayment) => MoneyInv'
  <1> SUFFICES ASSUME MoneyInv, PlaceOrder \/ OldOrder \/ TestPayment
               PROVE  MoneyInv'
    OBVIOUS
  <1> USE AmountsAssumption
  <1>1. order = None /\ attempt = None /\ trade = None /\ settled = None /\ refused = {}
        /\ refund = None /\ paidOut = None /\ advanced = None /\ rejected = {}
    BY DEF MoneyInv, AttemptMeant, TradeCharges, Asked, PlaceOrder, OldOrder, TestPayment
  <1>2. /\ UNCHANGED <<provider, attempt, trade, settled, refused, refund, paidOut, advanced, rejected>>
        /\ path' \in {path, "intent"}
    BY DEF PlaceOrder, OldOrder, TestPayment
  <1>3. /\ order' \in [text : Text, currency : Currencies, meant : Nat]
        /\ NormalizeStored(order'.text) = order'.meant
    <2>1. CASE PlaceOrder
      <3>1. PICK n \in Amounts, zeros \in {<<>>, <<0, 0>>}, currency \in Currencies :
               order' = [text |-> [whole |-> n, fraction |-> zeros], currency |-> currency, meant |-> n]
        BY <2>1 DEF PlaceOrder
      <3>2. n \in Nat
        OBVIOUS
      <3> DEFINE stored == [whole |-> n, fraction |-> zeros]
      <3>3. stored \in Text /\ NormalizeStored(stored) = n
        <4>1. CASE zeros = <<>>
          <5>1. stored = Digits(n)
            BY <4>1 DEF Digits
          <5>2. Digits(n) \in Text /\ NormalizeStored(Digits(n)) = n
            BY <3>2, StoredIsRead, DigitsIsText
          <5> HIDE DEF stored
          <5> QED
            BY <5>1, <5>2
        <4>2. CASE zeros = <<0, 0>>
          BY <3>2, <4>2, StoredIsRead, ZerosAreText
        <4> QED
          BY <4>1, <4>2
      <3> HIDE DEF stored
      <3>4. order' = [text |-> stored, currency |-> currency, meant |-> n]
        BY <3>1 DEF stored
      <3> QED
        BY <3>2, <3>3, <3>4
    <2>2. CASE OldOrder
      <3>1. PICK n \in Amounts :
               /\ n % 100 # 0
               /\ order' = [text |-> Decimal(n, IF n % 10 = 0 THEN 1 ELSE 2), currency |-> "CNY", meant |-> n]
        BY <2>2 DEF OldOrder
      <3>2. n \in Nat
        OBVIOUS
      <3> DEFINE stored == Decimal(n, IF n % 10 = 0 THEN 1 ELSE 2)
      <3>3. stored \in Text
        BY <3>2, DecimalIsText
      <3>4. NormalizeStored(stored) = n
        BY <3>1, <3>2, StoredIsRead
      <3> HIDE DEF stored
      <3>5. order' = [text |-> stored, currency |-> "CNY", meant |-> n]
        BY <3>1 DEF stored
      <3> QED
        BY <3>2, <3>3, <3>4, <3>5 DEF Currencies
    <2>3. CASE TestPayment
      <3>1. PICK n \in Amounts, currency \in Currencies, places \in 0 .. 2 :
               /\ places = 0 => n % 100 = 0
               /\ places = 1 => n % 10 = 0
               /\ order' = [text |-> Digits(MajorToMinor(Decimal(n, places))),
                            currency |-> currency, meant |-> n]
        BY <2>3 DEF TestPayment
      <3>2. n \in Nat
        OBVIOUS
      <3>3. MajorToMinor(Decimal(n, places)) = n
        BY <3>1, <3>2, EnteredIsMeant
      <3> QED
        BY <3>1, <3>2, <3>3, StoredIsRead, DigitsIsText
    <2> QED
      BY <2>1, <2>2, <2>3
  <1> QED
    BY <1>1, <1>2, <1>3 DEF MoneyInv, TypeOK, OrderRead, AttemptMeant, TradeCharges, Asked, Hundredths,
       HonestNoticeSettles, ForeignNoticeRefused, RefundNoticeMatches

LEMMA AttemptStep == MoneyInv /\ CreateAttempt => MoneyInv'
  <1> SUFFICES ASSUME MoneyInv, CreateAttempt PROVE MoneyInv'
    OBVIOUS
  <1>1. order # None /\ attempt = None /\ trade = None /\ settled = None /\ refused = {}
        /\ refund = None /\ paidOut = None /\ advanced = None /\ rejected = {}
    BY DEF MoneyInv, TradeCharges, Asked, CreateAttempt
  <1>2. attempt' = order.meant /\ order.meant \in Nat
    BY <1>1 DEF MoneyInv, OrderRead, CreateAttempt
  <1>3. path' \in {"pay", "intent"} /\ (path' = "pay" => order.currency # "JPY")
    BY DEF MoneyInv, TypeOK, CreateAttempt, CurrencySupported
  <1> QED
    BY <1>1, <1>2, <1>3 DEF CreateAttempt, MoneyInv, TypeOK, OrderRead, AttemptMeant, TradeCharges, Asked,
       Hundredths, HonestNoticeSettles, ForeignNoticeRefused, RefundNoticeMatches

\* A provider takes a decimal for the amount it was written from, in hundredths.
LEMMA ChargedAsWritten == ASSUME NEW n \in Nat, NEW currency \in Currencies
                          PROVE  /\ SmallestUnits(MinorToDecimal(n), currency) \in Nat
                                 /\ currency # "JPY" => SmallestUnits(MinorToDecimal(n), currency) = n
  BY DecimalRoundTrip, DivMod DEF SmallestUnits, MinorToDecimal

LEMMA ChargeStep == MoneyInv /\ Charge => MoneyInv'
  <1> SUFFICES ASSUME MoneyInv, Charge PROVE MoneyInv'
    OBVIOUS
  <1> USE AmountsAssumption
  <1>1. attempt # None /\ order # None /\ trade = None /\ settled = None /\ refused = {}
        /\ refund = None /\ paidOut = None /\ advanced = None /\ rejected = {}
    BY DEF MoneyInv, AttemptMeant, TradeCharges, Asked, Charge
  <1>2. attempt \in Nat /\ order.currency \in Currencies
    BY <1>1 DEF MoneyInv, TypeOK, OrderRead
  <1>3. /\ trade' \in [currency : Currencies, amount : Nat]
        /\ trade'.currency = order.currency
        /\ order.currency # "JPY" => trade'.amount = attempt
    BY <1>2, ChargedAsWritten DEF Charge
  <1>4. Hundredths => order.currency # "JPY"
    BY <1>1 DEF Hundredths, MoneyInv, AttemptMeant
  <1>5. UNCHANGED <<order, path, provider, attempt, settled, refused, refund, paidOut, advanced, rejected>>
    BY DEF Charge
  <1> QED
    BY <1>1, <1>3, <1>4, <1>5 DEF MoneyInv, TypeOK, OrderRead, AttemptMeant, TradeCharges, Asked,
       Hundredths, HonestNoticeSettles, ForeignNoticeRefused, RefundNoticeMatches

LEMMA NotifyStep == MoneyInv /\ Notify => MoneyInv'
  <1> SUFFICES ASSUME MoneyInv, Notify PROVE MoneyInv'
    OBVIOUS
  <1> USE AmountsAssumption
  <1>1. trade # None /\ attempt # None /\ order # None /\ settled = None
        /\ refund = None /\ paidOut = None /\ advanced = None /\ rejected = {}
    BY DEF MoneyInv, AttemptMeant, TradeCharges, Asked, Notify
  <1>2. /\ trade \in [currency : Currencies, amount : Nat] /\ trade.currency = order.currency
        /\ Hundredths => trade.amount = attempt
    BY <1>1 DEF MoneyInv, TypeOK, TradeCharges
  <1>3. UNCHANGED <<order, path, provider, attempt, trade, refund, paidOut, advanced, rejected>>
    BY DEF Notify
  <1>4. PICK own \in BOOLEAN, n \in Amounts \cup {trade.amount}, currency \in Currencies, readable \in BOOLEAN :
           /\ own => n = trade.amount /\ currency = trade.currency
           /\ LET notice == [own |-> own, amount |-> n,
                             text |-> IF readable THEN Written(n) ELSE None, currency |-> Names(currency)]
              IN  IF Agrees(notice) THEN settled' = notice /\ UNCHANGED refused
                  ELSE refused' = {notice} /\ UNCHANGED settled
    BY DEF Notify
  <1> DEFINE notice == [own |-> own, amount |-> n,
                        text |-> IF readable THEN Written(n) ELSE None, currency |-> Names(currency)]
  <1>5. n \in Nat
    BY <1>2
  <1>6. /\ notice.own = own /\ notice.amount = n /\ notice.text \in Text \cup {None}
        /\ notice.text # None => Notified(notice.text) = n
        /\ notice.currency \in {None, currency}
    BY <1>5, ReadBack DEF Names
  <1> HIDE DEF notice
  <1>7. CASE Agrees(notice)
    <2>1. settled' = notice /\ refused' = refused
      BY <1>4, <1>7 DEF notice
    <2>2. notice.text # None =>
             n = attempt /\ (notice.currency # None => notice.currency = order.currency)
      BY <1>6, <1>7 DEF Agrees
    <2>3. ForeignNoticeRefused'
      BY <1>2, <1>3, <1>6, <2>1, <2>2 DEF ForeignNoticeRefused, Hundredths
    <2> QED
      BY <1>1, <1>3, <1>5, <1>6, <2>1, <2>3 DEF MoneyInv, TypeOK, OrderRead, AttemptMeant, TradeCharges, Asked,
         Hundredths, HonestNoticeSettles, RefundNoticeMatches
  <1>8. CASE ~Agrees(notice)
    <2>1. refused' = {notice} /\ settled' = settled
      BY <1>4, <1>8 DEF notice
    <2>2. Hundredths => ~own
      BY <1>2, <1>4, <1>6, <1>8 DEF Agrees
    <2>3. HonestNoticeSettles'
      BY <1>3, <1>6, <2>1, <2>2 DEF HonestNoticeSettles, Hundredths
    <2> QED
      BY <1>1, <1>3, <1>5, <1>6, <2>1, <2>3 DEF MoneyInv, TypeOK, OrderRead, AttemptMeant, TradeCharges, Asked,
         Hundredths, ForeignNoticeRefused, RefundNoticeMatches
  <1> QED
    BY <1>7, <1>8

LEMMA CreateRefundStep == MoneyInv /\ CreateRefund => MoneyInv'
  <1> SUFFICES ASSUME MoneyInv, CreateRefund PROVE MoneyInv'
    OBVIOUS
  <1> USE AmountsAssumption
  <1>1. settled # None /\ trade # None /\ attempt # None /\ attempt \in Nat /\ refund = None /\ paidOut = None
    BY DEF MoneyInv, TypeOK, TradeCharges, Asked, CreateRefund
  <1>2. refund' \in Nat
    BY <1>1 DEF CreateRefund
  <1> QED
    BY <1>1, <1>2 DEF CreateRefund, MoneyInv, TypeOK, OrderRead, AttemptMeant, TradeCharges, Asked, Hundredths,
       HonestNoticeSettles, ForeignNoticeRefused, RefundNoticeMatches

LEMMA PayOutStep == MoneyInv /\ PayOut => MoneyInv'
  <1> SUFFICES ASSUME MoneyInv, PayOut PROVE MoneyInv'
    OBVIOUS
  <1> USE AmountsAssumption
  <1>1. /\ refund # None /\ refund \in Nat /\ settled # None /\ trade # None /\ attempt # None /\ order # None
        /\ paidOut = None /\ advanced = None /\ rejected = {}
    BY DEF MoneyInv, TypeOK, AttemptMeant, TradeCharges, Asked, PayOut
  <1>2. trade.currency \in Currencies /\ trade.currency = order.currency
    BY <1>1 DEF MoneyInv, TypeOK, TradeCharges
  <1>3. paidOut' \in Nat /\ (trade.currency # "JPY" => paidOut' = refund)
    BY <1>1, <1>2, ChargedAsWritten DEF PayOut
  <1>4. Hundredths => trade.currency # "JPY"
    BY <1>1, <1>2 DEF Hundredths, MoneyInv, AttemptMeant
  <1>5. UNCHANGED <<order, path, provider, attempt, trade, settled, refused, refund, advanced, rejected>>
    BY DEF PayOut
  <1> QED
    BY <1>1, <1>3, <1>4, <1>5 DEF MoneyInv, TypeOK, OrderRead, AttemptMeant, TradeCharges, Asked, Hundredths,
       HonestNoticeSettles, ForeignNoticeRefused, RefundNoticeMatches

LEMMA NotifyRefundStep == MoneyInv /\ NotifyRefund => MoneyInv'
  <1> SUFFICES ASSUME MoneyInv, NotifyRefund PROVE MoneyInv'
    OBVIOUS
  <1> USE AmountsAssumption
  <1>1. paidOut # None /\ paidOut \in Nat /\ refund # None /\ (Hundredths => paidOut = refund)
    BY DEF MoneyInv, TypeOK, Asked, NotifyRefund
  <1>2. UNCHANGED <<order, path, provider, attempt, trade, settled, refused, refund, paidOut>>
    BY DEF NotifyRefund
  <1>3. PICK own \in BOOLEAN, readable \in BOOLEAN, n \in Amounts \cup {paidOut} :
           /\ own => n = paidOut
           /\ LET notice == [own |-> own, amount |-> n, text |-> IF readable THEN RefundText(n) ELSE None]
              IN  IF notice.text = None \/ NotifiedRefund(notice.text) = refund
                  THEN advanced' = notice /\ UNCHANGED rejected
                  ELSE rejected' = {notice} /\ UNCHANGED advanced
    BY DEF NotifyRefund
  <1> DEFINE notice == [own |-> own, amount |-> n, text |-> IF readable THEN RefundText(n) ELSE None]
  <1>4. n \in Nat
    BY <1>1
  <1>5. /\ notice.own = own /\ notice.amount = n /\ notice.text \in Text \cup {None}
        /\ notice.text # None => NotifiedRefund(notice.text) = n
    BY <1>4, ReadBack DEF RefundText
  <1> HIDE DEF notice
  <1>6. CASE notice.text = None \/ NotifiedRefund(notice.text) = refund
    <2>1. advanced' = notice /\ rejected' = rejected
      BY <1>3, <1>6 DEF notice
    <2>2. RefundNoticeMatches'
      BY <1>2, <1>5, <1>6, <2>1 DEF MoneyInv, RefundNoticeMatches, Hundredths
    <2> QED
      BY <1>1, <1>2, <1>4, <1>5, <2>1, <2>2 DEF MoneyInv, TypeOK, OrderRead, AttemptMeant, TradeCharges, Asked,
         Hundredths, HonestNoticeSettles, ForeignNoticeRefused
  <1>7. CASE ~(notice.text = None \/ NotifiedRefund(notice.text) = refund)
    <2>1. rejected' = {notice} /\ advanced' = advanced
      BY <1>3, <1>7 DEF notice
    <2>2. Hundredths => ~own
      BY <1>1, <1>3, <1>5, <1>7
    <2>3. RefundNoticeMatches'
      BY <1>2, <1>5, <2>1, <2>2 DEF MoneyInv, RefundNoticeMatches, Hundredths
    <2> QED
      BY <1>1, <1>2, <1>4, <1>5, <2>1, <2>3 DEF MoneyInv, TypeOK, OrderRead, AttemptMeant, TradeCharges, Asked,
         Hundredths, HonestNoticeSettles, ForeignNoticeRefused
  <1> QED
    BY <1>6, <1>7

LEMMA MoneyNext == MoneyInv /\ [Next]_vars => MoneyInv'
  <1> SUFFICES ASSUME MoneyInv, [Next]_vars PROVE MoneyInv'
    OBVIOUS
  <1>1. CASE UNCHANGED vars
    BY <1>1 DEF vars, MoneyInv, TypeOK, OrderRead, AttemptMeant, TradeCharges, Asked, Hundredths,
       HonestNoticeSettles, ForeignNoticeRefused, RefundNoticeMatches
  <1>2. CASE Next
    BY <1>2, OrderStep, AttemptStep, ChargeStep, NotifyStep, CreateRefundStep, PayOutStep, NotifyRefundStep
       DEF Next
  <1> QED
    BY <1>1, <1>2

\* Reachable states are well formed and satisfy the invariant, whatever the amounts.
THEOREM MoneyInvariant == Spec => []MoneyInv
  BY MoneyInit, MoneyNext, PTL DEF Spec

\* The state is well formed.
THEOREM TypeCorrect == Spec => []TypeOK
  <1>1. MoneyInv => TypeOK
    BY DEF MoneyInv
  <1> QED
    BY <1>1, MoneyInvariant, PTL

\* A provider charges what the order meant, in whatever form the order was stored (shared.rs:341).
THEOREM ChargesWhatIsMeant == Spec => []ChargeIsMeant
  <1>1. MoneyInv => ChargeIsMeant
    BY DEF MoneyInv, AttemptMeant, TradeCharges, ChargeIsMeant
  <1> QED
    BY <1>1, MoneyInvariant, PTL

\* A provider's own success notification is never refused for its amount (webhook_amount.rs:38).
THEOREM HonestNoticesSettle == Spec => []HonestNoticeSettles
  <1>1. MoneyInv => HonestNoticeSettles
    BY DEF MoneyInv
  <1> QED
    BY <1>1, MoneyInvariant, PTL

\* One that names another amount or currency never settles (postgres_webhook_ingestion.rs:476).
THEOREM ForeignNoticesRefused == Spec => []ForeignNoticeRefused
  <1>1. MoneyInv => ForeignNoticeRefused
    BY DEF MoneyInv
  <1> QED
    BY <1>1, MoneyInvariant, PTL

\* Refund notifications agree with the refund they advance (postgres_refund_webhook_ingestion.rs:496).
THEOREM RefundNoticesMatch == Spec => []RefundNoticeMatches
  <1>1. MoneyInv => RefundNoticeMatches
    BY DEF MoneyInv
  <1> QED
    BY <1>1, MoneyInvariant, PTL
=============================================================================
