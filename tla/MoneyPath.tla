------------------------------- MODULE MoneyPath -------------------------------
(***************************************************************************)
(* The amount of one payment on its way from the order to the provider and  *)
(* back.  Orders, attempts and refunds hold smallest units (cents); Alipay  *)
(* and PayPal are spoken to in major-unit decimals, WeChat Pay and Stripe   *)
(* in smallest units; old orders and the back office's test payments are    *)
(* written as decimals.  A notification settles the attempt, or advances    *)
(* the refund, only if the amount it names is the stored one.              *)
(*                                                                         *)
(* A written amount is its whole part and the digits of its fraction;       *)
(* amounts of the NUMERIC(18,2) columns fit the code's 64-bit integers.     *)
(***************************************************************************)
EXTENDS Naturals, Sequences

CONSTANTS
    Amounts,  \* the amounts, in smallest units, of orders, refunds and foreign notifications
    None      \* not there, or not readable

ASSUME AmountsAssumption == Amounts \subseteq Nat /\ None \notin Nat

VARIABLES
    order,     \* what the order says: text and currency; meant, the amount its writer meant
    path,      \* "pay" for the one-step route, "intent" for intent and attempt
    provider,  \* the provider the order is paid with
    attempt,   \* the amount of the attempt
    trade,     \* the provider's record of the payment
    settled,   \* the notification that has settled the attempt
    refused,   \* notifications of the trade that were refused
    refund,    \* the amount of a refund
    paidOut,   \* the provider's record of it
    advanced,  \* the notification that has advanced the refund
    rejected   \* notifications of the refund that were refused

vars == <<order, path, provider, attempt, trade, settled, refused, refund, paidOut, advanced, rejected>>

Providers == {"alipay", "paypal", "wechat_pay", "stripe"}
Decimals == {"alipay", "paypal"}    \* providers spoken to in decimals
Currencies == {"CNY", "USD", "JPY"}
Text == [whole : Nat, fraction : UNION {[1 .. n -> 0 .. 9] : n \in 0 .. 3}]
TestLimit == 10000                  \* TEST_PAYMENT_AMOUNT_MAX_MINOR_UNITS

-----------------------------------------------------------------------------
(* Conversions *)

\* A bug: a single digit is not padded.
Cents_Unpadded(fraction) ==
    IF fraction = <<>> THEN 0
    ELSE IF Len(fraction) = 1 THEN fraction[1] ELSE 10 * fraction[1] + fraction[2]

\* The fraction, padded to two digits.
Cents(fraction) ==
    IF fraction = <<>> THEN 0
    ELSE IF Len(fraction) = 1 THEN 10 * fraction[1] ELSE 10 * fraction[1] + fraction[2]

\* A bug: a single digit of cents is not padded.
MinorToDecimal_Unpadded(amount) ==
    [whole |-> amount \div 100,
     fraction |-> IF amount % 100 < 10 THEN <<amount % 10>> ELSE <<(amount % 100) \div 10, amount % 10>>]

\* minor_to_decimal_string, minor_units_to_decimal_string.
MinorToDecimal(amount) ==
    [whole |-> amount \div 100, fraction |-> <<(amount % 100) \div 10, amount % 10>>]

\* The same amount as people write it, with so many places.
Decimal(amount, places) ==
    [whole |-> amount \div 100,
     fraction |-> IF places = 0 THEN <<>>
                  ELSE IF places = 1 THEN <<(amount % 100) \div 10>>
                  ELSE <<(amount % 100) \div 10, amount % 10>>]

\* An integer of smallest units.
Digits(amount) == [whole |-> amount, fraction |-> <<>>]

\* major_decimal_to_minor, decimal_amount_minor_units: at most two digits.
MajorToMinor(text) ==
    IF Len(text.fraction) > 2 THEN None ELSE 100 * text.whole + Cents(text.fraction)

\* A bug: every decimal is in major units.
NormalizeStored_AllMajor(text) ==
    IF text.fraction = <<>> THEN text.whole ELSE MajorToMinor(text)

\* normalize_stored_money_amount: a fraction of zeros is how the column writes smallest units,
\* any other fraction is an old amount in major units.
NormalizeStored(text) ==
    IF \A i \in DOMAIN text.fraction : text.fraction[i] = 0
    THEN IF Len(text.fraction) > 2 THEN None ELSE text.whole
    ELSE MajorToMinor(text)

\* A bug: refund amounts are always in smallest units.
NotifiedRefund_Minor(text) == IF text.fraction = <<>> THEN text.whole ELSE None

\* parse_notified_refund_minor: what has a fraction is in major units.
NotifiedRefund(text) == IF text.fraction = <<>> THEN text.whole ELSE MajorToMinor(text)

\* ensure_currency_supported: smallest units are hundredths.
CurrencySupported(currency) == currency # "JPY"

\* A bug: any three letters are a currency.
CurrencySupported_Any(currency) == currency \in Currencies

\* How much of its own smallest units a provider takes a decimal for.
SmallestUnits(text, currency) ==
    IF currency = "JPY" THEN text.whole ELSE MajorToMinor(text)

-----------------------------------------------------------------------------
Init ==
    /\ order = None /\ path = None /\ provider = None
    /\ attempt = None /\ trade = None
    /\ settled = None /\ refused = {}
    /\ refund = None /\ paidOut = None
    /\ advanced = None /\ rejected = {}

\* The order service writes smallest units, with or without the column's zeros.
PlaceOrder ==
    /\ order = None
    /\ \E n \in Amounts, zeros \in {<<>>, <<0, 0>>}, currency \in Currencies :
          order' = [text |-> [whole |-> n, fraction |-> zeros], currency |-> currency, meant |-> n]
    /\ UNCHANGED <<path, provider, attempt, trade, settled, refused, refund, paidOut, advanced, rejected>>

\* An old order: major units, whose fraction is not zero.
OldOrder ==
    /\ order = None
    /\ \E n \in Amounts :
          /\ n % 100 # 0
          /\ order' = [text |-> Decimal(n, IF n % 10 = 0 THEN 1 ELSE 2), currency |-> "CNY", meant |-> n]
    /\ UNCHANGED <<path, provider, attempt, trade, settled, refused, refund, paidOut, advanced, rejected>>

\* create_test_payment and insert_test_order: the operator's decimal, of at most a hundred units,
\* stored in smallest units and paid over an intent.
TestPayment ==
    /\ order = None
    /\ \E n \in Amounts, currency \in Currencies, places \in 0 .. 2 :
          /\ (places = 0 => n % 100 = 0) /\ (places = 1 => n % 10 = 0)
          /\ LET amount == MajorToMinor(Decimal(n, places))
             IN  /\ amount # None /\ amount <= TestLimit
                 /\ order' = [text |-> Digits(amount), currency |-> currency, meant |-> n]
    /\ path' = "intent"
    /\ UNCHANGED <<provider, attempt, trade, settled, refused, refund, paidOut, advanced, rejected>>

\* pay_owner_order checks the currency and the amount; the route over an intent does not.
CreateAttempt ==
    /\ order # None /\ attempt = None
    /\ LET amount == NormalizeStored(order.text)
       IN  /\ amount # None
           /\ path' \in IF path = None THEN {"pay", "intent"} ELSE {path}
           /\ path' = "pay" => amount > 0 /\ CurrencySupported(order.currency)
           /\ attempt' = amount
    /\ provider' \in Providers
    /\ UNCHANGED <<order, trade, settled, refused, refund, paidOut, advanced, rejected>>

\* enrich_pay_owner_order_outcome and create_payment_intent of the adapters.
Charge ==
    /\ attempt # None /\ attempt > 0 /\ trade = None
    /\ provider \in {"alipay", "wechat_pay"} => order.currency = "CNY"
    /\ trade' = [currency |-> order.currency,
                 amount |-> IF provider \in Decimals
                            THEN SmallestUnits(MinorToDecimal(attempt), order.currency) ELSE attempt]
    /\ UNCHANGED <<order, path, provider, attempt, settled, refused, refund, paidOut, advanced, rejected>>

-----------------------------------------------------------------------------
\* What a notification of an amount says; Alipay and WeChat Pay name no currency.
Written(amount) == IF provider \in Decimals THEN MinorToDecimal(amount) ELSE Digits(amount)
Names(currency) == IF provider \in {"alipay", "wechat_pay"} THEN None ELSE currency

\* extract_notified_payment_amount.
Notified(text) == IF provider \in Decimals THEN MajorToMinor(text) ELSE text.whole

\* A bug: the currency is not compared.
Agrees_AnyCurrency(notice) == notice.text = None \/ Notified(notice.text) = attempt

\* apply_webhook_payment_status: an amount or a currency that is named must be the attempt's.
Agrees(notice) ==
    notice.text = None \/
        /\ Notified(notice.text) = attempt
        /\ notice.currency # None => notice.currency = order.currency

\* A success notification: of the trade, of someone else's payment, or without an amount.
Notify ==
    /\ trade # None /\ settled = None
    /\ \E own \in BOOLEAN, n \in Amounts \cup {trade.amount}, currency \in Currencies, readable \in BOOLEAN :
          /\ own => n = trade.amount /\ currency = trade.currency
          /\ LET notice == [own |-> own, amount |-> n,
                            text |-> IF readable THEN Written(n) ELSE None, currency |-> Names(currency)]
             IN  IF Agrees(notice) THEN settled' = notice /\ UNCHANGED refused
                 ELSE refused' = {notice} /\ UNCHANGED settled
    /\ UNCHANGED <<order, path, provider, attempt, trade, refund, paidOut, advanced, rejected>>

\* resolve_refund_amount and validate_refund_bounds: the whole payment, or a part of it.
CreateRefund ==
    /\ settled # None /\ refund = None
    /\ refund' \in {attempt} \cup {n \in Amounts : 0 < n /\ n <= attempt}
    /\ UNCHANGED <<order, path, provider, attempt, trade, settled, refused, paidOut, advanced, rejected>>

\* create_refund of the adapters.
PayOut ==
    /\ refund # None /\ paidOut = None
    /\ paidOut' = IF provider \in Decimals
                  THEN SmallestUnits(MinorToDecimal(refund), trade.currency) ELSE refund
    /\ UNCHANGED <<order, path, provider, attempt, trade, settled, refused, refund, advanced, rejected>>

\* parse_refund_notify_facts: PayPal's refund events are not read.
RefundText(amount) == IF provider = "paypal" THEN None ELSE Written(amount)

\* apply_webhook_refund_status: a notification of this refund, with its own or another amount.
NotifyRefund ==
    /\ paidOut # None /\ advanced = None
    /\ \E own, readable \in BOOLEAN, n \in Amounts \cup {paidOut} :
          /\ own => n = paidOut
          /\ LET notice == [own |-> own, amount |-> n, text |-> IF readable THEN RefundText(n) ELSE None]
             IN  IF notice.text = None \/ NotifiedRefund(notice.text) = refund
                 THEN advanced' = notice /\ UNCHANGED rejected
                 ELSE rejected' = {notice} /\ UNCHANGED advanced
    /\ UNCHANGED <<order, path, provider, attempt, trade, settled, refused, refund, paidOut>>

Next ==
    \/ PlaceOrder \/ OldOrder \/ TestPayment
    \/ CreateAttempt \/ Charge \/ Notify
    \/ CreateRefund \/ PayOut \/ NotifyRefund

Spec == Init /\ [][Next]_vars

-----------------------------------------------------------------------------
(* Properties *)

\* The state is well formed.
TypeOK ==
    /\ order = None \/ order \in [text : Text, currency : Currencies, meant : Nat]
    /\ path \in {"pay", "intent", None} /\ provider \in Providers \cup {None}
    /\ attempt \in Nat \cup {None} /\ refund \in Nat \cup {None} /\ paidOut \in Nat \cup {None}
    /\ trade = None \/ trade \in [currency : Currencies, amount : Nat]
    /\ \A notice \in {settled, advanced} \cup refused \cup rejected :
          notice = None \/ (notice.own \in BOOLEAN /\ notice.amount \in Nat /\ notice.text \in Text \cup {None})

\* Hundredths of the currency: all amounts on the one-step route.
Hundredths == order # None /\ (path = "pay" \/ order.currency # "JPY")

\* What the provider charges is what the writer of the order meant, to the cent, in whatever form
\* the order was written and the provider is told (money.rs:36, shared.rs:336).
ChargeIsMeant == trade # None /\ Hundredths => trade.amount = order.meant

\* A provider's own success notification, read back from its format, is never refused for its
\* amount: what money has paid is settled (webhook_amount.rs:1).
HonestNoticeSettles == Hundredths => \A notice \in refused : ~notice.own

\* A success notification that names another amount or currency than was charged never settles the
\* attempt (postgres_webhook_ingestion.rs:476).
ForeignNoticeRefused ==
    settled # None /\ settled.text # None /\ Hundredths =>
        settled.amount = trade.amount /\ settled.currency \in {None, trade.currency}

\* A refund notification of the amount that was paid out is never refused, and one that names
\* another amount never advances the refund (postgres_refund_webhook_ingestion.rs:496).
RefundNoticeMatches ==
    Hundredths =>
        /\ \A notice \in rejected : ~notice.own
        /\ advanced # None /\ advanced.text # None => advanced.amount = refund
=============================================================================
