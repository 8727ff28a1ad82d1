------------------------------ MODULE Pricing ------------------------------
(***************************************************************************)
(* What an order costs and when it can be fetched: orders/services.py      *)
(* (validate_pricing) and orders/pickup.py.  Amounts are cents, times are  *)
(* minutes.  A line is a record with base, extras (of one unit) and qty.   *)
(***************************************************************************)
EXTENDS FiniteSetsExt

---------------------------------------------------------------------------
(* Prices *)

TaxRate == 725                    \* hundredths of a percent

\* A positive amount in hundredths of a percent of a cent, rounded half up.
Rounded(amount) == (amount + 5000) \div 10000

LineTotal(line) == (line.base + line.extras) * line.qty

Subtotal(lines) == MapThenSumSet(LineTotal, lines)

Tax(subtotal) == Rounded(subtotal * TaxRate)

OrderTotal(lines) == Subtotal(lines) + Tax(Subtotal(lines))

---------------------------------------------------------------------------
(* Pickup slots *)

MinPrepBuffer == 12
SlotSpacing == 15

RoundedUpToFive(m) == IF m % 5 = 0 THEN m ELSE m + 5 - (m % 5)

Asap(now) == RoundedUpToFive(now + MinPrepBuffer)

\* The two slots of a form made at this minute, besides "as soon as possible".
Slots(now) == { Asap(now) + SlotSpacing * k : k \in 0..1 }

\* The form is made anew when it is sent: the slot chosen must still be one.
AcceptedSlots(shown, now) == { s \in Slots(shown) : s \in Slots(now) /\ s > now }

\* No choice means no time; "as soon as possible" is taken at submission.
PickupTimes(shown, now) == {0, Asap(now)} \cup AcceptedSlots(shown, now)
=============================================================================
