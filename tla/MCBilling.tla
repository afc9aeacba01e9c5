------------------------------ MODULE MCBilling ------------------------------
(* Instances of Billing for TLC. *)
EXTENDS Billing, TLC

CONSTANTS h1, h2, w1, w2, o1, o2, k1, k2, s1, s2, x1, x2, e1, e2, e3

Notice(e, o, x, ok) == [event |-> e, payment |-> o, external |-> x, matches |-> ok]

(* Two events of one payment, one event with two payloads, and one external    *)
(* id for two payments.                                                        *)
MixedWebhooks ==
  {Notice(e1, o1, x1, TRUE), Notice(e2, o1, x1, TRUE), Notice(e2, o2, x1, TRUE),
   Notice(e3, o2, x2, TRUE)}

(* Two events of one payment, one of them with a wrong amount. *)
RacingWebhooks == {Notice(e1, o1, x1, TRUE), Notice(e2, o1, x1, FALSE)}

EndsAtOne == [s \in Subs |-> 1]

HandlerAndKeySymmetry == Permutations(Handlers) \union Permutations(Keys)
=============================================================================
