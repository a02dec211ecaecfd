-------------------------- MODULE MCWebhookRegistry ---------------------------
(* Small instances of WebhookRegistry for TLC.                             *)
EXTENDS WebhookRegistry, TLC

CONSTANTS q1, q2, q3, u1, u2, u3, i1, i2

\* Two requests with one key, and one with another.
TwoKeys == [q \in Create |-> IF q = q3 THEN i2 ELSE i1]

\* The updates race for the webhook of q1: on, off and a change of the url.
OneTarget == [u \in Update |-> q1]
Changes == [u \in Update |-> CASE u = u1 -> "off"
                               [] u = u2 -> "keep"
                               [] OTHER  -> "on"]
=============================================================================
