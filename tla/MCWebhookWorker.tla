--------------------------- MODULE MCWebhookWorker ----------------------------
(* Small instances of WebhookWorker for TLC.                               *)
EXTENDS WebhookWorker, TLC

CONSTANTS m1, m2, m3, w1, w2

KindOf == [m \in Message |-> CASE m = m1 -> "normal"
                               [] m = m2 -> "large"
                               [] OTHER  -> "malformed"]
AllNormal == [m \in Message |-> "normal"]

=============================================================================
