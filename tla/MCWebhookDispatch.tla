------------------------- MODULE MCWebhookDispatch -------------------------
(* Instances of WebhookDispatch for model checking.                        *)
EXTENDS WebhookDispatch

CONSTANTS e1, e2, s1, s2

\* The first event goes to both subscribers, the second to one of them.
SomeMatch == {<<e1, s1>>, <<e1, s2>>, <<e2, s2>>}
=============================================================================
