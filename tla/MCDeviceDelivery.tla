-------------------------- MODULE MCDeviceDelivery --------------------------
(* Instances of DeviceDelivery for model checking.                         *)
EXTENDS DeviceDelivery

CONSTANTS d1, d2

\* The oldest rollout has only d2, those after it d1.
OldestWithout == {<<1, d2>>, <<2, d1>>, <<3, d1>>}

\* The older rollout has only d1, the newer one only d2.
Apart == {<<1, d1>>, <<2, d2>>}
=============================================================================
