------------------------- MODULE MCThrottleDelivery -------------------------
(* A small instance of ThrottleDelivery: the loop as the only caller beside *)
(* the handlers, and lists as model values.                                 *)
EXTENDS ThrottleDelivery
=============================================================================
