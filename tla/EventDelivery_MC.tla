--------------------------- MODULE EventDelivery_MC ---------------------------
(* Instances of EventDelivery for TLC: two pods pulling from one consumer, *)
(* or one pod while the consumer is created, changed, deleted and created  *)
(* again.                                                                  *)
EXTENDS EventDelivery

TwoPods == [pods |-> {1, 2}, subjects |-> {"database"}, updates |-> 1]
Changing == [pods |-> {1}, subjects |-> {"database", "storage"}, updates |-> 3]
BothUsages == {TwoPods, Changing}
=============================================================================
