--------------------------- MODULE MCEventDelivery ---------------------------
(* Instances of EventDelivery for TLC. *)
EXTENDS EventDeliveryProperties

(* batches of a wake-up sensor, of a plain sensor, and a mixed one that is  *)
(* longer than an FMQ of one event                                          *)
SmallBatches == {<<"wake">>, <<"plain">>}
MixedBatches == {<<"wake", "plain">>, <<"plain">>}
PickUpBatches == {<<"wake">>, <<"nopick">>}
WakeBatch == {<<"wake">>}
=============================================================================
