--------------------------- MODULE MCProxyControl ---------------------------
(* Instance of ProxyControl for TLC, with the two libraries of hals.conf. *)
EXTENDS ProxyControl

MCConfig == <<"ssc", "nothing">>

Sensor(h, d) == [handle |-> h, direct |-> d]

(* two use the same local handle, and one has index bits *)
MCSensorList ==
  [ssc |-> {Sensor(2, TRUE), Sensor(3, TRUE), Sensor(5, TRUE)}, nothing |-> {Sensor(2, TRUE)}]

(* the second connects a sensor with a local handle that the first uses,    *)
(* together with another and one whose handle has index bits                *)
MCDynamicLists == [ssc |-> {}, nothing |-> {{1, 3, 6}}]

MCDirectDynamic == {<<"nothing", 3>>}

MCStrangers == {-1, -8}
=============================================================================
