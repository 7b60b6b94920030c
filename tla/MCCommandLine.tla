--------------------------- MODULE MCCommandLine ---------------------------
(* CommandLine for a phone with a baseband, a pod without, a device the    *)
(* listing does not know, and two that share a board.                      *)
EXTENDS CommandLine, TLC

MCListedDevices == (FALSE :> {"phone", "pod"}) @@ (TRUE :> {"phone"})

(* The pod has two boards, one board is that of two devices.               *)
MCirecvDevices ==
  <<[product_type |-> "phone", hardware_model |-> "phoneap"],
    [product_type |-> "pod", hardware_model |-> "podap"],
    [product_type |-> "pod", hardware_model |-> "poddev"],
    [product_type |-> "tv", hardware_model |-> "shared"],
    [product_type |-> "watch", hardware_model |-> "shared"]>>

(* The table has rows of devices without a baseband; the pod has none.     *)
MCbbdevices ==
  <<[deviceModel |-> "watch", bbsnumSize |-> 0], [deviceModel |-> "tv", bbsnumSize |-> 0],
    [deviceModel |-> "phone", bbsnumSize |-> 12], [deviceModel |-> "newer", bbsnumSize |-> 4]>>

(* Digits of the length of the phone's number, of one that also decodes to *)
(* that length as base64, a text that is neither, and no text at all.      *)
MCSerials ==
  ("hex12" :> [hex |-> 12, base64 |-> 18]) @@ ("hex8" :> [hex |-> 8, base64 |-> 12])
    @@ ("hex4" :> [hex |-> 4, base64 |-> 6]) @@ ("text" :> [hex |-> -1, base64 |-> 0])
    @@ ("" :> [hex |-> 0, base64 |-> 0])

MCOptions ==
  {<<"d", "phone">>, <<"d", "pod">>, <<"d", "newer">>, <<"d", "tv">>, <<"B", "phoneap">>, <<"B", "podap">>, <<"B", "shared">>,
   <<"i", "old">>, <<"i", "new">>, <<"Z", "build">>, <<"e", "good">>, <<"e", "bad">>,
   <<"8", "bad">>, <<"g", "bad">>, <<"t", "good">>, <<"x", "good">>,
   <<"b", "Without">>, <<"b", "Only">>, <<"b", "other">>,
   <<"c", "hex12">>, <<"c", "hex8">>, <<"c", "hex4">>, <<"c", "text">>, <<"c", "">>,
   <<"m", "missing">>, <<"m", "namesDevice">>, <<"m", "hasIds">>, <<"m", "others">>,
   <<"u", "yes">>, <<"E", "yes">>, <<"o", "yes">>, <<"l", "yes">>,
   <<"1", "yes">>, <<"2", "yes">>, <<"7", "yes">>, <<"r", "yes">>}
=============================================================================
