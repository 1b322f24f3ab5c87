---------------------------- MODULE MCUsbDriver ----------------------------
(* The driver with requests of each kind.                                  *)
EXTENDS UsbDriver

Rq(name, wLength, wValue) ==
  [name |-> name, wLength |-> wLength, wValue |-> wValue]

(* 16 bytes of the device descriptor, so that an empty packet is prepared  *)
(* after them that no host asks for; a reply from RAM; and requests that   *)
(* change the driver's state.                                              *)
MCRequests == {Rq("DEVICE", 16, 1),
               Rq("GET_MAX_LUN", 1, 0), Rq("SET_ADDRESS", 0, 1),
               Rq("SET_CONFIGURATION", 0, 1), Rq("SET_INTERFACE", 0, 0)}
=============================================================================
