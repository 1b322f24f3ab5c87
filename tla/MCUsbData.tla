----------------------------- MODULE MCUsbData -----------------------------
(***************************************************************************)
(* UsbData for TLC: a ring of four slots wraps after four packets, and     *)
(* lengths of one chunk, exactly 8 bytes, and two and three chunks take    *)
(* each branch of usb_send_next_data.                                      *)
(***************************************************************************)
EXTENDS UsbData

MCLengths == {4, 8, 13, 20}
=============================================================================
