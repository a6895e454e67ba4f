---------------------------- MODULE MCUsbControl ----------------------------
(***************************************************************************)
(* Orders in which a configuration sets up its endpoints.  The firmware's  *)
(* is IN, OUT (moved for IN), OUT, notification, IN, OUT (both moved for   *)
(* the notification endpoint); the first one here is this order without    *)
(* the notification endpoint, which no routine uses.                       *)
(***************************************************************************)
EXTENDS UsbControl

MCSetUps      == <<"in", "out", "out", "in", "out">>
MCSetUpsShort == <<"data">>
=============================================================================
