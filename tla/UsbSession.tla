----------------------------- MODULE UsbSession -----------------------------
(***************************************************************************)
(* What the main program of the panel MCU may rely on of USB, whose device *)
(* state, endpoints and endpoint selection the interrupts change between   *)
(* any two of its instructions: UsbControl implements this, UsbCdc is      *)
(* built on it.                                                            *)
(*                                                                         *)
(* `inside` says that a control request is being processed, in an          *)
(* interrupt or by USB_DeviceTask, and that the main program waits.        *)
(***************************************************************************)
CONSTANT DataEndpoints   \* the endpoints but the control endpoint

VARIABLES
  link,          \* USB_DeviceState, as far as the class driver tells it apart
  lineEncoding,  \* LineEncoding.BaudRateBPS is not 0
  enabled,       \* the data endpoints are configured
  selection,     \* the endpoint the main program has selected
  inside

sessionVars == <<link, lineEncoding, enabled, selection, inside>>

(* What the class driver asks USB_DeviceState: is the device configured, is *)
(* the host gone (unattached or suspended), or neither.                    *)
Links == {"configured", "gone", "other"}

Endpoints == {"control"} \cup DataEndpoints

SessionInit ==
  /\ link = "gone"
  /\ lineEncoding = FALSE /\ enabled = FALSE
  /\ selection = "control"
  /\ inside = FALSE

(* The main program never sees a configured device without endpoints. *)
Usable == link = "configured" => enabled

(* A request begins: the main program's selection is kept for it, ... *)
Request ==
  /\ ~inside /\ inside' = TRUE
  /\ UNCHANGED <<link, lineEncoding, enabled, selection>>

(* ... and is there again when the request has been processed. *)
Return ==
  /\ inside /\ inside' = FALSE
  /\ Usable
  /\ UNCHANGED <<link, lineEncoding, enabled, selection>>

(* The cable, suspension, and the requests that change only the state. *)
StateChanges ==
  /\ link' \in Links
  /\ UNCHANGED <<lineEncoding, enabled, selection, inside>>
  /\ inside \/ Usable'

(* A request sets the line encoding, a configuration clears it. *)
LineEncodingChanges ==
  /\ inside
  /\ lineEncoding' \in BOOLEAN
  /\ UNCHANGED <<link, enabled, selection, inside>>

(* A configuration takes the endpoints away, wipes their banks and sets    *)
(* them up, in as many steps as it likes.                                  *)
Configure ==
  /\ inside
  /\ enabled' \in BOOLEAN
  /\ UNCHANGED <<link, lineEncoding, selection, inside>>

(* A reset is all that takes the main program's selection away from it. *)
Reset ==
  /\ link' = "other"
  /\ enabled' = FALSE
  /\ selection' = IF inside THEN selection ELSE "control"
  /\ UNCHANGED <<lineEncoding, inside>>

MainSelects ==
  /\ ~inside
  /\ selection' \in DataEndpoints
  /\ UNCHANGED <<link, lineEncoding, enabled, inside>>

SessionNext ==
  \/ Request \/ Return \/ StateChanges \/ LineEncodingChanges
  \/ Configure \/ Reset \/ MainSelects

SessionSpec == SessionInit /\ [][SessionNext]_sessionVars
=============================================================================
