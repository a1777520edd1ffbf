--------------------------- MODULE MCEspNowLink ---------------------------
(* Instances of EspNowLink for TLC. *)
EXTENDS EspNowLink
=============================================================================
