--------------------------- MODULE MCAlertDelivery ---------------------------
(***************************************************************************)
(* The instance of AlertDeliveryProps that TLC checks.                     *)
(***************************************************************************)
EXTENDS AlertDeliveryProps
=============================================================================
