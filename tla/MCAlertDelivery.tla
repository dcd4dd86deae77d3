--------------------------- MODULE MCAlertDelivery ---------------------------
(* Small instances of AlertDelivery. *)
EXTENDS AlertDelivery

MCTests   == {"test:1"}
MCNoTests == {}
=============================================================================
