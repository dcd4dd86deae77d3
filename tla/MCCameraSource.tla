--------------------------- MODULE MCCameraSource ---------------------------
(* The capture loop and two previews at two previews' sources of one id. *)
EXTENDS CameraSource

OneId == [s \in Sources |-> "cam"]
=============================================================================
