--------------------------- MODULE MCStoreForward ---------------------------
(* Small instances of StoreForward for TLC. *)
EXTENDS StoreForward

CONSTANTS wifi, esp, temp, hum

OneMetric == <<temp>>
=============================================================================
