------------------------------ MODULE MCExport ------------------------------
(* A small instance of ExportManager. *)
EXTENDS ExportManager

Reading(k, n) == [key |-> k, t |-> n]
\* More keys than slots, and one key that changes, also late.
TwoKeys == {Reading("a", 1), Reading("a", 2), Reading("b", 1)}
\* One exporter with a spool, and one without.
TwoTakes == <<{"a"}, {"b"}>>
=============================================================================
