----------------------------- MODULE MCSummary -----------------------------
(***************************************************************************)
(* The instances of MCBooking with the administrator's summary beside them. *)
(***************************************************************************)
EXTENDS MCBooking, OperationsSummary
=============================================================================
