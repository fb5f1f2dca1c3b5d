--------------------------- MODULE MCSipUserStore ---------------------------
(* Model values for SipUserStore. *)
EXTENDS SipUserStore
=============================================================================
