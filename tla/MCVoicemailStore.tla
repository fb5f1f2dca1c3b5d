-------------------------- MODULE MCVoicemailStore --------------------------
(* Model values for VoicemailStore. *)
EXTENDS VoicemailStore
=============================================================================
