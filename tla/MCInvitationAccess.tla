------------------------- MODULE MCInvitationAccess -------------------------
(* The instance of InvitationAccess for TLC; no symmetry, because the run  *)
(* checks liveness too.                                                    *)
EXTENDS InvitationAccess
=============================================================================
