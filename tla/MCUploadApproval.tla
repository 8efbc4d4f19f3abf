-------------------------- MODULE MCUploadApproval --------------------------
(***************************************************************************)
(* UploadApproval on a single note.                                        *)
(***************************************************************************)
EXTENDS UploadApproval, TLC

CONSTANTS n1
=============================================================================
