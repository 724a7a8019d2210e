----------------------------- MODULE MCTransfer -----------------------------
(***************************************************************************)
(* Transfer on small instances; each .cfg is one question.                 *)
(***************************************************************************)
EXTENDS Transfer
=============================================================================
