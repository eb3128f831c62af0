------------------------------- MODULE MCStore -------------------------------
(***************************************************************************)
(* Small instances of the store: what the service may answer.              *)
(***************************************************************************)
EXTENDS Store

\* Any service that keeps the contract of sendChanges.
MCAnyAnswer == {"sent", "refused", "busy"}
=============================================================================
