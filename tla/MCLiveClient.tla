---------------------------- MODULE MCLiveClient ----------------------------
(* LiveClient with two projects. *)
EXTENDS LiveClient, TLC

CONSTANTS p, q
=============================================================================
