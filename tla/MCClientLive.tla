---------------------------- MODULE MCClientLive ----------------------------
(* The model-checking instance of ClientLive: one request of pages, one     *)
(* session and one kept resource; one wizard with two handlers at once and  *)
(* two jobs.                                                                *)
EXTENDS ClientLive
=============================================================================
