--------------------------- MODULE MCClientSession ---------------------------
(* The model-checking instance of ClientSession: one slot, so that calls    *)
(* queue, two requests of pages, two sessions with every change among them, *)
(* two kept resources for a cache of one, one polled read.  Its liveness is *)
(* checked in MCClientLive.                                                 *)
EXTENDS ClientSession, TLC

Symmetry == Permutations(PageCalls) \cup Permutations(Tokens)
=============================================================================
