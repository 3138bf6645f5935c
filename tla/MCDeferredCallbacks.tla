------------------------ MODULE MCDeferredCallbacks ------------------------
(* TLC instances of DeferredCallbacks.                                      *)
EXTENDS DeferredCallbacks
=============================================================================
