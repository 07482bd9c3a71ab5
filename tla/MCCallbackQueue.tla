-------------------------- MODULE MCCallbackQueue --------------------------
(* CallbackQueue with two service threads, one validator and one RPC. *)
EXTENDS CallbackQueue
=============================================================================
