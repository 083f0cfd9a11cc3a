---------------------------- MODULE MCLifecycle -----------------------------
(* Every interface; two variables and three objects, so that a third constructor  *)
(* runs while the handles of closed and lost objects have been given away again.  *)
EXTENDS Lifecycle

CONSTANTS a, b

AllKinds == KnownKinds
=============================================================================
