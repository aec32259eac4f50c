---------------------------- MODULE MCLifecycle ----------------------------
(* One client launched and one adopted, either of which may fail or die,    *)
(* one at a time of which may hang, and up to two events in the ring.       *)
EXTENDS Lifecycle
=============================================================================
