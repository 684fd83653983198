---- MODULE MCLifecycle ----
(* The process, as a whole. *)
EXTENDS Lifecycle
====
