---------------------------- MODULE MCWriterNode ----------------------------
(* Instances of WriterNode for TLC. *)
EXTENDS WriterNode

CONSTANTS e1, e2, e3
=============================================================================
