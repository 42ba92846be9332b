----------------------------- MODULE MCBufferGroup -----------------------------
(* BufferGroup with a caller of read and an adapter that share two buffers. *)
EXTENDS BufferGroup
================================================================================
