------------------------------ MODULE MCSocket ------------------------------
(* One server and two clients, or two servers that share a descriptor.     *)
EXTENDS Socket
=============================================================================
