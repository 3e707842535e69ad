------------------------------- MODULE MCHttpd -------------------------------
(* A small instance of Httpd for TLC. *)
EXTENDS Httpd

Stdio == 0 .. 2
=============================================================================
