-------------------------------- MODULE MCMedia ------------------------------
(* A small instance of Media: three uploads in two API processes.          *)
EXTENDS Media
=============================================================================
