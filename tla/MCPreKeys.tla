----------------------------- MODULE MCPreKeys -----------------------------
(* PreKeys on small counts; nothing is symmetric.                          *)
EXTENDS PreKeys
=============================================================================
