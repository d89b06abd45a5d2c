-------------------------- MODULE MCSignatureCheck --------------------------
(* Instance of SignatureCheck for TLC: every first field, with a size field *)
(* that is and is not the size, and a file too small for a header.          *)
EXTENDS SignatureCheck

MCContents == [magic : Magics, data_size : {0, 100}, size : {7, 8, 100}]
=============================================================================
