-------------------------- MODULE MCBlockTransfer --------------------------
(***************************************************************************)
(* Instance of the block provider for TLC: lengths of two digits in base 2,*)
(* so that a write can stop between the digits of a length, and stores of  *)
(* nine bytes, which two blocks fill exactly or up to less than a length,  *)
(* and in which one block leaves room for a shorter one only.              *)
(***************************************************************************)
EXTENDS BlockTransfer
=============================================================================
