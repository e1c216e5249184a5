------------------------------ MODULE MCFiles ------------------------------
(***************************************************************************)
(* Instance for TLC of the three components that keep data in a file or a  *)
(* byte store and share no state: the key vault, with two pass phrases,    *)
(* the secret of the wallet and three more keys, the hash index, with two  *)
(* hashes that start with the same bytes, and the breeze block store of    *)
(* MCBreezeBlocks.  A behaviour uses one of them.                          *)
(***************************************************************************)
EXTENDS SecureVault, HashIndex, MCBreezeBlocks

CONSTANTS phraseA, phraseB, hashA, hashB

MCPartial == [h \in Hash |-> 1]

FilesInit == VaultInit /\ IndexInit /\ BreezeInit

BreezeUnused == BreezeInit /\ listener = "ended"

FilesNext ==
  \/ IndexInit /\ BreezeUnused /\ VaultNext /\ UNCHANGED <<indexVars, breezeVars>>
  \/ VaultInit /\ BreezeUnused /\ IndexNext /\ UNCHANGED <<vaultVars, breezeVars>>
  \/ VaultInit /\ IndexInit /\ BreezeNext /\ UNCHANGED <<vaultVars, indexVars>>

FilesSpec == FilesInit /\ [][FilesNext]_<<vaultVars, indexVars, breezeVars>>
=============================================================================
