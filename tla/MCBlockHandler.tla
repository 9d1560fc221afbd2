--------------------------- MODULE MCBlockHandler ---------------------------
(***************************************************************************)
(* A small instance of BlockHandler: a block of each of two signers, and   *)
(* one for another chain.  On the topic of another version each of them is *)
(* data that does not decode.                                              *)
(***************************************************************************)
EXTENDS BlockHandler

CONSTANTS s, t

Block(version, timestamp, signer, chain) ==
    [version |-> version, timestamp |-> timestamp, signer |-> signer, chain |-> chain]

MCData ==
    {Block("v1", 2, s, "ours"), Block("v2", 3, t, "ours"), Block("v2", 2, s, "other")}
=============================================================================
