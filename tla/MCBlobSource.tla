---------------------------- MODULE MCBlobSource ----------------------------
(***************************************************************************)
(* Small instances of BlobSource.                                          *)
(***************************************************************************)
EXTENDS BlobSource

\* Calldata and blobs of the batcher, before and after blobs of others.
MCTxLists ==
    {<<Transaction(TRUE, 0)>>,
     <<Transaction(FALSE, 2), Transaction(TRUE, 1)>>,
     <<Transaction(TRUE, 1), Transaction(FALSE, 1), Transaction(TRUE, 0), Transaction(TRUE, 2)>>}
=============================================================================
