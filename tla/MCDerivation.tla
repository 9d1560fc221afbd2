---------------------------- MODULE MCDerivation ----------------------------
(***************************************************************************)
(* Small instances of Derivation: what the batcher may post.               *)
(***************************************************************************)
EXTENDS Derivation

\* One batch per channel, or a channel still open.
MCSingles == {"frame", "single"}

\* A batcher that may repeat or split its work, beside garbage of others.
MCHonest == {"frame", "corrupt", "single", "again", "span", "overlap"}

\* Any batcher, up to the span batches of MCSkips.
MCHostile == AllKinds \ {"skip"}

\* A batcher that leaves an epoch out.
MCSkips == {"single", "skip"}
=============================================================================
