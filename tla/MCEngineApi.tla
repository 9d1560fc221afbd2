---------------------------- MODULE MCEngineApi -----------------------------
(***************************************************************************)
(* Small instances of EngineApi: two contents are two sequencers' opinions *)
(* on what a block should be.                                              *)
(***************************************************************************)
EXTENDS EngineApi

CONSTANTS a, b
=============================================================================
