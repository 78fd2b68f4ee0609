---------------------------- MODULE MCAssetLoop -----------------------------
(* A small instance of AssetLoop for TLC.                                  *)
EXTENDS AssetLoop, TLC

\* The two loops run the same code on disjoint markets.
AssetSymmetry == Permutations(Assets)
=============================================================================
