---------------------------- MODULE MCRtspSession ----------------------------
(* RtspSession as TLC runs it; the bounds are given in the cfg files.      *)
EXTENDS RtspSession, TLC

(* Suffixes are only compared.                                             *)
SuffixSymmetry == Permutations(Suffix)
=============================================================================
