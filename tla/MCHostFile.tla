----------------------------- MODULE MCHostFile -----------------------------
(* Two files, of up to five bytes; keys of one byte, so that a hex key has   *)
(* two digits, four characters with its 0x, and one half written has the     *)
(* length of a raw key; reads of two bytes, so that a file takes several.    *)
EXTENDS HostFile, TLC

FilesSymmetry == Permutations(Files)
=============================================================================
