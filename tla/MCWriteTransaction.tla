------------------------- MODULE MCWriteTransaction -------------------------
(* Three outputs in two directories: two outputs share a directory, so that *)
(* a directory may be half empty, and the third is alone in its own.        *)
EXTENDS WriteTransaction

CONSTANTS d1, d2
MCDirs == {d1, d2}
MCDirOf == <<d1, d1, d2>>
MCDirOf2 == <<d1, d2>>
=============================================================================
