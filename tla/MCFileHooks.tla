---------------------------- MODULE MCFileHooks -----------------------------
(***************************************************************************)
(* The file hooks on a root directory of two entries, a plain name and a   *)
(* dotfile, with contents that exercise the CRC's word loop and its last  *)
(* block, LF handling in text mode and the refill of a 4-byte input        *)
(* buffer.                                                                 *)
(***************************************************************************)
EXTENDS FileHooks, TLC

CONSTANTS f1, d1

MCNames == {f1, d1}
MCDotNames == {d1}
MCDirOrder == <<f1, d1>>

\* empty; one LF (a 1-byte last block); a word then a 2-byte last block
\* holding an LF, with 0xFF and NUL bytes.
MCContents == {<< >>, <<10>>, <<65, 10, 255, 0, 66, 10>>}

\* a text write of only CRs up to the NUL, and one with data.
MCWriteData == {<<13, 0, 65>>, <<65, 13>>}
=============================================================================
