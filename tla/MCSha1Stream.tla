---------------------------- MODULE MCSha1Stream ----------------------------
(* Instantiates Sha1Stream for TLC.  Messages up to 130 bytes reach three  *)
(* blocks; the chunk lengths put the buffer at every count around the      *)
(* 55/56 padding boundary and the 64-byte block edge.                      *)
EXTENDS Sha1Stream

MCMaxMsg == 130
MCChunks == {0, 1, 7, 55, 56, 63, 64, 65, 128}
MCHashLens == {0, 3, 55, 56, 57, 63, 64, 119, 120, 121}
=============================================================================
