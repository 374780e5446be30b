------------------------------ MODULE MCStreams ------------------------------
(* A page as long as announced, and a file without a NUL.                  *)
EXTENDS Streams

MCLengths == {<<2, 2>>}
MCUploads == {<<7, 7>>}
=============================================================================
