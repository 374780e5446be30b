------------------------------- MODULE MCPeers -------------------------------
(* Pages of the announced length, shorter and longer ones; files with and  *)
(* without a NUL.                                                          *)
EXTENDS Peers

MCLengths == {<<2, 2>>, <<3, 3>>, <<3, 1>>, <<1, 3>>}
MCUploads == {<<7, 7>>, <<7, 0, 7>>}
=============================================================================
