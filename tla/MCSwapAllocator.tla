-------------------------- MODULE MCSwapAllocator --------------------------
(* A file of 26 bytes holds up to five blocks; the requests reach empty     *)
(* payloads, remainders shorter than a header, and refusals.               *)
EXTENDS SwapAllocator

MCRequests == {0, 1, 4, 9}
=============================================================================
