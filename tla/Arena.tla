------------------------------- MODULE Arena -------------------------------
(***************************************************************************)
(* What a malloc/free pair over one fixed file promises its client: at any *)
(* moment the client holds pointers into the file, every pointer owns the  *)
(* bytes it asked for, and no byte is owned twice.  Where a pointer is     *)
(* placed, and when a request is refused, is left to the implementation.   *)
(***************************************************************************)
EXTENDS Naturals

CONSTANTS Capacity,   \* bytes of the file
          Requests    \* the sizes the client asks for

VARIABLE live         \* the client's pointers, with the size asked for each

(* The bytes p..p+n-1 lie in the file and touch no byte of a live pointer; *)
(* two pointers are never equal, even when both own no byte.               *)
Fits(p, n) ==
  /\ p + n <= Capacity
  /\ \A q \in DOMAIN live : q # p /\ (p + n <= q \/ q + live[q] <= p)

Init == live = [p \in {} |-> 0]

Allocate(p, n) ==
  /\ Fits(p, n)
  /\ live' = [q \in DOMAIN live \cup {p} |-> IF q = p THEN n ELSE live[q]]

Release(p) ==
  live' = [q \in DOMAIN live \ {p} |-> live[q]]

(* The file is unmapped, or mapped anew: every pointer is void.            *)
Reset == live' = [p \in {} |-> 0]

Next ==
  \/ \E p \in 0..Capacity, n \in Requests : Allocate(p, n)
  \/ \E p \in DOMAIN live : Release(p)
  \/ Reset

Spec == Init /\ [][Next]_live
=============================================================================
