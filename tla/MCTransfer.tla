----------------------------- MODULE MCTransfer -----------------------------
(* An upload to one node and a request of any kind beside it; an upload    *)
(* may be empty, at the limit or one buffer beyond it.                     *)
EXTENDS Transfer

CONSTANTS r1, r2

MCReq == {r1, r2}

MCKindsOf == [r \in MCReq |-> IF r = r1 THEN {"put"} ELSE Kinds]
=============================================================================
