---- MODULE MCCodeObjectRecorder ----
(***************************************************************************)
(* Instances of CodeObjectRecorder for TLC.  a and b share a CRC and a     *)
(* size; d, e and f share a CRC; d has another size than e and f.          *)
(***************************************************************************)
EXTENDS CodeObjectRecorder

CONSTANTS a, b, d, e, f, crc1, crc2, p1, r1, s1, k1

MCCrcOf == (a :> crc1) @@ (b :> crc1) @@ (d :> crc2) @@ (e :> crc2) @@ (f :> crc2)
MCSizeOf == (a :> 1) @@ (b :> 1) @@ (d :> 2) @@ (e :> 3) @@ (f :> 3)
====
