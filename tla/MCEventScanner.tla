--------------------------- MODULE MCEventScanner ---------------------------
(***************************************************************************)
(* Two transfers, of which one has an unknown address. Federators send     *)
(* both together, in either order, or the first one alone.                 *)
(***************************************************************************)
EXTENDS EventScanner

Call(ids, status) == [ids |-> ids, status |-> status]

MCPossibleCalls ==
    {Call(<<1>>, "NEW"), Call(<<2>>, "NEW"), Call(<<1>>, "SENDING"), Call(<<1, 2>>, "SENDING"),
     Call(<<2, 1>>, "SENDING"), Call(<<1>>, "MINED"), Call(<<2>>, "RECLAIMED")}
=============================================================================
