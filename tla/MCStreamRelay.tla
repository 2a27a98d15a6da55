--------------------------- MODULE MCStreamRelay ---------------------------
(* StreamRelay on small instances: the bounds are given by the .cfg files. *)
EXTENDS StreamRelay

AnyPoint  == {"get", "send"}
GetOnly   == {"get"}
SendOnly  == {"send"}
NoPoint   == {}
=============================================================================
