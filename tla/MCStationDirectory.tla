------------------------- MODULE MCStationDirectory -------------------------
(* Instances of StationDirectory for TLC: three stations, two of them with *)
(* the favourite's name.                                                   *)
EXTENDS StationDirectory

Names == <<"ordinary", "favourite", "favourite">>
=============================================================================
