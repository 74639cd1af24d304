--------------------------- MODULE MCTimeWindows ---------------------------
(***************************************************************************)
(* TimeWindows for TLC: a day of 16 units.  In zone 0 local and UTC date   *)
(* agree around the windows, in zone -5 too; in zone 7 local midnight lies *)
(* in the reserve window, as at UTC+10; in zone 9 before it, as at UTC+12; *)
(* in zone 3 the filters are reset between the windows, as at UTC+9.       *)
(***************************************************************************)
EXTENDS TimeWindows

MCZones == {-5, 0, 3, 7, 9}
MCBegin == [reserve |-> 8, grab |-> 12]
MCLength == [reserve |-> 2, grab |-> 1]
=============================================================================
