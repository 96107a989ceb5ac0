---------------------------- MODULE MCNavigation -----------------------------
(***************************************************************************)
(* Starts and destinations for TLC, in units of a fifth of a cell.  Among  *)
(* the starts is one in a building (main draws without looking), the last  *)
(* of ipc_init's line that is on the map, the first that is off and the    *)
(* very last, and the position of a driver that joined.  Among the         *)
(* destinations are the far corners, one in each wall, cells that read     *)
(* back short in one axis and in both, and places between the cell lines.  *)
(***************************************************************************)
EXTENDS Navigation

P(x, y) == [x |-> x, y |-> y]

MCStart ==
    {P(0, 0), P(99, 99), P(52, 40), P(30, 20), P(90, 90), P(100, 100), P(2550, 2550), Unset}
MCDestination ==
    {P(0, 0), P(179, 89), P(175, 0), P(0, 80), P(102, 51), P(40, 22), P(160, 65), P(115, 50),
     P(100, 25), P(60, 47), P(33, 88), P(144, 35)}

=============================================================================
