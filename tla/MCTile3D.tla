------------------------------ MODULE MCTile3D ------------------------------
(***************************************************************************)
(* Tile3D for TLC.                                                         *)
(***************************************************************************)
EXTENDS Tile3D

\* On a frame of one plane, one row and two columns, with edges of one pixel:
\* a tile that is padded on all six sides, and one beyond the frame.
AllSides == {<<0, 0, 0>>, <<0, 3, 0>>}
=============================================================================
