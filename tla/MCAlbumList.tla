----------------------------- MODULE MCAlbumList -----------------------------
(* AlbumList with three rows, five ways and six albums, one of which has a  *)
(* cover in its fallback only, and one whose reads may fail                 *)
EXTENDS AlbumList
MCAlbums == 1 .. 6
MCThm == [a \in MCAlbums |-> IF a = 2 THEN Bad ELSE Good]
MCArt == [a \in MCAlbums |-> IF a = 2 THEN Good ELSE Absent]
MCViews == {<<1, 2, 3, 4, 5, 6>>, <<0, 3>>}
MCShaky == {3}
MCWatched == {3, 5}
=============================================================================
