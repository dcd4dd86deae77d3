--------------------------- MODULE MCFrameArchive ---------------------------
(***************************************************************************)
(* An instance of FrameArchive: two cameras that serve two images and one  *)
(* that cannot be decoded. With Keep = 0 a frame of date 0 is past the     *)
(* retention limit on date 1.                                              *)
(***************************************************************************)
EXTENDS FrameArchive, TLC

CONSTANTS i1, i2, i3

MCCameras     == {1, 2}
MCImages      == {i1, i2, i3}
MCUndecodable == {i3}

\* i3 is the undecodable one; the other two are alike.
MCSymmetry    == Permutations({i1, i2})
=============================================================================
