----------------------------- MODULE MCDesktop ------------------------------
(* A main window with two cameras and alerts of five sorts: of one kind,    *)
(* of both, with the same two in either order, and without detections.      *)
EXTENDS Desktop, TLC

fire50 == [label |-> "fire", conf |-> 50]
fire81 == [label |-> "fire", conf |-> 81]
smoke68 == [label |-> "smoke", conf |-> 68]
smoke83 == [label |-> "smoke", conf |-> 83]

MCPackets ==
  {<<>>, <<smoke68, smoke83>>, <<fire50, fire81>>,
   <<smoke83, fire81>>, <<fire81, smoke83>>}
MCSettingValues ==
  [critical |-> {82, NotANumber}, high |-> {60}, medium |-> {40}]

Symmetry == Permutations(Cam)
=============================================================================
