----------------------------- MODULE MCAlertLog -----------------------------
(* AlertLog on small instances: the text "1" also finds alert 3 (as it     *)
(* would find number 13, or every alert of "Camera 1").                    *)
EXTENDS AlertLog

AlikeOneThree == {<<1, 3>>}
=============================================================================
