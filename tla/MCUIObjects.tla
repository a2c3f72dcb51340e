---------------------------- MODULE MCUIObjects ----------------------------
(***************************************************************************)
(* Two objects under the root: a translucent round canvas with a buffer of *)
(* its own, and a text area that blinks, under the canvas or the root.     *)
(***************************************************************************)
EXTENDS UIObjects

CONSTANTS root, canvas, text

MCPlaces == {<<root, canvas>>, <<root, text>>, <<canvas, text>>}
=============================================================================
