---------------------------- MODULE MCRenderSync ----------------------------
(***************************************************************************)
(* Two ranks for RenderSync, with an object on each of them.               *)
(***************************************************************************)
EXTENDS RenderSync, TLC

OneEach == "x" :> 0 @@ "y" :> 1
=============================================================================
