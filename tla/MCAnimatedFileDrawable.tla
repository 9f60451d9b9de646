------------------------ MODULE MCAnimatedFileDrawable ------------------------
(* AnimatedFileDrawable for TLC: all of its states, with the pool's two threads. *)
EXTENDS AnimatedFileDrawable
===============================================================================
