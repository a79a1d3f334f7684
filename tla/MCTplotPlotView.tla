--------------------------- MODULE MCTplotPlotView ---------------------------
(* Instantiation of TplotPlotView for TLC: three axes, up to three plots  *)
(* on screen and five added over a run, so that a plot is added after a  *)
(* removal and the last slot of a full list is removed.                   *)
EXTENDS TplotPlotView
=============================================================================
