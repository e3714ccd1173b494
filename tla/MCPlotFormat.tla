---------------------------- MODULE MCPlotFormat ----------------------------
(***************************************************************************)
(* Instances of PlotFormat for TLC.                                         *)
(***************************************************************************)
EXTENDS PlotFormat
=============================================================================
