---------------------------- MODULE TplotPlotView ----------------------------
(***************************************************************************)
(* The plot list of tplot2's PlotView (src/utils/tplot2.cc): plots_, the   *)
(* selected current_plot_index_, the axis current_axis_ new plots go to,   *)
(* and fit_plot_, a pointer into plots_ that asks the next frame to fit    *)
(* the limits to a newly added plot.  One action is one call of            *)
(* PlotView::Update with the one widget the user operated in that frame.   *)
(*                                                                         *)
(* A plot is abstracted to its axis, its marker type and an identity (the object living at  *)
(* its place in the vector); its samples, legend and styles are left out.  *)
(* fit_plot_ is the address of the vector slot it was taken from, and the  *)
(* identity of the plot that was there.                                     *)
(***************************************************************************)
EXTENDS Integers, Sequences

CONSTANTS
  Axes,        \* kAxisNames: 0 = Left, 1 = Right, 2 = Aux
  MaxPlots,    \* bound: the number of plots on screen
  MaxAdds,     \* bound: the number of plots added in a run
  NoPlot,      \* std::optional<Plot*>{} (a model value)
  Markers      \* marker types the Properties popup offers (0 = "none")

ASSUME PlotBounds ==
  /\ Axes \subseteq Nat /\ 0 \in Axes
  /\ MaxPlots \in Nat \ {0}
  /\ MaxAdds \in Nat
  /\ Markers \subseteq Nat /\ 0 \in Markers

(* What PlotRetrieve and the reader give for a dropped token: an invalid *)
(* getter, a valid one with no items, or a plot with samples.             *)
DropResults == {"invalid", "empty", "ok"}

VARIABLES
  plots,               \* plots_: a sequence of [id, axis, marker]
  current_plot_index,  \* current_plot_index_ (0-based, size_t)
  current_axis,        \* current_axis_
  fit_plot,            \* fit_plot_: NoPlot or [slot, id]
  added,               \* plots added so far, the identity of the next one
  crashed              \* the process died in undefined behaviour

vars == <<plots, current_plot_index, current_axis, fit_plot, added, crashed>>

-----------------------------------------------------------------------------
(* Mutant: the fit block without "fit_plot_ = {}". *)
AfterFit_Keeps == fit_plot

(* The fit block at the top of PlotView::Update (lines 742-753) reads     *)
(* **fit_plot_'s limits and axis and resets fit_plot_: its value for the  *)
(* rest of the frame.                                                       *)
AfterFit == NoPlot

(* PlotView::AddPlot(x, y) with fit_plot_ = fit0 on entry: a valid getter *)
(* with samples appends a plot on current_axis_ and, if it is the only    *)
(* plot on that axis, points fit_plot_ at it.  An invalid getter returns  *)
(* at once; an empty plot is pushed and popped again.                      *)
AddPlot(result, fit0) ==
  \/ /\ result \in {"invalid", "empty"}
     /\ fit_plot' = fit0
     /\ UNCHANGED <<plots, added>>
  \/ /\ result = "ok"
     /\ Len(plots) < MaxPlots /\ added < MaxAdds
     /\ LET plot == [id |-> added, axis |-> current_axis, marker |-> 0]
            sameAxis == {i \in 1 .. Len(plots) : plots[i].axis = current_axis}
        IN /\ plots' = Append(plots, plot)
           /\ fit_plot' = IF sameAxis = {}
                          THEN [slot |-> Len(plots) + 1, id |-> added]
                          ELSE fit0
     /\ added' = added + 1

(* Mutant: the size_t index decremented without its "> 0" guard. *)
Remove_Underflow ==
  /\ Len(plots) > 0
  /\ plots' = [i \in 1 .. Len(plots) - 1 |->
                 IF i <= current_plot_index THEN plots[i] ELSE plots[i + 1]]
  /\ current_plot_index' = IF current_plot_index >= Len(plots) - 1
                           THEN current_plot_index - 1
                           ELSE current_plot_index
  /\ UNCHANGED crashed

(* Mutant: the index kept after erasing the last plot. *)
Remove_NoClamp ==
  /\ Len(plots) > 0
  /\ plots' = [i \in 1 .. Len(plots) - 1 |->
                 IF i <= current_plot_index THEN plots[i] ELSE plots[i + 1]]
  /\ UNCHANGED <<current_plot_index, crashed>>

(* The "Remove" button: plots_.erase(plots_.begin() + current_plot_index_) *)
(* and the clamp of the index to the new size.  On an empty plots_ the    *)
(* erase is undefined: libstdc++ moves nothing, steps _M_finish back      *)
(* before the null begin() and runs ~Plot on it, and the process dies.    *)
Remove ==
  \/ /\ Len(plots) > 0
     /\ plots' = [i \in 1 .. Len(plots) - 1 |->
                    IF i <= current_plot_index THEN plots[i] ELSE plots[i + 1]]
     /\ current_plot_index' =
          IF current_plot_index > 0 /\ current_plot_index >= Len(plots) - 1
          THEN current_plot_index - 1
          ELSE current_plot_index
     /\ UNCHANGED crashed
  \/ /\ Len(plots) = 0
     /\ crashed' = TRUE
     /\ UNCHANGED <<plots, current_plot_index>>

(* The "Plot Properties" popup: when current_plot_index_ is below the     *)
(* size it edits that plot's marker type (width and marker size are      *)
(* styles the model leaves out); otherwise it shows nothing.              *)
EditProperties(m) ==
  /\ plots' = IF current_plot_index < Len(plots)
              THEN [plots EXCEPT ![current_plot_index + 1].marker = m]
              ELSE plots

(* PlotView::Update: the fit block, then at most one of the widgets: a    *)
(* token dropped on the plot (AddPlot), the "Axis" combo, the "Remove"     *)
(* button, a selection in the "Plots" combo, an edit in the open          *)
(* Properties popup, or nothing.  The widgets come after the fit block,  *)
(* so what AddPlot sets in fit_plot_ survives to the next frame.          *)
PlotUpdate ==
  LET fit0 == AfterFit IN
  /\ ~crashed
  /\ \/ \E r \in DropResults :
          /\ AddPlot(r, fit0)
          /\ UNCHANGED <<current_plot_index, current_axis, crashed>>
     \/ \E a \in Axes :
          /\ current_axis' = a
          /\ fit_plot' = fit0
          /\ UNCHANGED <<plots, current_plot_index, added, crashed>>
     \/ /\ Remove
        /\ fit_plot' = fit0
        /\ UNCHANGED <<current_axis, added>>
     \/ \E i \in 0 .. Len(plots) - 1 :
          /\ current_plot_index' = i
          /\ fit_plot' = fit0
          /\ UNCHANGED <<plots, current_axis, added, crashed>>
     \/ \E m \in Markers :
          /\ EditProperties(m)
          /\ fit_plot' = fit0
          /\ UNCHANGED <<current_plot_index, current_axis, added, crashed>>
     \/ /\ fit_plot' = fit0
        /\ UNCHANGED <<plots, current_plot_index, current_axis, added, crashed>>

Init ==
  /\ plots = <<>>
  /\ current_plot_index = 0
  /\ current_axis = 0
  /\ fit_plot = NoPlot
  /\ added = 0
  /\ crashed = FALSE

Next == PlotUpdate

Spec == Init /\ [][Next]_vars

-----------------------------------------------------------------------------
TypeOK ==
  /\ plots \in Seq([id : 0 .. MaxAdds, axis : Axes, marker : Markers])
  /\ Len(plots) <= MaxPlots
  /\ current_plot_index \in 0 .. MaxPlots
  /\ current_axis \in Axes
  /\ fit_plot \in {NoPlot} \cup [slot : 1 .. MaxPlots, id : 0 .. MaxAdds]
  /\ added \in 0 .. MaxAdds
  /\ crashed \in BOOLEAN

(* Whenever there are plots, current_plot_index_ selects one of them:    *)
(* the Properties popup and the "Plots" combo read plots_[index], and     *)
(* "Remove" erases begin() + index, which must not be end().  Removing   *)
(* the last plot of the list has to move the index back.                  *)
CurrentPlotValid ==
  Len(plots) > 0 => current_plot_index < Len(plots)

(* When a frame starts with fit_plot_ set, it points at a live slot of    *)
(* plots_ that still holds the plot AddPlot pointed it at, so the fit     *)
(* block's **fit_plot_ reads that plot and not freed or shifted memory.   *)
FitTargetLive ==
  fit_plot # NoPlot =>
    /\ fit_plot.slot <= Len(plots)
    /\ plots[fit_plot.slot].id = fit_plot.id

(* The plot view never runs into undefined behaviour: "Remove" is only    *)
(* pressed with a plot to remove.                                          *)
NoUndefinedErase == ~crashed

=============================================================================
