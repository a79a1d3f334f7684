------------------------- MODULE TplotPlotViewProofs -------------------------
(***************************************************************************)
(* Proofs about tplot2's plot list (TplotPlotView) for every number of      *)
(* axes, markers, plots and adds.                                          *)
(***************************************************************************)
EXTENDS TplotPlotView, SequenceTheorems, TLAPS

Plot == [id : 0 .. MaxAdds, axis : Axes, marker : Markers]

\* plots_.erase(begin() + k) leaves a sequence one shorter, of the same plots.
LEMMA EraseSeq ==
  ASSUME NEW s \in Seq(Plot), Len(s) > 0, NEW k \in 0 .. Len(s) - 1
  PROVE  /\ [i \in 1 .. Len(s) - 1 |-> IF i <= k THEN s[i] ELSE s[i + 1]] \in Seq(Plot)
         /\ Len([i \in 1 .. Len(s) - 1 |-> IF i <= k THEN s[i] ELSE s[i + 1]]) = Len(s) - 1
<1> DEFINE r == [i \in 1 .. Len(s) - 1 |-> IF i <= k THEN s[i] ELSE s[i + 1]]
<1>1. Len(s) \in Nat /\ s \in [1 .. Len(s) -> Plot]
  BY LenProperties
<1>2. r \in [1 .. Len(s) - 1 -> Plot]
  BY <1>1
<1>3. r \in Seq(Plot)
  BY <1>1, <1>2, SeqDef
<1>4. Len(r) = Len(s) - 1
  BY <1>1, <1>2, <1>3, LenProperties
<1> QED
  BY <1>3, <1>4

\* The invariant the proofs rest on: CurrentPlotValid alone is not
\* inductive, since an add to an empty list keeps the index, which must
\* then already be 0.
PlotInv ==
  /\ TypeOK
  /\ current_plot_index < Len(plots) \/ current_plot_index = 0
  /\ FitTargetLive

LEMMA PlotInvInit == Init => PlotInv
<1> SUFFICES ASSUME Init PROVE PlotInv
  OBVIOUS
<1>1. plots \in Seq(Plot) /\ Len(plots) = 0
  BY EmptySeq DEF Init
<1>2. TypeOK
  <2>1. current_plot_index \in 0 .. MaxPlots /\ added \in 0 .. MaxAdds
    BY PlotBounds DEF Init
  <2>2. current_axis \in Axes /\ fit_plot = NoPlot /\ crashed \in BOOLEAN
    BY PlotBounds DEF Init
  <2> QED
    BY <1>1, <2>1, <2>2, PlotBounds DEF TypeOK, Plot
<1>3. current_plot_index = 0 /\ fit_plot = NoPlot
  BY DEF Init
<1> QED
  BY <1>2, <1>3 DEF PlotInv, FitTargetLive

LEMMA PlotInvStep == PlotInv /\ [Next]_vars => PlotInv'
<1> SUFFICES ASSUME PlotInv, [Next]_vars PROVE PlotInv'
  OBVIOUS
<1> USE PlotBounds
<1>0. /\ plots \in Seq(Plot) /\ Len(plots) \in 0 .. MaxPlots
      /\ current_plot_index \in 0 .. MaxPlots /\ current_axis \in Axes
      /\ added \in 0 .. MaxAdds /\ crashed \in BOOLEAN
      /\ current_plot_index < Len(plots) \/ current_plot_index = 0
  BY LenProperties DEF PlotInv, TypeOK, Plot
<1>1. CASE UNCHANGED vars
  BY <1>1 DEF PlotInv, TypeOK, FitTargetLive, CurrentPlotValid, vars
<1>2. CASE Next
  <2> DEFINE fit0 == AfterFit
  <2>1. ~crashed
    BY <1>2 DEF Next, PlotUpdate
  <2>2. ASSUME NEW r \in DropResults, AddPlot(r, fit0),
               UNCHANGED <<current_plot_index, current_axis, crashed>>
        PROVE  PlotInv'
    <3>1. CASE r \in {"invalid", "empty"}
      BY <2>2, <3>1, <1>0 DEF AddPlot, AfterFit, PlotInv, TypeOK, FitTargetLive, Plot
    <3>2. CASE r = "ok"
      <4> DEFINE plot == [id |-> added, axis |-> current_axis, marker |-> 0]
      <4>1. /\ Len(plots) < MaxPlots /\ added < MaxAdds
            /\ plots' = Append(plots, plot)
            /\ added' = added + 1
            /\ \/ fit_plot' = [slot |-> Len(plots) + 1, id |-> added]
               \/ fit_plot' = NoPlot
        BY <2>2, <3>2 DEF AddPlot, AfterFit
      <4>2. plot \in Plot
        BY <1>0, <4>1 DEF Plot
      <4>3. /\ plots' \in Seq(Plot)
            /\ Len(plots') = Len(plots) + 1
            /\ plots'[Len(plots) + 1] = plot
        BY <1>0, <4>1, <4>2, AppendProperties
      <4>4. TypeOK'
        BY <1>0, <2>2, <4>1, <4>3 DEF TypeOK, Plot
      <4>5. FitTargetLive'
        <5>1. CASE fit_plot' = NoPlot
          BY <5>1 DEF FitTargetLive
        <5>2. CASE fit_plot' = [slot |-> Len(plots) + 1, id |-> added]
          BY <5>2, <4>3 DEF FitTargetLive
        <5> QED
          BY <4>1, <5>1, <5>2
      <4> QED
        BY <1>0, <2>2, <4>3, <4>4, <4>5 DEF PlotInv
    <3> QED
      BY <3>1, <3>2 DEF DropResults
  <2>3. ASSUME NEW a \in Axes, current_axis' = a, fit_plot' = fit0,
               UNCHANGED <<plots, current_plot_index, added, crashed>>
        PROVE  PlotInv'
    BY <2>3, <1>0 DEF AfterFit, PlotInv, TypeOK, FitTargetLive, Plot
  <2>4. ASSUME Remove, fit_plot' = fit0, UNCHANGED <<current_axis, added>>
        PROVE  PlotInv'
    <3>1. CASE Len(plots) = 0
      BY <2>4, <3>1, <1>0 DEF Remove, AfterFit, PlotInv, TypeOK, FitTargetLive, Plot
    <3>2. CASE Len(plots) > 0
      <4>1. current_plot_index \in 0 .. Len(plots) - 1
        BY <1>0, <3>2
      <4>2. /\ plots' \in Seq(Plot)
            /\ Len(plots') = Len(plots) - 1
        <5>1. plots' = [i \in 1 .. Len(plots) - 1 |->
                          IF i <= current_plot_index THEN plots[i] ELSE plots[i + 1]]
          BY <2>4, <3>2 DEF Remove
        <5> QED
          BY <5>1, <3>2, <4>1, <1>0, EraseSeq
      <4>3. /\ current_plot_index' \in 0 .. MaxPlots
            /\ current_plot_index' < Len(plots') \/ current_plot_index' = 0
            /\ crashed' = crashed
        BY <2>4, <3>2, <4>1, <4>2, <1>0 DEF Remove
      <4> QED
        BY <2>4, <4>2, <4>3, <1>0 DEF AfterFit, PlotInv, TypeOK, FitTargetLive, Plot
    <3> QED
      BY <3>1, <3>2, <1>0
  <2>5. ASSUME NEW i \in 0 .. Len(plots) - 1, current_plot_index' = i,
               fit_plot' = fit0,
               UNCHANGED <<plots, current_axis, added, crashed>>
        PROVE  PlotInv'
    BY <2>5, <1>0 DEF AfterFit, PlotInv, TypeOK, FitTargetLive, Plot
  <2>6. ASSUME NEW m \in Markers, EditProperties(m), fit_plot' = fit0,
               UNCHANGED <<current_plot_index, current_axis, added, crashed>>
        PROVE  PlotInv'
    <3>1. plots' \in Seq(Plot) /\ Len(plots') = Len(plots)
      <4>1. CASE current_plot_index < Len(plots)
        <5>1. plots[current_plot_index + 1] \in Plot
          BY <4>1, <1>0, ElementOfSeq
        <5>2. [plots[current_plot_index + 1] EXCEPT !.marker = m] \in Plot
          BY <5>1 DEF Plot
        <5> QED
          BY <2>6, <4>1, <5>2, <1>0, ExceptSeq DEF EditProperties
      <4>2. CASE ~(current_plot_index < Len(plots))
        BY <2>6, <4>2, <1>0 DEF EditProperties
      <4> QED
        BY <4>1, <4>2
    <3> QED
      BY <2>6, <3>1, <1>0 DEF AfterFit, PlotInv, TypeOK, FitTargetLive, Plot
  <2>7. ASSUME fit_plot' = fit0,
               UNCHANGED <<plots, current_plot_index, current_axis, added, crashed>>
        PROVE  PlotInv'
    BY <2>7, <1>0 DEF AfterFit, PlotInv, TypeOK, FitTargetLive, Plot
  <2> QED
    BY <1>2, <2>1, <2>2, <2>3, <2>4, <2>5, <2>6, <2>7 DEF Next, PlotUpdate
<1> QED
  BY <1>1, <1>2

\* Whenever plots_ is not empty, current_plot_index_ selects one of its
\* plots, for every bound on plots and adds: the clamp after "Remove" and
\* the range of the "Plots" combo keep the index inside the vector that the
\* Properties popup and "Remove" index.
THEOREM IndexValid == Spec => []CurrentPlotValid
<1>1. PlotInv => CurrentPlotValid
  BY DEF PlotInv, CurrentPlotValid
<1> QED
  BY <1>1, PlotInvInit, PlotInvStep, PTL DEF Spec

\* When a frame starts with fit_plot_ set, it names a live slot that still
\* holds the plot AddPlot pointed it at, whatever plots are added, removed
\* or edited in between.
THEOREM FitTargetSafe == Spec => []FitTargetLive
<1>1. PlotInv => FitTargetLive
  BY DEF PlotInv
<1> QED
  BY <1>1, PlotInvInit, PlotInvStep, PTL DEF Spec

\* Every reachable state of the PlotView is well typed, for every bound:
\* plots_ never outgrows MaxPlots, current_plot_index_ and fit_plot_ stay
\* in range, and no plot holds an axis or marker the combos do not offer.
THEOREM TypeCorrect == Spec => []TypeOK
<1>1. PlotInv => TypeOK
  BY DEF PlotInv
<1> QED
  BY <1>1, PlotInvInit, PlotInvStep, PTL DEF Spec

=============================================================================
