------------------------------- MODULE Swaps -------------------------------
(***************************************************************************)
(* Actor with a history variable: the fetches SetFrame has overtaken.  The *)
(* actor tells them by st.revision (background.go); the history looks only *)
(* at the FrameFunc, from one step to the next.                            *)
(***************************************************************************)
EXTENDS Actor

VARIABLE overtaken   \* fetch goroutines out while the FrameFunc was exchanged

swapVars == <<vars, overtaken>>

SwapInit == Init /\ overtaken = {}

SwapNext ==
  /\ Next
  /\ overtaken' = {g \in Fetchers : /\ fetch'[g].at # "idle"
                                    /\ g \in overtaken \/ getFrame' # getFrame}

SwapSpec == SwapInit /\ [][SwapNext]_swapVars

-----------------------------------------------------------------------------
(* Properties. *)

\* A fetch that a SetFrame overtook is dropped: its frame is not drawn, and it
\* does not end the run by a failed draw, however late it is handled, through a
\* Stop and a Start, and also when its own FrameFunc is the installed one again.
OvertakenIsDropped ==
  [][\A g \in overtaken :
       fetch[g].at = "sending" /\ fetch'[g].at = "idle" => UNCHANGED <<frame, running>>]_swapVars
=============================================================================
