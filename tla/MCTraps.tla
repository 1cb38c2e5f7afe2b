------------------------------ MODULE MCTraps ------------------------------
(* Small instances of Traps for TLC. *)
EXTENDS Traps, TLC

\* two interrupts: S's timer (5) and M's timer (7)
MCIrqs == {5, MTI}
\* "never", as firmware writes it, and a time within the run
MCTimes == {-1, 3}
\* what firmware writes before an mret to S, with S interrupts enabled ...
ToS == [ie |-> {S}, spie |-> TRUE, mpie |-> TRUE, spp |-> U, mpp |-> S]
\* ... before an mret to U with interrupts enabled at U and at M ...
ToU == [ie |-> {M, U}, spie |-> FALSE, mpie |-> TRUE, spp |-> S, mpp |-> U]
\* ... and to H, which nothing forbids
ToH == [ToU EXCEPT !.mpp = H]
MCMstatusWrites == {ToS, ToU, ToH}
MCMedelegWrites == {{LoadPageFault, UserEcall + U}}

\* addresses are interchangeable, and only safety is checked
Symmetry == Permutations(Addrs)
=============================================================================
