----------------------------- MODULE Predictors -----------------------------
(***************************************************************************)
(* --bpred: main makes one of the predictors, and every branch and jump    *)
(* that execRiscv_ executes goes through it.                               *)
(***************************************************************************)
EXTENDS Tage

CONSTANTS
    TagWidths, LogTagged, LogBimodal, LogRatio,             \* gem5_tage
    lg_pht_entries, pc_shift                                \* gshare

ASSUME Gem5Assumption ==
    /\ Pcs \subseteq Nat /\ TagWidths \in Seq(Nat)
    /\ {LogTagged, LogBimodal, LogRatio} \subseteq Nat

ASSUME GshareAssumption == {lg_pht_entries, pc_shift} \subseteq Nat

VARIABLES
    bpred,
    gtable, btable, hysteresis, streak,                     \* gem5_tage
    history, counters, run                                  \* gshare

G == INSTANCE Gem5Tage
Gs == INSTANCE Gshare

gem5State == <<gtable, btable, hysteresis, streak>>
gshareState == <<history, counters, run>>
predictorsVars == <<bpred, vars, gem5State, gshareState>>

Implementations == {"tage", "gem5_tage", "gshare"}

PredictorsTypeOK == bpred \in Implementations /\ TypeOK /\ G!TypeOK /\ Gs!TypeOK

PredictorsInit ==
    /\ bpred \in Implementations
    /\ Init /\ G!Init /\ Gs!Init

RunTage ==
    /\ bpred = "tage" /\ Next
    /\ UNCHANGED <<bpred, gem5State, gshareState>>

RunGem5Tage ==
    /\ bpred = "gem5_tage" /\ G!Next
    /\ UNCHANGED <<bpred, vars, gshareState>>

RunGshare ==
    /\ bpred = "gshare" /\ Gs!Next
    /\ UNCHANGED <<bpred, vars, gem5State>>

PredictorsNext == RunTage \/ RunGem5Tage \/ RunGshare
PredictorsSpec == PredictorsInit /\ [][PredictorsNext]_predictorsVars

-----------------------------------------------------------------------------
(* Property.  HistoryIsOutcomes and EntriesStay of Tage are properties of  *)
(* the predictors too.                                                     *)

\* A branch that keeps its direction is soon predicted (handleTAGEUpdate,
\* gshare::update_).
BranchesLearn == G!BranchesLearn /\ Gs!BranchesLearn
=============================================================================
