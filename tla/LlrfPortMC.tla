----------------------------- MODULE LlrfPortMC -----------------------------
(***************************************************************************)
(* LlrfPort with the register parameters whose control or conversion       *)
(* differs: the clear sequence, a Float64 conversion, and the two          *)
(* parameters at offset 508, which the FPGA changes too.                   *)
(***************************************************************************)
EXTENDS LlrfPort, TLC

ClearOnly   == {"manual_Clear"}
ClearShared == {"manual_Clear", "state_wr_reg", "rd_reg_state"}
PhaseOnly   == {"sp_phase"}
NoParams    == {}

MCOffset ==
    [p \in Int32Params \cup Float64Params |->
        CASE p = "manual_Clear" -> 236
          [] p = "sp_phase"     -> 24
          [] OTHER              -> 508]
SharedOffset == {508}

OnePoint  == <<"waveform_single_point_CAV2_amp">>
TwoPoints == OnePoint \o <<"waveform_single_point_DAC_phase">>

(* 6 ticks are one raw step and a half; no output record writes             *)
(* rd_reg_state.                                                            *)
MCSetpoints ==
    [p \in Int32Params \cup Float64Params \cup {Position} |->
        CASE p = "manual_Clear" -> {0, 1}
          [] p = "sp_phase"     -> {6}
          [] p = "rd_reg_state" -> {}
          [] OTHER              -> {1}]
RegisterSetpoints == [MCSetpoints EXCEPT ![Position] = {}]

(* Positions below, within and beyond the waveforms. *)
PointSetpoints == [MCSetpoints EXCEPT ![Position] = {-1, 1, 2}]

Symmetry == Permutations(Threads)
=============================================================================
