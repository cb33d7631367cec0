---------------------------- MODULE MCDtcReader ----------------------------
(* An instance of DtcReader: two ECUs, one of them the engine controller.   *)
EXTENDS DtcReader

MCEcus == {2024, 2025}   \* 7E8 and 7E9
MCEcm == 2024
MCFaulty == {2024}
MCKnows == [e \in MCEcus |-> IF e = 2024 THEN Services ELSE {"obd", "clear"}]

============================================================================
