-------------------------- MODULE MCSerialSession --------------------------
(* Instances of SerialSession: the rates and control-line modes tried.      *)
EXTENDS SerialSession

MCAltBauds == <<500000, 115200>>
MCAltModes == <<"none", "assert">>
MCLinuxRates == {115200, 230400, 38400}
MCAllRates == {500000, 115200, 230400, 38400}
MCFullBauds == <<500000, 230400, 115200, 38400>>
MCFullModes == <<"none", "pulse", "assert">>

============================================================================
