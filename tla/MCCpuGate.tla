------------------------------ MODULE MCCpuGate ------------------------------
(* Small instances of CpuGate: fixtures of zero tokens.                    *)
EXTENDS CpuGate

MCSizes == {FixtureSize}
=============================================================================
