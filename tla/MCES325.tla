------------------------------ MODULE MCES325 ------------------------------
(* Values of the constants of ES325 for TLC.                               *)
EXTENDS ES325, TLC

CONSTANTS h1, h2, h3

Nothing == {}

TwoHandles == {h1, h2}
ThreeHandles == {h1, h2, h3}
HandleSymmetry3 == Permutations(ThreeHandles)

TwoPresets == {"OFF", "ASRA_HANDHELD"}
AsraAndOff == {"OFF", "ASRA_HANDHELD", "ASRA_DESKTOP"}

OnlyNs == {"NS"}

On == {TRUE}

\* every control opens; one of the two that a preset needs does not, but never
\* the sleep node
NoFailure == {{}}
PresetFailures == {{}, {"vp"}, {"preset"}}

=============================================================================
