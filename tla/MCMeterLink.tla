----------------------------- MODULE MCMeterLink -----------------------------
(* Finite instances of MeterLink: words of two bytes, two control registers  *)
(* and three calibration registers.                                         *)
EXTENDS MeterLink

MCControlWrites == << <<\h185, \h3000>>, <<MeterControlReg0Add, \h0C80>> >>
MCErrorRegs == <<WARTU, \h181, \h182>>
\* A correction whose bytes look like the start of a frame with an unknown
\* header, and two equal thresholds that look like the start of an answer to a
\* read command.
MCCalibInit == <<\h03FE, \h01FE, \h01FE>>
\* No voltage, and the two ends of the range that ends the calibration.
MCMeasured == {0, 1, \h1B73}
\* The highest byte first.
MCReadOrder == <<2, 1>>
=============================================================================
