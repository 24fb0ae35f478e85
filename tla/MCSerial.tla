------------------------------ MODULE MCSerial ------------------------------
(* Instances of SerialPort for TLC. *)
EXTENDS SerialPort
=============================================================================
