---------------------------- MODULE MCSerialPort ----------------------------
(* SerialPort with one HardwareSerial object for each of the two UARTs. *)
EXTENDS SerialPort

MCPortOf == [s \in Serials |-> IF s = "serial0" THEN 0 ELSE 1]
=============================================================================
