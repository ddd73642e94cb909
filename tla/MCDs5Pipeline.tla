---------------------------- MODULE MCDs5Pipeline ----------------------------
(* The data path with one UDP thread and one nRF24 thread, as main.c        *)
(* creates them, and HID reports on both sides of every check.              *)
EXTENDS Ds5Pipeline

\* The USB and the Bluetooth report ID of the controller.
MCReportIds == {1, 49}

\* One byte short of each length check, at the check, and a full 64-byte report.
MCReportLens == {1, SizeofFull, SizeofFull + 1, 64}

==============================================================================
