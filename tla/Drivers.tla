------------------------------ MODULE Drivers ------------------------------
(* The drivers of all chips, by the names of their classes.                  *)
EXTENDS CpldPrograms, VrPrograms

(* The report of two of these about the programming is not seen; the third   *)
(* takes a bit of the chip for it, whatever became of the records.           *)
Unseen == {"ISL69269", "XDPE1X2XX", "MPX9XX"}

(* Whether a bank is free is asked after the registers were written.        *)
AsksLate == {"TPS25990", "RS31390"}

Programs ==
  [c \in {"XO3", "XO5Standard", "XO5TSeries", "XO5DSeries", "Max10",
          "ISL69269", "XDPE1X2XX", "MP2X6XX", "MP297X", "MPQ87XX", "MPX9XX",
          "MP5998", "TDA38640A", "TPS25990", "RS31390", "XDP71X"} |->
     CASE c = "XO3" -> XO3
       [] c = "XO5Standard" -> XO5Standard
       [] c = "XO5TSeries" -> XO5TSeries
       [] c = "XO5DSeries" -> XO5DSeries
       [] c = "Max10" -> Max10
       [] c = "ISL69269" -> ISL69269
       [] c = "XDPE1X2XX" -> XDPE1X2XX
       [] c = "MP2X6XX" -> MP2X6XX
       [] c = "MP297X" -> MP297X
       [] c = "MPQ87XX" -> MPQ87XX
       [] c = "MPX9XX" -> MPX9XX
       [] c = "MP5998" -> MP5998
       [] c = "TDA38640A" -> TDA38640A
       [] c = "TPS25990" -> TPS25990
       [] c = "RS31390" -> RS31390
       [] c = "XDP71X" -> XDP71X]
=============================================================================
