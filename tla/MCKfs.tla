------------------------------- MODULE MCKfs -------------------------------
(* A volume of three files with one file in the image.  Counts wrap at 3.  *)
EXTENDS Kfs

CONSTANTS fileA, fileB, dataA, dataB

ImageFiles == <<[name |-> fileA, size |-> 1, data |-> dataA]>>
=============================================================================
