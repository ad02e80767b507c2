------------------------------- MODULE MCAta -------------------------------
(* Requests of up to three sectors at two places of the disk.              *)
EXTENDS Ata
=============================================================================
