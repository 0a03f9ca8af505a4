-------------------------- MODULE MCCaptureWriter --------------------------
(* The capture with two processes on one file and a queue of one record.  *)
EXTENDS CaptureWriter
=============================================================================
