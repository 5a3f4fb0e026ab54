-------------------------- MODULE MCCaptionInserter --------------------------
(* A small instance of CaptionInserter for TLC.                            *)
EXTENDS CaptionInserter

=============================================================================
