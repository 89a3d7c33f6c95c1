---------------------------- MODULE MCS3Writer ----------------------------
(* Up to MaxWrites writes before the commit or the abort.                  *)
EXTENDS S3Writer
=============================================================================
