---------------------------- MODULE MCS3Upload ----------------------------
(* Bodies of up to six parts, one more than allowed, two workers, and so a  *)
(* channel of two places: the main goroutine can block on a fifth part.     *)
EXTENDS S3Upload

=============================================================================
