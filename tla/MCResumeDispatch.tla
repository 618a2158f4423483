-------------------------- MODULE MCResumeDispatch --------------------------
(* Two reviews and two workers: the request that rejects and the command,   *)
(* two commands, or two rejections that race.                               *)
EXTENDS ResumeDispatch
=============================================================================
