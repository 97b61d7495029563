-------------------------- MODULE MCQueueAppender --------------------------
(* Model-checking instances of QueueAppender: the .cfg files give all the  *)
(* constants their values.                                                 *)
EXTENDS QueueAppender
=============================================================================
