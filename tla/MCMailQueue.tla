----------------------------- MODULE MCMailQueue -----------------------------
(* A small instance of MailQueue.                                           *)
EXTENDS MailQueue
=============================================================================
