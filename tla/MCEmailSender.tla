---------------------------- MODULE MCEmailSender ----------------------------
(***************************************************************************)
(* Two mails to none, one or two of two addresses, with buffers of one line *)
(* up to more than a whole message.                                         *)
(***************************************************************************)
EXTENDS EmailSender

MCRecipients == {"test", "admin"}
MCBufferSizes == {1, 2, 3, 20}
=============================================================================
