---------------------------- MODULE MCAttachments ----------------------------
(* An instance of Attachments: the mail brings a picture and a program, the  *)
(* reply the same picture and a document.                                    *)
EXTENDS Attachments, TLC

CONSTANTS mail, reply, a, b, exe

MCAttached == (mail :> {a, exe}) @@ (reply :> {a, b})
=============================================================================
