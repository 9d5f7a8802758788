----------------------------- MODULE MCEmailSync -----------------------------
(***************************************************************************)
(* Instances of EmailSync: m1 opens a thread, m2 answers m1, m3 answers    *)
(* the hub's reply h1; odd is a mail without Message-ID, junk one without a *)
(* valid sender.                                                           *)
(***************************************************************************)
EXTENDS EmailSync

CONSTANTS m1, m2, m3, h1, odd, junk

MCInReplyTo == [m \in Mails |-> CASE m = m2 -> m1 [] m = m3 -> h1 [] OTHER -> None]
=============================================================================
