--------------------------- MODULE MCEmailIngest ---------------------------
(* Instances of EmailIngest for TLC. *)
EXTENDS EmailIngest

CONSTANTS a1, m1, m2, s1, s2, k1, t1, h1

\* m1 has an attachment, m2 has none.
OneAttachment ==
  [m \in Msgs |-> IF m = m1 THEN <<[doc |-> k1, text |-> t1]>> ELSE << >>]

OneAccount == [s \in Syncs |-> a1]

\* Both bring m1, one of them behind a message with the same content.
Mails == [s \in Syncs |-> IF s = s1 THEN <<m2, m1>> ELSE <<m1>>]

SameHash == [m \in Msgs |-> h1]

\* Everywhere in the two stages of EmailIngest.
MailFaultPoints == {"email_sync", "email_parse"} \X (MailPc \ {"idle"})
=============================================================================
