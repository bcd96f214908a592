---------------------------- MODULE MCExtraction ----------------------------
(* Instances of Extraction for TLC. *)
EXTENDS Extraction

CONSTANTS d1, t1, blank

\* A handler's first read, and every step.
Steps == (Pc \ {"idle"}) \cup {"read"}

\* Between the SUCCEEDED row and the normalize job.
EnqueueWindow == {<<"doc_extract", "enqueue">>}

\* Everywhere but there.
ToleratedFaultPoints ==
  ((Stages \X Steps) \cup ({"api"} \X {"looking", "checked", "reset"})) \ EnqueueWindow
=============================================================================
