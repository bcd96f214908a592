---------------------------- MODULE DocumentLife ----------------------------
(***************************************************************************)
(* What becomes of a document, with no job, handler or request in sight.   *)
(* Its type is settled before it is scheduled; it is scheduled only with   *)
(* an object there; a text comes from an upload, is parsed after one was   *)
(* extracted, and is booked after one was parsed and only with             *)
(* transactions in it.  Nothing that was extracted, parsed or booked is    *)
(* ever taken back, and no step touches two documents.                     *)
(***************************************************************************)
CONSTANTS
  Docs,
  Texts,          \* object contents
  Blank,          \* those without a transaction
  NoText

VARIABLES
  readable,       \* is its type one that is read?
  uploaded,       \* the contents that its object has had
  status,         \* of its extraction, as users see it
  extractedText,
  normalizedJson, \* as the text it was made from
  booked          \* the texts whose transactions are in the ledger

vars == <<readable, uploaded, status, extractedText, normalizedJson, booked>>
-----------------------------------------------------------------------------
Init ==
  /\ readable = [d \in Docs |-> FALSE]
  /\ uploaded = [d \in Docs |-> {}]
  /\ status = [d \in Docs |-> "none"]
  /\ extractedText = [d \in Docs |-> NoText]
  /\ normalizedJson = [d \in Docs |-> NoText]
  /\ booked = [d \in Docs |-> {}]

Settle(d) ==
  /\ status[d] = "none"
  /\ \E m \in BOOLEAN : readable' = [readable EXCEPT ![d] = m]
  /\ UNCHANGED <<uploaded, status, extractedText, normalizedJson, booked>>

Upload(d) ==
  /\ \E t \in Texts : uploaded' = [uploaded EXCEPT ![d] = @ \cup {t}]
  /\ UNCHANGED <<readable, status, extractedText, normalizedJson, booked>>

Schedule(d) ==
  /\ uploaded[d] # {}
  /\ status' = [status EXCEPT ![d] = "PENDING"]
  /\ UNCHANGED <<readable, uploaded, extractedText, normalizedJson, booked>>

\* A worker begins with it, or gives up.
Work(d) ==
  /\ status[d] # "none"
  /\ \E s \in {"PROCESSING", "FAILED"} : status' = [status EXCEPT ![d] = s]
  /\ UNCHANGED <<readable, uploaded, extractedText, normalizedJson, booked>>

Extract(d) ==
  /\ status[d] # "none"
  /\ readable[d]
  /\ status' = [status EXCEPT ![d] = "SUCCEEDED"]
  /\ \E t \in uploaded[d] : extractedText' = [extractedText EXCEPT ![d] = t]
  /\ UNCHANGED <<readable, uploaded, normalizedJson, booked>>

Parse(d) ==
  /\ extractedText[d] # NoText
  /\ \E t \in uploaded[d] :
       /\ normalizedJson' = [normalizedJson EXCEPT ![d] = t]
       /\ status' = [status EXCEPT ![d] = IF t \in Blank THEN "FAILED"
                                                        ELSE "SUCCEEDED"]
  /\ UNCHANGED <<readable, uploaded, extractedText, booked>>

Book(d) ==
  /\ normalizedJson[d] # NoText
  /\ \E t \in uploaded[d] \ Blank : booked' = [booked EXCEPT ![d] = @ \cup {t}]
  /\ UNCHANGED <<readable, uploaded, status, extractedText, normalizedJson>>

Next ==
  \E d \in Docs :
    \/ Settle(d) \/ Upload(d) \/ Schedule(d) \/ Work(d)
    \/ Extract(d) \/ Parse(d) \/ Book(d)

Spec == Init /\ [][Next]_vars
=============================================================================
