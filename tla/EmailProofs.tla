---------------------------- MODULE EmailProofs ----------------------------
(* Theorems about EmailIngest, for every set of accounts, messages,          *)
(* attachments and syncs, also when attachments share a document, and for    *)
(* every placement and number of faults.  The invariant has two halves: what *)
(* the jobs of a message have still to do, and what a document waits for.    *)
EXTENDS EmailIngest, ExtractionProofs

\* A handler runs only under the lock of its job.
HandOwnsJob == \A k \in Keys : hand[k].pc # "idle" => mailJob[k].state = "active"

\* A handler of k is at a step of k's queue, and at an element of its array.
Fits(k, h) ==
  /\ h.pc \in {"idle", "add", "ack"}
              \cup (IF k \in Syncs THEN {"message"} ELSE {"put", "document", "reset"})
  /\ h.pc \notin {"idle", "ack"} => List(k) # NoMessages /\ h.at \in DOMAIN List(k)

HandsFit == \A k \in Keys : Fits(k, hand[k])

\* What email_parse of message m has done when its handler is at h: it is through
\* with the attachments before h.at, and has come to step h.pc of that one.
Done(m, h) ==
  /\ h.pc = "ack" => \A i \in DOMAIN Attachments[m] : Ingested(Attachments[m][i].doc)
  /\ h.pc \notin {"idle", "ack"} =>
       \A i \in DOMAIN Attachments[m] :
         LET d == Attachments[m][i].doc IN
         /\ i < h.at => Ingested(d)
         /\ i = h.at =>
              /\ h.pc \in {"document", "reset", "add"} => object[d] # NoText
              /\ h.pc \in {"reset", "add"} => row[d] # "absent"
              /\ h.pc = "add" => status[d] # "none"

ParsesDone == \A m \in Msgs : Done(m, hand[m])

\* A message is pursued by its parse job, or by a sync.
ByParse(m) ==
  \A i \in DOMAIN Attachments[m] : Ahead(m, i) \/ Ingested(Attachments[m][i].doc)

BySync(m) ==
  \E s \in Syncs : \E i \in DOMAIN Given(s) : Given(s)[i] = m /\ Ahead(s, i)

MailIInv ==
  /\ TypeOK /\ MailTypeOK
  /\ HandOwnsJob /\ HandsFit /\ ParsesDone
  /\ MessageIsPursued
-----------------------------------------------------------------------------
(* What every step leaves there. *)

\* Objects, rows and extractions do not disappear.
Grows ==
  \A d \in Docs :
    /\ row[d] # "absent" => row'[d] # "absent"
    /\ object[d] # NoText => object'[d] # NoText
    /\ status[d] # "none" => status'[d] # "none"

\* The elements of a sequence over S are in S.
LEMMA SeqElement ==
  ASSUME NEW S, NEW s \in Seq(S), NEW i \in DOMAIN s
  PROVE  s[i] \in S
  OBVIOUS

\* An attachment has a document and a content.
LEMMA AttachmentType ==
  ASSUME NEW m \in Msgs, NEW i \in DOMAIN Attachments[m]
  PROVE  Attachments[m][i].doc \in Docs /\ Attachments[m][i].text \in Texts
<1>1. Attachments[m] \in Seq([doc: Docs, text: Texts])
  BY EmailAssumption
<1>2. Attachments[m][i] \in [doc: Docs, text: Texts]
  BY <1>1, SeqElement
<1>3. QED
  BY <1>2

\* A key is a sync or a message, and not both.
LEMMA KeyKinds ==
  /\ \A s \in Syncs : s \in Keys /\ s \notin Msgs /\ List(s) = Batch[s]
  /\ \A m \in Msgs : m \in Keys /\ m \notin Syncs /\ List(m) = Attachments[m]
  /\ \A k \in Keys : k \in Syncs \/ k \in Msgs
  BY EmailAssumption DEF Keys, List

\* What a loop goes through is a sequence.
LEMMA ListType ==
  ASSUME NEW k \in Keys, List(k) # NoMessages
  PROVE  /\ Len(List(k)) \in Nat
         /\ DOMAIN List(k) = 1..Len(List(k))
         /\ List(k) # << >> => Len(List(k)) >= 1
  BY KeyKinds, EmailAssumption

\* The attachments of a message are never the absence of messages.
LEMMA ListOfMessage == \A m \in Msgs : DOMAIN Attachments[m] = 1..Len(Attachments[m])
                                         /\ Len(Attachments[m]) \in Nat
  BY EmailAssumption

\* The messages given to a sync are what it loops over.
LEMMA GivenList ==
  ASSUME NEW s \in Syncs
  PROVE  /\ Batch[s] # NoMessages => Given(s) = Batch[s]
         /\ Batch[s] = NoMessages => DOMAIN Given(s) = {}
         /\ DOMAIN Given(s) = 1..Len(Given(s)) /\ Len(Given(s)) \in Nat
         /\ \A i \in DOMAIN Given(s) : Given(s)[i] \in Msgs
  BY EmailAssumption DEF Given

\* Attachments that are ingested stay so.
LEMMA IngestedStays ==
  ASSUME Grows, NEW d \in Docs, Ingested(d)
  PROVE  Ingested(d)'
  BY DEF Grows, Ingested

\* What a parse has done stays done.
LEMMA DoneStays ==
  ASSUME Grows, NEW m \in Msgs, NEW h, Done(m, h)
  PROVE  Done(m, h)'
  BY AttachmentType, IngestedStays DEF Grows, Done

\* A message that is pursued stays so while its jobs lose no more than they do.
LEMMA PursuedStep ==
  ASSUME Grows, NEW m \in Msgs, ByParse(m) \/ BySync(m),
         \A i \in DOMAIN Attachments[m] :
           Ahead(m, i) => Ahead(m, i)' \/ Ingested(Attachments[m][i].doc)',
         \A s \in Syncs : \A i \in DOMAIN Given(s) :
           Given(s)[i] = m /\ Ahead(s, i) => Ahead(s, i)' \/ ByParse(m)'
  PROVE  ByParse(m)' \/ BySync(m)'
<1>1. CASE ByParse(m)
  BY <1>1, AttachmentType, IngestedStays DEF ByParse
<1>2. CASE BySync(m)
  BY <1>2 DEF BySync, Given
<1>3. QED
  BY <1>1, <1>2

\* The property, message by message.
LEMMA PursuedForm == MessageIsPursued <=> \A m \in message : ByParse(m) \/ BySync(m)
  BY DEF MessageIsPursued, ByParse, BySync

\* In the beginning there is no message and no job.
LEMMA InitMailIInv == MailInit => MailIInv
<1> SUFFICES ASSUME MailInit PROVE MailIInv
  OBVIOUS
<1>1. TypeOK
  BY InitType DEF MailInit
<1>2. NoHand \in Hand /\ NoHand.pc = "idle"
  BY DEF NoHand, Hand, MailPc
<1>3. MailTypeOK
  BY <1>2, NoJobType DEF MailInit, MailTypeOK
<1>4. HandOwnsJob /\ HandsFit
  BY <1>2 DEF MailInit, HandOwnsJob, HandsFit, Fits
<1>5. ParsesDone
  BY <1>2, KeyKinds DEF MailInit, ParsesDone, Done
<1>6. MessageIsPursued
  BY DEF MailInit, MessageIsPursued
<1>7. QED
  BY <1>1, <1>3, <1>4, <1>5, <1>6 DEF MailIInv
-----------------------------------------------------------------------------
(* Steps of one job. *)

\* A step that gives the job of k the record j and its handler h.
LEMMA KeyStep ==
  ASSUME MailIInv, TypeOK', Grows,
         NEW k \in Keys, NEW j \in Job, NEW h \in Hand,
         mailJob' = [mailJob EXCEPT ![k] = j], hand' = [hand EXCEPT ![k] = h],
         h.pc # "idle" => j.state = "active",
         Fits(k, h), k \in Msgs => Done(k, h)',
         account' \in [Accounts -> {"none", "CONNECTED", "REVOKED"}],
         asked' \in SUBSET Syncs, dropped' \in [Docs -> BOOLEAN],
         message' \in SUBSET Msgs,
         \A m \in message' : m \in message \/ BySync(m)',
         k \in Syncs => \A i \in DOMAIN Given(k) :
           Ahead(k, i) => Ahead(k, i)' \/ ByParse(Given(k)[i])',
         k \in Msgs => \A i \in DOMAIN Attachments[k] :
           Ahead(k, i) => Ahead(k, i)' \/ Ingested(Attachments[k][i].doc)'
  PROVE  MailIInv'
<1>1. /\ TypeOK /\ MailTypeOK /\ HandOwnsJob /\ HandsFit /\ ParsesDone
      /\ MessageIsPursued
  BY DEF MailIInv
<1>2. mailJob' \in [Keys -> Job] /\ hand' \in [Keys -> Hand]
  BY <1>1 DEF MailTypeOK
<1>3. \A l \in Keys : /\ mailJob'[l] = IF l = k THEN j ELSE mailJob[l]
                      /\ hand'[l] = IF l = k THEN h ELSE hand[l]
  BY <1>1 DEF MailTypeOK
<1>4. HandsFit'
  BY <1>1, <1>3 DEF HandsFit, Fits
<1>5. HandOwnsJob'
  BY <1>1, <1>3 DEF HandOwnsJob
<1>6. MailTypeOK'
  BY <1>2, <1>4 DEF MailTypeOK, HandsFit, Fits
<1>7. ParsesDone'
  <2> SUFFICES ASSUME NEW m \in Msgs PROVE Done(m, hand[m])'
    BY DEF ParsesDone
  <2>1. PICK g : g = hand'[m]
    OBVIOUS
  <2>2. Done(m, g)'
    BY <1>1, <1>3, <2>1, KeyKinds, DoneStays DEF ParsesDone
  <2>3. QED
    BY <2>1, <2>2 DEF Done
<1>8. \A l \in Keys : \A i : l # k /\ Ahead(l, i) => Ahead(l, i)'
  BY <1>3 DEF Ahead
<1>9. MessageIsPursued'
  <2> SUFFICES ASSUME NEW m \in message' PROVE ByParse(m)' \/ BySync(m)'
    BY DEF MessageIsPursued, ByParse, BySync
  <2>1. CASE m \in message
    <3>1. m \in Msgs /\ (ByParse(m) \/ BySync(m))
      BY <2>1, <1>1, PursuedForm DEF MailTypeOK
    <3>2. \A i \in DOMAIN Attachments[m] :
            Ahead(m, i) => Ahead(m, i)' \/ Ingested(Attachments[m][i].doc)'
      BY <3>1, <1>8, KeyKinds
    <3>3. \A s \in Syncs : \A i \in DOMAIN Given(s) :
            Given(s)[i] = m /\ Ahead(s, i) => Ahead(s, i)' \/ ByParse(m)'
      BY <1>8, KeyKinds
    <3>4. QED
      BY <3>1, <3>2, <3>3, PursuedStep
  <2>2. QED
    BY <2>1
<1>10. QED
  BY <1>4, <1>5, <1>6, <1>7, <1>9 DEF MailIInv

\* A step that ends the handler of k and keeps the job, or puts it back.
LEMMA EndStep ==
  ASSUME MailIInv, TypeOK', NEW k \in Keys, NEW j \in Job, Exists(j),
         UNCHANGED <<row, object, status, account, message, asked, dropped>>,
         mailJob' = [mailJob EXCEPT ![k] = j], hand' = [hand EXCEPT ![k] = NoHand]
  PROVE  MailIInv'
<1>1. MailTypeOK
  BY DEF MailIInv
<1>2. /\ account' \in [Accounts -> {"none", "CONNECTED", "REVOKED"}]
      /\ asked' \in SUBSET Syncs /\ dropped' \in [Docs -> BOOLEAN]
      /\ message' \in SUBSET Msgs
  BY <1>1 DEF MailTypeOK
<1>3. NoHand \in Hand /\ NoHand.pc = "idle"
  BY DEF NoHand, Hand, MailPc
<1>4. Fits(k, NoHand) /\ Done(k, NoHand)'
  BY <1>3 DEF Fits, Done
<1>5. mailJob'[k] = j /\ hand'[k] = NoHand
  BY <1>1 DEF MailTypeOK
<1>6. \A i : Ahead(k, i)'
  BY <1>3, <1>5 DEF Ahead
<1>7. Grows
  BY DEF Grows
<1>8. QED
  BY <1>2, <1>3, <1>4, <1>6, <1>7, KeyStep

\* The same when the handler is not running at all.
LEMMA IdleStep ==
  ASSUME MailIInv, TypeOK', NEW k \in Keys, NEW j \in Job, Exists(j),
         hand[k].pc = "idle",
         UNCHANGED <<row, object, status, account, message, asked, dropped, hand>>,
         mailJob' = [mailJob EXCEPT ![k] = j]
  PROVE  MailIInv'
<1>1. MailTypeOK /\ HandsFit
  BY DEF MailIInv
<1>2. /\ account' \in [Accounts -> {"none", "CONNECTED", "REVOKED"}]
      /\ asked' \in SUBSET Syncs /\ dropped' \in [Docs -> BOOLEAN]
      /\ message' \in SUBSET Msgs
  BY <1>1 DEF MailTypeOK
<1>3. PICK h \in Hand : h = hand[k]
  BY <1>1 DEF MailTypeOK
<1>4. hand' = [hand EXCEPT ![k] = h]
  BY <1>1, <1>3 DEF MailTypeOK
<1>5. Fits(k, h) /\ Done(k, h)'
  BY <1>1, <1>3 DEF HandsFit, Done
<1>6. mailJob'[k] = j /\ hand'[k] = h
  BY <1>1, <1>3 DEF MailTypeOK
<1>7. \A i : Ahead(k, i)'
  BY <1>3, <1>6 DEF Ahead
<1>8. Grows
  BY DEF Grows
<1>9. QED
  BY <1>2, <1>3, <1>4, <1>5, <1>7, <1>8, KeyStep

\* An enqueue, a refusal, a retry, the stalled check: the job is kept.
LEMMA KeptStep ==
  ASSUME MailIInv, TypeOK', NEW k \in Keys,
         hand[k].pc = "idle" \/ hand' = [hand EXCEPT ![k] = NoHand],
         hand[k].pc = "idle" => UNCHANGED hand,
         UNCHANGED <<row, object, status, account, message, asked, dropped>>,
         \/ mailJob' = [mailJob EXCEPT ![k] = Fail(@)]
         \/ mailJob' = [mailJob EXCEPT ![k] = Stall(@)]
         \/ mailJob' = [mailJob EXCEPT ![k] = Requeue(@)]
  PROVE  MailIInv'
<1>1. mailJob[k] \in Job
  BY DEF MailIInv, MailTypeOK
<1>2. PICK j \in Job : Exists(j) /\ mailJob' = [mailJob EXCEPT ![k] = j]
  BY <1>1, FailFacts, StallFacts, RequeueFacts DEF Exists
<1>3. QED
  BY <1>2, EndStep, IdleStep
-----------------------------------------------------------------------------
(* The types of the document's variables. *)

\* Nothing of Extraction's state changes.
LEMMA SameType == TypeOK /\ UNCHANGED vars => TypeOK'
  BY StepType

\* A fault is counted.
LEMMA FaultType ==
  ASSUME TypeOK, NEW k \in Keys, MailFault(k)
  PROVE  TypeOK'
<1>1. faults' \in 0..MaxFaults
  BY ExtractionAssumption DEF MailFault, TypeOK
<1>2. QED
  BY <1>1 DEF MailFault, TypeOK, rowVars, extVars

\* email_parse writes contents, rows and statuses of their types.
LEMMA ParseType ==
  ASSUME TypeOK, HandsFit, NEW m \in Msgs,
         ParsePut(m) \/ ParseDocument(m) \/ ParseReset(m) \/ ParseAdd(m)
  PROVE  TypeOK'
<1>1. hand[m].pc \notin {"idle", "ack"}
  BY DEF ParsePut, ParseDocument, ParseReset, ParseAdd
<1>2. hand[m].at \in DOMAIN Attachments[m]
  BY <1>1, KeyKinds DEF HandsFit, Fits
<1>3. PICK d \in Docs, t \in Texts : d = Attached(m).doc /\ t = Attached(m).text
  BY <1>2, AttachmentType DEF Attached
<1>4. CASE ParsePut(m)
  <2>1. object' = [object EXCEPT ![d] = t]
        /\ uploaded' = [uploaded EXCEPT ![d] = @ \cup {t}]
    BY <1>3, <1>4 DEF ParsePut
  <2>2. object' \in [Docs -> Texts \cup {NoText}] /\ uploaded' \in [Docs -> SUBSET Texts]
    BY <2>1 DEF TypeOK
  <2>3. QED
    BY <2>2, <1>4 DEF ParsePut, TypeOK, extVars, bounds
<1>5. CASE ParseDocument(m)
  BY <1>3, <1>5 DEF ParseDocument, TypeOK, extVars, bounds
<1>6. CASE ParseReset(m)
  BY <1>3, <1>6 DEF ParseReset, TypeOK, rowVars, bounds, Status
<1>7. CASE ParseAdd(m)
  <2>1. job["doc_extract"][d] \in Job
    BY StageNames DEF TypeOK
  <2>2. job' = [job EXCEPT !["doc_extract"][d] = Add(job["doc_extract"][d])]
    BY <1>3, <1>7 DEF ParseAdd
  <2>3. job' \in [Stages -> [Docs -> Job]]
    BY <2>1, <2>2, AddFacts, StageNames, JobUpdate
  <2>4. QED
    BY <2>3, <1>7 DEF ParseAdd, TypeOK, rowVars, extVars, bounds
<1>8. QED
  BY <1>4, <1>5, <1>6, <1>7
-----------------------------------------------------------------------------
(* The actions. *)

LEMMA UserStep ==
  ASSUME MailIInv, NEW a \in Accounts, Connect(a) \/ Disconnect(a)
  PROVE  MailIInv'
<1>1. TypeOK'
  BY SameType DEF Connect, Disconnect, MailIInv
<1>2. account' \in [Accounts -> {"none", "CONNECTED", "REVOKED"}]
  BY DEF Connect, Disconnect, MailIInv, MailTypeOK
<1>3. UNCHANGED <<row, object, status, message, asked, mailJob, hand, dropped>>
  BY DEF Connect, Disconnect, vars
<1>4. MailTypeOK'
  BY <1>2, <1>3 DEF MailIInv, MailTypeOK
<1>5. HandOwnsJob' /\ HandsFit'
  BY <1>3 DEF MailIInv, HandOwnsJob, HandsFit, Fits
<1>6. ParsesDone'
  BY <1>3 DEF MailIInv, ParsesDone, Done, Ingested
<1>7. MessageIsPursued'
  BY <1>3 DEF MailIInv, MessageIsPursued, Ahead, Ingested
<1>8. QED
  BY <1>1, <1>4, <1>5, <1>6, <1>7 DEF MailIInv

\* A sync is asked for; if its job should be there it stays as it is.
LEMMA SyncNowStep ==
  ASSUME MailIInv, NEW s \in Syncs, SyncNow(s)
  PROVE  MailIInv'
<1>1. /\ TypeOK /\ MailTypeOK /\ HandOwnsJob /\ HandsFit
      /\ s \in Keys /\ s \notin Msgs /\ mailJob[s] \in Job
  BY KeyKinds DEF MailIInv, MailTypeOK
<1>2. TypeOK' /\ Grows
  BY <1>1, SameType DEF SyncNow, Grows, vars
<1>3. PICK j \in Job : j = Add(mailJob[s]) /\ Exists(j) /\ (Exists(mailJob[s]) => j = mailJob[s])
  BY <1>1, AddFacts
<1>4. PICK h \in Hand : h = hand[s]
  BY <1>1 DEF MailTypeOK
<1>5. mailJob' = [mailJob EXCEPT ![s] = j] /\ hand' = [hand EXCEPT ![s] = h]
  BY <1>1, <1>3, <1>4 DEF SyncNow, MailTypeOK
<1>6. h.pc # "idle" => j.state = "active"
  BY <1>1, <1>3, <1>4 DEF HandOwnsJob, Exists
<1>7. Fits(s, h)
  BY <1>1, <1>4 DEF HandsFit
<1>8. mailJob'[s] = j /\ hand'[s] = h
  BY <1>1, <1>5 DEF MailTypeOK
<1>9. \A i : Ahead(s, i) => Ahead(s, i)'
  BY <1>3, <1>4, <1>8 DEF Ahead
<1>10. /\ account' \in [Accounts -> {"none", "CONNECTED", "REVOKED"}]
       /\ asked' \in SUBSET Syncs /\ dropped' \in [Docs -> BOOLEAN]
       /\ message' \in SUBSET Msgs /\ message' = message
  BY <1>1 DEF SyncNow, MailTypeOK
<1>11. QED
  BY <1>1, <1>2, <1>3, <1>5, <1>6, <1>7, <1>9, <1>10, KeyStep

\* An attempt begins with the first element.
LEMMA StartStep ==
  ASSUME MailIInv, NEW k \in Keys, StartLoop(k), List(k) # NoMessages,
         UNCHANGED <<vars, account, message, asked, dropped>>
  PROVE  MailIInv'
<1>1. /\ TypeOK /\ MailTypeOK /\ mailJob[k] \in Job
      /\ Len(List(k)) \in Nat /\ DOMAIN List(k) = 1..Len(List(k))
      /\ List(k) # << >> => Len(List(k)) >= 1
  BY ListType DEF MailIInv, MailTypeOK
<1>2. TypeOK' /\ Grows
  BY <1>1, SameType DEF Grows, vars
<1>3. PICK j \in Job : j = Take(mailJob[k]) /\ j.state = "active"
  BY <1>1, TakeFacts
<1> DEFINE g == IF List(k) = << >> THEN [pc |-> "ack", at |-> 0]
                                  ELSE [pc |-> First(k), at |-> 1]
<1>4. PICK h \in Hand : h = g
  <2>1. First(k) \in MailPc /\ "ack" \in MailPc /\ 0 \in Nat /\ 1 \in Nat
    BY DEF First, MailPc
  <2>2. g \in Hand
    BY <2>1 DEF Hand
  <2>3. QED
    BY <2>2
<1>5. mailJob' = [mailJob EXCEPT ![k] = j] /\ hand' = [hand EXCEPT ![k] = h]
  BY <1>3, <1>4 DEF StartLoop
<1>6. Fits(k, h)
  BY <1>1, <1>4 DEF Fits, First
<1>7. k \in Msgs => Done(k, h)'
  <2> SUFFICES ASSUME k \in Msgs PROVE Done(k, h)'
    OBVIOUS
  <2>1. List(k) = Attachments[k] /\ First(k) = "put"
    BY KeyKinds DEF First
  <2>2. CASE List(k) = << >>
    BY <2>1, <2>2, <1>1, <1>4 DEF Done
  <2>3. CASE List(k) # << >>
    <3>1. h.pc = "put" /\ h.at = 1
      BY <2>1, <2>3, <1>4
    <3>2. \A i \in DOMAIN Attachments[k] : ~(i < 1)
      BY <2>1, <1>1
    <3>3. QED
      BY <3>1, <3>2 DEF Done
  <2>4. QED
    BY <2>2, <2>3
<1>8. mailJob'[k] = j /\ hand'[k] = h
  BY <1>1, <1>5 DEF MailTypeOK
<1>9. \A i \in DOMAIN List(k) : Ahead(k, i)'
  <2> SUFFICES ASSUME NEW i \in DOMAIN List(k) PROVE Ahead(k, i)'
    OBVIOUS
  <2>1. List(k) # << >> /\ 1 <= i
    BY <1>1
  <2>2. h.pc # "ack" /\ h.at = 1
    BY <2>1, <1>4 DEF First
  <2>3. QED
    BY <2>1, <2>2, <1>3, <1>8 DEF Ahead, Exists
<1>10. /\ k \in Syncs => Given(k) = List(k)
       /\ k \in Msgs => Attachments[k] = List(k)
  BY KeyKinds, GivenList
<1>11. /\ account' \in [Accounts -> {"none", "CONNECTED", "REVOKED"}]
       /\ asked' \in SUBSET Syncs /\ dropped' \in [Docs -> BOOLEAN]
       /\ message' \in SUBSET Msgs /\ message' = message
  BY <1>1 DEF MailTypeOK
<1> HIDE DEF g
<1>12. QED
  BY <1>2, <1>3, <1>5, <1>6, <1>7, <1>9, <1>10, <1>11, KeyStep

\* The handler of k goes on with another step for its element.
LEMMA OnStep ==
  ASSUME MailIInv, TypeOK', Grows, NEW k \in Keys, NEW pc \in MailPc \ {"idle", "ack"},
         NEW h \in Hand, h.pc = pc, h.at = hand[k].at,
         hand[k].pc \notin {"idle", "ack"}, Step(k, pc),
         Fits(k, h), k \in Msgs => Done(k, h)',
         UNCHANGED <<account, asked, mailJob, dropped>>, message' \in SUBSET Msgs,
         \A m \in message' : m \in message \/ BySync(m)'
  PROVE  MailIInv'
<1>1. MailTypeOK /\ HandOwnsJob /\ mailJob[k] \in Job /\ hand[k] \in Hand
  BY DEF MailIInv, MailTypeOK
<1>2. PICK j \in Job : j = mailJob[k]
  BY <1>1
<1>3. h = [hand[k] EXCEPT !.pc = pc]
  BY <1>1 DEF Hand
<1>4. mailJob' = [mailJob EXCEPT ![k] = j] /\ hand' = [hand EXCEPT ![k] = h]
  BY <1>1, <1>2, <1>3 DEF Step, MailTypeOK
<1>5. mailJob'[k] = j /\ hand'[k] = h
  BY <1>1, <1>4 DEF MailTypeOK
<1>7. h.pc # "idle" => j.state = "active"
  BY <1>1, <1>2 DEF HandOwnsJob
<1>8. \A i : Ahead(k, i) => Ahead(k, i)'
  BY <1>2, <1>5 DEF Ahead
<1>10. /\ account' \in [Accounts -> {"none", "CONNECTED", "REVOKED"}]
       /\ asked' \in SUBSET Syncs /\ dropped' \in [Docs -> BOOLEAN]
  BY <1>1 DEF MailTypeOK
<1>11. QED
  BY <1>4, <1>7, <1>8, <1>10, KeyStep

\* The message's row is stored, and its sync has still to add the parse job.
LEMMA SyncMessageStep ==
  ASSUME MailIInv, NEW s \in Syncs, SyncMessage(s)
  PROVE  MailIInv'
<1>1. /\ TypeOK /\ MailTypeOK /\ HandOwnsJob /\ HandsFit
      /\ s \in Keys /\ s \notin Msgs /\ hand[s] \in Hand /\ List(s) = Batch[s]
  BY KeyKinds DEF MailIInv, MailTypeOK
<1>2. TypeOK' /\ Grows
  BY <1>1, SameType DEF SyncMessage, Grows, vars
<1>3. PICK m : m = Batch[s][hand[s].at]
  OBVIOUS
<1>4. /\ hand[s].pc = "message" /\ message' = message \cup {m} /\ Step(s, "add")
      /\ UNCHANGED <<account, asked, mailJob, dropped>>
  BY <1>3 DEF SyncMessage
<1>5. Batch[s] # NoMessages /\ hand[s].at \in DOMAIN Batch[s]
  BY <1>1, <1>4 DEF HandsFit, Fits
<1>6. Given(s) = Batch[s] /\ m \in Msgs
  BY <1>3, <1>5, GivenList
<1>7. /\ hand'[s].pc = "add" /\ hand'[s].at = hand[s].at
      /\ mailJob'[s].state = "active"
  BY <1>1, <1>4 DEF Step, MailTypeOK, HandOwnsJob, Hand
<1>9. PICK i \in Nat : i = hand[s].at
  BY <1>1 DEF Hand
<1>10. BySync(m)'
  <2>1. i \in DOMAIN Given(s) /\ Given(s)[i] = m
    BY <1>3, <1>5, <1>6, <1>9
  <2>2. Ahead(s, i)'
    BY <1>7, <1>9 DEF Ahead, Exists, Hand
  <2>3. QED
    BY <2>1, <2>2 DEF BySync, Given
<1>11. PICK h \in Hand : h.pc = "add" /\ h.at = i
  BY [pc |-> "add", at |-> i] \in Hand DEF Hand, MailPc
<1>14. Fits(s, h)
  BY <1>1, <1>5, <1>9, <1>11 DEF Fits
<1>12. message' \in SUBSET Msgs /\ \A n \in message' : n \in message \/ BySync(n)'
  BY <1>1, <1>4, <1>6, <1>10 DEF MailTypeOK
<1>13. QED
  BY <1>1, <1>2, <1>4, <1>9, <1>11, <1>12, <1>14, OnStep DEF MailPc

\* The object is put, the row and the extraction are there.
LEMMA ParseStep ==
  ASSUME MailIInv, NEW m \in Msgs, ParsePut(m) \/ ParseDocument(m) \/ ParseReset(m)
  PROVE  MailIInv'
<1>1. /\ TypeOK /\ MailTypeOK /\ HandsFit /\ ParsesDone
      /\ m \in Keys /\ m \notin Syncs /\ hand[m] \in Hand /\ List(m) = Attachments[m]
  BY KeyKinds DEF MailIInv, MailTypeOK
<1>2. TypeOK'
  BY <1>1, ParseType
<1>3. PICK a \in Nat : a = hand[m].at
  BY <1>1 DEF Hand
<1>4. a \in DOMAIN Attachments[m] /\ List(m) # NoMessages
  BY <1>1, <1>3 DEF HandsFit, Fits, ParsePut, ParseDocument, ParseReset
<1>5. PICK d \in Docs, t \in Texts :
        d = Attachments[m][a].doc /\ t = Attachments[m][a].text
  BY <1>4, AttachmentType
<1>6. PICK pc \in {"document", "reset", "add"} :
        /\ Step(m, pc)
        /\ hand[m].pc \notin {"idle", "ack"}
        /\ pc = "document" => ParsePut(m)
        /\ pc = "reset" => ParseDocument(m)
        /\ pc = "add" => ParseReset(m)
  BY DEF ParsePut, ParseDocument, ParseReset
<1>7. /\ pc = "document" => object' = [object EXCEPT ![d] = t] /\ UNCHANGED <<row, status>>
      /\ pc = "reset" => row' = [row EXCEPT ![d] = "live"] /\ UNCHANGED <<object, status>>
                         /\ hand[m].pc = "document"
      /\ pc = "add" => status' = [status EXCEPT ![d] = "PENDING"] /\ UNCHANGED <<object, row>>
                       /\ hand[m].pc = "reset"
  BY <1>3, <1>5, <1>6 DEF ParsePut, ParseDocument, ParseReset, Attached, extVars, rowVars
<1>8. t # NoText
  BY ExtractionAssumption
<1>9. Grows
  BY <1>1, <1>6, <1>7, <1>8 DEF Grows, TypeOK
<1>10. /\ object'[d] # NoText
       /\ pc \in {"reset", "add"} => row'[d] # "absent"
       /\ pc = "add" => status'[d] # "none"
  <2>1. Done(m, hand[m])
    BY <1>1 DEF ParsesDone
  <2>2. /\ pc \in {"reset", "add"} => object[d] # NoText
        /\ pc = "add" => row[d] # "absent"
    BY <2>1, <1>3, <1>4, <1>5, <1>6, <1>7 DEF Done
  <2>3. QED
    BY <2>2, <1>1, <1>6, <1>7, <1>8 DEF TypeOK
<1>12. PICK h \in Hand : h.pc = pc /\ h.at = a
  BY [pc |-> pc, at |-> a] \in Hand DEF Hand, MailPc
<1>13. Done(m, h)'
  <2>1. \A i \in DOMAIN Attachments[m] : i < a => Ingested(Attachments[m][i].doc)'
    BY <1>1, <1>3, <1>6, <1>9, AttachmentType, IngestedStays DEF ParsesDone, Done
  <2>2. QED
    BY <2>1, <1>5, <1>6, <1>10, <1>12 DEF Done
<1>14. Fits(m, h)
  BY <1>1, <1>4, <1>6, <1>12 DEF Fits
<1>15. /\ UNCHANGED <<account, asked, mailJob, dropped, message>>
       /\ message' \in SUBSET Msgs
  BY <1>1 DEF MailTypeOK, ParsePut, ParseDocument, ParseReset
<1>17. QED
  BY <1>1, <1>2, <1>3, <1>6, <1>9, <1>12, <1>13, <1>14, <1>15, OnStep DEF MailPc

\* The handler of k is done with its element: the others are still ahead of it.
LEMMA NextElementFacts ==
  ASSUME MailTypeOK, HandsFit, NEW k \in Keys, NextElement(k),
         hand[k].pc \notin {"idle", "ack"}
  PROVE  \E h \in Hand :
           /\ hand' = [hand EXCEPT ![k] = h]
           /\ Fits(k, h)
           /\ h.pc # "idle"
           /\ h.pc = "ack" => hand[k].at = Len(List(k))
           /\ h.pc # "ack" => h.pc = First(k) /\ h.at = hand[k].at + 1
           /\ \A i \in DOMAIN List(k) :
                Ahead(k, i) /\ i # hand[k].at => h.pc # "ack" /\ h.at <= i
<1>1. PICK a \in Nat : a = hand[k].at
  BY DEF MailTypeOK, Hand
<1>2. List(k) # NoMessages /\ a \in DOMAIN List(k)
  BY <1>1 DEF HandsFit, Fits
<1>3. Len(List(k)) \in Nat /\ DOMAIN List(k) = 1..Len(List(k))
  BY <1>2, ListType
<1>4. \A i \in DOMAIN List(k) : Ahead(k, i) => a <= i
  BY <1>1 DEF Ahead
<1>5. First(k) \in MailPc \ {"idle", "ack", "add"} /\ "ack" \in MailPc
  BY DEF First, MailPc
<1>6. CASE a = Len(List(k))
  <2>1. PICK h \in Hand : h = [pc |-> "ack", at |-> 0]
    BY <1>5 DEF Hand
  <2>2. hand' = [hand EXCEPT ![k] = h]
    BY <1>1, <1>6, <2>1 DEF NextElement
  <2>3. Fits(k, h)
    BY <2>1 DEF Fits
  <2>4. \A i \in DOMAIN List(k) : Ahead(k, i) => i = a
    BY <1>3, <1>4, <1>6
  <2>5. QED
    BY <1>1, <1>6, <2>1, <2>2, <2>3, <2>4
<1>7. CASE a # Len(List(k))
  <2>1. PICK h \in Hand : h = [pc |-> First(k), at |-> a + 1]
    BY <1>1, <1>5, [pc |-> First(k), at |-> a + 1] \in Hand DEF Hand
  <2>2. hand' = [hand EXCEPT ![k] = h]
    BY <1>1, <1>7, <2>1 DEF NextElement
  <2>3. a + 1 \in DOMAIN List(k)
    BY <1>1, <1>2, <1>3, <1>7
  <2>4. Fits(k, h)
    BY <1>2, <2>1, <2>3 DEF Fits, First
  <2>5. \A i \in DOMAIN List(k) : Ahead(k, i) /\ i # a => a + 1 <= i
    BY <1>2, <1>3, <1>4
  <2>6. QED
    BY <1>1, <1>5, <2>1, <2>2, <2>4, <2>5
<1>8. QED
  BY <1>6, <1>7

\* The parse job is added: from now on it pursues the message.
LEMMA SyncAddStep ==
  ASSUME MailIInv, NEW s \in Syncs, SyncAdd(s)
  PROVE  MailIInv'
<1>1. /\ TypeOK /\ MailTypeOK /\ HandOwnsJob /\ HandsFit /\ ParsesDone /\ MessageIsPursued
      /\ s \in Keys /\ s \notin Msgs /\ List(s) = Batch[s]
  BY KeyKinds DEF MailIInv
<1>2. TypeOK' /\ Grows
  BY <1>1, SameType DEF SyncAdd, Grows, vars
<1>3. PICK a \in Nat : a = hand[s].at
  BY <1>1 DEF MailTypeOK, Hand
<1>4. /\ hand[s].pc = "add" /\ NextElement(s)
      /\ UNCHANGED <<account, message, asked, dropped>>
  BY DEF SyncAdd
<1>5. /\ Batch[s] # NoMessages /\ Given(s) = Batch[s]
      /\ a \in DOMAIN Given(s) /\ Given(s)[a] \in Msgs
  BY <1>1, <1>3, <1>4, GivenList DEF HandsFit, Fits
<1>6. PICK m \in Msgs : m = Given(s)[a]
  BY <1>5
<1>7. m \in Keys /\ m # s /\ mailJob[m] \in Job
  BY <1>1, KeyKinds DEF MailTypeOK
<1>8. PICK j \in Job : /\ j = Add(mailJob[m]) /\ Exists(j)
                       /\ Exists(mailJob[m]) => j = mailJob[m]
  BY <1>7, AddFacts
<1>9. PICK h \in Hand :
        /\ hand' = [hand EXCEPT ![s] = h] /\ Fits(s, h)
        /\ \A i \in DOMAIN Given(s) : Ahead(s, i) /\ i # a => h.pc # "ack" /\ h.at <= i
  BY <1>1, <1>3, <1>4, <1>5, NextElementFacts
<1>10. mailJob' = [mailJob EXCEPT ![m] = j]
  BY <1>3, <1>5, <1>6, <1>8 DEF SyncAdd
<1>11. \A l \in Keys : /\ mailJob'[l] = IF l = m THEN j ELSE mailJob[l]
                       /\ hand'[l] = IF l = s THEN h ELSE hand[l]
  BY <1>1, <1>9, <1>10 DEF MailTypeOK
<1>12. \A l \in Keys : /\ Exists(mailJob[l]) => mailJob'[l] = mailJob[l]
                       /\ mailJob[l].state = "active" => Exists(mailJob[l])
  BY <1>8, <1>11 DEF Exists
<1>13. HandsFit'
  BY <1>1, <1>9, <1>11 DEF HandsFit, Fits
<1>14. HandOwnsJob'
  <2>1. mailJob[s].state = "active"
    BY <1>1, <1>4 DEF HandOwnsJob
  <2>2. QED
    BY <2>1, <1>1, <1>11, <1>12 DEF HandOwnsJob
<1>15. MailTypeOK'
  <2>1. mailJob' \in [Keys -> Job] /\ hand' \in [Keys -> Hand]
    BY <1>1, <1>9, <1>10 DEF MailTypeOK
  <2>2. QED
    BY <2>1, <1>1, <1>4, <1>13 DEF MailTypeOK, HandsFit, Fits
<1>16. \A n \in Msgs : hand'[n] = hand[n] /\ Done(n, hand[n]) /\ n \in Keys /\ n # s
  BY <1>1, <1>11, KeyKinds DEF ParsesDone
<1>17. ParsesDone'
  <2> SUFFICES ASSUME NEW n \in Msgs PROVE Done(n, hand[n])'
    BY DEF ParsesDone
  <2>1. PICK g : g = hand[n]
    OBVIOUS
  <2>2. Done(n, g)'
    BY <1>2, <1>16, <2>1, DoneStays
  <2>3. QED
    BY <2>1, <2>2, <1>16 DEF Done
<1>18. ByParse(m)'
  <2> SUFFICES ASSUME NEW i \in DOMAIN Attachments[m],
                      ~Ingested(Attachments[m][i].doc)'
               PROVE  Ahead(m, i)'
    BY DEF ByParse
  <2>1. Exists(mailJob'[m]) /\ hand'[m] = hand[m] /\ hand[m] \in Hand
    BY <1>1, <1>7, <1>8, <1>11 DEF MailTypeOK
  <2>2. ~Ingested(Attachments[m][i].doc)
    BY <1>2, AttachmentType, IngestedStays
  <2>3. hand[m].pc # "ack" /\ (hand[m].pc # "idle" => ~(i < hand[m].at))
    BY <2>2, <1>16 DEF Done
  <2>4. i \in Nat
    BY ListOfMessage
  <2>5. QED
    BY <2>1, <2>3, <2>4 DEF Ahead, Hand
<1>19. MessageIsPursued'
  <2> SUFFICES ASSUME NEW n \in message' PROVE ByParse(n)' \/ BySync(n)'
    BY DEF MessageIsPursued, ByParse, BySync
  <2>1. n \in Msgs /\ (ByParse(n) \/ BySync(n))
    BY <1>1, <1>4, PursuedForm DEF MailTypeOK
  <2>2. \A i \in DOMAIN Attachments[n] : Ahead(n, i) => Ahead(n, i)'
    BY <2>1, <1>11, <1>12, <1>16 DEF Ahead
  <2>3. ASSUME NEW r \in Syncs, NEW i \in DOMAIN Given(r), Given(r)[i] = n, Ahead(r, i)
        PROVE  Ahead(r, i)' \/ ByParse(n)'
    <3>1. r \in Keys /\ Exists(mailJob'[r])
      BY <2>3, <1>12, KeyKinds DEF Ahead
    <3>2. CASE r # s
      BY <2>3, <3>1, <3>2, <1>11 DEF Ahead
    <3>3. CASE r = s /\ i = a
      BY <2>3, <3>3, <1>6, <1>18
    <3>4. CASE r = s /\ i # a
      BY <2>3, <3>1, <3>4, <1>9, <1>11 DEF Ahead
    <3>5. QED
      BY <3>2, <3>3, <3>4
  <2>4. QED
    BY <2>1, <2>2, <2>3, <1>2, PursuedStep
<1>20. QED
  BY <1>2, <1>13, <1>14, <1>15, <1>17, <1>19 DEF MailIInv

\* The document's job is added, and the attachment is ingested.
LEMMA ParseAddStep ==
  ASSUME MailIInv, NEW m \in Msgs, ParseAdd(m)
  PROVE  MailIInv'
<1>1. /\ TypeOK /\ MailTypeOK /\ HandOwnsJob /\ HandsFit /\ ParsesDone
      /\ m \in Keys /\ m \notin Syncs /\ List(m) = Attachments[m]
  BY KeyKinds DEF MailIInv
<1>2. TypeOK' /\ Grows
  BY <1>1, ParseType DEF ParseAdd, Grows, rowVars, extVars
<1>3. PICK a \in Nat : a = hand[m].at
  BY <1>1 DEF MailTypeOK, Hand
<1>4. /\ hand[m].pc = "add" /\ NextElement(m)
      /\ UNCHANGED <<row, object, status, account, message, asked, mailJob>>
  BY DEF ParseAdd, rowVars, extVars
<1>5. /\ a \in DOMAIN Attachments[m]
      /\ Len(Attachments[m]) \in Nat /\ DOMAIN Attachments[m] = 1..Len(Attachments[m])
  BY <1>1, <1>3, <1>4, ListOfMessage DEF HandsFit, Fits
<1>6. PICK h \in Hand :
        /\ hand' = [hand EXCEPT ![m] = h] /\ Fits(m, h) /\ h.pc # "idle"
        /\ h.pc = "ack" => a = Len(Attachments[m])
        /\ h.pc # "ack" => h.pc = "put" /\ h.at = a + 1
        /\ \A i \in DOMAIN Attachments[m] :
             Ahead(m, i) /\ i # a => h.pc # "ack" /\ h.at <= i
  BY <1>1, <1>3, <1>4, NextElementFacts DEF First
<1>7. PICK j \in Job : j = mailJob[m] /\ j.state = "active"
  BY <1>1, <1>4 DEF MailTypeOK, HandOwnsJob
<1>8. mailJob' = [mailJob EXCEPT ![m] = j]
  BY <1>1, <1>4, <1>7 DEF MailTypeOK
<1>9. \A i \in DOMAIN Attachments[m] : i <= a => Ingested(Attachments[m][i].doc)'
  <2> SUFFICES ASSUME NEW i \in DOMAIN Attachments[m], i <= a
               PROVE  Ingested(Attachments[m][i].doc)
    BY <1>2, AttachmentType, IngestedStays
  <2>1. i < a \/ i = a
    BY <1>3, <1>5
  <2>2. QED
    BY <2>1, <1>1, <1>3, <1>4 DEF ParsesDone, Done, Ingested
<1>10. Done(m, h)'
  <2>1. \A i \in DOMAIN Attachments[m] : (h.pc = "ack" => i <= a) /\ (i < a + 1 => i <= a)
    BY <1>3, <1>5, <1>6
  <2>2. CASE h.pc = "ack"
    BY <2>1, <2>2, <1>9 DEF Done
  <2>3. CASE h.pc # "ack"
    BY <2>1, <2>3, <1>6, <1>9 DEF Done
  <2>4. QED
    BY <2>2, <2>3
<1>11. mailJob'[m] = j /\ hand'[m] = h
  BY <1>1, <1>6, <1>8 DEF MailTypeOK
<1>12. \A i \in DOMAIN Attachments[m] :
         Ahead(m, i) => Ahead(m, i)' \/ Ingested(Attachments[m][i].doc)'
  <2> SUFFICES ASSUME NEW i \in DOMAIN Attachments[m], Ahead(m, i)
               PROVE  Ahead(m, i)' \/ Ingested(Attachments[m][i].doc)'
    OBVIOUS
  <2>1. CASE i = a
    BY <2>1, <1>3, <1>9
  <2>2. CASE i # a
    BY <2>2, <1>6, <1>7, <1>11 DEF Ahead, Exists
  <2>3. QED
    BY <2>1, <2>2
<1>13. /\ account' \in [Accounts -> {"none", "CONNECTED", "REVOKED"}]
       /\ asked' \in SUBSET Syncs /\ message' \in SUBSET Msgs /\ message' = message
  BY <1>1, <1>4 DEF MailTypeOK
<1>14. dropped' \in [Docs -> BOOLEAN]
  <2>1. PICK d : d = Attached(m).doc
    OBVIOUS
  <2>2. PICK b \in BOOLEAN : dropped' = [dropped EXCEPT ![d] = b]
    BY <2>1 DEF ParseAdd
  <2>3. QED
    BY <2>2, <1>1 DEF MailTypeOK
<1>15. QED
  BY <1>1, <1>2, <1>6, <1>7, <1>8, <1>10, <1>12, <1>13, <1>14, KeyStep

\* A handler that has returned has nothing ahead of it.
LEMMA MailAckStep ==
  ASSUME MailIInv, NEW k \in Keys, MailAck(k)
  PROVE  MailIInv'
<1>1. /\ TypeOK /\ MailTypeOK /\ hand[k].pc = "ack"
      /\ UNCHANGED <<vars, account, message, asked, dropped>>
      /\ mailJob' = [mailJob EXCEPT ![k] = NoJob] /\ hand' = [hand EXCEPT ![k] = NoHand]
  BY DEF MailIInv, MailAck
<1>2. TypeOK' /\ Grows
  BY <1>1, SameType DEF Grows, vars
<1>3. NoHand \in Hand /\ NoHand.pc = "idle" /\ NoJob \in Job
  BY NoJobType DEF NoHand, Hand, MailPc
<1>4. Fits(k, NoHand) /\ Done(k, NoHand)'
  BY <1>3 DEF Fits, Done
<1>5. \A i : ~Ahead(k, i)
  BY <1>1 DEF Ahead
<1>6. /\ account' \in [Accounts -> {"none", "CONNECTED", "REVOKED"}]
      /\ asked' \in SUBSET Syncs /\ dropped' \in [Docs -> BOOLEAN]
      /\ message' \in SUBSET Msgs /\ message' = message
  BY <1>1 DEF MailTypeOK
<1>7. QED
  BY <1>1, <1>2, <1>3, <1>4, <1>5, <1>6, KeyStep

\* Refusals, faults, the stalled check and a retry keep the job.
LEMMA FaultStep ==
  ASSUME MailIInv, NEW k \in Keys,
         \/ k \in Syncs /\ (SyncRefused(k) \/ SyncClashes(k))
         \/ MailThrows(k) \/ MailDies(k) \/ MailRecover(k) \/ MailRetry(k)
  PROVE  MailIInv'
<1>1. /\ TypeOK /\ MailTypeOK /\ HandOwnsJob
      /\ mailJob[k] \in Job
      /\ hand[k].pc # "idle" => mailJob[k].state = "active"
  BY DEF MailIInv, MailTypeOK, HandOwnsJob
<1>2. CASE SyncRefused(k) \/ SyncClashes(k) \/ MailRecover(k) \/ MailRetry(k)
  <2>1. UNCHANGED <<vars, account, message, asked, dropped>>
    BY <1>2 DEF SyncRefused, SyncClashes, MailRecover, MailRetry
  <2>2. TypeOK' /\ UNCHANGED <<row, object, status>>
    BY <1>1, <2>1, SameType DEF vars
  <2>3. \/ hand[k].pc = "idle" /\ UNCHANGED hand
        \/ hand[k].pc # "idle" /\ hand' = [hand EXCEPT ![k] = NoHand]
    BY <1>1, <1>2 DEF SyncRefused, SyncClashes, MailRecover, MailRetry
  <2>4. \/ mailJob' = [mailJob EXCEPT ![k] = Fail(@)]
        \/ mailJob' = [mailJob EXCEPT ![k] = Stall(@)]
        \/ mailJob' = [mailJob EXCEPT ![k] = Requeue(@)]
    BY <1>2 DEF SyncRefused, SyncClashes, MailRecover, MailRetry
  <2>5. QED
    BY <2>1, <2>2, <2>3, <2>4, KeptStep
<1>3. CASE MailThrows(k) \/ MailDies(k)
  <2>1. TypeOK' /\ hand[k].pc # "idle" /\ hand' = [hand EXCEPT ![k] = NoHand]
    BY <1>1, <1>3, FaultType DEF MailThrows, MailDies, MailFault
  <2>2. UNCHANGED <<row, object, status, account, message, asked, dropped>>
    BY <1>3 DEF MailThrows, MailDies, MailFault, rowVars, extVars
  <2>3. CASE MailThrows(k)
    BY <2>1, <2>2, <2>3, KeptStep DEF MailThrows
  <2>4. CASE MailDies(k)
    <3>1. PICK j \in Job : j = mailJob[k] /\ Exists(j)
      BY <1>1, <2>1 DEF Exists
    <3>2. mailJob' = [mailJob EXCEPT ![k] = j]
      BY <1>1, <2>4, <3>1 DEF MailDies, MailTypeOK
    <3>3. QED
      BY <2>1, <2>2, <3>1, <3>2, EndStep
  <2>5. QED
    BY <1>3, <2>3, <2>4
<1>4. QED
  BY <1>2, <1>3

\* The pipeline and its users take nothing away from a document.
LEMMA DocumentGrows ==
  ASSUME TypeOK, NEW d \in Docs, DocumentStep(d)
  PROVE  Grows /\ TypeOK'
<1>1. TypeOK'
  BY StepType DEF DocumentStep, Next, DocNext, Client
<1>2. CASE SoftDelete(d)
  BY <1>1, <1>2 DEF SoftDelete, Grows, TypeOK, extVars
<1>3. CASE ExtractStage(d)
  BY <1>1, <1>3 DEF ExtractStage, ExtractStart, ExtractClaim, ExtractLoad, ExtractStore,
              EnqueueNormalize, EnqueueNext, Ack, RecoverStalled,
              Grows, TypeOK, rowVars, extVars
<1>4. CASE NormalizeStage(d)
  BY <1>1, <1>4 DEF NormalizeStage, NormalizeStart, NormalizeNotReady, NormalizeWrite,
              EnqueueTxUpsert, EnqueueNext, Ack, RecoverStalled,
              Grows, TypeOK, rowVars, extVars
<1>5. CASE TxUpsertStage(d)
  BY <1>1, <1>5 DEF TxUpsertStage, TxUpsertStart, TxUpsertWrite, Ack, RecoverStalled,
              Grows, rowVars, extVars
<1>6. CASE Fault(d) \/ Admin(d)
  BY <1>1, <1>6 DEF Fault, Admin, CompleteFails, ReadThrows, JobThrows, WorkerDies,
              ExtractCatches, RetryJob, Grows, rowVars, extVars
<1>7. QED
  BY <1>1, <1>2, <1>3, <1>4, <1>5, <1>6 DEF DocumentStep, Worker

\* A step of a document disturbs no mail job.
LEMMA DocumentStepKeeps ==
  ASSUME MailIInv, TypeOK', Grows, UNCHANGED mailVars
  PROVE  MailIInv'
<1>1. UNCHANGED <<account, message, asked, mailJob, hand, dropped>>
  BY DEF mailVars
<1>2. MailTypeOK' /\ HandOwnsJob' /\ HandsFit'
  BY <1>1 DEF MailIInv, MailTypeOK, HandOwnsJob, HandsFit, Fits
<1>3. ParsesDone'
  <2> SUFFICES ASSUME NEW m \in Msgs PROVE Done(m, hand[m])'
    BY DEF ParsesDone
  <2>1. PICK g : g = hand[m]
    OBVIOUS
  <2>2. Done(m, g)'
    BY <2>1, DoneStays DEF MailIInv, ParsesDone
  <2>3. QED
    BY <1>1, <2>1, <2>2 DEF Done
<1>4. \A k, i : Ahead(k, i) => Ahead(k, i)'
  BY <1>1 DEF Ahead
<1>5. MessageIsPursued'
  <2> SUFFICES ASSUME NEW m \in message' PROVE ByParse(m)' \/ BySync(m)'
    BY DEF MessageIsPursued, ByParse, BySync
  <2>1. m \in Msgs /\ (ByParse(m) \/ BySync(m))
    BY <1>1, PursuedForm DEF MailIInv, MailTypeOK
  <2>2. QED
    BY <2>1, <1>4, PursuedStep
<1>6. QED
  BY <1>2, <1>3, <1>5 DEF MailIInv
-----------------------------------------------------------------------------
\* One case per action.
LEMMA NextMailIInv == MailIInv /\ [MailNext]_allVars => MailIInv'
<1> SUFFICES ASSUME MailIInv, [MailNext]_allVars PROVE MailIInv'
  OBVIOUS
<1>1. CASE MailUser
  BY <1>1, UserStep DEF MailUser
<1>2. ASSUME NEW k \in Keys, MailThrows(k) \/ MailDies(k) \/ MailRetry(k)
      PROVE  MailIInv'
  BY <1>2, FaultStep
<1>3. ASSUME NEW s \in Syncs, SyncNow(s) \/ SyncStage(s)
      PROVE  MailIInv'
  <2>1. s \in Keys /\ List(s) = Batch[s]
    BY KeyKinds
  <2>2. CASE SyncStart(s)
    BY <2>1, <2>2, StartStep DEF SyncStart, MaySync
  <2>3. CASE SyncNow(s)
    BY <2>3, SyncNowStep
  <2>4. CASE SyncMessage(s)
    BY <2>4, SyncMessageStep
  <2>5. CASE SyncAdd(s)
    BY <2>5, SyncAddStep
  <2>6. CASE MailAck(s)
    BY <2>1, <2>6, MailAckStep
  <2>7. CASE SyncRefused(s) \/ SyncClashes(s) \/ MailRecover(s)
    BY <2>1, <2>7, FaultStep
  <2>8. QED
    BY <1>3, <2>2, <2>3, <2>4, <2>5, <2>6, <2>7 DEF SyncStage
<1>4. ASSUME NEW m \in Msgs, ParseStage(m)
      PROVE  MailIInv'
  <2>1. m \in Keys /\ List(m) = Attachments[m] /\ List(m) # NoMessages
    BY KeyKinds, EmailAssumption
  <2>2. CASE ParseStart(m)
    BY <2>1, <2>2, StartStep DEF ParseStart
  <2>3. CASE ParsePut(m) \/ ParseDocument(m) \/ ParseReset(m)
    BY <2>3, ParseStep
  <2>4. CASE ParseAdd(m)
    BY <2>4, ParseAddStep
  <2>5. CASE MailAck(m)
    BY <2>1, <2>5, MailAckStep
  <2>6. CASE MailRecover(m)
    BY <2>1, <2>6, FaultStep
  <2>7. QED
    BY <1>4, <2>2, <2>3, <2>4, <2>5, <2>6 DEF ParseStage
<1>5. ASSUME NEW d \in Docs, DocumentStep(d), UNCHANGED mailVars
      PROVE  MailIInv'
  BY <1>5, DocumentGrows, DocumentStepKeeps DEF MailIInv
<1>6. CASE UNCHANGED allVars
  <2>1. UNCHANGED vars /\ UNCHANGED mailVars
    BY <1>6 DEF allVars
  <2>2. TypeOK' /\ Grows
    BY <2>1, SameType DEF MailIInv, Grows, vars
  <2>3. QED
    BY <2>1, <2>2, DocumentStepKeeps
<1>7. QED
  BY <1>1, <1>2, <1>3, <1>4, <1>5, <1>6 DEF MailNext
-----------------------------------------------------------------------------
(* The document's side: what waits is scheduled. *)

\* The job is there, and its handler, if it runs, is not past its store: there it
\* would not look at a reset any more.
AtWork(d) ==
  /\ Exists(job["doc_extract"][d])
  /\ run["doc_extract"][d].pc \notin {"enqueue", "ack"}

\* A parse has still to add the job of d.
ToAdd(d) ==
  \E m \in Msgs : \E i \in DOMAIN Attachments[m] :
    Attachments[m][i].doc = d /\ Ahead(m, i)

Scheduled(d) == status[d] = "PENDING" => AtWork(d) \/ ToAdd(d) \/ dropped[d]

DocsInv == \A d \in Docs : StatusInv(d) /\ Scheduled(d)

\* In the beginning nothing waits.
LEMMA InitDocsInv == MailInit => DocsInv
<1> SUFFICES ASSUME MailInit, NEW d \in Docs PROVE StatusInv(d) /\ Scheduled(d)
  BY DEF DocsInv
<1>1. IInv /\ status[d] = "none"
  BY InitIInv DEF MailInit, Init
<1>2. QED
  BY <1>1 DEF IInv, Scheduled

\* A step of the pipeline that leaves a document PENDING has found it PENDING,
\* and its doc_extract job, if at work, stays so.
LEMMA PendingStep ==
  ASSUME TypeOK, NEW d \in Docs, StatusInv(d), DocumentStep(d),
         status'[d] = "PENDING"
  PROVE  status[d] = "PENDING" /\ (AtWork(d) => AtWork(d)')
<1> USE StageNames DEF rowVars, extVars, bounds, AtWork
<1>t. status \in [Docs -> Status] /\ \A q \in Stages : job[q][d] \in Job
  BY DEF TypeOK
<1>1. CASE SoftDelete(d)
  BY <1>1 DEF SoftDelete
<1>2. CASE ExtractStart(d)
  <2>1. status[d] = "PENDING" /\ Start("doc_extract", d, "claim", NoText)
    BY <1>2 DEF ExtractStart
  <2>2. job'["doc_extract"][d].state = "active" /\ run'["doc_extract"][d].pc = "claim"
    BY <2>1, StartAt, GoOnAt
  <2>3. QED
    BY <2>1, <2>2 DEF Exists
<1>3. CASE ExtractClaim(d) \/ ExtractStore(d) \/ NormalizeWrite(d)
  BY <1>3, <1>t DEF ExtractClaim, ExtractStore, NormalizeWrite
<1>4. CASE ExtractLoad(d)
  BY <1>4, GoOnAt DEF ExtractLoad
<1>5. ASSUME NEW p \in Stages, NEW q \in Stages, EnqueueNext(p, q, d)
      PROVE  status[d] = "PENDING" /\ (AtWork(d) => AtWork(d)')
  <2>1. Exists(job["doc_extract"][d]) => Exists(job'["doc_extract"][d])
    BY <1>5, AddAt DEF EnqueueNext
  <2>2. /\ run[p][d].pc = "enqueue" /\ UNCHANGED status
        /\ p # "doc_extract" => run'["doc_extract"][d].pc = run["doc_extract"][d].pc
    BY <1>5, GoOnAt DEF EnqueueNext
  <2>3. QED
    BY <2>1, <2>2
<1>6. ASSUME NEW q \in Stages, Ack(q, d)
      PROVE  status[d] = "PENDING" /\ (AtWork(d) => AtWork(d)')
  <2>1. \A p \in Stages : p # q => job'[p][d] = job[p][d]
    BY <1>6, JobAt DEF Ack
  <2>2. \A p \in Stages : p # q => run'[p][d] = run[p][d]
    BY <1>6, IdleAt DEF Ack
  <2>3. run[q][d].pc = "ack" /\ UNCHANGED status
    BY <1>6 DEF Ack
  <2>4. QED
    BY <2>1, <2>2, <2>3
<1>7. ASSUME NEW q \in Stages,
             RecoverStalled(q, d) \/ RetryJob(q, d) \/ ReadThrows(q, d)
      PROVE  status[d] = "PENDING" /\ (AtWork(d) => AtWork(d)')
  <2>1. /\ Exists(job'[q][d]) /\ \A p \in Stages : p # q => job'[p][d] = job[p][d]
    BY <1>7, KeepAt DEF RecoverStalled, RetryJob, ReadThrows
  <2>2. UNCHANGED <<status, run>>
    BY <1>7 DEF RecoverStalled, RetryJob, ReadThrows
  <2>3. QED
    BY <2>1, <2>2
<1>8. CASE NormalizeStart(d) \/ TxUpsertStart(d)
  <2>1. PICK q \in {"normalize", "tx_upsert"}, pc \in Pc, t \in Texts \cup {NoText} :
          Start(q, d, pc, t) /\ UNCHANGED status
    <3>1. /\ extractedText[d] \in Texts \cup {NoText}
          /\ normalizedJson[d] \in Texts \cup {NoText}
      BY DEF TypeOK
    <3>2. {"write", "ack"} \subseteq Pc
      BY DEF Pc
    <3>3. QED
      BY <1>8, <3>1, <3>2 DEF NormalizeStart, TxUpsertStart
  <2>2. q \in Stages
    BY DEF Stages
  <2>3. /\ job'["doc_extract"][d] = job["doc_extract"][d]
        /\ run'["doc_extract"][d].pc = run["doc_extract"][d].pc
    BY <2>1, <2>2, StartAt, GoOnAt
  <2>4. QED
    BY <2>1, <2>3
<1>9. CASE NormalizeNotReady(d)
  <2>1. job'["doc_extract"][d] = job["doc_extract"][d] /\ UNCHANGED <<status, run>>
    BY <1>9, KeepAt DEF NormalizeNotReady
  <2>2. QED
    BY <2>1
<1>10. CASE TxUpsertWrite(d)
  BY <1>10, GoOnAt DEF TxUpsertWrite
<1>11. ASSUME NEW q \in Stages, JobThrows(q, d) \/ WorkerDies(q, d)
       PROVE  status[d] = "PENDING" /\ (AtWork(d) => AtWork(d)')
  <2>1. /\ run'[q][d].pc = "idle" /\ \A p \in Stages : p # q => run'[p][d] = run[p][d]
        /\ UNCHANGED status
    BY <1>11, IdleAt DEF JobThrows, WorkerDies
  <2>2. Exists(job["doc_extract"][d]) => Exists(job'["doc_extract"][d])
    BY <1>11, KeepAt DEF JobThrows, WorkerDies
  <2>3. QED
    BY <2>1, <2>2
<1>12. CASE ExtractCatches(d)
  BY <1>12, GoOnAt DEF ExtractCatches
<1>13. ASSUME NEW r \in Requests, CompleteFails(r, d)
       PROVE  status[d] = "PENDING" /\ (AtWork(d) => AtWork(d)')
  BY <1>13 DEF CompleteFails
<1>14. QED
  BY <1>1, <1>2, <1>3, <1>4, <1>5, <1>6, <1>7, <1>8, <1>9, <1>10, <1>11, <1>12, <1>13
     DEF DocumentStep, Worker, ExtractStage, NormalizeStage, TxUpsertStage, Fault,
         Admin, EnqueueNormalize, EnqueueTxUpsert

\* The document's own steps, and those of other documents.
LEMMA DocumentDocsStep ==
  ASSUME MailIInv, DocsInv, NEW d \in Docs, DocumentStep(d), UNCHANGED mailVars
  PROVE  DocsInv'
<1> SUFFICES ASSUME NEW e \in Docs PROVE StatusInv(e)' /\ Scheduled(e)'
  BY DEF DocsInv
<1>1. TypeOK /\ StatusInv(d) /\ StatusInv(e) /\ Scheduled(e) /\ DocNext(d)
  BY DEF MailIInv, DocsInv, DocumentStep, DocNext, Client
<1>2. dropped' = dropped /\ (ToAdd(e) => ToAdd(e)')
  BY DEF mailVars, ToAdd, Ahead
<1>3. CASE e = d
  <2>1. StatusInv(e)'
    BY <1>1, <1>3, StatusStep
  <2>2. Scheduled(e)'
    BY <1>1, <1>2, <1>3, PendingStep DEF Scheduled
  <2>3. QED
    BY <2>1, <2>2
<1>4. CASE e # d
  <2>1. Same(e)
    BY <1>1, <1>4, Frame
  <2>2. QED
    BY <2>1, <1>1, <1>2, StageNames
       DEF Same, StatusInv, HandlerOwnsJob, ClaimIsOpen, TextIsThere, Scheduled, AtWork
<1>5. QED
  BY <1>3, <1>4

\* A step of the mail queues that touches neither a status nor a job of the
\* pipeline, and takes nothing from what a parse has ahead of it.
LEMMA QuietStep ==
  ASSUME DocsInv, UNCHANGED <<status, extractedText, job, run, dropped>>,
         \A m \in Msgs : \A i \in DOMAIN Attachments[m] : Ahead(m, i) => Ahead(m, i)'
  PROVE  DocsInv'
<1> SUFFICES ASSUME NEW d \in Docs PROVE StatusInv(d)' /\ Scheduled(d)'
  BY DEF DocsInv
<1>1. StatusInv(d) /\ Scheduled(d)
  BY DEF DocsInv
<1>2. ToAdd(d) => ToAdd(d)'
  BY DEF ToAdd
<1>3. QED
  BY <1>1, <1>2
     DEF StatusInv, HandlerOwnsJob, ClaimIsOpen, TextIsThere, Scheduled, AtWork

\* What a step of the job of k leaves ahead of the parses.
LEMMA AheadKept ==
  ASSUME MailTypeOK, NEW k \in Keys, NEW j, NEW h,
         mailJob' = [mailJob EXCEPT ![k] = j], hand' = [hand EXCEPT ![k] = h],
         NEW m \in Msgs, NEW i \in DOMAIN Attachments[m], Ahead(m, i),
         k = m => Exists(j) /\ h.pc # "ack" /\ (h.pc # "idle" => h.at <= i)
  PROVE  Ahead(m, i)'
<1>1. m \in Keys
  BY KeyKinds
<1>2. /\ mailJob'[m] = IF m = k THEN j ELSE mailJob[m]
      /\ hand'[m] = IF m = k THEN h ELSE hand[m]
  BY <1>1 DEF MailTypeOK
<1>3. QED
  BY <1>2 DEF Ahead

\* A sync changes its own job only, and adds those of its messages.
LEMMA SyncDocsStep ==
  ASSUME MailIInv, DocsInv, NEW s \in Syncs,
         \/ SyncNow(s) \/ SyncStart(s) \/ SyncRefused(s) \/ SyncMessage(s)
         \/ SyncClashes(s) \/ SyncAdd(s)
  PROVE  DocsInv'
<1>1. MailTypeOK /\ HandsFit
  BY DEF MailIInv
<1>2. UNCHANGED <<status, extractedText, job, run, dropped>>
  BY DEF SyncNow, SyncStart, SyncRefused, SyncMessage, SyncClashes, SyncAdd, vars, extVars
<1> SUFFICES ASSUME NEW m \in Msgs, NEW i, Ahead(m, i) PROVE Ahead(m, i)'
  BY <1>2, QuietStep
<1>3. m \in Keys /\ m # s /\ mailJob[m] \in Job /\ Exists(mailJob[m])
  BY <1>1, KeyKinds DEF MailTypeOK, Ahead
<1>4. hand'[m] = hand[m]
  BY <1>1, <1>3 DEF SyncNow, SyncStart, StartLoop, SyncRefused, SyncMessage, Step,
                    SyncClashes, SyncAdd, NextElement, MailTypeOK
<1>5. mailJob'[m] = mailJob[m]
  <2>1. CASE SyncAdd(s)
    <3>1. PICK n : n = Batch[s][hand[s].at]
      OBVIOUS
    <3>2. mailJob' = [mailJob EXCEPT ![n] = Add(@)]
      BY <2>1, <3>1 DEF SyncAdd
    <3>3. QED
      BY <3>2, <1>1, <1>3 DEF Add, MailTypeOK
  <2>2. CASE ~SyncAdd(s)
    BY <2>2, <1>1, <1>3 DEF SyncNow, SyncStart, StartLoop, SyncRefused, SyncMessage,
                            SyncClashes, MailTypeOK
  <2>3. QED
    BY <2>1, <2>2
<1>6. QED
  BY <1>4, <1>5 DEF Ahead

\* Faults, the stalled check and a retry leave all of a job's list ahead.
LEMMA KeptDocsStep ==
  ASSUME MailIInv, DocsInv, NEW k \in Keys,
         MailThrows(k) \/ MailDies(k) \/ MailRecover(k) \/ MailRetry(k) \/ MailAck(k)
  PROVE  DocsInv'
<1>1. MailTypeOK /\ HandOwnsJob /\ mailJob[k] \in Job /\ hand[k] \in Hand
  BY DEF MailIInv, MailTypeOK
<1>2. UNCHANGED <<status, extractedText, job, run, dropped>>
  BY DEF MailThrows, MailDies, MailFault, MailRecover, MailRetry, MailAck, vars, extVars
<1> SUFFICES ASSUME NEW m \in Msgs, NEW i \in DOMAIN Attachments[m], Ahead(m, i)
             PROVE  Ahead(m, i)'
  BY <1>2, QuietStep
<1>3. NoHand.pc = "idle"
  BY DEF NoHand
<1>4. CASE MailAck(k)
  BY <1>1, <1>4, AheadKept DEF MailAck, Ahead
<1>5. CASE MailDies(k)
  <2>1. mailJob' = [mailJob EXCEPT ![k] = mailJob[k]]
    BY <1>1, <1>5 DEF MailDies, MailTypeOK
  <2>2. QED
    BY <2>1, <1>1, <1>3, <1>5, AheadKept DEF MailDies, Ahead
<1>6. CASE MailThrows(k) \/ MailRecover(k) \/ MailRetry(k)
  <2>1. PICK j \in Job : Exists(j) /\ mailJob' = [mailJob EXCEPT ![k] = j]
    BY <1>1, <1>6, FailFacts, StallFacts, RequeueFacts
       DEF Exists, MailThrows, MailRecover, MailRetry
  <2>2. PICK h \in Hand : h.pc = "idle" /\ hand' = [hand EXCEPT ![k] = h]
    <3>1. hand[k].pc = "idle" => hand' = [hand EXCEPT ![k] = hand[k]]
      BY <1>1, <1>6 DEF MailThrows, MailFault, MailRecover, MailRetry, MailTypeOK
    <3>2. hand[k].pc # "idle" => hand' = [hand EXCEPT ![k] = NoHand]
      BY <1>1, <1>6 DEF MailThrows, MailRecover, MailRetry, HandOwnsJob
    <3>3. NoHand \in Hand
      BY DEF NoHand, Hand, MailPc
    <3>4. QED
      BY <3>1, <3>2, <3>3, <1>1, <1>3
  <2>3. QED
    BY <2>1, <2>2, <1>1, AheadKept
<1>7. QED
  BY <1>4, <1>5, <1>6

\* A parse that starts, puts an object or stores a row keeps what is ahead of it.
LEMMA ParseQuietStep ==
  ASSUME MailIInv, DocsInv, NEW m \in Msgs,
         ParseStart(m) \/ ParsePut(m) \/ ParseDocument(m)
  PROVE  DocsInv'
<1>1. MailTypeOK /\ m \in Keys /\ mailJob[m] \in Job /\ hand[m] \in Hand
      /\ List(m) = Attachments[m] /\ First(m) = "put"
  BY KeyKinds DEF MailIInv, MailTypeOK, First
<1>2. UNCHANGED <<status, extractedText, job, run, dropped>>
  BY DEF ParseStart, ParsePut, ParseDocument, vars, extVars
<1> SUFFICES ASSUME NEW n \in Msgs, NEW i \in DOMAIN Attachments[n], Ahead(n, i)
             PROVE  Ahead(n, i)'
  BY <1>2, QuietStep
<1>3. CASE ParseStart(m)
  <2>1. PICK j \in Job : j.state = "active" /\ mailJob' = [mailJob EXCEPT ![m] = j]
    BY <1>1, <1>3, TakeFacts DEF ParseStart, StartLoop
  <2>2. ASSUME n = m
        PROVE  /\ 1 <= i
               /\ \E h \in Hand : /\ hand' = [hand EXCEPT ![m] = h]
                                  /\ h.pc = "put" /\ h.at = 1
    <3>1. i \in 1..Len(Attachments[m]) /\ Len(Attachments[m]) \in Nat
      BY <2>2, ListOfMessage
    <3>2. 1 <= i /\ List(m) # << >>
      BY <3>1, <1>1
    <3>3. PICK h : h = [pc |-> "put", at |-> 1]
      OBVIOUS
    <3>4. h \in Hand /\ h.pc = "put" /\ h.at = 1
      BY <3>3 DEF Hand, MailPc
    <3>5. hand' = [hand EXCEPT ![m] = h]
      BY <1>1, <1>3, <3>2, <3>3 DEF ParseStart, StartLoop
    <3>6. QED
      BY <3>2, <3>4, <3>5
  <2>3. n # m => n \in Keys /\ hand'[n] = hand[n] /\ mailJob'[n] = mailJob[n]
    BY <2>1, <1>1, <1>3, KeyKinds DEF ParseStart, StartLoop, MailTypeOK
  <2>4. CASE n = m
    BY <2>1, <2>2, <2>4, <1>1, AheadKept DEF Exists
  <2>5. CASE n # m
    BY <2>3, <2>5 DEF Ahead
  <2>6. QED
    BY <2>4, <2>5
<1>4. CASE ParsePut(m) \/ ParseDocument(m)
  <2>1. PICK pc \in {"document", "reset"} : Step(m, pc)
    BY <1>4 DEF ParsePut, ParseDocument
  <2>2. hand[m].pc \notin {"idle", "ack"} /\ UNCHANGED mailJob
    BY <1>4 DEF ParsePut, ParseDocument
  <2>3. PICK h : h = [hand[m] EXCEPT !.pc = pc]
    OBVIOUS
  <2>6. h.pc = pc /\ h.at = hand[m].at
    BY <1>1, <2>3 DEF Hand
  <2>4. /\ mailJob' = [mailJob EXCEPT ![m] = mailJob[m]]
        /\ hand' = [hand EXCEPT ![m] = h]
    BY <1>1, <2>1, <2>2, <2>3 DEF Step, MailTypeOK
  <2>5. QED
    BY <2>2, <2>4, <2>6, <1>1, AheadKept DEF Ahead
<1>5. QED
  BY <1>3, <1>4

\* The reset: its job is still to be added, by the handler that did it.
LEMMA ParseResetDocsStep ==
  ASSUME MailIInv, DocsInv, NEW m \in Msgs, ParseReset(m)
  PROVE  DocsInv'
<1>1. /\ TypeOK /\ MailTypeOK /\ HandOwnsJob /\ HandsFit
      /\ m \in Keys /\ List(m) = Attachments[m] /\ hand[m] \in Hand
  BY KeyKinds DEF MailIInv, MailTypeOK
<1>2. /\ hand[m].pc = "reset" /\ hand' = [hand EXCEPT ![m].pc = "add"]
      /\ status' = [status EXCEPT ![Attachments[m][hand[m].at].doc] = "PENDING"]
      /\ UNCHANGED <<extractedText, job, run, mailJob, dropped>>
  BY DEF ParseReset, Step, Attached
<1>3. hand[m].at \in DOMAIN Attachments[m] /\ mailJob[m].state = "active"
  BY <1>1, <1>2 DEF HandsFit, Fits, HandOwnsJob
<1>4. \A n \in Msgs : /\ hand'[n].at = hand[n].at
                      /\ hand'[n].pc = IF n = m THEN "add" ELSE hand[n].pc
  BY <1>1, <1>2, KeyKinds DEF MailTypeOK, Hand
<1>5. \A n \in Msgs : \A i : Ahead(n, i) => Ahead(n, i)'
  BY <1>2, <1>4 DEF Ahead
<1>6. PICK a \in DOMAIN Attachments[m] : a = hand[m].at
  BY <1>3
<1>7. Ahead(m, a)'
  BY <1>1, <1>2, <1>3, <1>4, <1>6 DEF Ahead, Exists, Hand
<1> SUFFICES ASSUME NEW e \in Docs PROVE StatusInv(e)' /\ Scheduled(e)'
  BY DEF DocsInv
<1>8. StatusInv(e) /\ Scheduled(e) /\ (ToAdd(e) => ToAdd(e)')
  BY <1>5 DEF DocsInv, ToAdd
<1>9. PICK d \in Docs : d = Attachments[m][a].doc
  BY AttachmentType
<1>10. status' = [status EXCEPT ![d] = "PENDING"]
  BY <1>2, <1>6, <1>9
<1>11. CASE e = d
  <2>1. ToAdd(e)' /\ status'[e] = "PENDING"
    BY <1>1, <1>7, <1>9, <1>10, <1>11 DEF ToAdd, TypeOK
  <2>2. QED
    BY <2>1, <1>2, <1>8
       DEF Scheduled, StatusInv, HandlerOwnsJob, ClaimIsOpen, TextIsThere
<1>12. CASE e # d
  <2>1. status'[e] = status[e]
    BY <1>1, <1>10, <1>12 DEF TypeOK
  <2>2. QED
    BY <2>1, <1>2, <1>8
       DEF Scheduled, AtWork, StatusInv, HandlerOwnsJob, ClaimIsOpen, TextIsThere
<1>13. QED
  BY <1>11, <1>12

\* The add: the job is at work, unless it was there and past its store.
LEMMA ParseAddDocsStep ==
  ASSUME MailIInv, DocsInv, NEW m \in Msgs, ParseAdd(m)
  PROVE  DocsInv'
<1>1. /\ TypeOK /\ MailTypeOK /\ HandOwnsJob /\ HandsFit
      /\ m \in Keys /\ List(m) = Attachments[m] /\ hand[m] \in Hand
  BY KeyKinds DEF MailIInv, MailTypeOK
<1>2. PICK a : a = hand[m].at
  OBVIOUS
<1>3. /\ hand[m].pc = "add" /\ NextElement(m)
      /\ UNCHANGED <<status, extractedText, run, mailJob>>
  BY DEF ParseAdd, extVars
<1>4. a \in DOMAIN Attachments[m] /\ mailJob[m].state = "active"
  BY <1>1, <1>2, <1>3 DEF HandsFit, Fits, HandOwnsJob
<1>5. PICK d \in Docs : d = Attachments[m][a].doc
  BY <1>4, AttachmentType
<1>6. /\ job' = [job EXCEPT !["doc_extract"][d] = Add(@)]
      /\ dropped' = [dropped EXCEPT ![d] =
                       Exists(job["doc_extract"][d])
                       /\ (@ \/ run["doc_extract"][d].pc \in {"enqueue", "ack"})]
  BY <1>2, <1>5 DEF ParseAdd, Attached
<1>7. PICK h \in Hand :
        /\ hand' = [hand EXCEPT ![m] = h]
        /\ \A i \in DOMAIN Attachments[m] :
             Ahead(m, i) /\ i # a => h.pc # "ack" /\ h.at <= i
  BY <1>1, <1>2, <1>3, NextElementFacts
<1>8. \A n \in Msgs : \A i \in DOMAIN Attachments[n] :
        Ahead(n, i) /\ ~(n = m /\ i = a) => Ahead(n, i)'
  <2> SUFFICES ASSUME NEW n \in Msgs, NEW i \in DOMAIN Attachments[n],
                      Ahead(n, i), ~(n = m /\ i = a)
               PROVE  Ahead(n, i)'
    OBVIOUS
  <2>1. PICK j : j = mailJob[m] /\ Exists(j)
    BY <1>4 DEF Exists
  <2>2. mailJob' = [mailJob EXCEPT ![m] = j]
    BY <1>1, <1>3, <2>1 DEF MailTypeOK
  <2>3. m = n => h.pc # "ack" /\ h.at <= i
    BY <1>7
  <2>4. QED
    BY <2>1, <2>2, <2>3, <1>1, <1>7, AheadKept
<1> SUFFICES ASSUME NEW e \in Docs PROVE StatusInv(e)' /\ Scheduled(e)'
  BY DEF DocsInv
<1>9. StatusInv(e) /\ Scheduled(e)
  BY DEF DocsInv
<1>10. CASE e # d
  <2>1. \A q \in Stages : job'[q][e] = job[q][e]
    BY <1>1, <1>6, <1>10, StageNames, JobFrame
  <2>2. dropped'[e] = dropped[e]
    BY <1>1, <1>6, <1>10 DEF MailTypeOK
  <2>3. ToAdd(e) => ToAdd(e)'
    BY <1>5, <1>8, <1>10 DEF ToAdd
  <2>4. QED
    BY <2>1, <2>2, <2>3, <1>3, <1>9, StageNames
       DEF Scheduled, AtWork, StatusInv, HandlerOwnsJob, ClaimIsOpen, TextIsThere
<1>11. CASE e = d
  <2>1. /\ Exists(job'["doc_extract"][d])
        /\ \A q \in Stages : job[q][d].state = "active" => job'[q][d] = job[q][d]
    BY <1>1, <1>6, StageNames, AddAt
  <2>2. StatusInv(d)'
    BY <2>1, <1>3, <1>9, <1>11
       DEF StatusInv, HandlerOwnsJob, ClaimIsOpen, TextIsThere
  <2>3. run["doc_extract"][d].pc \in {"enqueue", "ack"} => dropped'[d]
    <3>1. run["doc_extract"][d].pc \in {"enqueue", "ack"} => Exists(job["doc_extract"][d])
      BY <1>9, <1>11, StageNames DEF StatusInv, HandlerOwnsJob, Exists
    <3>2. PICK b \in BOOLEAN : /\ dropped' = [dropped EXCEPT ![d] = b]
                               /\ run["doc_extract"][d].pc \in {"enqueue", "ack"} => b
      BY <1>6, <3>1
    <3>3. QED
      BY <3>2, <1>1 DEF MailTypeOK
  <2>4. Scheduled(d)'
    BY <2>1, <2>3, <1>3 DEF Scheduled, AtWork
  <2>5. QED
    BY <2>2, <2>4, <1>11
<1>12. QED
  BY <1>10, <1>11
-----------------------------------------------------------------------------
\* One case per action again.
LEMMA NextDocsInv == MailIInv /\ DocsInv /\ [MailNext]_allVars => DocsInv'
<1> SUFFICES ASSUME MailIInv, DocsInv, [MailNext]_allVars PROVE DocsInv'
  OBVIOUS
<1>1. CASE MailUser \/ UNCHANGED allVars
  <2>1. UNCHANGED <<status, extractedText, job, run, dropped, mailJob, hand>>
    BY <1>1 DEF MailUser, Connect, Disconnect, allVars, vars, mailVars, extVars
  <2>2. QED
    BY <2>1, QuietStep DEF Ahead
<1>2. ASSUME NEW k \in Keys, MailThrows(k) \/ MailDies(k) \/ MailRetry(k)
      PROVE  DocsInv'
  BY <1>2, KeptDocsStep
<1>3. ASSUME NEW s \in Syncs, SyncNow(s) \/ SyncStage(s)
      PROVE  DocsInv'
  BY <1>3, KeyKinds, SyncDocsStep, KeptDocsStep DEF SyncStage
<1>4. ASSUME NEW m \in Msgs, ParseStage(m)
      PROVE  DocsInv'
  BY <1>4, KeyKinds, ParseQuietStep, ParseResetDocsStep, ParseAddDocsStep, KeptDocsStep
     DEF ParseStage
<1>5. ASSUME NEW d \in Docs, DocumentStep(d), UNCHANGED mailVars
      PROVE  DocsInv'
  BY <1>5, DocumentDocsStep
<1>6. QED
  BY <1>1, <1>2, <1>3, <1>4, <1>5 DEF MailNext

\* Both invariants, at every state.
THEOREM AlwaysMailIInv == MailSpec => [](MailIInv /\ DocsInv)
<1>1. MailInit => MailIInv /\ DocsInv
  BY InitMailIInv, InitDocsInv
<1>2. MailIInv /\ DocsInv /\ [MailNext]_allVars => (MailIInv /\ DocsInv)'
  BY NextMailIInv, NextDocsInv
<1>3. QED
  BY <1>1, <1>2, PTL DEF MailSpec

\* The types of the mail queues' state; in particular no loop over messages or
\* attachments leaves its array, at any retry.
THEOREM MailTypeCorrect == MailSpec => []MailTypeOK
<1>1. MailIInv => MailTypeOK
  BY DEF MailIInv
<1>2. QED
  BY <1>1, AlwaysMailIInv, PTL

\* A message whose row is stored reaches the pipeline with every attachment, or a
\* job that will bring it there is kept: wherever email_sync and email_parse
\* throw or die, however often the jobs are retried, whatever users delete.
THEOREM MessageAlwaysPursued == MailSpec => []MessageIsPursued
<1>1. MailIInv => MessageIsPursued
  BY DEF MailIInv
<1>2. QED
  BY <1>1, AlwaysMailIInv, PTL

\* An extraction that email_parse has reset is scheduled, except when its add met
\* a job past its store; also when attachments share a document.
THEOREM PendingAlwaysScheduledOrDropped == MailSpec => []PendingIsScheduledOrDropped
<1>1. DocsInv => PendingIsScheduledOrDropped
  BY DEF DocsInv, Scheduled, AtWork, ToAdd, PendingIsScheduledOrDropped
<1>2. QED
  BY <1>1, AlwaysMailIInv, PTL

\* What Extraction promises of its stages also holds beside email_parse, which
\* resets extractions and adds jobs as well: no document hangs in PROCESSING.
THEOREM MailProcessingAlwaysOwned == MailSpec => []ProcessingIsOwned
<1>1. DocsInv => ProcessingIsOwned
  BY DEF DocsInv, StatusInv, ClaimIsOpen, ProcessingIsOwned
<1>2. QED
  BY <1>1, AlwaysMailIInv, PTL
-----------------------------------------------------------------------------
(* What a sync has stored. *)

\* The messages of sync s up to where its handler h has come.
StoredTo(s, h) ==
  \A i \in DOMAIN Given(s) :
    \/ h.pc = "ack"
    \/ h.pc \in {"message", "add"} /\ i < h.at
    \/ h.pc = "add" /\ i = h.at
    => Given(s)[i] \in message

\* A handler has stored what lies behind it, and a job does not go away before.
SyncInv ==
  \A s \in Syncs :
    /\ StoredTo(s, hand[s])
    /\ s \in asked /\ ~Exists(mailJob[s]) =>
         \A i \in DOMAIN Given(s) : Given(s)[i] \in message

\* A step that no sync takes part in.
LEMMA QuietSync ==
  ASSUME SyncInv, UNCHANGED <<message, asked>>,
         \A s \in Syncs : hand'[s] = hand[s] /\ mailJob'[s] = mailJob[s]
  PROVE  SyncInv'
  BY DEF SyncInv, StoredTo, Given

\* A step of sync s leaves the other ones alone.
LEMMA SyncFrame ==
  ASSUME SyncInv, NEW s \in Syncs,
         message \subseteq message', asked' \subseteq asked \cup {s},
         \A r \in Syncs \ {s} : hand'[r] = hand[r] /\ mailJob'[r] = mailJob[r],
         StoredTo(s, hand[s])', Exists(mailJob[s])'
  PROVE  SyncInv'
<1> SUFFICES ASSUME NEW r \in Syncs
             PROVE  /\ StoredTo(r, hand[r])'
                    /\ r \in asked' /\ ~Exists(mailJob'[r]) =>
                         \A i \in DOMAIN Given(r) : Given(r)[i] \in message'
  BY DEF SyncInv, Given
<1>1. CASE r = s
  BY <1>1
<1>2. CASE r # s
  <2>1. hand'[r] = hand[r] /\ mailJob'[r] = mailJob[r]
    BY <1>2
  <2>2. StoredTo(r, hand[r])'
    BY <2>1 DEF SyncInv, StoredTo, Given
  <2>3. QED
    BY <1>2, <2>1, <2>2 DEF SyncInv, Given
<1>3. QED
  BY <1>1, <1>2

\* A fault, a refusal, the stalled check, a retry: the job is kept.
LEMMA KeptSync ==
  ASSUME MailIInv, SyncInv, NEW k \in Keys,
         \/ k \in Syncs /\ (SyncRefused(k) \/ SyncClashes(k))
         \/ MailThrows(k) \/ MailDies(k) \/ MailRecover(k) \/ MailRetry(k)
  PROVE  SyncInv'
<1>1. /\ MailTypeOK /\ mailJob[k] \in Job
      /\ hand[k].pc # "idle" => Exists(mailJob[k])
  BY DEF MailIInv, MailTypeOK, HandOwnsJob, Exists
<1>2. /\ UNCHANGED <<message, asked>>
      /\ hand' = [hand EXCEPT ![k] = NoHand] \/ UNCHANGED hand
      /\ \A s \in Syncs \ {k} : mailJob'[s] = mailJob[s]
  BY <1>1 DEF SyncRefused, SyncClashes, MailThrows, MailDies, MailFault, MailRecover,
              MailRetry, MailTypeOK, Keys
<1>3. Exists(mailJob'[k])
  BY <1>1, FailFacts, StallFacts, RequeueFacts
     DEF SyncRefused, SyncClashes, MailThrows, MailDies, MailFault, MailRecover,
         MailRetry, MailTypeOK, Exists
<1>4. \A s \in Syncs : hand'[s] = hand[s] \/ (s = k /\ hand'[s] = NoHand)
  BY <1>1, <1>2, KeyKinds DEF MailTypeOK
<1>5. CASE k \in Syncs
  <2>1. StoredTo(k, hand[k])'
    <3>1. CASE hand'[k] = NoHand
      BY <3>1 DEF StoredTo, NoHand, Given
    <3>2. CASE hand'[k] = hand[k]
      BY <1>2, <1>5, <3>2 DEF SyncInv, StoredTo, Given
    <3>3. QED
      BY <1>4, <1>5, <3>1, <3>2
  <2>2. QED
    BY <1>2, <1>3, <1>4, <1>5, <2>1, SyncFrame
<1>6. CASE k \notin Syncs
  BY <1>2, <1>4, <1>6, QuietSync
<1>7. QED
  BY <1>5, <1>6

\* The steps of a sync's own loop.
LEMMA LoopSync ==
  ASSUME MailIInv, SyncInv, NEW s \in Syncs,
         SyncNow(s) \/ SyncStart(s) \/ SyncMessage(s) \/ SyncAdd(s)
  PROVE  SyncInv'
<1>1. /\ MailTypeOK /\ HandsFit /\ HandOwnsJob /\ s \in Keys /\ s \notin Msgs
      /\ List(s) = Batch[s] /\ mailJob[s] \in Job /\ hand[s] \in Hand
  BY KeyKinds DEF MailIInv, MailTypeOK
<1>2. /\ DOMAIN Given(s) = 1..Len(Given(s)) /\ Len(Given(s)) \in Nat
      /\ Batch[s] # NoMessages => Given(s) = Batch[s]
      /\ \A i \in DOMAIN Given(s) : Given(s)[i] \in Msgs
  BY GivenList
<1>3. CASE SyncNow(s)
  <2>1. message' = message /\ asked' = asked \cup {s} /\ hand' = hand
    BY <1>3 DEF SyncNow
  <2>2. /\ \A r \in Syncs \ {s} : mailJob'[r] = mailJob[r]
        /\ Exists(mailJob'[s])
    BY <1>1, <1>3, AddFacts DEF SyncNow, MailTypeOK
  <2>3. StoredTo(s, hand[s])'
    BY <2>1 DEF SyncInv, StoredTo, Given
  <2>4. QED
    BY <2>1, <2>2, <2>3, SyncFrame
<1>4. CASE SyncStart(s)
  <2>1. message' = message /\ asked' = asked /\ Batch[s] # NoMessages
    BY <1>4 DEF SyncStart, MaySync
  <2>2. /\ \A r \in Syncs \ {s} : mailJob'[r] = mailJob[r] /\ hand'[r] = hand[r]
        /\ Exists(mailJob'[s])
    BY <1>1, <1>4, TakeFacts DEF SyncStart, StartLoop, MailTypeOK, Exists
  <2>3. hand'[s] = IF Given(s) = << >> THEN [pc |-> "ack", at |-> 0]
                                      ELSE [pc |-> "message", at |-> 1]
    BY <1>1, <1>2, <1>4, <2>1 DEF SyncStart, StartLoop, First, MailTypeOK
  <2>4. \A i \in DOMAIN Given(s) : ~(i < 1) /\ Given(s) # << >>
    BY <1>2
  <2>5. StoredTo(s, hand[s])'
    BY <2>3, <2>4 DEF StoredTo, Given
  <2>6. QED
    BY <2>1, <2>2, <2>5, SyncFrame
<1>5. CASE SyncMessage(s)
  <2>1. PICK a \in Nat : a = hand[s].at
    BY <1>1 DEF Hand
  <2>2. /\ hand[s].pc = "message" /\ Batch[s] # NoMessages
        /\ message' = message \cup {Given(s)[a]} /\ asked' = asked
        /\ mailJob' = mailJob
    BY <1>1, <1>2, <1>5, <2>1 DEF SyncMessage, HandsFit, Fits
  <2>3. /\ \A r \in Syncs \ {s} : hand'[r] = hand[r]
        /\ hand'[s].pc = "add" /\ hand'[s].at = a
    BY <1>1, <1>5, <2>1 DEF SyncMessage, Step, MailTypeOK, Hand
  <2>4. Exists(mailJob'[s])
    BY <1>1, <2>2 DEF HandOwnsJob, Exists
  <2>5. \A i \in DOMAIN Given(s) : i < a => Given(s)[i] \in message
    BY <2>1, <2>2 DEF SyncInv, StoredTo
  <2>6. StoredTo(s, hand[s])'
    BY <2>2, <2>3, <2>5 DEF StoredTo, Given
  <2>7. QED
    BY <2>2, <2>3, <2>4, <2>6, SyncFrame
<1>6. CASE SyncAdd(s)
  <2>1. PICK a \in Nat : a = hand[s].at
    BY <1>1 DEF Hand
  <2>2. /\ hand[s].pc = "add" /\ Batch[s] # NoMessages /\ Given(s) = Batch[s]
        /\ a \in DOMAIN Given(s) /\ Given(s)[a] \in Msgs
        /\ message' = message /\ asked' = asked
        /\ mailJob' = [mailJob EXCEPT ![Given(s)[a]] = Add(@)]
        /\ NextElement(s)
    BY <1>1, <1>2, <1>6, <2>1 DEF SyncAdd, HandsFit, Fits
  <2>3. \A r \in Syncs : mailJob'[r] = mailJob[r]
    BY <1>1, <2>2, KeyKinds DEF MailTypeOK
  <2>4. PICK h \in {hand'[s]} :
          /\ hand' = [hand EXCEPT ![s] = h]
          /\ h.pc = "ack" => a = Len(Given(s))
          /\ h.pc # "ack" => h.pc = "message" /\ h.at = a + 1
    <3>1. PICK h : /\ hand' = [hand EXCEPT ![s] = h]
                   /\ h.pc = "ack" => hand[s].at = Len(List(s))
                   /\ h.pc # "ack" => h.pc = First(s) /\ h.at = hand[s].at + 1
      BY <1>1, <2>2, NextElementFacts
    <3>2. hand'[s] = h
      BY <1>1, <3>1 DEF MailTypeOK
    <3>3. QED
      BY <1>1, <2>1, <2>2, <3>1, <3>2 DEF First
  <2>5. \A r \in Syncs \ {s} : hand'[r] = hand[r]
    BY <1>1, <2>4 DEF MailTypeOK
  <2>6. \A i \in DOMAIN Given(s) : i <= a => Given(s)[i] \in message
    BY <1>2, <2>1, <2>2 DEF SyncInv, StoredTo
  <2>7. StoredTo(s, hand[s])'
    BY <1>2, <2>1, <2>2, <2>4, <2>6 DEF StoredTo, Given
  <2>8. Exists(mailJob'[s])
    BY <1>1, <2>2, <2>3 DEF HandOwnsJob, Exists
  <2>9. QED
    BY <2>2, <2>3, <2>5, <2>7, <2>8, SyncFrame
<1>7. QED
  BY <1>3, <1>4, <1>5, <1>6

\* A job goes away when its handler is through with the list.
LEMMA AckSync ==
  ASSUME MailIInv, SyncInv, NEW s \in Syncs, MailAck(s)
  PROVE  SyncInv'
<1>1. MailTypeOK /\ s \in Keys
  BY KeyKinds DEF MailIInv
<1>2. /\ hand[s].pc = "ack" /\ UNCHANGED <<message, asked>>
      /\ hand'[s] = NoHand
      /\ \A r \in Syncs \ {s} : hand'[r] = hand[r] /\ mailJob'[r] = mailJob[r]
  BY <1>1 DEF MailAck, MailTypeOK
<1>3. \A i \in DOMAIN Given(s) : Given(s)[i] \in message
  BY <1>2 DEF SyncInv, StoredTo
<1> SUFFICES ASSUME NEW r \in Syncs
             PROVE  /\ StoredTo(r, hand[r])'
                    /\ r \in asked' /\ ~Exists(mailJob'[r]) =>
                         \A i \in DOMAIN Given(r) : Given(r)[i] \in message'
  BY DEF SyncInv, Given
<1>4. CASE r = s
  BY <1>2, <1>3, <1>4 DEF StoredTo, Given
<1>5. CASE r # s
  BY <1>2, <1>5 DEF SyncInv, StoredTo, Given
<1>6. QED
  BY <1>4, <1>5

\* Every other step leaves the syncs alone.
LEMMA OtherSync ==
  ASSUME MailIInv, SyncInv,
         \/ MailUser
         \/ \E m \in Msgs : ParseStart(m) \/ ParsePut(m) \/ ParseDocument(m)
                              \/ ParseReset(m) \/ ParseAdd(m) \/ MailAck(m)
         \/ UNCHANGED mailVars
  PROVE  SyncInv'
<1>1. MailTypeOK
  BY DEF MailIInv
<1>2. /\ UNCHANGED <<message, asked>>
      /\ \A s \in Syncs : hand'[s] = hand[s] /\ mailJob'[s] = mailJob[s]
  <2>1. CASE MailUser \/ UNCHANGED mailVars
    BY <2>1 DEF MailUser, Connect, Disconnect, mailVars
  <2>2. ASSUME NEW m \in Msgs,
               \/ ParseStart(m) \/ ParsePut(m) \/ ParseDocument(m)
               \/ ParseReset(m) \/ ParseAdd(m) \/ MailAck(m)
        PROVE  /\ UNCHANGED <<message, asked>>
               /\ \A s \in Syncs : hand'[s] = hand[s] /\ mailJob'[s] = mailJob[s]
    <3>1. \A s \in Syncs : s \in Keys /\ s # m
      BY KeyKinds
    <3>2. QED
      BY <1>1, <2>2, <3>1
         DEF ParseStart, StartLoop, ParsePut, ParseDocument, ParseReset, ParseAdd,
             Step, NextElement, MailAck, MailTypeOK
  <2>3. QED
    BY <2>1, <2>2
<1>3. QED
  BY <1>2, QuietSync

\* One case per action.
LEMMA NextSyncInv == MailIInv /\ SyncInv /\ [MailNext]_allVars => SyncInv'
<1> SUFFICES ASSUME MailIInv, SyncInv, [MailNext]_allVars PROVE SyncInv'
  OBVIOUS
<1>1. ASSUME NEW k \in Keys, MailThrows(k) \/ MailDies(k) \/ MailRetry(k)
      PROVE  SyncInv'
  BY <1>1, KeptSync
<1>2. ASSUME NEW s \in Syncs, SyncNow(s) \/ SyncStage(s)
      PROVE  SyncInv'
  BY <1>2, KeyKinds, KeptSync, LoopSync, AckSync DEF SyncStage
<1>3. ASSUME NEW m \in Msgs, ParseStage(m)
      PROVE  SyncInv'
  BY <1>3, KeyKinds, KeptSync, OtherSync DEF ParseStage
<1>4. CASE MailUser \/ UNCHANGED mailVars
  BY <1>4, OtherSync
<1>5. QED
  BY <1>1, <1>2, <1>3, <1>4 DEF MailNext, allVars

\* A sync that leaves no job behind has stored all its messages: one that a
\* clash of sha256 keeps out, with all behind it, leaves its sync parked.
THEOREM SyncAlwaysComplete == MailSpec => []SyncIsComplete
<1>1. MailInit => SyncInv
  BY KeyKinds DEF MailInit, SyncInv, StoredTo, NoHand
<1>2. SyncInv /\ MailTypeOK => SyncIsComplete
  BY DEF SyncInv, SyncIsComplete, MailTypeOK
<1>3. MailIInv => MailTypeOK
  BY DEF MailIInv
<1>4. QED
  BY <1>1, <1>2, <1>3, NextSyncInv, AlwaysMailIInv, PTL DEF MailSpec
-----------------------------------------------------------------------------
(* The refinement of DocumentLife. *)

\* The type of a document comes with its key: no parse settles it otherwise.
TypeIsFixed(d) ==
  /\ readable[d] => d \in Readable
  /\ row[d] # "absent" => readable[d] = (d \in Readable)

LifeInv == \A d \in Docs : TextsWereUploaded(d) /\ InOrder(d) /\ TypeIsFixed(d)

\* There is no row, object, extraction or job in the beginning.
LEMMA InitLifeInv == MailInit => LifeInv
<1> SUFFICES ASSUME MailInit, NEW d \in Docs
             PROVE  TextsWereUploaded(d) /\ InOrder(d) /\ TypeIsFixed(d)
  BY DEF LifeInv
<1>1. /\ row[d] = "absent" /\ readable[d] = FALSE /\ object[d] = NoText
      /\ status[d] = "none" /\ extractedText[d] = NoText /\ normalizedJson[d] = NoText
      /\ booked[d] = {}
      /\ \A q \in Stages : job[q][d] = NoJob /\ run[q][d] = Idle
  BY DEF MailInit, Init
<1>2. QED
  BY <1>1, StageNames, NoJobType DEF TextsWereUploaded, InOrder, TypeIsFixed, Idle

\* Nothing of a document's own row, texts or jobs changes.
LEMMA QuietLife ==
  ASSUME LifeInv,
         UNCHANGED <<row, readable, object, uploaded, status, extractedText,
                     normalizedJson, booked, job, run>>
  PROVE  LifeInv' /\ UNCHANGED Life!vars
  BY DEF LifeInv, TextsWereUploaded, InOrder, TypeIsFixed, Life!vars

\* The steps that come after email_parse settle no type and upload nothing.
LEMMA DocumentFrame ==
  ASSUME TypeOK, NEW d \in Docs, DocumentStep(d)
  PROVE  UNCHANGED <<readable, uploaded>> /\ (row'[d] = row[d] \/ row[d] # "absent")
<1>1. CASE SoftDelete(d)
  BY <1>1 DEF SoftDelete
<1>2. CASE UNCHANGED rowVars
  BY <1>2 DEF rowVars
<1>3. QED
  BY <1>1, <1>2
  DEF DocumentStep, Worker, ExtractStage, NormalizeStage, TxUpsertStage, Fault, Admin,
      ExtractStart, ExtractClaim, ExtractLoad, ExtractCatches, ExtractStore,
      EnqueueNormalize, EnqueueTxUpsert, EnqueueNext, Ack, RecoverStalled,
      NormalizeStart, NormalizeNotReady, NormalizeWrite, TxUpsertStart, TxUpsertWrite,
      CompleteFails, ReadThrows, JobThrows, WorkerDies, RetryJob, rowVars

\* They keep the invariant and are steps of the document's life.
LEMMA DocumentLifeStep ==
  ASSUME MailIInv, DocsInv, LifeInv, NEW d \in Docs, DocumentStep(d)
  PROVE  LifeInv' /\ [Life!Next]_(Life!vars)
<1>1. /\ TypeOK /\ StatusInv(d) /\ TextsWereUploaded(d) /\ InOrder(d)
      /\ DocNext(d) /\ PipelineStep(d)
  BY DEF MailIInv, DocsInv, LifeInv, DocumentStep, PipelineStep, DocNext, Client
<1>2. [Life!Next]_(Life!vars)
  BY <1>1, LifeStep
<1>3. ~CreateUploadUrl(d)
  BY <1>1, DocumentFrame DEF CreateUploadUrl, TypeOK
<1>4. TextsWereUploaded(d)' /\ InOrder(d)'
  BY <1>1, <1>3, TextsStep, OrderStep
<1>5. ASSUME NEW e \in Docs
      PROVE  (TextsWereUploaded(e) /\ InOrder(e) /\ TypeIsFixed(e))'
  <2>1. TextsWereUploaded(e) /\ InOrder(e) /\ TypeIsFixed(e)
    BY DEF LifeInv
  <2>2. CASE e = d
    BY <2>1, <2>2, <1>1, <1>4, DocumentFrame DEF TypeIsFixed
  <2>3. CASE e # d
    <3>1. Same(e)
      BY <1>1, <2>3, Frame
    <3>2. QED
      BY <2>1, <3>1, StageNames DEF Same, TextsWereUploaded, InOrder, TypeIsFixed
  <2>4. QED
    BY <2>2, <2>3
<1>6. QED
  BY <1>2, <1>5 DEF LifeInv

\* email_parse uploads, settles a type before anything is scheduled, and schedules
\* when there is an object.
LEMMA ParseLifeStep ==
  ASSUME MailIInv, LifeInv, NEW m \in Msgs,
         ParsePut(m) \/ ParseDocument(m) \/ ParseReset(m) \/ ParseAdd(m)
  PROVE  LifeInv' /\ [Life!Next]_(Life!vars)
<1>1. /\ TypeOK /\ HandsFit /\ Done(m, hand[m])
      /\ m \in Keys /\ m \notin Syncs /\ List(m) = Attachments[m]
  BY KeyKinds DEF MailIInv, ParsesDone
<1>2. hand[m].at \in DOMAIN Attachments[m]
  BY <1>1 DEF HandsFit, Fits, ParsePut, ParseDocument, ParseReset, ParseAdd
<1>3. PICK a \in DOMAIN Attachments[m] : a = hand[m].at
  BY <1>2
<1>4. PICK d \in Docs, t \in Texts :
        d = Attachments[m][a].doc /\ t = Attachments[m][a].text
  BY AttachmentType
<1>5. d = Attached(m).doc /\ t = Attached(m).text
  BY <1>3, <1>4 DEF Attached
<1>6. /\ hand[m].pc \in {"document", "reset", "add"} => object[d] # NoText
      /\ hand[m].pc \in {"reset", "add"} => row[d] # "absent"
      /\ hand[m].pc = "add" => status[d] # "none"
  BY <1>1, <1>3, <1>4 DEF Done
<1>7. /\ row \in [Docs -> {"absent", "live", "deleted"}]
      /\ readable \in [Docs -> BOOLEAN]
      /\ object \in [Docs -> Texts \cup {NoText}]
      /\ uploaded \in [Docs -> SUBSET Texts]
      /\ status \in [Docs -> Status]
  BY <1>1 DEF TypeOK
<1>8. \A e \in Docs : TextsWereUploaded(e) /\ InOrder(e) /\ TypeIsFixed(e)
  BY DEF LifeInv
<1> USE DEF rowVars, extVars, bounds
<1>9. CASE ParsePut(m)
  <2>1. /\ object' = [object EXCEPT ![d] = t]
        /\ uploaded' = [uploaded EXCEPT ![d] = @ \cup {t}]
        /\ UNCHANGED <<row, readable, status, extractedText, normalizedJson, booked,
                       job, run>>
    BY <1>5, <1>9 DEF ParsePut
  <2>2. \A e \in Docs : /\ uploaded[e] \subseteq uploaded'[e]
                        /\ object'[e] = object[e] \/ object'[e] \in uploaded'[e]
    BY <2>1, <1>7
  <2>3. LifeInv'
    BY <2>1, <2>2, <1>8 DEF LifeInv, TextsWereUploaded, InOrder, TypeIsFixed
  <2>4. Life!Upload(d)
    BY <2>1 DEF Life!Upload
  <2>5. QED
    BY <2>3, <2>4 DEF Life!Next
<1>10. CASE ParseDocument(m)
  <2>1. /\ hand[m].pc = "document"
        /\ row' = [row EXCEPT ![d] = "live"]
        /\ readable' = [readable EXCEPT ![d] = d \in Readable]
        /\ UNCHANGED <<object, uploaded, status, extractedText, normalizedJson, booked,
                       job, run>>
    BY <1>5, <1>10 DEF ParseDocument
  <2>2. \A e \in Docs : /\ row[e] # "absent" => row'[e] # "absent"
                        /\ readable[e] => readable'[e]
                        /\ TypeIsFixed(e)'
    BY <2>1, <1>7, <1>8 DEF TypeIsFixed
  <2>3. LifeInv'
    BY <2>1, <2>2, <1>8 DEF LifeInv, TextsWereUploaded, InOrder
  <2>4. CASE row[d] = "absent"
    <3>1. status[d] = "none"
      BY <2>4, <1>8 DEF InOrder
    <3>2. (d \in Readable) \in BOOLEAN
      OBVIOUS
    <3>3. \E b \in BOOLEAN : readable' = [readable EXCEPT ![d] = b]
      BY <2>1, <3>2, Zenon
    <3>4. Life!Settle(d)
      BY <2>1, <3>1, <3>3 DEF Life!Settle
    <3>5. QED
      BY <2>3, <3>4 DEF Life!Next
  <2>5. CASE row[d] # "absent"
    <3>1. readable[d] = (d \in Readable)
      BY <2>5, <1>8 DEF TypeIsFixed
    <3>2. readable' = readable
      BY <3>1, <2>1, <1>7
    <3>3. QED
      BY <3>2, <2>1, <2>3 DEF Life!vars
  <2>6. QED
    BY <2>4, <2>5
<1>11. CASE ParseReset(m)
  <2>1. /\ hand[m].pc = "reset"
        /\ status' = [status EXCEPT ![d] = "PENDING"]
        /\ UNCHANGED <<row, readable, object, uploaded, extractedText, normalizedJson,
                       booked, job, run>>
    BY <1>5, <1>11 DEF ParseReset
  <2>2. row[d] # "absent" /\ uploaded[d] # {}
    BY <2>1, <1>6, <1>8 DEF TextsWereUploaded
  <2>3. \A e \in Docs : /\ status[e] # "none" => status'[e] # "none"
                        /\ e # d => status'[e] = status[e]
    BY <2>1, <1>7
  <2>4. LifeInv'
    BY <2>1, <2>2, <2>3, <1>8 DEF LifeInv, TextsWereUploaded, InOrder, TypeIsFixed
  <2>5. Life!Schedule(d)
    BY <2>1, <2>2 DEF Life!Schedule
  <2>6. QED
    BY <2>4, <2>5 DEF Life!Next
<1>12. CASE ParseAdd(m)
  <2>1. /\ hand[m].pc = "add"
        /\ job' = [job EXCEPT !["doc_extract"][d] = Add(@)]
        /\ UNCHANGED <<row, readable, object, uploaded, status, extractedText,
                       normalizedJson, booked, run>>
    BY <1>5, <1>12 DEF ParseAdd
  <2>2. status[d] # "none"
    BY <2>1, <1>6
  <2>3. \A e \in Docs : e # d => job'["doc_extract"][e] = job["doc_extract"][e]
    BY <2>1, <1>1, StageNames, JobFrame
  <2>4. LifeInv'
    BY <2>1, <2>2, <2>3, <1>8 DEF LifeInv, TextsWereUploaded, InOrder, TypeIsFixed
  <2>5. QED
    BY <2>1, <2>4 DEF Life!vars
<1>13. QED
  BY <1>9, <1>10, <1>11, <1>12

MailLInv == MailIInv /\ DocsInv /\ LifeInv

\* The rest of the mail queues touches no document.
LEMMA MailLifeStep ==
  MailLInv /\ [MailNext]_allVars => MailLInv' /\ [Life!Next]_(Life!vars)
<1> SUFFICES ASSUME MailLInv, [MailNext]_allVars
             PROVE  MailLInv' /\ [Life!Next]_(Life!vars)
  OBVIOUS
<1>1. MailIInv /\ DocsInv /\ LifeInv
  BY DEF MailLInv
<1>2. MailIInv' /\ DocsInv'
  BY <1>1, NextMailIInv, NextDocsInv
<1>3. CASE \/ MailUser \/ UNCHANGED allVars
           \/ \E s \in Syncs : SyncNow(s) \/ SyncStage(s)
           \/ \E k \in Keys : MailThrows(k) \/ MailDies(k) \/ MailRetry(k)
           \/ \E m \in Msgs : ParseStart(m) \/ MailAck(m) \/ MailRecover(m)
  <2>1. UNCHANGED <<row, readable, object, uploaded, status, extractedText,
                    normalizedJson, booked, job, run>>
    BY <1>3
    DEF MailUser, Connect, Disconnect, SyncNow, SyncStage, SyncStart, SyncRefused,
        SyncMessage, SyncClashes, SyncAdd, MailAck, MailRecover, MailThrows, MailDies,
        MailFault, MailRetry, ParseStart, allVars, vars, rowVars, extVars
  <2>2. QED
    BY <2>1, <1>1, <1>2, QuietLife DEF MailLInv
<1>4. ASSUME NEW m \in Msgs,
             ParsePut(m) \/ ParseDocument(m) \/ ParseReset(m) \/ ParseAdd(m)
      PROVE  MailLInv' /\ [Life!Next]_(Life!vars)
  BY <1>1, <1>2, <1>4, ParseLifeStep DEF MailLInv
<1>5. ASSUME NEW d \in Docs, DocumentStep(d)
      PROVE  MailLInv' /\ [Life!Next]_(Life!vars)
  BY <1>1, <1>2, <1>5, DocumentLifeStep DEF MailLInv
<1>6. QED
  BY <1>3, <1>4, <1>5 DEF MailNext, ParseStage

\* The attachments' documents, too, live as DocumentLife allows: email_parse, which
\* may run several times and for several messages of the same attachment, takes no
\* text back and settles no type anew under a running extraction.
THEOREM MailLifeImplemented == MailSpec => ImplementsLife
<1>1. MailInit => Life!Init
  BY DEF MailInit, Init, Life!Init
<1>2. MailInit => MailLInv
  BY InitMailIInv, InitDocsInv, InitLifeInv DEF MailLInv
<1>3. QED
  BY <1>1, <1>2, MailLifeStep, PTL DEF MailSpec, ImplementsLife, Life!Spec
=============================================================================
