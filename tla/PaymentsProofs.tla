--------------------------- MODULE PaymentsProofs ---------------------------
(***************************************************************************)
(* Proofs about Payments, for every set of purchases, payments, checkouts, *)
(* transfers and concurrent callback requests.                             *)
(*                                                                         *)
(* WebhooksAreTrue and StatusIsAudited are not inductive: what makes a     *)
(* webhook true is that every reference leads to the payment it was        *)
(* written on.  Links says so of the rows, the pushes, the prompts, the    *)
(* announced results and the requests in progress.                         *)
(***************************************************************************)
EXTENDS Payments, FiniteSetTheorems, TLAPS

\* A reference on a row is one it has carried; a stored CheckoutRequestID is
\* that of a prompt sent for the payment.
RowLinks ==
  \A i \in PaymentIds :
    /\ payments[i].txRef # Null => payments[i].txRef \in carried[i]
    /\ \A c \in Checkouts : payments[i].gwRef = c => prompt[c].payment = i

\* A push works for a row that exists, and so does a prompt.
PushLinks ==
  /\ \A i \in PaymentIds : push[i].pc # "none" => i \in Issued
  /\ \A i \in PaymentIds, c \in Checkouts :
       push[i].checkout = c => prompt[c].payment = i
  /\ \A c \in Checkouts : IF prompt[c].payment = Null THEN prompt[c].answer = "open"
                                                  ELSE prompt[c].payment \in Issued

\* What is delivered has happened.
ResultLinks ==
  /\ \A c \in Checkouts : copies[c] > 0 => prompt[c].answer # "open"
  /\ \A t \in Transfers : copies[t] > 0 => paybill[t] # Null

\* A request in progress works on a payment its result leads to.
HandlerLinks ==
  \A h \in Handlers : handler[h].pc = "resolve" =>
    /\ handler[h].payment \in Issued
    /\ handler[h].result \in Results
    /\ \A c \in Checkouts : handler[h].result = c =>
         prompt[c].payment = handler[h].payment /\ prompt[c].answer # "open"
    /\ \A t \in Transfers : handler[h].result = t =>
         paybill[t] \in carried[handler[h].payment]

\* The trail speaks of rows that exist, the webhooks' entries of results.
AuditLinks ==
  \A e \in audit : e.payment \in Issued /\ (e.actor = "GATEWAY_WEBHOOK" => e.result \in Results)

Links == RowLinks /\ PushLinks /\ ResultLinks /\ HandlerLinks /\ AuditLinks

IInv == TypeOK /\ Links /\ WebhooksAreTrue /\ StatusIsAudited

\* What no step undoes: an answered prompt, a Paybill payment, a reference
\* written, the purchase of a payment, an audit entry.
Kept ==
  /\ \A c \in Checkouts : prompt[c].payment # Null /\ prompt[c].answer # "open" =>
       prompt'[c] = prompt[c]
  /\ \A t \in Transfers : paybill[t] # Null => paybill'[t] = paybill[t]
  /\ \A i \in PaymentIds : carried[i] \subseteq carried'[i]
  /\ \A i \in Issued : i \in Issued' /\ payments'[i].purchase = payments[i].purchase
  /\ audit \subseteq audit'

----------------------------------------------------------------------------
(* Lemmas *)

\* References and payments are no NULL, and a result is of one kind.
LEMMA Apart ==
  /\ \A i \in PaymentIds : i # Null
  /\ \A x \in References : x # Null
  /\ Results \subseteq References
  /\ \A c \in Checkouts : c \notin Transfers
  BY DistinctAssumption DEF References, Results

\* A push that is not under way.
LEMMA NoPushType ==
  NoPush \in Push /\ NoPush.pc = "none" /\ NoPush.checkout = Null /\ Null \notin Checkouts
  BY BoundsAssumption, DistinctAssumption DEF NoPush, Push

\* A result that is good for a status of a payment stays good for it.
LEMMA WarrantsStay ==
  ASSUME IInv, Kept, NEW m \in Results, NEW i \in PaymentIds, NEW s \in Terminal,
         Warrants(m, i, s)
  PROVE  Warrants(m, i, s)'
<1>1. CASE m \in Checkouts
  <2>1. prompt[m].payment # Null /\ prompt[m].answer # "open"
    BY <1>1, Apart DEF Warrants, Terminal
  <2> QED
    BY <1>1, <2>1 DEF Warrants, Kept
<1>2. CASE m \notin Checkouts
  <2>1. m \in Transfers /\ paybill[m] \in carried[i] /\ s = "SUCCESS"
    BY <1>2 DEF Warrants, Results
  <2>2. paybill[m] # Null
    BY <2>1, Apart DEF IInv, TypeOK
  <2> QED
    BY <1>2, <2>1, <2>2 DEF Warrants, Kept
<1> QED
  BY <1>1, <1>2

\* What the trail said truly before a step it says truly after it.
LEMMA EntryStaysTrue ==
  ASSUME IInv, Kept, NEW e \in audit, e.actor = "GATEWAY_WEBHOOK"
  PROVE  Warrants(e.result, e.payment, e.status)'
<1>1. Warrants(e.result, e.payment, e.status) /\ e.result \in Results /\ e.payment \in PaymentIds
  BY DEF IInv, WebhooksAreTrue, Links, AuditLinks, Issued
<1>2. CASE e.status \in Terminal
  BY <1>1, <1>2, WarrantsStay
<1>3. CASE e.status \notin Terminal
  <2>1. e.status = "PENDING" /\ e.result \in Checkouts /\ prompt[e.result].answer = "declined"
        /\ prompt[e.result].payment = e.payment
    BY <1>1, <1>3 DEF Warrants, IInv, TypeOK, AuditEntry, PaymentStatus, Terminal
  <2> QED
    BY <1>1, <2>1, Apart DEF Warrants, Kept
<1> QED
  BY <1>2, <1>3

\* A step that leaves the trail alone keeps it true.
LEMMA WebhooksStayTrue ==
  ASSUME IInv, Kept, UNCHANGED audit
  PROVE  WebhooksAreTrue'
  BY EntryStaysTrue DEF WebhooksAreTrue

\* What a request that is about to commit works on.
LEMMA ResolveTarget ==
  ASSUME IInv, NEW h \in Handlers, Resolve(h)
  PROVE  \E m \in Results, i \in Issued, p \in Purchases :
           /\ handler[h] = [pc |-> "resolve", result |-> m, payment |-> i]
           /\ payments[i] \in Row /\ payments[i].purchase = p
  BY DEF IInv, Links, Resolve, HandlerLinks, TypeOK, Row, Issued, Handler

\* An entry says what it records.
LEMMA EntrySays ==
  ASSUME NEW i, NEW s, NEW m, NEW actor \in {"USER", "GATEWAY_WEBHOOK"},
         [payment |-> i, status |-> s, actor |-> actor, result |-> m] \in audit'
  PROVE  IF actor = "USER" THEN StaffSaid(i, s)' ELSE WebhookSaid(i, s)'
<1> DEFINE e == [payment |-> i, status |-> s, actor |-> actor, result |-> m]
<1>1. e.payment = i /\ e.status = s /\ e.actor = actor /\ e \in audit'
  OBVIOUS
<1> HIDE DEF e
<1> QED
  BY <1>1 DEF StaffSaid, WebhookSaid

\* The reference written on a row joins those it has carried.
LEMMA CarryType ==
  ASSUME IInv, NEW i \in PaymentIds, Carry(i), payments' \in [PaymentIds -> Row]
  PROVE  /\ carried' \in [PaymentIds -> SUBSET References]
         /\ \A j \in PaymentIds : carried[j] \subseteq carried'[j]
         /\ \A j \in PaymentIds : j # i => carried'[j] = carried[j]
         /\ payments'[i].txRef # Null => payments'[i].txRef \in carried'[i]
<1>1. carried \in [PaymentIds -> SUBSET References]
  BY DEF IInv, TypeOK
<1>2. payments'[i].txRef \in References \cup {Null}
  BY DEF Row
<1> QED
  BY <1>1, <1>2 DEF Carry

----------------------------------------------------------------------------
(* The invariant holds initially and every action preserves it *)

\* The initial state satisfies the invariant.
LEMMA InitIInv == Init => IInv
<1> SUFFICES ASSUME Init PROVE IInv
  OBVIOUS
<1>1. TypeOK
  BY BoundsAssumption, DistinctAssumption DEF Init, TypeOK, Row, AuditEntry, Push, Prompt, Handler,
     Results, References, PaymentStatus, Terminal, NoRow, NoPush, NoPrompt, Idle
<1>2. Links
  BY DistinctAssumption DEF Init, Links, RowLinks, PushLinks, ResultLinks, HandlerLinks,
     AuditLinks, Issued, NoRow, NoPush, NoPrompt, Idle, Results
<1>3. WebhooksAreTrue /\ StatusIsAudited
  BY DEF Init, WebhooksAreTrue, StatusIsAudited, Issued, NoRow
<1> QED
  BY <1>1, <1>2, <1>3 DEF IInv

\* A payment row that is created: it is linked to nothing yet.
LEMMA CreatePaymentKeeps ==
  ASSUME IInv, NEW i \in PaymentIds, NEW p \in Purchases, CreatePayment(i, p)
  PROVE  IInv' /\ Kept
<1> USE DEF IInv, Links
<1>0. i \notin Issued
  BY PaymentIdsAssumption DEF CreatePayment, InsertPayment
<1>1. TypeOK'
  <2>1. payments' \in [PaymentIds -> Row]
    BY TextsAssumption DEF TypeOK, CreatePayment, InsertPayment, Row, References, Results,
       PaymentStatus
  <2> QED
    BY <2>1, CarryType DEF TypeOK, CreatePayment, InsertPayment
<1>a. Carry(i)
  BY DEF CreatePayment, InsertPayment
<1>2. RowLinks'
  BY <1>1, <1>a, CarryType, DistinctAssumption DEF CreatePayment, InsertPayment, RowLinks, Issued,
     TypeOK
<1>3. PushLinks'
  BY DistinctAssumption DEF CreatePayment, InsertPayment, PushLinks, Issued,
     TypeOK
<1>4. ResultLinks'
  BY DEF CreatePayment, ResultLinks
<1>5. HandlerLinks'
  BY <1>0, <1>1, <1>a, CarryType, DistinctAssumption DEF CreatePayment, InsertPayment, TypeOK,
     HandlerLinks, Issued
<1>6. AuditLinks'
  BY DistinctAssumption DEF CreatePayment, InsertPayment, AuditLinks,
     Issued, TypeOK
<1>7. Kept
  BY <1>0, <1>1, <1>a, CarryType, DistinctAssumption DEF CreatePayment, InsertPayment, TypeOK,
     Kept, Issued
<1>8. WebhooksAreTrue'
  BY <1>7, WebhooksStayTrue DEF CreatePayment
<1>9. StatusIsAudited'
  BY <1>0, DistinctAssumption DEF CreatePayment, InsertPayment, TypeOK,
     StatusIsAudited, WebhookSaid, StaffSaid, Terminal, Issued
<1> QED
  BY <1>1, <1>2, <1>3, <1>4, <1>5, <1>6, <1>7, <1>8, <1>9

\* A payment row created with its push.
LEMMA InitiateStkPushKeeps ==
  ASSUME IInv, NEW i \in PaymentIds, NEW p \in Purchases, InitiateStkPush(i, p)
  PROVE  IInv' /\ Kept
<1> USE DEF IInv, Links
<1>0. i \notin Issued
  BY PaymentIdsAssumption DEF InitiateStkPush, InsertPayment
<1>1. TypeOK'
  <2>1. payments' \in [PaymentIds -> Row]
    BY DEF TypeOK, InitiateStkPush, InsertPayment, Row, PaymentStatus
  <2>2. push' \in [PaymentIds -> Push]
    BY BoundsAssumption DEF TypeOK, InitiateStkPush, InsertPayment, Push
  <2> QED
    BY <2>1, <2>2, CarryType DEF TypeOK, InitiateStkPush, InsertPayment
<1>a. Carry(i)
  BY DEF InitiateStkPush, InsertPayment
<1>2. RowLinks'
  BY <1>1, <1>a, CarryType, DistinctAssumption DEF InitiateStkPush, InsertPayment, RowLinks,
     Issued, TypeOK
<1>3. PushLinks'
  BY DistinctAssumption DEF InitiateStkPush, InsertPayment, PushLinks,
     Issued, TypeOK
<1>4. ResultLinks'
  BY DEF InitiateStkPush, ResultLinks
<1>5. HandlerLinks'
  BY <1>0, <1>1, <1>a, CarryType, DistinctAssumption DEF InitiateStkPush, InsertPayment, TypeOK,
     HandlerLinks, Issued
<1>6. AuditLinks'
  BY DistinctAssumption DEF InitiateStkPush, InsertPayment, AuditLinks,
     Issued, TypeOK
<1>7. Kept
  BY <1>0, <1>1, <1>a, CarryType, DistinctAssumption DEF InitiateStkPush, InsertPayment, TypeOK,
     Kept, Issued
<1>8. WebhooksAreTrue'
  BY <1>7, WebhooksStayTrue DEF InitiateStkPush
<1>9. StatusIsAudited'
  BY <1>0, DistinctAssumption DEF InitiateStkPush, InsertPayment, TypeOK,
     StatusIsAudited, WebhookSaid, StaffSaid, Terminal, Issued
<1> QED
  BY <1>1, <1>2, <1>3, <1>4, <1>5, <1>6, <1>7, <1>8, <1>9

\* A prompt the gateway accepted.
LEMMA PushAcceptedKeeps ==
  ASSUME IInv, NEW i \in PaymentIds, NEW c \in Checkouts, PushAccepted(i, c)
  PROVE  IInv' /\ Kept
<1> USE DEF IInv, Links
<1>1. TypeOK'
  <2>1. push' \in [PaymentIds -> Push]
    BY ZenonT(60) DEF TypeOK, PushAccepted, NewPrompt, Push
  <2>2. prompt' \in [Checkouts -> Prompt]
    BY DEF TypeOK, PushAccepted, NewPrompt, Prompt
  <2> QED
    BY <2>1, <2>2 DEF TypeOK, PushAccepted, NewPrompt
<1>2. RowLinks'
  BY DistinctAssumption DEF PushAccepted, NewPrompt, RowLinks, Issued,
     TypeOK
<1>3. PushLinks'
  BY SMTT(60), DistinctAssumption DEF PushAccepted, NewPrompt, TypeOK, Push, Prompt,
     PushLinks, Issued
<1>4. ResultLinks'
  BY DEF PushAccepted, NewPrompt, ResultLinks, Issued, TypeOK
<1>5. HandlerLinks'
  BY DistinctAssumption DEF PushAccepted, NewPrompt, HandlerLinks, Issued,
     TypeOK
<1>6. AuditLinks'
  BY DEF PushAccepted, AuditLinks, Issued
<1>7. Kept
  BY DEF PushAccepted, NewPrompt, Kept, Issued, TypeOK
<1>8. WebhooksAreTrue'
  BY <1>7, WebhooksStayTrue DEF PushAccepted
<1>9. StatusIsAudited'
  BY DEF PushAccepted, StatusIsAudited, Issued, WebhookSaid, StaffSaid
<1> QED
  BY <1>1, <1>2, <1>3, <1>4, <1>5, <1>6, <1>7, <1>8, <1>9

\* A prompt whose answer was lost.
LEMMA PushAnswerLostKeeps ==
  ASSUME IInv, NEW i \in PaymentIds, NEW c \in Checkouts, PushAnswerLost(i, c)
  PROVE  IInv' /\ Kept
<1> USE DEF IInv, Links
<1>1. TypeOK'
  <2>1. push' \in [PaymentIds -> Push]
    BY BoundsAssumption, NoPushType DEF TypeOK, PushAnswerLost, NewPrompt, RetryPush, Push
  <2>2. prompt' \in [Checkouts -> Prompt]
    BY DEF TypeOK, PushAnswerLost, NewPrompt, RetryPush, Prompt
  <2> QED
    BY <2>1, <2>2 DEF TypeOK, PushAnswerLost, NewPrompt, RetryPush
<1>2. RowLinks'
  BY DistinctAssumption DEF PushAnswerLost, NewPrompt, RetryPush, RowLinks,
     Issued, TypeOK
<1>3. PushLinks'
  BY DistinctAssumption, NoPushType DEF PushAnswerLost, NewPrompt, RetryPush, PushLinks,
     Issued, TypeOK, Push
<1>4. ResultLinks'
  BY DEF PushAnswerLost, NewPrompt, RetryPush, ResultLinks, Issued, TypeOK
<1>5. HandlerLinks'
  BY DistinctAssumption DEF PushAnswerLost, NewPrompt, RetryPush,
     HandlerLinks, Issued, TypeOK
<1>6. AuditLinks'
  BY DEF PushAnswerLost, AuditLinks, Issued
<1>7. Kept
  BY DEF PushAnswerLost, NewPrompt, RetryPush, Kept, Issued, TypeOK
<1>8. WebhooksAreTrue'
  BY <1>7, WebhooksStayTrue DEF PushAnswerLost
<1>9. StatusIsAudited'
  BY DEF PushAnswerLost, StatusIsAudited, Issued, WebhookSaid, StaffSaid
<1> QED
  BY <1>1, <1>2, <1>3, <1>4, <1>5, <1>6, <1>7, <1>8, <1>9

\* An attempt that did nothing.
LEMMA PushUnansweredKeeps ==
  ASSUME IInv, NEW i \in PaymentIds, PushUnanswered(i)
  PROVE  IInv' /\ Kept
<1> USE DEF IInv, Links
<1>1. TypeOK'
  <2>1. push' \in [PaymentIds -> Push]
    BY BoundsAssumption, NoPushType DEF TypeOK, PushUnanswered, RetryPush, Push
  <2> QED
    BY <2>1 DEF TypeOK, PushUnanswered, RetryPush
<1>2. RowLinks'
  BY DEF PushUnanswered, RowLinks
<1>3. PushLinks'
  BY NoPushType DEF PushUnanswered, RetryPush, PushLinks, Issued, TypeOK, Push
<1>4. ResultLinks'
  BY DEF PushUnanswered, ResultLinks
<1>5. HandlerLinks'
  BY DEF PushUnanswered, HandlerLinks, Issued
<1>6. AuditLinks'
  BY DEF PushUnanswered, AuditLinks, Issued
<1>7. Kept
  BY DEF PushUnanswered, Kept, Issued
<1>8. WebhooksAreTrue'
  BY <1>7, WebhooksStayTrue DEF PushUnanswered
<1>9. StatusIsAudited'
  BY DEF PushUnanswered, StatusIsAudited, Issued, WebhookSaid, StaffSaid
<1> QED
  BY <1>1, <1>2, <1>3, <1>4, <1>5, <1>6, <1>7, <1>8, <1>9

\* An attempt that was refused.
LEMMA PushRejectedKeeps ==
  ASSUME IInv, NEW i \in PaymentIds, PushRejected(i)
  PROVE  IInv' /\ Kept
<1> USE DEF IInv, Links
<1>1. TypeOK'
  <2>1. push' \in [PaymentIds -> Push]
    BY NoPushType DEF TypeOK, PushRejected
  <2> QED
    BY <2>1 DEF TypeOK, PushRejected
<1>2. RowLinks'
  BY DEF PushRejected, RowLinks
<1>3. PushLinks'
  BY NoPushType DEF PushRejected, PushLinks, Issued, TypeOK
<1>4. ResultLinks'
  BY DEF PushRejected, ResultLinks
<1>5. HandlerLinks'
  BY DEF PushRejected, HandlerLinks, Issued
<1>6. AuditLinks'
  BY DEF PushRejected, AuditLinks, Issued
<1>7. Kept
  BY DEF PushRejected, Kept, Issued
<1>8. WebhooksAreTrue'
  BY <1>7, WebhooksStayTrue DEF PushRejected
<1>9. StatusIsAudited'
  BY DEF PushRejected, StatusIsAudited, Issued, WebhookSaid, StaffSaid
<1> QED
  BY <1>1, <1>2, <1>3, <1>4, <1>5, <1>6, <1>7, <1>8, <1>9

\* The CheckoutRequestID stored on the payment it was created for.
LEMMA StoreReferenceKeeps ==
  ASSUME IInv, NEW i \in PaymentIds, StoreReference(i)
  PROVE  IInv' /\ Kept
<1> USE DEF IInv, Links
<1>1. TypeOK'
  <2>1. payments' \in [PaymentIds -> Row]
    <3>1. [payments[i] EXCEPT !.gwRef = push[i].checkout] \in Row
      BY ZenonT(60) DEF TypeOK, Row, Push
    <3> QED
      BY <3>1 DEF TypeOK, StoreReference
  <2>2. push' \in [PaymentIds -> Push]
    BY NoPushType DEF TypeOK, StoreReference
  <2> QED
    BY <2>1, <2>2 DEF TypeOK, StoreReference
<1>2. RowLinks'
  BY DistinctAssumption DEF StoreReference, RowLinks, HandlerLinks,
     PushLinks, Issued, TypeOK
<1>3. PushLinks'
  BY NoPushType DEF StoreReference, PushLinks, Issued, TypeOK
<1>4. ResultLinks'
  BY DEF StoreReference, ResultLinks
<1>5. HandlerLinks'
  BY DEF StoreReference, HandlerLinks, Issued
<1>6. AuditLinks'
  BY DEF StoreReference, AuditLinks, Issued
<1>7. Kept
  BY DEF StoreReference, Kept, Issued
<1>8. WebhooksAreTrue'
  BY <1>7, WebhooksStayTrue DEF StoreReference
<1>9. StatusIsAudited'
  BY DEF StoreReference, StatusIsAudited, Issued, WebhookSaid, StaffSaid
<1> QED
  BY <1>1, <1>2, <1>3, <1>4, <1>5, <1>6, <1>7, <1>8, <1>9

\* The CheckoutRequestID lost.
LEMMA LoseReferenceKeeps ==
  ASSUME IInv, NEW i \in PaymentIds, LoseReference(i)
  PROVE  IInv' /\ Kept
<1> USE DEF IInv, Links
<1>1. TypeOK'
  <2>1. push' \in [PaymentIds -> Push]
    BY NoPushType DEF TypeOK, LoseReference
  <2> QED
    BY <2>1 DEF TypeOK, LoseReference
<1>2. RowLinks'
  BY DEF LoseReference, RowLinks
<1>3. PushLinks'
  BY NoPushType DEF LoseReference, PushLinks, Issued, TypeOK
<1>4. ResultLinks'
  BY DEF LoseReference, ResultLinks
<1>5. HandlerLinks'
  BY DEF LoseReference, HandlerLinks, Issued
<1>6. AuditLinks'
  BY DEF LoseReference, AuditLinks, Issued
<1>7. Kept
  BY DEF LoseReference, Kept, Issued
<1>8. WebhooksAreTrue'
  BY <1>7, WebhooksStayTrue DEF LoseReference
<1>9. StatusIsAudited'
  BY DEF LoseReference, StatusIsAudited, Issued, WebhookSaid, StaffSaid
<1> QED
  BY <1>1, <1>2, <1>3, <1>4, <1>5, <1>6, <1>7, <1>8, <1>9

\* The customer answers: what was said of the prompt before stays true.
LEMMA CustomerAnswersKeeps ==
  ASSUME IInv, NEW c \in Checkouts, CustomerAnswers(c)
  PROVE  IInv' /\ Kept
<1> USE DEF IInv, Links
<1>1. TypeOK'
  <2>1. prompt' \in [Checkouts -> Prompt]
    BY DEF TypeOK, CustomerAnswers, Announce, Prompt
  <2>2. copies' \in [Results -> 0 .. MaxCopies]
    BY BoundsAssumption DEF TypeOK, CustomerAnswers, Announce, Results
  <2> QED
    BY <2>1, <2>2 DEF TypeOK, CustomerAnswers, Announce
<1>2. RowLinks'
  BY DEF CustomerAnswers, RowLinks
<1>3. PushLinks'
  BY DEF CustomerAnswers, PushLinks, Issued
<1>4. ResultLinks'
  BY DistinctAssumption DEF CustomerAnswers, Announce, ResultLinks, Issued,
     TypeOK
<1>5. HandlerLinks'
  BY DEF CustomerAnswers, HandlerLinks, Issued
<1>6. AuditLinks'
  BY DEF CustomerAnswers, AuditLinks, Issued
<1>7. Kept
  BY DEF CustomerAnswers, Kept, Issued
<1>8. WebhooksAreTrue'
  BY <1>7, WebhooksStayTrue DEF CustomerAnswers
<1>9. StatusIsAudited'
  BY DEF CustomerAnswers, StatusIsAudited, Issued, WebhookSaid, StaffSaid
<1> QED
  BY <1>1, <1>2, <1>3, <1>4, <1>5, <1>6, <1>7, <1>8, <1>9

\* A Paybill payment.
LEMMA PayByPaybillKeeps ==
  ASSUME IInv, NEW t \in Transfers, NEW ref \in Texts \cup {t}, PayByPaybill(t, ref)
  PROVE  IInv' /\ Kept
<1> USE DEF IInv, Links
<1>1. TypeOK'
  <2>1. paybill' \in [Transfers -> References \cup {Null}]
    BY TextsAssumption DEF TypeOK, PayByPaybill, Announce, References, Results
  <2>2. copies' \in [Results -> 0 .. MaxCopies]
    BY BoundsAssumption DEF TypeOK, PayByPaybill, Announce, Results
  <2> QED
    BY <2>1, <2>2 DEF TypeOK, PayByPaybill, Announce
<1>2. RowLinks'
  BY DEF PayByPaybill, RowLinks
<1>3. PushLinks'
  BY DEF PayByPaybill, PushLinks, Issued
<1>4. ResultLinks'
  <2>1. ref \in References
    BY TextsAssumption DEF References, Results
  <2> QED
    BY <2>1, Apart DEF PayByPaybill, Announce, ResultLinks, TypeOK
<1>5. HandlerLinks'
  BY Apart DEF PayByPaybill, HandlerLinks, Issued, TypeOK
<1>6. AuditLinks'
  BY DEF PayByPaybill, AuditLinks, Issued
<1>7. Kept
  BY DEF PayByPaybill, Kept, Issued
<1>8. WebhooksAreTrue'
  BY <1>7, WebhooksStayTrue DEF PayByPaybill
<1>9. StatusIsAudited'
  BY DEF PayByPaybill, StatusIsAudited, Issued, WebhookSaid, StaffSaid
<1> QED
  BY <1>1, <1>2, <1>3, <1>4, <1>5, <1>6, <1>7, <1>8, <1>9

\* A callback that finds nothing to settle.
LEMMA IgnoreCallbackKeeps ==
  ASSUME IInv, NEW m \in Results, IgnoreCallback(m)
  PROVE  IInv' /\ Kept
<1> USE DEF IInv, Links
<1>1. TypeOK'
  <2>1. copies' \in [Results -> 0 .. MaxCopies]
    BY BoundsAssumption DEF TypeOK, IgnoreCallback, Results
  <2> QED
    BY <2>1 DEF TypeOK, IgnoreCallback
<1>2. RowLinks'
  BY DEF IgnoreCallback, RowLinks
<1>3. PushLinks'
  BY DEF IgnoreCallback, PushLinks, Issued
<1>4. ResultLinks'
  BY DEF IgnoreCallback, ResultLinks
<1>5. HandlerLinks'
  BY DEF IgnoreCallback, HandlerLinks, Issued
<1>6. AuditLinks'
  BY DEF IgnoreCallback, AuditLinks, Issued
<1>7. Kept
  BY DEF IgnoreCallback, Kept, Issued
<1>8. WebhooksAreTrue'
  BY <1>7, WebhooksStayTrue DEF IgnoreCallback
<1>9. StatusIsAudited'
  BY DEF IgnoreCallback, StatusIsAudited, Issued, WebhookSaid, StaffSaid
<1> QED
  BY <1>1, <1>2, <1>3, <1>4, <1>5, <1>6, <1>7, <1>8, <1>9

\* A callback that has read its payment.
LEMMA BeginResolveKeeps ==
  ASSUME IInv, NEW h \in Handlers, NEW m \in Results, BeginResolve(h, m)
  PROVE  IInv' /\ Kept
<1> USE DEF IInv, Links
<1>1. TypeOK'
  <2>1. copies' \in [Results -> 0 .. MaxCopies]
    BY BoundsAssumption DEF TypeOK, BeginResolve, Unresolved, Matches,
       Results
  <2>2. handler' \in [Handlers -> Handler]
    BY DEF TypeOK, BeginResolve, Unresolved, Matches, Handler, Issued
  <2> QED
    BY <2>1, <2>2 DEF TypeOK, BeginResolve, Unresolved, Matches
<1>2. RowLinks'
  BY DEF BeginResolve, RowLinks
<1>3. PushLinks'
  BY DEF BeginResolve, PushLinks, Issued
<1>4. ResultLinks'
  BY DEF BeginResolve, ResultLinks
<1>5. HandlerLinks'
  <2>1. PICK i \in Unresolved(m) :
          handler' = [handler EXCEPT
            ![h] = [pc |-> "resolve", result |-> m, payment |-> i]]
    BY DEF BeginResolve
  <2>2. i \in Issued /\ (m \in Checkouts => payments[i].gwRef = m)
                     /\ (m \in Transfers => payments[i].txRef = paybill[m])
    BY <2>1, DistinctAssumption DEF Unresolved, Matches
  <2>3. copies[m] > 0 /\ UNCHANGED <<payments, prompt, paybill, carried>>
    BY DEF BeginResolve
  <2>4. ASSUME m \in Checkouts
        PROVE  prompt[m].payment = i /\ prompt[m].answer # "open"
    BY <2>2, <2>3, <2>4 DEF RowLinks, ResultLinks, Issued
  <2>5. ASSUME m \in Transfers
        PROVE  paybill[m] \in carried[i]
    BY <2>2, <2>3, <2>5 DEF RowLinks, ResultLinks, Issued
  <2> QED
    BY <2>1, <2>2, <2>3, <2>4, <2>5 DEF HandlerLinks, TypeOK, Issued
<1>6. AuditLinks'
  BY DEF BeginResolve, AuditLinks, Issued
<1>7. Kept
  BY DEF BeginResolve, Kept, Issued
<1>8. WebhooksAreTrue'
  BY <1>7, WebhooksStayTrue DEF BeginResolve
<1>9. StatusIsAudited'
  BY DEF BeginResolve, StatusIsAudited, Issued, WebhookSaid, StaffSaid
<1> QED
  BY <1>1, <1>2, <1>3, <1>4, <1>5, <1>6, <1>7, <1>8, <1>9

\* The transaction of a callback: what it writes, the gateway said.
LEMMA ResolveKeeps ==
  ASSUME IInv, NEW h \in Handlers, Resolve(h)
  PROVE  IInv' /\ Kept
<1> USE DEF IInv, Links
<1>0. PICK m \in Results, i \in Issued, p \in Purchases :
        /\ handler[h] = [pc |-> "resolve", result |-> m, payment |-> i]
        /\ payments[i] \in Row /\ payments[i].purchase = p
  BY ResolveTarget
<1>a. \A j \in PaymentIds : payments'[j].purchase = payments[j].purchase
  BY <1>0 DEF Resolve, TypeOK, Row
<1>b. Issued' = Issued
  BY <1>a DEF Issued
<1>c. /\ handler'[h].pc = "idle" /\ \A g \in Handlers \ {h} : handler'[g] = handler[g]
      /\ prompt' = prompt /\ paybill' = paybill
  BY DEF Resolve, Idle, TypeOK
<1>d. /\ payments' = [payments EXCEPT ![i].status = Outcome(m),
                                      ![i].txRef = NewReference(m, payments[i].txRef)]
      /\ audit' = audit \cup {[payment |-> i, status |-> Outcome(m),
                               actor |-> "GATEWAY_WEBHOOK", result |-> m]}
      /\ Carry(i)
  <2>1. handler[h].result = m /\ handler[h].payment = i
    BY <1>0
  <2> QED
    BY <2>1 DEF Resolve, Record
<1>e. payments' \in [PaymentIds -> Row]
  <2>1. Outcome(m) \in PaymentStatus
    BY DEF Outcome, PaymentStatus, Terminal
  <2>2. NewReference(m, payments[i].txRef) \in References \cup {Null}
    BY <1>0 DEF NewReference, References, Row
  <2>3. [payments[i] EXCEPT !.status = Outcome(m),
                            !.txRef = NewReference(m, payments[i].txRef)] \in Row
    BY <1>0, <2>1, <2>2 DEF Row
  <2> QED
    BY <1>d, <2>3 DEF TypeOK, Issued
<1>f. /\ carried' \in [PaymentIds -> SUBSET References]
      /\ \A j \in PaymentIds : carried[j] \subseteq carried'[j]
      /\ \A j \in PaymentIds : j # i => carried'[j] = carried[j]
      /\ payments'[i].txRef # Null => payments'[i].txRef \in carried'[i]
  BY <1>d, <1>e, CarryType DEF Issued
<1>1. TypeOK'
  <2>1. payStatus' \in [Purchases -> {"PENDING", "PAID", "FAILED"}]
    BY DEF Resolve, TypeOK, PurchaseStatus, Outcome
  <2>2. audit' \subseteq AuditEntry
    BY <1>d DEF TypeOK, Outcome, AuditEntry, Issued, PaymentStatus, Terminal
  <2>3. handler' \in [Handlers -> Handler]
    BY DEF Resolve, TypeOK, Idle, Handler
  <2> QED
    BY <1>e, <1>f, <2>1, <2>2, <2>3 DEF Resolve, TypeOK
<1>2. RowLinks'
  <2>1. \A j \in PaymentIds : payments'[j].gwRef = payments[j].gwRef
    BY <1>d DEF TypeOK, Row
  <2>2. \A j \in PaymentIds : j # i => payments'[j].txRef = payments[j].txRef
    BY <1>d DEF TypeOK, Row
  <2> QED
    BY <1>c, <1>f, <2>1, <2>2 DEF RowLinks
<1>3. PushLinks'
  BY <1>b DEF Resolve, PushLinks
<1>4. ResultLinks'
  BY DEF Resolve, ResultLinks
<1>5. HandlerLinks'
  BY <1>b, <1>c, <1>f DEF HandlerLinks, Issued
<1>6. AuditLinks'
  BY <1>b, <1>d DEF AuditLinks
<1>7. Kept
  BY <1>a, <1>b, <1>c, <1>d, <1>f DEF Kept, Issued
<1>8. WebhooksAreTrue'
  <2> SUFFICES ASSUME NEW e \in audit', e.actor = "GATEWAY_WEBHOOK"
               PROVE  Warrants(e.result, e.payment, e.status)'
    BY DEF WebhooksAreTrue
  <2>1. CASE e \in audit
    BY <1>7, <2>1, EntryStaysTrue
  <2>2. CASE e = [payment |-> i, status |-> Outcome(m), actor |-> "GATEWAY_WEBHOOK",
                  result |-> m]
    <3>1. Warrants(m, i, Outcome(m))
      <4>1. CASE m \in Checkouts
        <5>1. prompt[m].payment = i /\ prompt[m].answer # "open" /\ prompt[m] \in Prompt
          BY <1>0, <4>1 DEF HandlerLinks, TypeOK
        <5> QED
          BY <4>1, <5>1 DEF Warrants, Outcome, Prompt
      <4>2. CASE m \in Transfers
        <5>1. paybill[m] \in carried[i]
          BY <1>0, <4>2 DEF HandlerLinks
        <5> QED
          BY <4>2, <5>1, Apart DEF Warrants, Outcome
      <4> QED
        BY <4>1, <4>2 DEF Results
    <3>2. Outcome(m) \in Terminal /\ i \in PaymentIds
      BY DEF Outcome, Terminal, Issued
    <3>3. /\ Outcome(m)' = Outcome(m)
          /\ \A s \in Terminal : Warrants(m, i, s) => Warrants(m, i, s)'
      BY <1>c, <1>7, <3>2, WarrantsStay DEF Outcome
    <3>4. \A s \in Terminal : s = Outcome(m) => Warrants(m, i, s)'
      BY <3>1, <3>3
    <3> QED
      BY <2>2, <3>2, <3>4
  <2> QED
    BY <1>d, <2>1, <2>2
<1>9. StatusIsAudited'
  <2> SUFFICES ASSUME NEW j \in Issued, payments'[j].status \in Terminal
               PROVE  (StaffSaid(j, payments[j].status) \/ WebhookSaid(j, payments[j].status))'
    BY <1>b DEF StatusIsAudited
  <2>1. CASE j = i
    <3>1. payments'[j].status = Outcome(m)
      BY <1>d, <2>1 DEF TypeOK, Issued, Row
    <3>2. \A s : s = Outcome(m) => WebhookSaid(i, s)'
      BY <1>d, EntrySays
    <3> QED
      BY <2>1, <3>1, <3>2 DEF WebhookSaid
  <2>2. CASE j # i
    <3>1. payments'[j] = payments[j]
      BY <1>d, <2>2 DEF TypeOK, Issued
    <3>2. \A s : (StaffSaid(j, s) => StaffSaid(j, s)') /\ (WebhookSaid(j, s) => WebhookSaid(j, s)')
      BY <1>d DEF StaffSaid, WebhookSaid
    <3>3. StaffSaid(j, payments[j].status) \/ WebhookSaid(j, payments[j].status)
      BY <3>1 DEF StatusIsAudited
    <3> QED
      BY <3>1, <3>2, <3>3 DEF StaffSaid, WebhookSaid
  <2> QED
    BY <2>1, <2>2
<1> QED
  BY <1>1, <1>2, <1>3, <1>4, <1>5, <1>6, <1>7, <1>8, <1>9

\* A callback that dies.
LEMMA HandlerDiesKeeps ==
  ASSUME IInv, NEW h \in Handlers, HandlerDies(h)
  PROVE  IInv' /\ Kept
<1> USE DEF IInv, Links
<1>1. TypeOK'
  <2>1. handler' \in [Handlers -> Handler]
    BY DEF TypeOK, HandlerDies, Idle, Handler
  <2> QED
    BY <2>1 DEF TypeOK, HandlerDies, Idle
<1>2. RowLinks'
  BY DEF HandlerDies, RowLinks
<1>3. PushLinks'
  BY DEF HandlerDies, PushLinks, Issued
<1>4. ResultLinks'
  BY DEF HandlerDies, ResultLinks
<1>5. HandlerLinks'
  BY DEF HandlerDies, Idle, HandlerLinks, Issued, TypeOK
<1>6. AuditLinks'
  BY DEF HandlerDies, AuditLinks, Issued
<1>7. Kept
  BY DEF HandlerDies, Kept, Issued
<1>8. WebhooksAreTrue'
  BY <1>7, WebhooksStayTrue DEF HandlerDies
<1>9. StatusIsAudited'
  BY DEF HandlerDies, StatusIsAudited, Issued, WebhookSaid, StaffSaid
<1> QED
  BY <1>1, <1>2, <1>3, <1>4, <1>5, <1>6, <1>7, <1>8, <1>9

\* A status set by staff.
LEMMA UpdateStatusKeeps ==
  ASSUME IInv, NEW i \in PaymentIds, NEW status \in PaymentStatus,
         NEW ref \in Texts \cup {Null}, UpdateStatus(i, status, ref)
  PROVE  IInv' /\ Kept
<1> USE DEF IInv, Links
<1>a. payments' \in [PaymentIds -> Row]
  <2> DEFINE new == IF ref = Null THEN payments[i].txRef ELSE ref
  <2>1. payments[i] \in Row
    BY DEF TypeOK
  <2>2. new \in References \cup {Null}
    BY <2>1, TextsAssumption DEF Row, References, Results
  <2> HIDE DEF new
  <2>3. [payments[i] EXCEPT !.status = status, !.txRef = new] \in Row
    BY <2>1, <2>2 DEF Row
  <2>4. payments' = [payments EXCEPT ![i].status = status, ![i].txRef = new]
    BY DEF UpdateStatus, new
  <2> QED
    BY <2>3, <2>4 DEF TypeOK
<1>b. /\ carried' \in [PaymentIds -> SUBSET References]
      /\ \A j \in PaymentIds : carried[j] \subseteq carried'[j]
      /\ \A j \in PaymentIds : j # i => carried'[j] = carried[j]
      /\ payments'[i].txRef # Null => payments'[i].txRef \in carried'[i]
  BY <1>a, CarryType DEF UpdateStatus
<1>c. /\ audit' = audit \cup {[payment |-> i, status |-> status, actor |-> "USER",
                               result |-> Null]}
      /\ \A j \in PaymentIds : /\ payments'[j].purchase = payments[j].purchase
                               /\ payments'[j].gwRef = payments[j].gwRef
                               /\ j # i => payments'[j] = payments[j]
  BY DEF UpdateStatus, Record, TypeOK, Row
<1>d. Issued' = Issued /\ i \in Issued
  BY <1>c DEF Issued, UpdateStatus
<1>1. TypeOK'
  <2>1. payStatus' \in [Purchases -> {"PENDING", "PAID", "FAILED"}]
    BY DEF UpdateStatus, TypeOK, PurchaseStatus
  <2>2. audit' \subseteq AuditEntry
    BY <1>c DEF TypeOK, AuditEntry
  <2> QED
    BY <1>a, <1>b, <2>1, <2>2 DEF UpdateStatus, TypeOK
<1>2. RowLinks'
  <2>1. UNCHANGED prompt
    BY DEF UpdateStatus
  <2>2. \A j \in PaymentIds : payments'[j].txRef # Null => payments'[j].txRef \in carried'[j]
    BY <1>b, <1>c DEF RowLinks
  <2> QED
    BY <1>c, <2>1, <2>2 DEF RowLinks
<1>3. PushLinks'
  BY <1>d DEF UpdateStatus, PushLinks
<1>4. ResultLinks'
  BY DEF UpdateStatus, ResultLinks
<1>5. HandlerLinks'
  BY <1>b, <1>d DEF UpdateStatus, HandlerLinks, Issued
<1>6. AuditLinks'
  BY <1>c, <1>d DEF AuditLinks
<1>7. Kept
  BY <1>b, <1>c, <1>d DEF UpdateStatus, Kept, Issued
<1>8. WebhooksAreTrue'
  BY <1>7, <1>c, EntryStaysTrue DEF WebhooksAreTrue
<1>9. StatusIsAudited'
  <2> SUFFICES ASSUME NEW j \in Issued, payments'[j].status \in Terminal
               PROVE  (StaffSaid(j, payments[j].status) \/ WebhookSaid(j, payments[j].status))'
    BY <1>d DEF StatusIsAudited
  <2>1. CASE j = i
    <3>1. payments'[j].status = status
      BY <2>1 DEF UpdateStatus, TypeOK, Row
    <3>2. StaffSaid(i, status)'
      BY <1>c, EntrySays
    <3> QED
      BY <2>1, <3>1, <3>2 DEF StaffSaid
  <2>2. CASE j # i
    BY <1>c, <2>2 DEF StatusIsAudited, StaffSaid, WebhookSaid, Issued
  <2> QED
    BY <2>1, <2>2
<1> QED
  BY <1>1, <1>2, <1>3, <1>4, <1>5, <1>6, <1>7, <1>8, <1>9

\* A stuttering step.
LEMMA StutterKeeps ==
  ASSUME IInv, UNCHANGED vars
  PROVE  IInv' /\ Kept
  BY DEF vars, IInv, TypeOK, Links, RowLinks, PushLinks, ResultLinks, HandlerLinks,
     AuditLinks, WebhooksAreTrue, Warrants, StatusIsAudited, Issued, WebhookSaid, StaffSaid,
     Kept

\* Every step preserves the invariant.
LEMMA StepKeeps ==
  ASSUME IInv, [Next]_vars
  PROVE  IInv' /\ Kept
<1>1. ASSUME NEW i \in PaymentIds, NEW p \in Purchases, CreatePayment(i, p)
      PROVE  IInv' /\ Kept
  BY <1>1, CreatePaymentKeeps
<1>2. ASSUME NEW i \in PaymentIds, NEW p \in Purchases, InitiateStkPush(i, p)
      PROVE  IInv' /\ Kept
  BY <1>2, InitiateStkPushKeeps
<1>3. ASSUME NEW i \in PaymentIds, PushStep(i)
      PROVE  IInv' /\ Kept
  BY <1>3, PushAcceptedKeeps, PushAnswerLostKeeps, PushUnansweredKeeps,
     PushRejectedKeeps, StoreReferenceKeeps, LoseReferenceKeeps DEF PushStep
<1>4. ASSUME NEW c \in Checkouts, CustomerAnswers(c)
      PROVE  IInv' /\ Kept
  BY <1>4, CustomerAnswersKeeps
<1>5. ASSUME NEW t \in Transfers, NEW ref \in Texts \cup {t}, PayByPaybill(t, ref)
      PROVE  IInv' /\ Kept
  BY <1>5, PayByPaybillKeeps
<1>6. ASSUME NEW m \in Results, Deliver(m)
      PROVE  IInv' /\ Kept
  BY <1>6, IgnoreCallbackKeeps, BeginResolveKeeps DEF Deliver
<1>7. ASSUME NEW h \in Handlers, Resolve(h) \/ HandlerDies(h)
      PROVE  IInv' /\ Kept
  BY <1>7, ResolveKeeps, HandlerDiesKeeps
<1>8. ASSUME NEW i \in PaymentIds, NEW status \in PaymentStatus,
             NEW ref \in Texts \cup {Null}, UpdateStatus(i, status, ref)
      PROVE  IInv' /\ Kept
  BY <1>8, UpdateStatusKeeps
<1> QED
  BY <1>1, <1>2, <1>3, <1>4, <1>5, <1>6, <1>7, <1>8, StutterKeeps DEF Next

----------------------------------------------------------------------------

\* The invariant holds in every reachable state.
LEMMA Invariance == Spec => []IInv
<1>1. Init => IInv
  BY InitIInv
<1>2. IInv /\ [Next]_vars => IInv'
  BY StepKeeps
<1> QED
  BY <1>1, <1>2, PTL DEF Spec

\* Rows, references, prompts and requests have their shape in every reachable
\* state.
THEOREM Typing == Spec => []TypeOK
<1>1. IInv => TypeOK
  BY DEF IInv
<1> QED
  BY <1>1, Invariance, PTL

\* The resolvers credit a payment only with a paid prompt of its own or with a
\* transfer whose reference it has carried, and fail one only when its own
\* prompt was declined.
THEOREM WebhookTruth == Spec => []WebhooksAreTrue
<1>1. IInv => WebhooksAreTrue
  BY DEF IInv
<1> QED
  BY <1>1, Invariance, PTL

\* No payment has carried the account number of another purchase.
OwnAccountsOnly ==
  \A i \in Issued : carried[i] \cap Purchases \subseteq {payments[i].purchase}

\* A transfer that quotes an account credits payments of that purchase only.
CreditsQuotedAccount ==
  \A e \in audit : e.actor = "GATEWAY_WEBHOOK" /\ e.result \in Transfers
                   /\ paybill[e.result] \in Purchases =>
    payments[e.payment].purchase = paybill[e.result]

\* As long as nobody writes the account number of another purchase on a
\* payment, no transfer is credited to another purchase than the one its
\* customer quoted: the unchecked reference of POST /api/payments and of
\* PUT /api/payments/{id}/status is the only way there.
THEOREM QuotedAccountCredited == Spec => ([]OwnAccountsOnly => []CreditsQuotedAccount)
<1>1. IInv /\ OwnAccountsOnly => CreditsQuotedAccount
  <2> SUFFICES ASSUME IInv, OwnAccountsOnly, NEW e \in audit, e.actor = "GATEWAY_WEBHOOK",
                      e.result \in Transfers, paybill[e.result] \in Purchases
               PROVE  payments[e.payment].purchase = paybill[e.result]
    BY DEF CreditsQuotedAccount
  <2>1. e.payment \in Issued /\ Warrants(e.result, e.payment, e.status)
    BY DEF IInv, Links, AuditLinks, WebhooksAreTrue
  <2>2. paybill[e.result] \in carried[e.payment]
    BY <2>1, Apart DEF Warrants
  <2> QED
    BY <2>1, <2>2 DEF OwnAccountsOnly
<1> QED
  BY <1>1, Invariance, PTL

\* Every terminal status of a payment has its entry in the trail.
THEOREM AuditTrail == Spec => []StatusIsAudited
<1>1. IInv => StatusIsAudited
  BY DEF IInv
<1> QED
  BY <1>1, Invariance, PTL

----------------------------------------------------------------------------
(***************************************************************************)
(* Payments implements Settlement.  No step withdraws grounds, and the two *)
(* that write payment_status, a resolver's transaction and a decision of   *)
(* staff, leave the grounds for what they write behind.                    *)
(***************************************************************************)

\* Grounds are never withdrawn.
LEMMA GroundsGrow ==
  ASSUME IInv, Kept, NEW q \in Purchases
  PROVE  Grounds(q) \subseteq Grounds(q)'
<1>1. ASSUME NEW i \in Issued, NEW s \in Terminal, payments[i].purchase = q, Ground(i, s)
      PROVE  i \in Issued' /\ payments'[i].purchase = q /\ Ground(i, s)'
  <2>1. i \in PaymentIds /\ i \in Issued' /\ payments'[i].purchase = q
    BY <1>1 DEF Kept, Issued
  <2>2. CASE StaffSaid(i, s)
    <3>1. StaffSaid(i, s)'
      BY <2>2 DEF StaffSaid, Kept
    <3> QED
      BY <2>1, <3>1 DEF Ground
  <2>3. ASSUME NEW m \in Results, Warrants(m, i, s)
        PROVE  Ground(i, s)'
    <3>1. Warrants(m, i, s)'
      BY <2>1, <2>3, WarrantsStay
    <3> QED
      BY <3>1 DEF Ground
  <2> QED
    BY <1>1, <2>1, <2>2, <2>3 DEF Ground
<1> QED
  BY <1>1 DEF Grounds, Terminal

\* What is said of a payment is a ground for the status of its purchase.
LEMMA SaidIsGround ==
  ASSUME NEW i \in Issued', NEW s \in Terminal, Ground(i, s)',
         NEW p \in Purchases, payments'[i].purchase = p
  PROVE  (IF s = "SUCCESS" THEN "PAID" ELSE "FAILED") \in Grounds(p)'
  BY DEF Grounds, Terminal

\* A resolver leaves the grounds for what it writes: its entry in the trail is
\* true.
LEMMA ResolveDecides ==
  ASSUME IInv, Kept, IInv', NEW h \in Handlers, Resolve(h)
  PROVE  \E p \in Purchases : \E v \in Grounds(p)' : payStatus' = [payStatus EXCEPT ![p] = v]
<1>1. PICK m \in Results, i \in Issued, p \in Purchases :
        /\ handler[h] = [pc |-> "resolve", result |-> m, payment |-> i]
        /\ payments[i].purchase = p
  BY ResolveTarget
<1>2. handler[h].result = m /\ handler[h].payment = i
  BY <1>1
<1>3. i \in Issued' /\ payments'[i].purchase = p
  BY <1>1 DEF Kept
<1>4. payStatus' = [payStatus EXCEPT ![p] = PurchaseStatus(Outcome(m), payStatus[p])]
  BY <1>1, <1>2, Zenon DEF Resolve
<1>5. [payment |-> i, status |-> Outcome(m), actor |-> "GATEWAY_WEBHOOK", result |-> m] \in audit'
  BY <1>2 DEF Resolve, Record
<1>6. Warrants(m, i, Outcome(m))'
  <2>1. UNCHANGED prompt
    BY DEF Resolve
  <2>2. Outcome(m)' = Outcome(m)
    BY <2>1 DEF Outcome
  <2> QED
    BY <1>5, <2>2 DEF IInv, WebhooksAreTrue, Warrants
<1>7. Outcome(m) \in Terminal
  BY DEF Outcome, Terminal
<1>8. \A s \in Terminal : Outcome(m) = s => Ground(i, s)'
  BY <1>6 DEF Ground, Warrants, Outcome, Resolve
<1>9. PurchaseStatus(Outcome(m), payStatus[p]) \in Grounds(p)'
  <2>1. CASE Outcome(m) = "SUCCESS"
    BY <1>3, <1>8, <2>1, SaidIsGround DEF Terminal, PurchaseStatus
  <2>2. CASE Outcome(m) = "FAILED"
    BY <1>3, <1>8, <2>2, SaidIsGround DEF Terminal, PurchaseStatus
  <2> QED
    BY <1>7, <2>1, <2>2 DEF Terminal
<1> QED
  BY <1>4, <1>9

\* So does a decision of staff, which is its own ground.
LEMMA StaffDecides ==
  ASSUME IInv, Kept, IInv', NEW i \in PaymentIds, NEW status \in PaymentStatus,
         NEW ref \in Texts \cup {Null}, UpdateStatus(i, status, ref)
  PROVE  UNCHANGED payStatus \/
         \E p \in Purchases : \E v \in Grounds(p)' : payStatus' = [payStatus EXCEPT ![p] = v]
<1>1. i \in Issued
  BY DEF UpdateStatus
<1>2. PICK p \in Purchases : payments[i].purchase = p
  BY <1>1 DEF Issued, IInv, TypeOK, Row
<1>3. i \in Issued' /\ payments'[i].purchase = p
  BY <1>1, <1>2 DEF Kept
<1>4. payStatus' = [payStatus EXCEPT ![p] = PurchaseStatus(status, payStatus[p])]
  BY <1>2 DEF UpdateStatus
<1>5. [payment |-> i, status |-> status, actor |-> "USER", result |-> Null] \in audit'
  BY DEF UpdateStatus, Record
<1>6. Ground(i, status)'
  BY <1>5 DEF Ground, StaffSaid
<1>7. CASE status \in Terminal
  <2>1. PurchaseStatus(status, payStatus[p]) \in Grounds(p)'
    BY <1>3, <1>6, <1>7, SaidIsGround DEF Terminal, PurchaseStatus
  <2> QED
    BY <1>4, <2>1
<1>8. CASE status \notin Terminal
  <2>1. PurchaseStatus(status, payStatus[p]) = payStatus[p]
    BY <1>8 DEF PurchaseStatus, Terminal
  <2> QED
    BY <1>4, <2>1 DEF IInv, TypeOK
<1> QED
  BY <1>7, <1>8

\* Every other step leaves payment_status alone.
LEMMA StepDecides ==
  ASSUME IInv, Kept, IInv', [Next]_vars
  PROVE  UNCHANGED payStatus \/
         \E p \in Purchases : \E v \in Grounds(p)' : payStatus' = [payStatus EXCEPT ![p] = v]
<1>1. ASSUME NEW i \in PaymentIds, NEW p \in Purchases,
             CreatePayment(i, p) \/ InitiateStkPush(i, p)
      PROVE  UNCHANGED payStatus
  BY <1>1 DEF CreatePayment, InitiateStkPush
<1>2. ASSUME NEW i \in PaymentIds, PushStep(i)
      PROVE  UNCHANGED payStatus
  BY <1>2 DEF PushStep, PushAccepted, PushAnswerLost, PushUnanswered, PushRejected,
     StoreReference, LoseReference
<1>3. ASSUME NEW m \in Results, Deliver(m)
      PROVE  UNCHANGED payStatus
  BY <1>3 DEF Deliver, IgnoreCallback, BeginResolve
<1>4. ASSUME NEW h \in Handlers, HandlerDies(h)
      PROVE  UNCHANGED payStatus
  BY <1>4 DEF HandlerDies
<1>5. ASSUME NEW c \in Checkouts, CustomerAnswers(c)
      PROVE  UNCHANGED payStatus
  BY <1>5 DEF CustomerAnswers
<1>6. ASSUME NEW t \in Transfers, NEW ref \in Texts \cup {t}, PayByPaybill(t, ref)
      PROVE  UNCHANGED payStatus
  BY <1>6 DEF PayByPaybill
<1>7. CASE UNCHANGED vars
  BY <1>7 DEF vars
<1> QED
  BY <1>1, <1>2, <1>3, <1>4, <1>5, <1>6, <1>7, ResolveDecides, StaffDecides DEF Next

----------------------------------------------------------------------------

\* The initial states map to initial states.
LEMMA InitMaps == Init => S!Init
<1> SUFFICES ASSUME Init PROVE S!Init
  OBVIOUS
<1>1. Issued = {}
  BY DEF Init, Issued, NoRow
<1>2. \A p \in Purchases : Grounds(p) = {}
  BY <1>1 DEF Grounds
<1> QED
  BY <1>2 DEF Init, S!Init

\* Every step maps to a step of Settlement.
LEMMA StepMaps ==
  ASSUME IInv, IInv', Kept, [Next]_vars
  PROVE  S!Next
<1>1. S!Learn
  <2>1. \A p \in Purchases : Grounds(p)' \in SUBSET S!Verdicts
    BY DEF Grounds, S!Verdicts
  <2> QED
    BY <2>1, GroundsGrow DEF S!Learn
<1>2. UNCHANGED payStatus \/ \E p \in Purchases : S!Decide(p)
  BY StepDecides DEF S!Decide
<1> QED
  BY <1>1, <1>2 DEF S!Next

\* A purchase's payment_status moves only to a verdict there are grounds for
\* and never returns to PENDING, whatever the webhooks, the staff and the
\* customers do and in whatever order.
THEOREM Refinement == Spec => ImplementsSettlement
<1>1. Init => S!Init
  BY InitMaps
<1>2. IInv /\ IInv' /\ [Next]_vars =>
        [S!Next]_<<payStatus, [p \in Purchases |-> Grounds(p)]>>
  BY StepKeeps, StepMaps
<1> QED
  BY <1>1, <1>2, Invariance, PTL DEF Spec, ImplementsSettlement, S!Spec

----------------------------------------------------------------------------
(***************************************************************************)
(* A Paybill payment and the payments it is credited to.  The deliveries   *)
(* of a confirmation are spent one by one: a delivery still to come        *)
(* becomes a request in progress or is ignored, and a request credits one  *)
(* payment or dies.                                                        *)
(***************************************************************************)

\* The requests working on the confirmation of t.
InFlight(t) == {h \in Handlers : handler[h].pc = "resolve" /\ handler[h].result = t}

\* What t was credited to and what may still credit it are n together at most.
Counts(t, n) ==
  /\ IsFiniteSet(CreditedTo(t)) /\ IsFiniteSet(InFlight(t))
  /\ Cardinality(CreditedTo(t)) + Cardinality(InFlight(t)) + copies[t] <= n
  /\ paybill[t] = Null => CreditedTo(t) = {}

\* Nothing is credited, taken up or announced anew.
Spent(t) ==
  /\ CreditedTo(t)' \subseteq CreditedTo(t)
  /\ InFlight(t)' \subseteq InFlight(t)
  /\ copies'[t] <= copies[t]
  /\ paybill'[t] = Null => paybill[t] = Null

\* The account number of a purchase is no TransID.
LEMMA TransfersApart ==
  ASSUME NEW t \in Transfers
  PROVE  t \in Results /\ t # Null /\ t \notin Purchases /\ t \notin Checkouts
  BY DistinctAssumption DEF Results

\* The counts of a transfer are numbers.
LEMMA CountTypes ==
  ASSUME IInv, NEW t \in Transfers, NEW n \in Nat, Counts(t, n)
  PROVE  /\ Cardinality(CreditedTo(t)) \in Nat
         /\ Cardinality(InFlight(t)) \in Nat
         /\ copies[t] \in Nat
  BY BoundsAssumption, TransfersApart, FS_CardinalityType DEF Counts, IInv, TypeOK

\* A step that spends or does nothing keeps the counts.
LEMMA SpentKeeps ==
  ASSUME IInv, IInv', NEW t \in Transfers, NEW n \in Nat, Counts(t, n), Spent(t)
  PROVE  Counts(t, n)'
<1>1. /\ IsFiniteSet(CreditedTo(t)') /\ Cardinality(CreditedTo(t)') \in Nat
      /\ Cardinality(CreditedTo(t)') <= Cardinality(CreditedTo(t))
  BY FS_Subset, FS_CardinalityType DEF Counts, Spent
<1>2. /\ IsFiniteSet(InFlight(t)') /\ Cardinality(InFlight(t)') \in Nat
      /\ Cardinality(InFlight(t)') <= Cardinality(InFlight(t))
  BY FS_Subset, FS_CardinalityType DEF Counts, Spent
<1>3. copies'[t] \in Nat
  BY TransfersApart, BoundsAssumption DEF IInv, TypeOK
<1>4. Cardinality(CreditedTo(t)') + Cardinality(InFlight(t)') + copies'[t] <= n
  BY <1>1, <1>2, <1>3, CountTypes DEF Counts, Spent
<1>5. paybill'[t] = Null => CreditedTo(t)' = {}
  BY DEF Counts, Spent
<1> QED
  BY <1>1, <1>2, <1>4, <1>5 DEF Counts

\* The steps that touch no confirmation spend nothing of it.
LEMMA OtherStepsSpend ==
  ASSUME IInv, NEW t \in Transfers,
         \/ \E i \in PaymentIds, p \in Purchases : CreatePayment(i, p) \/ InitiateStkPush(i, p)
         \/ \E i \in PaymentIds : PushStep(i)
         \/ \E c \in Checkouts : CustomerAnswers(c)
         \/ \E i \in PaymentIds, status \in PaymentStatus, ref \in Texts \cup {Null} :
              UpdateStatus(i, status, ref)
         \/ UNCHANGED vars
  PROVE  Spent(t)
<1>0. copies[t] \in Nat
  BY TransfersApart, BoundsAssumption DEF IInv, TypeOK
<1>1. ASSUME NEW i \in PaymentIds, NEW p \in Purchases, CreatePayment(i, p) \/ InitiateStkPush(i, p)
      PROVE  Spent(t)
  BY <1>0, <1>1 DEF CreatePayment, InitiateStkPush, Spent, CreditedTo, InFlight
<1>2. ASSUME NEW i \in PaymentIds, PushStep(i)
      PROVE  Spent(t)
  BY <1>0, <1>2 DEF PushStep, PushAccepted, PushAnswerLost, PushUnanswered, PushRejected,
     StoreReference, LoseReference, Spent, CreditedTo, InFlight
<1>3. ASSUME NEW c \in Checkouts, CustomerAnswers(c)
      PROVE  Spent(t)
  BY <1>0, <1>3, TransfersApart DEF CustomerAnswers, Announce, Spent, CreditedTo, InFlight,
     IInv, TypeOK
<1>4. ASSUME NEW i \in PaymentIds, NEW status \in PaymentStatus,
             NEW ref \in Texts \cup {Null}, UpdateStatus(i, status, ref)
      PROVE  Spent(t)
  <2>1. UNCHANGED <<paybill, copies, handler>>
    BY <1>4 DEF UpdateStatus
  <2>2. audit' = audit \cup {[payment |-> i, status |-> status, actor |-> "USER",
                              result |-> Null]}
    BY <1>4 DEF UpdateStatus, Record
  <2>3. CreditedTo(t)' \subseteq CreditedTo(t)
    BY <2>2, TransfersApart DEF CreditedTo
  <2> QED
    BY <1>0, <2>1, <2>3 DEF Spent, InFlight
<1>5. CASE UNCHANGED vars
  BY <1>0, <1>5 DEF vars, Spent, CreditedTo, InFlight
<1> QED
  BY <1>1, <1>2, <1>3, <1>4, <1>5

\* A new Paybill payment is credited to nothing and nobody works on it.
LEMMA PaybillCounts ==
  ASSUME IInv, IInv', NEW t \in Transfers, NEW n \in Nat, Counts(t, n),
         NEW u \in Transfers, NEW ref \in Texts \cup {u}, PayByPaybill(u, ref), copies'[t] <= n
  PROVE  Counts(t, n)'
<1>1. UNCHANGED <<audit, handler>>
  BY DEF PayByPaybill
<1>2. CreditedTo(t)' = CreditedTo(t) /\ InFlight(t)' = InFlight(t)
  BY <1>1 DEF CreditedTo, InFlight
<1>3. copies[t] \in Nat
  BY TransfersApart, BoundsAssumption DEF IInv, TypeOK
<1>4. CASE t # u
  <2>1. copies'[t] = copies[t] /\ paybill'[t] = paybill[t]
    BY <1>4, TransfersApart DEF PayByPaybill, Announce, IInv, TypeOK
  <2> QED
    BY <1>2, <1>3, <2>1, SpentKeeps DEF Spent
<1>5. CASE t = u
  <2>1. paybill[t] = Null /\ paybill'[t] = ref /\ ref # Null
    <3>1. ref \in References
      BY TextsAssumption DEF References, Results
    <3> QED
      BY <1>5, <3>1, Apart DEF PayByPaybill, IInv, TypeOK
  <2>2. CreditedTo(t) = {}
    BY <2>1 DEF Counts
  <2>3. InFlight(t) = {}
    BY <2>1, Apart DEF InFlight, IInv, TypeOK, Links, HandlerLinks, Issued
  <2>4. copies'[t] \in Nat
    BY TransfersApart, BoundsAssumption DEF IInv, TypeOK
  <2>5. Cardinality(CreditedTo(t)') = 0 /\ Cardinality(InFlight(t)') = 0
    BY <1>2, <2>2, <2>3, FS_EmptySet
  <2>6. Cardinality(CreditedTo(t)') + Cardinality(InFlight(t)') + copies'[t] <= n
    BY <2>4, <2>5
  <2> QED
    BY <1>2, <2>1, <2>6 DEF Counts
<1> QED
  BY <1>4, <1>5

\* A delivery is ignored or becomes a request in progress.
LEMMA DeliveryCounts ==
  ASSUME IInv, IInv', NEW t \in Transfers, NEW n \in Nat, Counts(t, n), NEW m \in Results, Deliver(m)
  PROVE  Counts(t, n)'
<1>1. UNCHANGED <<audit, paybill>>
  BY DEF Deliver, IgnoreCallback, BeginResolve
<1>2. CreditedTo(t)' = CreditedTo(t)
  BY <1>1 DEF CreditedTo
<1>3. copies[t] \in Nat /\ copies[m] \in Nat /\ copies[m] > 0
  BY TransfersApart, BoundsAssumption DEF IInv, TypeOK, Deliver, IgnoreCallback, BeginResolve
<1>4. copies' = [copies EXCEPT ![m] = copies[m] - 1]
  BY DEF Deliver, IgnoreCallback, BeginResolve
<1>5. copies'[t] <= copies[t] /\ (t = m => copies'[t] = copies[t] - 1)
  BY <1>3, <1>4, TransfersApart DEF IInv, TypeOK
<1>6. CASE IgnoreCallback(m)
  <2>1. InFlight(t)' = InFlight(t)
    BY <1>6 DEF IgnoreCallback, InFlight
  <2> QED
    BY <1>1, <1>2, <1>5, <2>1, SpentKeeps DEF Spent
<1>7. ASSUME NEW h \in Handlers, BeginResolve(h, m)
      PROVE  Counts(t, n)'
  <2>1. PICK i \in PaymentIds :
          handler' = [handler EXCEPT ![h] = [pc |-> "resolve", result |-> m, payment |-> i]]
    BY <1>7 DEF BeginResolve, Unresolved, Matches, Issued
  <2>2. CASE t # m
    <3>1. InFlight(t)' \subseteq InFlight(t)
      BY <2>1, <2>2 DEF InFlight, IInv, TypeOK
    <3> QED
      BY <1>1, <1>2, <1>5, <3>1, SpentKeeps DEF Spent
  <2>3. CASE t = m
    <3>1. handler[h].pc = "idle"
      BY <1>7 DEF BeginResolve
    <3>2. h \notin InFlight(t) /\ InFlight(t)' = InFlight(t) \cup {h}
      BY <2>1, <2>3, <3>1 DEF InFlight, IInv, TypeOK
    <3>3. IsFiniteSet(InFlight(t)') /\ Cardinality(InFlight(t)') = Cardinality(InFlight(t)) + 1
      BY <3>2, FS_AddElement DEF Counts
    <3>4. Cardinality(CreditedTo(t)') + Cardinality(InFlight(t)') + copies'[t] <= n
      BY <1>2, <1>3, <1>5, <2>3, <3>3, CountTypes DEF Counts
    <3> QED
      BY <1>1, <1>2, <3>3, <3>4 DEF Counts
  <2> QED
    BY <2>2, <2>3
<1> QED
  BY <1>6, <1>7 DEF Deliver

\* A request credits the payment it works on and is over.
LEMMA ResolveCounts ==
  ASSUME IInv, IInv', NEW t \in Transfers, NEW n \in Nat, Counts(t, n), NEW h \in Handlers, Resolve(h)
  PROVE  Counts(t, n)'
<1>1. PICK m \in Results, i \in Issued, p \in Purchases :
        /\ handler[h] = [pc |-> "resolve", result |-> m, payment |-> i]
        /\ payments[i] \in Row /\ payments[i].purchase = p
  BY ResolveTarget
<1>2. UNCHANGED <<paybill, copies>> /\ handler' = [handler EXCEPT ![h] = Idle]
  BY DEF Resolve
<1>3. handler[h].result = m /\ handler[h].payment = i
  BY <1>1
<1>4. audit' = audit \cup {[payment |-> i, status |-> Outcome(m),
                            actor |-> "GATEWAY_WEBHOOK", result |-> m]}
  BY <1>3 DEF Resolve, Record
<1>5. /\ CreditedTo(t)' \subseteq CreditedTo(t) \cup {i}
      /\ t # m => CreditedTo(t)' \subseteq CreditedTo(t)
  BY <1>4 DEF CreditedTo
<1>6. copies[t] \in Nat
  BY CountTypes
<1>7. CASE t # m
  <2>1. InFlight(t)' \subseteq InFlight(t)
    BY <1>2 DEF InFlight, Idle, IInv, TypeOK
  <2> QED
    BY <1>2, <1>5, <1>6, <1>7, <2>1, SpentKeeps DEF Spent
<1>8. CASE t = m
  <2>1. h \in InFlight(t) /\ InFlight(t)' = InFlight(t) \ {h}
    BY <1>1, <1>2, <1>8 DEF InFlight, Idle, IInv, TypeOK
  <2>2. /\ IsFiniteSet(InFlight(t)')
        /\ Cardinality(InFlight(t)') = Cardinality(InFlight(t)) - 1
    BY <2>1, FS_RemoveElement DEF Counts
  <2>3. /\ IsFiniteSet(CreditedTo(t) \cup {i})
        /\ Cardinality(CreditedTo(t) \cup {i}) \in Nat
        /\ Cardinality(CreditedTo(t) \cup {i}) <= Cardinality(CreditedTo(t)) + 1
    <3>1. IsFiniteSet(CreditedTo(t)) /\ Cardinality(CreditedTo(t)) \in Nat
      BY CountTypes DEF Counts
    <3>2. CASE i \in CreditedTo(t)
      <4>1. CreditedTo(t) \cup {i} = CreditedTo(t)
        BY <3>2
      <4>2. /\ IsFiniteSet(CreditedTo(t) \cup {i})
            /\ Cardinality(CreditedTo(t) \cup {i}) = Cardinality(CreditedTo(t))
        BY <3>1, <4>1, Zenon
      <4> QED
        BY <3>1, <4>2
    <3>3. CASE i \notin CreditedTo(t)
      <4>1. /\ IsFiniteSet(CreditedTo(t) \cup {i})
            /\ Cardinality(CreditedTo(t) \cup {i}) = Cardinality(CreditedTo(t)) + 1
        BY <3>1, <3>3, FS_AddElement
      <4> QED
        BY <3>1, <4>1
    <3> QED
      BY <3>2, <3>3
  <2>4. /\ IsFiniteSet(CreditedTo(t)') /\ Cardinality(CreditedTo(t)') \in Nat
        /\ Cardinality(CreditedTo(t)') <= Cardinality(CreditedTo(t)) + 1
    BY <1>5, <2>3, CountTypes, FS_Subset, FS_CardinalityType
  <2>5. Cardinality(CreditedTo(t)') + Cardinality(InFlight(t)') + copies'[t] <= n
    BY <1>2, <2>2, <2>4, CountTypes DEF Counts
  <2>6. paybill'[t] # Null
    <3>1. paybill[t] \in carried[i]
      BY <1>1, <1>8 DEF IInv, Links, HandlerLinks
    <3> QED
      BY <1>2, <3>1, Apart DEF IInv, TypeOK, Issued
  <2> QED
    BY <2>2, <2>4, <2>5, <2>6 DEF Counts
<1> QED
  BY <1>7, <1>8

\* A request that dies credits nothing.
LEMMA DeathSpends ==
  ASSUME IInv, NEW t \in Transfers, NEW h \in Handlers, HandlerDies(h)
  PROVE  Spent(t)
<1>1. copies[t] \in Nat
  BY TransfersApart, BoundsAssumption DEF IInv, TypeOK
<1> QED
  BY <1>1 DEF HandlerDies, Spent, CreditedTo, InFlight, Idle, IInv, TypeOK

\* Nothing is credited before anything happens.
LEMMA InitCounts ==
  ASSUME Init, NEW t \in Transfers, NEW n \in Nat
  PROVE  Counts(t, n)
<1>1. CreditedTo(t) = {} /\ InFlight(t) = {} /\ copies[t] = 0
  BY TransfersApart DEF Init, CreditedTo, InFlight, Idle
<1> QED
  BY <1>1, FS_EmptySet DEF Counts

\* A step keeps the counts unless it announces more than n deliveries.
LEMMA StepCounts ==
  ASSUME IInv, NEW t \in Transfers, NEW n \in Nat, Counts(t, n), [Next]_vars, copies'[t] <= n
  PROVE  Counts(t, n)'
<1>1. IInv'
  BY StepKeeps
<1>2. CASE \/ \E i \in PaymentIds, p \in Purchases : CreatePayment(i, p) \/ InitiateStkPush(i, p)
           \/ \E i \in PaymentIds : PushStep(i)
           \/ \E c \in Checkouts : CustomerAnswers(c)
           \/ \E i \in PaymentIds, status \in PaymentStatus, ref \in Texts \cup {Null} :
                UpdateStatus(i, status, ref)
           \/ UNCHANGED vars
  BY <1>1, <1>2, OtherStepsSpend, SpentKeeps
<1>3. CASE \E u \in Transfers : \E ref \in Texts \cup {u} : PayByPaybill(u, ref)
  BY <1>1, <1>3, PaybillCounts
<1>4. CASE \E m \in Results : Deliver(m)
  BY <1>1, <1>4, DeliveryCounts
<1>5. CASE \E h \in Handlers : Resolve(h) \/ HandlerDies(h)
  BY <1>1, <1>5, ResolveCounts, DeathSpends, SpentKeeps
<1> QED
  BY <1>2, <1>3, <1>4, <1>5 DEF Next

\* However the deliveries of a confirmation interleave with each other, with
\* new payments and with what staff record, it credits at most one payment per
\* delivery.
THEOREM CreditBound ==
  ASSUME NEW t \in Transfers, NEW n \in Nat
  PROVE  Spec => ([](copies[t] <= n) => [](Cardinality(CreditedTo(t)) <= n))
<1>1. Init => Counts(t, n)
  BY InitCounts
<1>2. IInv /\ Counts(t, n) /\ [Next]_vars /\ (copies[t] <= n)' => Counts(t, n)'
  BY StepCounts
<1>3. IInv /\ Counts(t, n) => Cardinality(CreditedTo(t)) <= n
  BY CountTypes DEF Counts
<1> QED
  BY <1>1, <1>2, <1>3, Invariance, PTL DEF Spec

\* A set of at most one element.
LEMMA AtMostOne ==
  ASSUME IInv, NEW t \in Transfers, Counts(t, 1)
  PROVE  \A i, j \in CreditedTo(t) : i = j
<1> SUFFICES ASSUME NEW i \in CreditedTo(t), NEW j \in CreditedTo(t), i # j
             PROVE  FALSE
  OBVIOUS
<1>1. /\ IsFiniteSet(CreditedTo(t)) /\ Cardinality(CreditedTo(t)) \in Nat
      /\ Cardinality(CreditedTo(t)) <= 1
  BY CountTypes DEF Counts
<1>2. IsFiniteSet({i}) /\ Cardinality({i}) = 1
  BY FS_Singleton
<1>3. Cardinality({i} \cup {j}) = Cardinality({i}) + 1 /\ j \notin {i}
  BY <1>2, FS_AddElement
<1>4. {i} \cup {j} \in SUBSET CreditedTo(t)
  OBVIOUS
<1>5. Cardinality({i} \cup {j}) <= Cardinality(CreditedTo(t))
  BY <1>1, <1>4, FS_Subset
<1> QED
  BY <1>1, <1>2, <1>3, <1>5

\* A confirmation that is never repeated credits one payment: the repetition
\* is what ConfirmationCreditsOnce fails on, whatever else interleaves.
THEOREM CreditOnceUnrepeated == Spec => UnrepeatedCreditsOnce
<1>1. ASSUME NEW t \in Transfers
      PROVE  Spec => ([](copies[t] <= 1) => [](\A i, j \in CreditedTo(t) : i = j))
  <2>1. Init => Counts(t, 1)
    BY InitCounts
  <2>2. IInv /\ Counts(t, 1) /\ [Next]_vars /\ (copies[t] <= 1)' => Counts(t, 1)'
    BY StepCounts
  <2>3. IInv /\ Counts(t, 1) => \A i, j \in CreditedTo(t) : i = j
    BY AtMostOne
  <2> QED
    BY <2>1, <2>2, <2>3, Invariance, PTL DEF Spec
<1> QED
  BY <1>1 DEF UnrepeatedCreditsOnce
=============================================================================
