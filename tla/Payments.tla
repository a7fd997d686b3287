------------------------------ MODULE Payments ------------------------------
(***************************************************************************)
(* Payment resolution: the Payments table, the payment_status column of    *)
(* Purchases, the M-Pesa gateway that moves the customer's money, and the  *)
(* callback requests that turn what the gateway says into rows.            *)
(*                                                                         *)
(* A stored procedure is one action when no other session can be observed  *)
(* between its reads and its transaction.  The two webhook resolvers read  *)
(* the payment's status BEFORE their transaction starts, so they are two   *)
(* actions, BeginResolve and Resolve.                                      *)
(*                                                                         *)
(* References: a purchase stands for its account_number, a checkout for    *)
(* its CheckoutRequestID and for the M-Pesa receipt of the money it moved, *)
(* a transfer for the TransID of a Paybill payment.  transaction_reference *)
(* is free text: whoever creates a payment or sets its status may write    *)
(* there the account of any purchase, or a receipt.                        *)
(***************************************************************************)
EXTENDS Naturals, FiniteSets

CONSTANTS
  Purchases,    \* rows of Purchases (usp_Purchase_Create leaves them PENDING)
  PaymentIds,   \* AUTO_INCREMENT values of Payments.payment_id
  Checkouts,    \* STK prompts the gateway can create
  Transfers,    \* Paybill payments customers can make
  Texts,        \* what people write as a reference: accounts, receipts
  Handlers,     \* callback requests the API serves at the same time
  Null,         \* SQL NULL
  MaxAttempts,  \* MpesaStkPushService.MaxAttempts
  MaxCopies,    \* bound: deliveries of one gateway result
  MaxDecisions  \* bound: status decisions of staff

ASSUME PaymentIdsAssumption == PaymentIds \subseteq Nat
ASSUME BoundsAssumption ==
  MaxAttempts \in Nat \ {0} /\ MaxCopies \in Nat \ {0} /\ MaxDecisions \in Nat
ASSUME DistinctAssumption ==
  /\ Purchases \cap (Checkouts \cup Transfers) = {}
  /\ Checkouts \cap Transfers = {}
  /\ Null \notin Purchases \cup Checkouts \cup Transfers \cup PaymentIds
ASSUME TextsAssumption == Texts \subseteq Purchases \cup Checkouts \cup Transfers

VARIABLES
  payStatus,  \* Purchases.payment_status
  payments,   \* rows of Payments
  audit,      \* AuditLog entries for STATUS_CHANGE of a payment
  push,       \* per payment, the stk-push request serving it, if one does
  prompt,     \* gateway: the prompt on the customer's phone
  paybill,    \* gateway: the reference a Paybill payment quoted
  copies,     \* gateway: deliveries of a result still to come
  handler,    \* callback requests in progress
  carried     \* history: every transaction_reference a payment has carried

vars == <<payStatus, payments, audit, push, prompt, paybill, copies, handler, carried>>

Results == Checkouts \cup Transfers
Terminal == {"SUCCESS", "FAILED"}
PaymentStatus == {"PENDING"} \cup Terminal
References == Purchases \cup Results

Row == [purchase : Purchases \cup {Null}, status : PaymentStatus,
        txRef : References \cup {Null}, gwRef : Checkouts \cup {Null}]
AuditEntry == [payment : PaymentIds, status : PaymentStatus,
               actor : {"USER", "GATEWAY_WEBHOOK"}, result : Results \cup {Null}]
Push == [pc : {"none", "pushing", "accepted"},
         attempt : 1 .. MaxAttempts, checkout : Checkouts \cup {Null}]
Prompt == [payment : PaymentIds \cup {Null}, answer : {"open", "paid", "declined"}]
Handler == [pc : {"idle", "resolve"},
            result : Results \cup {Null}, payment : PaymentIds \cup {Null}]

NoRow == [purchase |-> Null, status |-> "PENDING", txRef |-> Null, gwRef |-> Null]
NoPush == [pc |-> "none", attempt |-> 1, checkout |-> Null]
NoPrompt == [payment |-> Null, answer |-> "open"]
Idle == [pc |-> "idle", result |-> Null, payment |-> Null]

Init ==
  /\ payStatus = [p \in Purchases |-> "PENDING"]
  /\ payments = [i \in PaymentIds |-> NoRow]
  /\ audit = {}
  /\ push = [i \in PaymentIds |-> NoPush]
  /\ prompt = [c \in Checkouts |-> NoPrompt]
  /\ paybill = [t \in Transfers |-> Null]
  /\ copies = [m \in Results |-> 0]
  /\ handler = [h \in Handlers |-> Idle]
  /\ carried = [i \in PaymentIds |-> {}]

Issued == {i \in PaymentIds : payments[i].purchase # Null}

\* The STATUS_CHANGE entry each of the three procedures inserts; the webhooks'
\* entry names the result that was delivered.
Record(i, status, actor, m) ==
  audit' = audit \cup {[payment |-> i, status |-> status, actor |-> actor, result |-> m]}

\* The history variable follows payments[i].txRef; no guard reads it.
Carry(i) == carried' = [carried EXCEPT ![i] = @ \cup ({payments'[i].txRef} \ {Null})]

----------------------------------------------------------------------------
(* Creating payments *)

\* usp_Payment_Create: the next AUTO_INCREMENT row, PENDING whatever the
\* state of the purchase is.
InsertPayment(i, p, ref) ==
  /\ Issued = {j \in PaymentIds : j < i}
  /\ payments' = [payments EXCEPT
       ![i] = [purchase |-> p, status |-> "PENDING", txRef |-> ref, gwRef |-> Null]]
  /\ Carry(i)

\* POST /api/payments: the caller's reference is stored unchecked.
CreatePayment(i, p) ==
  /\ \E ref \in Texts \cup {Null} : InsertPayment(i, p, ref)
  /\ UNCHANGED <<payStatus, audit, push, prompt, paybill, copies, handler>>

\* POST /api/payments/stk-push: the row first, with no transaction reference,
\* then the push.
InitiateStkPush(i, p) ==
  /\ InsertPayment(i, p, Null)
  /\ push' = [push EXCEPT ![i].pc = "pushing"]
  /\ UNCHANGED <<payStatus, audit, prompt, paybill, copies, handler>>

----------------------------------------------------------------------------
(* The STK push, its attempts and the reference it stores *)

\* The gateway puts prompt c on the phone of the customer paying i.
NewPrompt(i, c) ==
  /\ prompt[c].payment = Null
  /\ prompt' = [prompt EXCEPT ![c].payment = i]

\* Mutant: the attempts run to MaxAttempts + 1.
RetryPushOffByOne(i) ==
  push' = IF push[i].attempt <= MaxAttempts
          THEN [push EXCEPT ![i].attempt = @ + 1]
          ELSE [push EXCEPT ![i] = NoPush]

\* An attempt with no usable answer is retried under a fresh reference until
\* the attempts are used up and the request ends; the payment stays PENDING.
RetryPush(i) ==
  push' = IF push[i].attempt < MaxAttempts
          THEN [push EXCEPT ![i].attempt = @ + 1]
          ELSE [push EXCEPT ![i] = NoPush]

PushAccepted(i, c) ==
  /\ push[i].pc = "pushing"
  /\ NewPrompt(i, c)
  /\ push' = [push EXCEPT ![i].pc = "accepted", ![i].checkout = c]
  /\ UNCHANGED <<payStatus, payments, audit, paybill, copies, handler, carried>>

\* The prompt went out, the answer did not come back (null, or error_code 99).
PushAnswerLost(i, c) ==
  /\ push[i].pc = "pushing"
  /\ NewPrompt(i, c)
  /\ RetryPush(i)
  /\ UNCHANGED <<payStatus, payments, audit, paybill, copies, handler, carried>>

PushUnanswered(i) ==
  /\ push[i].pc = "pushing"
  /\ RetryPush(i)
  /\ UNCHANGED <<payStatus, payments, audit, prompt, paybill, copies, handler, carried>>

PushRejected(i) ==
  /\ push[i].pc = "pushing"
  /\ push' = [push EXCEPT ![i] = NoPush]
  /\ UNCHANGED <<payStatus, payments, audit, prompt, paybill, copies, handler, carried>>

\* usp_Payment_SetGatewayReference, after the push was accepted.
StoreReference(i) ==
  /\ push[i].pc = "accepted"
  /\ payments' = [payments EXCEPT ![i].gwRef = push[i].checkout]
  /\ push' = [push EXCEPT ![i] = NoPush]
  /\ UNCHANGED <<payStatus, audit, prompt, paybill, copies, handler, carried>>

\* Storing it is best-effort: a failure or a crash only loses the link.
LoseReference(i) ==
  /\ push[i].pc = "accepted"
  /\ push' = [push EXCEPT ![i] = NoPush]
  /\ UNCHANGED <<payStatus, payments, audit, prompt, paybill, copies, handler, carried>>

----------------------------------------------------------------------------
(* The customer and the gateway *)

\* The result of a prompt or of a transfer is delivered at least once, and
\* again when the gateway thinks its callback was not answered.
Announce(m) == \E n \in 1 .. MaxCopies : copies' = [copies EXCEPT ![m] = n]

\* The customer enters the PIN, or cancels, or lets the prompt time out.
CustomerAnswers(c) ==
  /\ prompt[c].payment # Null
  /\ prompt[c].answer = "open"
  /\ \E a \in {"paid", "declined"} : prompt' = [prompt EXCEPT ![c].answer = a]
  /\ Announce(c)
  /\ UNCHANGED <<payStatus, payments, audit, push, paybill, handler, carried>>

\* The customer pays by Paybill and types a reference; with none, the
\* confirmation is looked up by its own TransID.
PayByPaybill(t, ref) ==
  /\ paybill[t] = Null
  /\ paybill' = [paybill EXCEPT ![t] = ref]
  /\ Announce(t)
  /\ UNCHANGED <<payStatus, payments, audit, push, prompt, handler, carried>>

----------------------------------------------------------------------------
(* MpesaCallbackController and the two resolvers *)

\* Mutant: both lookups use transaction_reference.
MatchesByTransaction(m) ==
  {i \in Issued : payments[i].txRef = IF m \in Checkouts THEN m ELSE paybill[m]}

\* StkCallback looks a payment up by gateway_reference, Confirmation by
\* transaction_reference.
Matches(m) ==
  {i \in Issued : IF m \in Checkouts THEN payments[i].gwRef = m
                                     ELSE payments[i].txRef = paybill[m]}

Newest(I) == CHOOSE i \in I : \A j \in I : j <= i

\* Mutant: ResultCode is not looked at.
OutcomeAlwaysSuccess(m) == "SUCCESS"

Outcome(m) ==
  IF m \in Checkouts /\ prompt[m].answer = "declined" THEN "FAILED" ELSE "SUCCESS"

\* COALESCE(receipt, transaction_reference): a failed prompt has no receipt.
NewReference(m, old) == IF Outcome(m) = "SUCCESS" THEN m ELSE old

\* Mutant: every other status puts the purchase back to PENDING.
PurchaseStatusReset(status, old) ==
  CASE status = "SUCCESS" -> "PAID"
    [] status = "FAILED" -> "FAILED"
    [] OTHER -> "PENDING"

PurchaseStatus(status, old) ==
  CASE status = "SUCCESS" -> "PAID"
    [] status = "FAILED" -> "FAILED"
    [] OTHER -> old

\* The payment the resolver's SELECT finds still unresolved, if any.
Unresolved(m) ==
  {i \in Matches(m) : i = Newest(Matches(m)) /\ payments[i].status \notin Terminal}

\* No payment carries the reference, or the newest that does is terminal: the
\* callback is answered 200 and not delivered again.
IgnoreCallback(m) ==
  /\ copies[m] > 0
  /\ Unresolved(m) = {}
  /\ copies' = [copies EXCEPT ![m] = @ - 1]
  /\ UNCHANGED <<payStatus, payments, audit, push, prompt, paybill, handler, carried>>

BeginResolve(h, m) ==
  /\ handler[h].pc = "idle"
  /\ copies[m] > 0
  /\ \E i \in Unresolved(m) :
       handler' = [handler EXCEPT
         ![h] = [pc |-> "resolve", result |-> m, payment |-> i]]
  /\ copies' = [copies EXCEPT ![m] = @ - 1]
  /\ UNCHANGED <<payStatus, payments, audit, push, prompt, paybill, carried>>

\* Mutant: the row is picked by the reference again, as the SELECT did.
ResolveByReference(h) ==
  LET m == handler[h].result
      p == payments[handler[h].payment].purchase
      status == Outcome(m)
  IN  /\ handler[h].pc = "resolve"
      /\ payments' = [i \in PaymentIds |->
           IF i \in Matches(m)
           THEN [payments[i] EXCEPT !.status = status, !.txRef = NewReference(m, @)]
           ELSE payments[i]]
      /\ carried' = [i \in PaymentIds |-> carried[i] \cup ({payments'[i].txRef} \ {Null})]
      /\ payStatus' = [payStatus EXCEPT ![p] = PurchaseStatus(status, @)]
      /\ audit' = audit \cup {[payment |-> i, status |-> status, actor |-> "GATEWAY_WEBHOOK",
                               result |-> m] : i \in Matches(m)}
      /\ handler' = [handler EXCEPT ![h] = Idle]
      /\ UNCHANGED <<push, prompt, paybill, copies>>

\* The resolver's transaction, which does not look at the status again.  The
\* certificate completed after a SUCCESS belongs to module Certification.
Resolve(h) ==
  LET m == handler[h].result
      i == handler[h].payment
      p == payments[i].purchase
      status == Outcome(m)
  IN  /\ handler[h].pc = "resolve"
      /\ payments' = [payments EXCEPT
           ![i].status = status, ![i].txRef = NewReference(m, @)]
      /\ Carry(i)
      /\ payStatus' = [payStatus EXCEPT ![p] = PurchaseStatus(status, @)]
      /\ Record(i, status, "GATEWAY_WEBHOOK", m)
      /\ handler' = [handler EXCEPT ![h] = Idle]
      /\ UNCHANGED <<push, prompt, paybill, copies>>

\* The transaction fails (exit handler: ROLLBACK, RESIGNAL) or the process
\* dies: the gateway sees no 200 and delivers another copy.
HandlerDies(h) ==
  /\ handler[h].pc = "resolve"
  /\ copies[handler[h].result] > 0
  /\ handler' = [handler EXCEPT ![h] = Idle]
  /\ UNCHANGED <<payStatus, payments, audit, push, prompt, paybill, copies, carried>>

----------------------------------------------------------------------------
(* PUT /api/payments/{id}/status *)

\* Staff, or a channel account, set any status on any payment and may write
\* any reference on it.
UpdateStatus(i, status, ref) ==
  LET p == payments[i].purchase
  IN  /\ i \in Issued
      /\ Cardinality({e \in audit : e.actor = "USER"}) < MaxDecisions
      /\ payments' = [payments EXCEPT
           ![i].status = status, ![i].txRef = IF ref = Null THEN @ ELSE ref]
      /\ payStatus' = [payStatus EXCEPT ![p] = PurchaseStatus(status, @)]
      /\ Carry(i)
      /\ Record(i, status, "USER", Null)
      /\ UNCHANGED <<push, prompt, paybill, copies, handler>>

----------------------------------------------------------------------------

PushStep(i) ==
  \/ \E c \in Checkouts : PushAccepted(i, c) \/ PushAnswerLost(i, c)
  \/ PushUnanswered(i)
  \/ PushRejected(i)
  \/ StoreReference(i)
  \/ LoseReference(i)

Deliver(m) == IgnoreCallback(m) \/ \E h \in Handlers : BeginResolve(h, m)

Next ==
  \/ \E i \in PaymentIds, p \in Purchases : CreatePayment(i, p) \/ InitiateStkPush(i, p)
  \/ \E i \in PaymentIds : PushStep(i)
  \/ \E c \in Checkouts : CustomerAnswers(c)
  \/ \E t \in Transfers : \E ref \in Texts \cup {t} : PayByPaybill(t, ref)
  \/ \E m \in Results : Deliver(m)
  \/ \E h \in Handlers : Resolve(h) \/ HandlerDies(h)
  \/ \E i \in PaymentIds, status \in PaymentStatus, ref \in Texts \cup {Null} :
       UpdateStatus(i, status, ref)

Spec == Init /\ [][Next]_vars

\* The gateway keeps delivering a result it has announced and a request that
\* runs goes on; nothing makes a customer, a member of staff or the gateway's
\* answer to a push move.
Fairness ==
  /\ \A m \in Results : WF_vars(Deliver(m))
  /\ \A h \in Handlers : WF_vars(Resolve(h))

FairSpec == Spec /\ Fairness

----------------------------------------------------------------------------
(* Properties *)

\* The shape of the rows and of the requests in progress.
TypeOK ==
  /\ payStatus \in [Purchases -> {"PENDING", "PAID", "FAILED"}]
  /\ payments \in [PaymentIds -> Row]
  /\ audit \subseteq AuditEntry
  /\ push \in [PaymentIds -> Push]
  /\ prompt \in [Checkouts -> Prompt]
  /\ paybill \in [Transfers -> References \cup {Null}]
  /\ copies \in [Results -> 0 .. MaxCopies]
  /\ handler \in [Handlers -> Handler]
  /\ carried \in [PaymentIds -> SUBSET References]

\* What was recorded of payment i, and by whom.
StaffSaid(i, status) == \E e \in audit :
  e.payment = i /\ e.status = status /\ e.actor = "USER"
WebhookSaid(i, status) == \E e \in audit :
  e.payment = i /\ e.status = status /\ e.actor = "GATEWAY_WEBHOOK"

\* Result m is good for `status' of payment i: the customer's answer to a
\* prompt made for i, or a transfer that quotes a reference i has carried.
Warrants(m, i, status) ==
  IF m \in Checkouts
  THEN prompt[m] =
         [payment |-> i, answer |-> IF status = "SUCCESS" THEN "paid" ELSE "declined"]
  ELSE status = "SUCCESS" /\ paybill[m] \in carried[i]

\* A webhook credits a payment only with a prompt of its own that was paid or
\* with a transfer whose reference was written on it, and fails one only for a
\* prompt of its own that was declined, whatever the order and number of
\* callbacks, the references stored, changed or lost, and the payments created
\* in between.
WebhooksAreTrue ==
  \A e \in audit : e.actor = "GATEWAY_WEBHOOK" => Warrants(e.result, e.payment, e.status)

\* A payment is terminal only because a webhook or a member of staff said so.
StatusIsAudited ==
  \A i \in Issued : payments[i].status \in Terminal =>
    \/ StaffSaid(i, payments[i].status)
    \/ WebhookSaid(i, payments[i].status)

\* What there is to say `status' of payment i, whether or not it was said.
Ground(i, status) ==
  StaffSaid(i, status) \/ \E m \in Results : Warrants(m, i, status)

\* The grounds there are for a purchase's payment_status.
Grounds(p) ==
  LET Has(status) == \E i \in Issued : payments[i].purchase = p /\ Ground(i, status)
  IN  {v \in {"PAID"} : Has("SUCCESS")} \cup {v \in {"FAILED"} : Has("FAILED")}

\* payment_status moves only to a value it has grounds for and never returns
\* to PENDING: the Payments table implements Settlement.
S == INSTANCE Settlement WITH grounds <- [p \in Purchases |-> Grounds(p)]
ImplementsSettlement == S!Spec

\* A result announced for a payment whose CheckoutRequestID is stored settles
\* that payment, although callbacks are lost, repeated and interleaved.
CallbackSettles ==
  \A i \in PaymentIds, c \in Checkouts :
    (payments[i].gwRef = c /\ copies[c] > 0) ~> payments[i].status \in Terminal

\* The payments the resolver has credited with Paybill payment t.
CreditedTo(t) == {e.payment : e \in {x \in audit : x.result = t}}

\* "Idempotent resolver": the confirmation of one Paybill payment, repeated,
\* credits one payment.
ConfirmationCreditsOnce ==
  \A t \in Transfers : \A i, j \in CreditedTo(t) : i = j

\* A confirmation that is not repeated credits one payment at most, whatever
\* request dies and whatever is written on the payments meanwhile, the same
\* receipt included: repetition is all that ConfirmationCreditsOnce fails on.
UnrepeatedCreditsOnce ==
  \A t \in Transfers :
    [](copies[t] <= 1) => [](\A i, j \in CreditedTo(t) : i = j)
=============================================================================
