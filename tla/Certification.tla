--------------------------- MODULE Certification ---------------------------
(***************************************************************************)
(* Certificates of paid purchases: the internal certificate that every     *)
(* trigger completes (webhook, staff retry, background worker), and the    *)
(* official one that PurchaseCertificationService then asks NTSA or the    *)
(* insurer for, which an insurer delivers by callback.                     *)
(*                                                                         *)
(* Nothing here runs in a transaction that spans a read and the write that *)
(* depends on it: usp_Purchase_CompleteCert is two autocommitted           *)
(* statements, usp_UnderwriterCert_CreateRequest checks before it starts   *)
(* its transaction, and the calls to the gateway separate everything else. *)
(* Each of these steps is an action.                                       *)
(***************************************************************************)
EXTENDS Naturals, FiniteSets

CONSTANTS
  Purchases,   \* purchase_id, the order in which the worker takes them
  RequestIds,  \* AUTO_INCREMENT values of UnderwriterCertificateRequests
  Certs,       \* certificate numbers of NTSA and the insurers
  Sessions,    \* HTTP requests in progress: webhooks, retries, callbacks
  Worker,      \* PurchaseCertCompletionWorker
  Route,       \* per purchase, who may issue: the integrations its underwriter's
               \* name matches under the configurations it lives through
  PolicyNumbers, \* ours, each represented by its purchase, and the insurers' own
  Quoted,      \* per purchase, the policy numbers an insurer may call it by
  Null,        \* SQL NULL
  Echoes,      \* integrations whose answers may carry our reference
  MaxSetbacks  \* bound: payments that fail after all, policies cancelled,
               \* requests or polls that die half way

Routes == {"DMVIC", "DIRECTLINE", "DEFINITE", "AMACO"}

ASSUME NumbersAssumption ==
  Purchases \subseteq Nat /\ RequestIds \subseteq Nat /\ Certs \subseteq Nat /\ MaxSetbacks \in Nat
ASSUME RouteAssumption == Route \in [Purchases -> SUBSET Routes] /\ Echoes \subseteq Routes
ASSUME QuotedAssumption ==
  Purchases \subseteq PolicyNumbers /\ Quoted \in [Purchases -> SUBSET PolicyNumbers]
ASSUME DistinctAssumption ==
  Worker \notin Sessions /\ Null \notin Purchases \cup PolicyNumbers \cup RequestIds \cup Certs

VARIABLES
  paid,        \* purchases whose payment_status is PAID
  active,      \* purchases whose status is ACTIVE
  confirmed,   \* purchases with a SUCCESS payment in AuditLog
  certStatus,  \* Purchases.certificate_status
  official,    \* Purchases.ntsa_certificate_no
  request,     \* rows of UnderwriterCertificateRequests
  todo,        \* the worker's list, what is left of it
  job,         \* per trigger or callback handler, where it is
  reached,     \* insurer: requests that reached it
  minted,      \* NTSA and insurers: the purchase each certificate is for
  callbacks,   \* insurer: answers sent, any of which may arrive again
  setbacks

purchaseVars == <<paid, active, confirmed>>
outside == <<reached, minted, callbacks>>
vars == <<paid, active, confirmed, certStatus, official, request, todo, job,
          reached, minted, callbacks, setbacks>>

Triggers == Sessions \cup {Worker}
OpenStatus == {"PENDING", "POSTED", "AWAITING_CALLBACK", "ISSUED"}
\* The row number stands for external_ref as well, which is as unique.
Request == [purchase : Purchases \cup {Null}, integration : Routes \cup {Null},
            status : OpenStatus \cup {"FAILED"}, policyNo : PolicyNumbers \cup {Null}]
Job == [pc : {"idle", "complete", "issue", "check open", "open", "post", "posted",
              "mint", "save", "refused", "save callback", "mark"},
        purchase : Purchases \cup {Null}, integration : Routes \cup {Null},
        request : RequestIds \cup {Null}, cert : Certs \cup {Null},
        policy : PolicyNumbers \cup {Null}, accepted : BOOLEAN]
\* request: the one the answer is about; ref: what the answer says of it.
Callback == [request : RequestIds, ref : RequestIds \cup {Null},
             policy : PolicyNumbers \cup {Null}, cert : Certs \cup {Null}]

NoRequest == [purchase |-> Null, integration |-> Null, status |-> "PENDING", policyNo |-> Null]
Idle == [pc |-> "idle", purchase |-> Null, integration |-> Null, request |-> Null,
         cert |-> Null, policy |-> Null, accepted |-> FALSE]

Init ==
  /\ paid = {}
  /\ active = Purchases
  /\ confirmed = {}
  /\ certStatus = [p \in Purchases |-> "NOT_GENERATED"]
  /\ official = [p \in Purchases |-> Null]
  /\ request = [r \in RequestIds |-> NoRequest]
  /\ todo = {}
  /\ job = [t \in Triggers |-> Idle]
  /\ reached = {}
  /\ minted = [c \in Certs |-> Null]
  /\ callbacks = {}
  /\ setbacks = 0

RequestsOf(p) == {r \in RequestIds : request[r].purchase = p}

IsLeast(x, S) == x \in S /\ \A y \in S : x <= y
NextRequest(r) == IsLeast(r, RequestsOf(Null))
NextCert(c) == IsLeast(c, {d \in Certs : minted[d] = Null})

----------------------------------------------------------------------------
(* The rest of the system: payments resolve, staff change the policy *)

\* A payment of the purchase succeeds or fails, in any order (see Payments).
PaymentSucceeds(p) ==
  /\ paid' = paid \cup {p}
  /\ confirmed' = confirmed \cup {p}
  /\ UNCHANGED <<active, certStatus, official, request, todo, job, outside, setbacks>>

PaymentFails(p) ==
  /\ p \in paid
  /\ setbacks < MaxSetbacks
  /\ setbacks' = setbacks + 1
  /\ paid' = paid \ {p}
  /\ UNCHANGED <<active, confirmed, certStatus, official, request, todo, job, outside>>

\* usp_Purchase_UpdateStatus: to EXPIRED or CANCELLED, which nothing here tells
\* apart, or back to ACTIVE.
UpdateStatus(p, isActive) ==
  /\ isActive # (p \in active)
  /\ isActive \/ setbacks < MaxSetbacks
  /\ setbacks' = IF isActive THEN setbacks ELSE setbacks + 1
  /\ active' = IF isActive THEN active \cup {p} ELSE active \ {p}
  /\ UNCHANGED <<paid, confirmed, certStatus, official, request, todo, job, outside>>

----------------------------------------------------------------------------
(* CompleteAndIssueAsync: the internal certificate *)

\* usp_Purchase_FindPendingCertCompletion
Pending == {p \in paid \cap active : certStatus[p] = "NOT_GENERATED"}

Poll ==
  /\ job[Worker].pc = "idle"
  /\ todo = {}
  /\ Pending # {}
  /\ todo' = Pending
  /\ UNCHANGED <<purchaseVars, certStatus, official, request, job, outside, setbacks>>

\* Mutant: the payment is not looked at.
CompletableUnpaid(p) == certStatus[p] # "GENERATED"

Completable(p) == p \in paid /\ certStatus[p] # "GENERATED"

\* Mutant: a purchase that is refused stays at the head of the worker's list.
TakesUntilDone(t, p) == IF t = Worker THEN IsLeast(p, todo) /\ Completable(p) ELSE TRUE

\* The worker takes its list in order; a session is asked for any purchase.
Takes(t, p) == IF t = Worker THEN IsLeast(p, todo) ELSE TRUE

\* Mutant: the official certificate is asked for whether or not the internal
\* one was completed.
BeginCompleteOfficialAnyway(t, p) ==
  /\ job[t].pc = "idle"
  /\ Takes(t, p)
  /\ todo' = IF t = Worker THEN todo \ {p} ELSE todo
  /\ job' = [job EXCEPT ![t] =
       [Idle EXCEPT !.pc = IF Completable(p) THEN "complete" ELSE "issue", !.purchase = p]]
  /\ UNCHANGED <<purchaseVars, certStatus, official, request, outside, setbacks>>

\* The SELECT of usp_Purchase_CompleteCert, and its refusals.
BeginComplete(t, p) ==
  /\ job[t].pc = "idle"
  /\ Takes(t, p)
  /\ todo' = IF t = Worker THEN todo \ {p} ELSE todo
  /\ job' = IF Completable(p)
            THEN [job EXCEPT ![t] = [Idle EXCEPT !.pc = "complete", !.purchase = p]]
            ELSE job
  /\ UNCHANGED <<purchaseVars, certStatus, official, request, outside, setbacks>>

\* Its UPDATE, which tests nothing.
Complete(t) ==
  /\ job[t].pc = "complete"
  /\ certStatus' = [certStatus EXCEPT ![job[t].purchase] = "GENERATED"]
  /\ job' = [job EXCEPT ![t].pc = "issue"]
  /\ UNCHANGED <<purchaseVars, official, request, todo, outside, setbacks>>

----------------------------------------------------------------------------
(* IssueForPurchaseAsync: the official certificate *)

\* Reads the purchase: an official certificate is already there.
AlreadyIssued(t) ==
  /\ job[t].pc = "issue"
  /\ official[job[t].purchase] # Null
  /\ job' = [job EXCEPT ![t] = Idle]
  /\ UNCHANGED <<purchaseVars, certStatus, official, request, todo, outside, setbacks>>

\* No vehicle, class without a mapping, cover refused by a pre-check, a reference
\* (made of the time) that another row has, ...
NotIssuable(t) ==
  /\ job[t].pc = "issue"
  /\ job' = [job EXCEPT ![t] = Idle]
  /\ UNCHANGED <<purchaseVars, certStatus, official, request, todo, outside, setbacks>>

ChooseRoute(t) ==
  /\ job[t].pc = "issue"
  /\ official[job[t].purchase] = Null
  /\ \E i \in Route[job[t].purchase] :
       job' = IF i = "DMVIC" THEN [job EXCEPT ![t].pc = "mint"]
              ELSE [job EXCEPT ![t].pc = "check open", ![t].integration = i]
  /\ UNCHANGED <<purchaseVars, certStatus, official, request, todo, outside, setbacks>>

\* usp_UnderwriterCert_CreateRequest, its second EXISTS.  The first, like the
\* service's own test before it, looks for an official certificate, which is
\* never taken away again, so one test (in ChooseRoute) stands for both.
CheckOpen(t) ==
  /\ job[t].pc = "check open"
  /\ job' = IF \E r \in RequestsOf(job[t].purchase) :
                  request[r].integration = job[t].integration /\ request[r].status \in OpenStatus
            THEN [job EXCEPT ![t] = Idle]
            ELSE [job EXCEPT ![t].pc = "open"]
  /\ UNCHANGED <<purchaseVars, certStatus, official, request, todo, outside, setbacks>>

\* Its INSERT.  DirectLine is then posted to; the others are only waited for.
OpenRequest(t, r) ==
  LET posts == job[t].integration = "DIRECTLINE"
  IN /\ job[t].pc = "open"
     /\ NextRequest(r)
     /\ request' = [request EXCEPT ![r] =
          [NoRequest EXCEPT !.purchase = job[t].purchase, !.integration = job[t].integration,
                            !.status = IF posts THEN "PENDING" ELSE "AWAITING_CALLBACK"]]
     /\ job' = [job EXCEPT ![t] = IF posts THEN [@ EXCEPT !.pc = "post", !.request = r]
                                           ELSE Idle]
     /\ UNCHANGED <<purchaseVars, certStatus, official, todo, outside, setbacks>>

\* The gateway call: an accepted request reached the insurer, a refused one did
\* not, and one whose answer was lost may have.
Post(t) ==
  /\ job[t].pc = "post"
  /\ \E accepted, arrived \in BOOLEAN :
       /\ accepted => arrived
       /\ job' = [job EXCEPT ![t].pc = "posted", ![t].accepted = accepted]
       /\ reached' = IF arrived THEN reached \cup {job[t].request} ELSE reached
  /\ UNCHANGED <<purchaseVars, certStatus, official, request, todo, minted, callbacks, setbacks>>

\* Mutant: a status the table does not list.
RecordPostRejected(t) ==
  /\ job[t].pc = "posted"
  /\ request' = [request EXCEPT ![job[t].request].status =
                    IF job[t].accepted THEN "POSTED" ELSE "REJECTED"]
  /\ job' = [job EXCEPT ![t] = Idle]
  /\ UNCHANGED <<purchaseVars, certStatus, official, todo, outside, setbacks>>

\* usp_UnderwriterCert_UpdateRequest, whatever the status has become meanwhile.
RecordPost(t) ==
  /\ job[t].pc = "posted"
  /\ request' = [request EXCEPT ![job[t].request].status =
                    IF job[t].accepted THEN "POSTED" ELSE "FAILED"]
  /\ job' = [job EXCEPT ![t] = Idle]
  /\ UNCHANGED <<purchaseVars, certStatus, official, todo, outside, setbacks>>

\* NTSA makes no certificate, or one whose number may be lost on the way back.
Mint(t, c) ==
  /\ job[t].pc = "mint"
  /\ c # Null => NextCert(c)
  /\ minted' = IF c = Null THEN minted ELSE [minted EXCEPT ![c] = job[t].purchase]
  /\ \E answered \in BOOLEAN :
       job' = IF answered /\ c # Null
              THEN [job EXCEPT ![t].pc = "save", ![t].cert = c]
              ELSE [job EXCEPT ![t] = Idle]
  /\ UNCHANGED <<purchaseVars, certStatus, official, request, todo, reached, callbacks, setbacks>>

\* usp_Purchase_SaveDmvicResult refuses the number the purchase already has,
\* and writes any other over it.
Save(t) ==
  /\ job[t].pc = "save"
  /\ official' = [official EXCEPT ![job[t].purchase] = job[t].cert]
  /\ job' = [job EXCEPT ![t] = Idle]
  /\ UNCHANGED <<purchaseVars, certStatus, request, todo, outside, setbacks>>

----------------------------------------------------------------------------
(* The insurer, and CompleteFromCallbackAsync *)

\* The insurer answers a request it got (DirectLine) or issues on its own
\* (Definite, AMACO), once: with a certificate or with a failure.  It echoes our
\* reference or does not (AMACO does not), and names a policy or does not.
InsurerAnswers(r, c) ==
  LET p == request[r].purchase
  IN /\ p # Null
     /\ request[r].integration = "DIRECTLINE" => r \in reached
     /\ \A n \in callbacks : n.request # r
     /\ c # Null => NextCert(c)
     /\ minted' = IF c = Null THEN minted ELSE [minted EXCEPT ![c] = p]
     /\ \E ref \in {r, Null} : \E policy \in Quoted[p] \cup {Null} :
          /\ ref # Null => request[r].integration \in Echoes
          /\ callbacks' = callbacks \cup
               {[request |-> r, ref |-> ref, policy |-> policy, cert |-> c]}
     /\ UNCHANGED <<purchaseVars, certStatus, official, request, todo, job, reached, setbacks>>

\* Mutant: an answer without a policy number goes to a request without one.
NamedByNothing(m) ==
  {r \in RequestIds : /\ request[r].integration = request[m.request].integration
                      /\ m.policy \in {request[r].purchase, request[r].policyNo}}

\* The requests an answer's policy number stands for: our number of the purchase,
\* or the one that an earlier answer left in the request.
Named(m) ==
  {r \in RequestIds : /\ m.policy # Null
                      /\ request[r].integration = request[m.request].integration
                      /\ m.policy \in {request[r].purchase, request[r].policyNo}}

\* usp_UnderwriterCert_FindForCallback: by our reference, or else the newest
\* request of the policy number, if there is one.
Finds(m, r) ==
  IF m.ref # Null THEN r = m.ref ELSE r \in Named(m) /\ \A q \in Named(m) : q <= r

\* Mutant: the request is marked without the certificate having been saved.
BeginCallbackMarksFirst(s, m, r) ==
  /\ job[s].pc = "idle"
  /\ Finds(m, r)
  /\ job' = [job EXCEPT ![s] =
       [Idle EXCEPT !.pc = IF m.cert = Null THEN "refused" ELSE "mark",
                    !.purchase = request[r].purchase, !.request = r,
                    !.cert = m.cert, !.policy = m.policy]]
  /\ UNCHANGED <<purchaseVars, certStatus, official, request, todo, outside, setbacks>>

\* An answer that is not matched is only logged.
BeginCallback(s, m, r) ==
  /\ job[s].pc = "idle"
  /\ Finds(m, r)
  /\ job' = [job EXCEPT ![s] =
       [Idle EXCEPT !.pc = IF m.cert = Null THEN "refused" ELSE "save callback",
                    !.purchase = request[r].purchase, !.request = r,
                    !.cert = m.cert, !.policy = m.policy]]
  /\ UNCHANGED <<purchaseVars, certStatus, official, request, todo, outside, setbacks>>

RecordRefusal(s) ==
  /\ job[s].pc = "refused"
  /\ request' = [request EXCEPT ![job[s].request].status = "FAILED"]
  /\ job' = [job EXCEPT ![s] = Idle]
  /\ UNCHANGED <<purchaseVars, certStatus, official, todo, outside, setbacks>>

\* usp_Purchase_SaveDmvicResult refuses nothing but the number that is already
\* there, and the handler goes on all the same.
SaveCallback(s) ==
  /\ job[s].pc = "save callback"
  /\ official' = [official EXCEPT ![job[s].purchase] = job[s].cert]
  /\ job' = [job EXCEPT ![s].pc = "mark"]
  /\ UNCHANGED <<purchaseVars, certStatus, request, todo, outside, setbacks>>

MarkIssued(s) ==
  /\ job[s].pc = "mark"
  /\ request' = [request EXCEPT
       ![job[s].request].status = "ISSUED",
       ![job[s].request].policyNo = IF job[s].policy = Null THEN @ ELSE job[s].policy]
  /\ job' = [job EXCEPT ![s] = Idle]
  /\ UNCHANGED <<purchaseVars, certStatus, official, todo, outside, setbacks>>

----------------------------------------------------------------------------

\* An exception, a dropped connection or a restart of the server.  A callback
\* is answered 200 all the same, and a poll loses the rest of its list.
Die(t) ==
  /\ setbacks < MaxSetbacks
  /\ job[t].pc # "idle"
  /\ setbacks' = setbacks + 1
  /\ job' = [job EXCEPT ![t] = Idle]
  /\ todo' = IF t = Worker THEN {} ELSE todo
  /\ UNCHANGED <<purchaseVars, certStatus, official, request, outside>>

Trigger(t) ==
  \/ \E p \in Purchases : BeginComplete(t, p)
  \/ Complete(t)
  \/ AlreadyIssued(t) \/ NotIssuable(t) \/ ChooseRoute(t)
  \/ CheckOpen(t)
  \/ \E r \in RequestIds : OpenRequest(t, r)
  \/ Post(t) \/ RecordPost(t)
  \/ \E c \in Certs \cup {Null} : Mint(t, c)
  \/ Save(t)

WorkerStep == Poll \/ Trigger(Worker)

Answer(s) ==
  \/ \E m \in callbacks : \E r \in RequestIds : BeginCallback(s, m, r)
  \/ RecordRefusal(s) \/ SaveCallback(s) \/ MarkIssued(s)

Next ==
  \/ \E p \in Purchases : PaymentSucceeds(p) \/ PaymentFails(p)
  \/ \E p \in Purchases : \E isActive \in BOOLEAN : UpdateStatus(p, isActive)
  \/ WorkerStep
  \/ \E s \in Sessions : Trigger(s) \/ Answer(s)
  \/ \E r \in RequestIds : \E c \in Certs \cup {Null} : InsurerAnswers(r, c)
  \/ \E t \in Triggers : Die(t)

Spec == Init /\ [][Next]_vars

\* The worker is a hosted service that polls again after every interval, and
\* whose every call returns or throws; nothing else is owed a step.
FairSpec == Spec /\ WF_vars(WorkerStep)

----------------------------------------------------------------------------
(* Properties *)

TypeOK ==
  /\ paid \subseteq Purchases /\ active \subseteq Purchases
  /\ confirmed \subseteq Purchases
  /\ certStatus \in [Purchases -> {"NOT_GENERATED", "GENERATED"}]
  /\ official \in [Purchases -> Certs \cup {Null}]
  /\ request \in [RequestIds -> Request]
  /\ todo \subseteq Purchases
  /\ job \in [Triggers -> Job]
  /\ reached \subseteq RequestIds
  /\ minted \in [Certs -> Purchases \cup {Null}]
  /\ callbacks \subseteq Callback
  /\ setbacks \in 0 .. MaxSetbacks

\* A certificate exists only for a purchase whose money was once confirmed,
\* although the payment may fail between the SELECT and the UPDATE of
\* usp_Purchase_CompleteCert, and the worker's list may be old.
CertifiedWasPaid ==
  \A p \in Purchases : certStatus[p] = "GENERATED" => p \in confirmed

\* Nobody outside is asked for a certificate, and none is recorded, before the
\* purchase has the internal certificate that CompleteAndIssueAsync falls back on.
InternalComesFirst ==
  \A p \in Purchases :
    RequestsOf(p) # {} \/ official[p] # Null => certStatus[p] = "GENERATED"

\* A request marked ISSUED stands for a certificate its purchase really shows:
\* CompleteFromCallbackAsync marks it last, whatever overtook it meanwhile.
IssuedIsRecorded ==
  \A r \in RequestIds :
    request[r].purchase # Null /\ request[r].status = "ISSUED"
      => official[request[r].purchase] # Null

\* No insurer calls two purchases it may be asked for by one number, or one by
\* our number of another.
NumbersAgree ==
  \A p, q \in Purchases :
    p # q /\ (Route[p] \cap Route[q]) \ {"DMVIC"} # {} => Quoted[p] \cap (Quoted[q] \cup {q}) = {}

\* The certificate on a purchase was made for that purchase, whatever mixture of
\* references and policy numbers the answers were matched by: as long as the
\* insurers' numbers tell purchases apart.
OfficialIsGenuine ==
  NumbersAgree => \A p \in Purchases : official[p] # Null => minted[official[p]] = p

\* Whatever trigger died, was refused or never came, a paid and active policy
\* gets its certificate from the worker unless it stops being paid or active.
PaidGetsCertified ==
  \A p \in Purchases : p \in Pending ~> p \notin Pending

\* What the comment above usp_UnderwriterCert_CreateRequest says: the three
\* triggers never post the same purchase twice.
NeverDoublePosted ==
  \A p \in Purchases : \A r, q \in RequestsOf(p) :
    request[r].status \in OpenStatus /\ request[q].status \in OpenStatus => r = q
============================================================================
