-------------------------- MODULE CertificationProofs --------------------------
(***************************************************************************)
(* Proofs about Certification for every set of purchases, every number of  *)
(* triggers and callbacks in progress, every way underwriters are routed.  *)
(*                                                                         *)
(* What a trigger or a callback checked may be out of date when it acts.   *)
(* The invariant says what is left of it: money once confirmed stays in    *)
(* the audit log, a generated certificate stays generated, a request never *)
(* changes its purchase, and a certificate never loses its number.         *)
(***************************************************************************)
EXTENDS Certification, TLAPS

\* Where a job is past the SELECT of usp_Purchase_CompleteCert.
Issuing == {"issue", "check open", "open", "post", "posted", "mint", "save"}
\* Where it works on a request, and where it holds a certificate.
HasRequest == {"post", "posted", "refused", "save callback", "mark"}
HasCert == {"save", "save callback"}
\* Where it has been told what the insurer calls the policy.
HasPolicy == {"save callback", "mark"}

\* An integration that is asked by opening a request.
Insurers(p) == Route[p] \ {"DMVIC"}

\* What a job may rely on, however long ago it looked.
JobKnows(t) ==
  /\ job[t].pc # "idle" => job[t].purchase \in Purchases
  /\ job[t].pc = "complete" => job[t].purchase \in confirmed
  /\ job[t].pc \in Issuing => certStatus[job[t].purchase] = "GENERATED"
  /\ job[t].pc \in HasRequest =>
       /\ job[t].request \in RequestIds
       /\ request[job[t].request].purchase = job[t].purchase
  /\ job[t].pc \in HasCert =>
       /\ job[t].cert \in Certs
       /\ job[t].pc = "save" \/ NumbersAgree => minted[job[t].cert] = job[t].purchase
  /\ job[t].pc \in {"check open", "open"} => job[t].integration \in Insurers(job[t].purchase)
  /\ job[t].pc \in HasPolicy /\ NumbersAgree =>
       job[t].policy \in Quoted[job[t].purchase] \cup {Null}
  /\ job[t].pc = "mark" => official[job[t].purchase] # Null

JobsKnow == \A t \in Triggers : JobKnows(t)

\* An answer in transit is about a row, its certificate and its policy number about
\* the purchase of that row.
CallbacksKnow ==
  \A m \in callbacks :
    /\ request[m.request].purchase \in Purchases
    /\ m.ref \in {m.request, Null}
    /\ m.policy \in Quoted[request[m.request].purchase] \cup {Null}
    /\ m.cert # Null => minted[m.cert] = request[m.request].purchase

\* A row belongs to an integration its purchase may be routed to, and if numbers
\* agree an answer left in it what its own purchase is called.
RowsKnow ==
  \A r \in RequestIds :
    IF request[r].purchase = Null THEN request[r].policyNo = Null
    ELSE /\ request[r].integration \in Insurers(request[r].purchase)
         /\ NumbersAgree => request[r].policyNo \in Quoted[request[r].purchase] \cup {Null}

PaidWasConfirmed == paid \subseteq confirmed

IInv ==
  /\ TypeOK
  /\ JobsKnow
  /\ CallbacksKnow
  /\ RowsKnow
  /\ PaidWasConfirmed
  /\ CertifiedWasPaid
  /\ InternalComesFirst
  /\ IssuedIsRecorded
  /\ OfficialIsGenuine

----------------------------------------------------------------------------
(* The invariant holds initially and every action preserves it *)

\* The initial state satisfies the invariant.
LEMMA InitIInv == Init => IInv
<1> SUFFICES ASSUME Init PROVE IInv
  OBVIOUS
<1>1. TypeOK
  BY NumbersAssumption DEF Init, TypeOK, Request, OpenStatus, Job, NoRequest, Idle
<1>2. JobsKnow
  BY DEF Init, JobsKnow, JobKnows, Idle, Issuing, HasRequest, HasCert, HasPolicy
<1>3. CallbacksKnow /\ RowsKnow /\ PaidWasConfirmed /\ CertifiedWasPaid
  BY DEF Init, NoRequest, CallbacksKnow, RowsKnow, PaidWasConfirmed, CertifiedWasPaid
<1>4. InternalComesFirst /\ IssuedIsRecorded /\ OfficialIsGenuine
  BY DistinctAssumption DEF Init, InternalComesFirst, IssuedIsRecorded, OfficialIsGenuine,
     RequestsOf, NoRequest
<1> QED
  BY <1>1, <1>2, <1>3, <1>4 DEF IInv

\* A job that ends has nothing left to rely on.
LEMMA IdleKnows ==
  ASSUME NEW t \in Triggers, job \in [Triggers -> Job], job' = [job EXCEPT ![t] = Idle]
  PROVE  JobKnows(t)'
  BY DEF JobKnows, Issuing, HasRequest, HasCert, HasPolicy, Idle

\* A payment that succeeds.
LEMMA PaymentSucceedsKeeps ==
  ASSUME IInv, NEW p \in Purchases, PaymentSucceeds(p)
  PROVE  IInv'
<1> USE DEF IInv
<1>1. TypeOK'
  BY DEF PaymentSucceeds, outside, TypeOK, Request, OpenStatus, Job, Callback
<1>2. JobsKnow'
  BY DEF PaymentSucceeds, outside, JobsKnow, JobKnows, Issuing, HasRequest,
     HasCert, HasPolicy
<1>3. PaidWasConfirmed'
  BY DEF PaymentSucceeds, outside, PaidWasConfirmed
<1>4. CertifiedWasPaid'
  BY DEF PaymentSucceeds, outside, CertifiedWasPaid
<1>5. CallbacksKnow' /\ RowsKnow' /\ InternalComesFirst' /\ IssuedIsRecorded' /\
     OfficialIsGenuine'
  BY DEF PaymentSucceeds, outside, CallbacksKnow, RowsKnow, InternalComesFirst,
     IssuedIsRecorded, OfficialIsGenuine, RequestsOf
<1> QED
  BY <1>1, <1>2, <1>3, <1>4, <1>5

\* A payment that fails, possibly after another succeeded.
LEMMA PaymentFailsKeeps ==
  ASSUME IInv, NEW p \in Purchases, PaymentFails(p)
  PROVE  IInv'
<1> USE DEF IInv
<1>1. TypeOK'
  BY NumbersAssumption DEF PaymentFails, outside, TypeOK
<1>2. PaidWasConfirmed'
  BY DEF PaymentFails, outside, PaidWasConfirmed
<1>3. JobsKnow' /\ CallbacksKnow' /\ RowsKnow' /\ CertifiedWasPaid' /\ InternalComesFirst'
     /\ IssuedIsRecorded' /\ OfficialIsGenuine'
  BY DEF PaymentFails, outside, JobsKnow, CallbacksKnow, RowsKnow, CertifiedWasPaid,
     InternalComesFirst, IssuedIsRecorded, OfficialIsGenuine, RequestsOf,
     JobKnows, Issuing, HasRequest, HasCert, HasPolicy
<1> QED
  BY <1>1, <1>2, <1>3

\* A policy cancelled, expired or reactivated.
LEMMA UpdateStatusKeeps ==
  ASSUME IInv, NEW p \in Purchases, NEW isActive \in BOOLEAN, UpdateStatus(p,
         isActive)
  PROVE  IInv'
<1> USE DEF IInv
<1>1. TypeOK'
  BY NumbersAssumption DEF UpdateStatus, outside, TypeOK
<1>2. JobsKnow' /\ CallbacksKnow' /\ RowsKnow' /\ PaidWasConfirmed' /\ CertifiedWasPaid' /\
     InternalComesFirst' /\ IssuedIsRecorded' /\ OfficialIsGenuine'
  BY DEF UpdateStatus, outside, JobsKnow, CallbacksKnow, RowsKnow, PaidWasConfirmed,
     CertifiedWasPaid, InternalComesFirst, IssuedIsRecorded,
     OfficialIsGenuine, RequestsOf, JobKnows, Issuing, HasRequest, HasCert, HasPolicy
<1> QED
  BY <1>1, <1>2

\* A poll of the worker.
LEMMA PollKeeps ==
  ASSUME IInv, Poll
  PROVE  IInv'
<1> USE DEF IInv
<1>1. TypeOK'
  BY DEF Poll, Pending, purchaseVars, outside, TypeOK, Request, OpenStatus,
     Job, Callback
<1>2. JobsKnow' /\ CallbacksKnow' /\ RowsKnow' /\ PaidWasConfirmed' /\ CertifiedWasPaid' /\
     InternalComesFirst' /\ IssuedIsRecorded' /\ OfficialIsGenuine'
  BY DEF Poll, purchaseVars, outside, JobsKnow, CallbacksKnow, RowsKnow,
     PaidWasConfirmed, CertifiedWasPaid, InternalComesFirst, IssuedIsRecorded,
     OfficialIsGenuine, RequestsOf, JobKnows, Issuing, HasRequest, HasCert, HasPolicy
<1> QED
  BY <1>1, <1>2

\* The SELECT of the completion.
LEMMA BeginCompleteKeeps ==
  ASSUME IInv, NEW t \in Triggers, NEW p \in Purchases, BeginComplete(t, p)
  PROVE  IInv'
<1> USE DEF IInv
<1>1. TypeOK'
  BY DEF BeginComplete, Completable, Takes, Idle, purchaseVars, outside,
     TypeOK, Request, OpenStatus, Job, Callback
<1>2. JobsKnow'
  BY ZenonT(60), DistinctAssumption, NumbersAssumption DEF BeginComplete, Completable,
     Takes, Idle, purchaseVars, outside, JobsKnow, JobKnows, Issuing,
     HasRequest, HasCert, HasPolicy, TypeOK, CallbacksKnow, RowsKnow, PaidWasConfirmed,
     CertifiedWasPaid, InternalComesFirst, IssuedIsRecorded,
     OfficialIsGenuine, RequestsOf, Request, OpenStatus, Job, Callback
<1>3. CallbacksKnow' /\ RowsKnow' /\ PaidWasConfirmed' /\ CertifiedWasPaid' /\
     InternalComesFirst' /\ IssuedIsRecorded' /\ OfficialIsGenuine'
  BY DEF BeginComplete, purchaseVars, outside, CallbacksKnow, RowsKnow,
     PaidWasConfirmed, CertifiedWasPaid, InternalComesFirst, IssuedIsRecorded,
     OfficialIsGenuine, RequestsOf
<1> QED
  BY <1>1, <1>2, <1>3

\* The UPDATE of the completion.
LEMMA CompleteKeeps ==
  ASSUME IInv, NEW t \in Triggers, Complete(t)
  PROVE  IInv'
<1> USE DEF IInv
<1>1. TypeOK'
  BY ZenonT(60) DEF Complete, purchaseVars, outside, TypeOK, Request, OpenStatus, Job,
     Callback
<1>2. JobsKnow'
  <2>1. UNCHANGED <<confirmed, request, minted, official>>
    BY DEF Complete, purchaseVars, outside
  <2>2. \A p \in Purchases : certStatus[p] = "GENERATED" => certStatus'[p] = "GENERATED"
    BY DEF Complete, TypeOK
  <2>3. ASSUME NEW u \in Triggers \ {t} PROVE JobKnows(u)'
    <3>1. job'[u] = job[u] /\ JobKnows(u)
      BY DEF Complete, TypeOK, JobsKnow, Triggers
    <3>2. job[u] \in Job
      BY DEF TypeOK
    <3> QED
      BY <3>1, <3>2, <2>1, <2>2, DistinctAssumption DEF JobKnows, Issuing, HasRequest,
         HasCert, HasPolicy, Job
  <2>4. JobKnows(t)'
    <3>1. JobKnows(t) /\ job[t].pc = "complete" /\ job[t] \in Job
      BY DEF Complete, JobsKnow, TypeOK
    <3>2. job'[t].pc = "issue" /\ job'[t].purchase = job[t].purchase
      BY <3>1 DEF Complete, TypeOK, Job
    <3>3. certStatus'[job[t].purchase] = "GENERATED" /\ job[t].purchase \in Purchases
      BY <3>1 DEF Complete, TypeOK, JobKnows
    <3> QED
      BY <3>2, <3>3 DEF JobKnows, Issuing, HasRequest, HasCert, HasPolicy
  <2> QED
    BY <2>3, <2>4 DEF JobsKnow
<1>3. CertifiedWasPaid'
  BY DistinctAssumption DEF Complete, purchaseVars, outside, CertifiedWasPaid,
     TypeOK, JobsKnow, JobKnows, Issuing, HasRequest, HasCert, HasPolicy
<1>4. InternalComesFirst'
  BY DEF Complete, purchaseVars, outside, InternalComesFirst, RequestsOf
<1>5. CallbacksKnow' /\ RowsKnow' /\ PaidWasConfirmed' /\ IssuedIsRecorded' /\
     OfficialIsGenuine'
  BY DEF Complete, purchaseVars, outside, CallbacksKnow, RowsKnow, PaidWasConfirmed,
     IssuedIsRecorded, OfficialIsGenuine
<1> QED
  BY <1>1, <1>2, <1>3, <1>4, <1>5

\* A purchase that has its official certificate.
LEMMA AlreadyIssuedKeeps ==
  ASSUME IInv, NEW t \in Triggers, AlreadyIssued(t)
  PROVE  IInv'
<1> USE DEF IInv
<1>1. TypeOK'
  BY DEF AlreadyIssued, Idle, purchaseVars, outside, TypeOK, Request,
     OpenStatus, Job, Callback
<1>2. JobsKnow'
  BY DEF AlreadyIssued, Idle, purchaseVars, outside, JobsKnow, JobKnows,
     Issuing, HasRequest, HasCert, HasPolicy, TypeOK
<1>3. CallbacksKnow' /\ RowsKnow' /\ PaidWasConfirmed' /\ CertifiedWasPaid' /\
     InternalComesFirst' /\ IssuedIsRecorded' /\ OfficialIsGenuine'
  BY DEF AlreadyIssued, purchaseVars, outside, CallbacksKnow, RowsKnow,
     PaidWasConfirmed, CertifiedWasPaid, InternalComesFirst, IssuedIsRecorded,
     OfficialIsGenuine, RequestsOf
<1> QED
  BY <1>1, <1>2, <1>3

\* A purchase nobody can certify.
LEMMA NotIssuableKeeps ==
  ASSUME IInv, NEW t \in Triggers, NotIssuable(t)
  PROVE  IInv'
<1> USE DEF IInv
<1>1. TypeOK'
  BY DEF NotIssuable, Idle, purchaseVars, outside, TypeOK, Request,
     OpenStatus, Job, Callback
<1>2. JobsKnow'
  BY DEF NotIssuable, Idle, purchaseVars, outside, JobsKnow, JobKnows,
     Issuing, HasRequest, HasCert, HasPolicy, TypeOK
<1>3. CallbacksKnow' /\ RowsKnow' /\ PaidWasConfirmed' /\ CertifiedWasPaid' /\
     InternalComesFirst' /\ IssuedIsRecorded' /\ OfficialIsGenuine'
  BY DEF NotIssuable, purchaseVars, outside, CallbacksKnow, RowsKnow, PaidWasConfirmed,
     CertifiedWasPaid, InternalComesFirst, IssuedIsRecorded,
     OfficialIsGenuine, RequestsOf
<1> QED
  BY <1>1, <1>2, <1>3

\* The choice of the integration.
LEMMA ChooseRouteKeeps ==
  ASSUME IInv, NEW t \in Triggers, ChooseRoute(t)
  PROVE  IInv'
<1> USE DEF IInv
<1>j. job[t] \in Job /\ JobKnows(t) /\ job[t].pc = "issue" /\ job[t].purchase \in Purchases
  BY DEF TypeOK, JobsKnow, JobKnows, ChooseRoute
<1>u. UNCHANGED <<confirmed, certStatus, request, minted, official>>
  BY DEF ChooseRoute, purchaseVars, outside
<1>i. PICK i \in Route[job[t].purchase] :
         job' = IF i = "DMVIC" THEN [job EXCEPT ![t].pc = "mint"]
                ELSE [job EXCEPT ![t].pc = "check open", ![t].integration = i]
  BY DEF ChooseRoute
<1>r. i \in Routes
  BY <1>j, RouteAssumption
<1>n. \/ job'[t] = [job[t] EXCEPT !.pc = "mint"]
      \/ i # "DMVIC" /\ job'[t] = [job[t] EXCEPT !.pc = "check open", !.integration = i]
  BY <1>i DEF TypeOK
<1>o. \A u \in Triggers : u # t => job'[u] = job[u]
  BY <1>i DEF TypeOK
<1>1. TypeOK'
  <2>1. /\ [job[t] EXCEPT !.pc = "mint"] \in Job
        /\ [job[t] EXCEPT !.pc = "check open", !.integration = i] \in Job
    BY <1>j, <1>r DEF Job
  <2>2. job' \in [Triggers -> Job]
    BY <2>1, <1>i DEF TypeOK
  <2> QED
    BY <2>2 DEF ChooseRoute, purchaseVars, outside, TypeOK
<1>2. JobsKnow'
  <2>1. ASSUME NEW u \in Triggers \ {t} PROVE JobKnows(u)'
    <3>1. job'[u] = job[u] /\ JobKnows(u) /\ job[u] \in Job
      BY <1>o DEF TypeOK, JobsKnow
    <3> QED
      BY <3>1, <1>u DEF JobKnows
  <2>2. JobKnows(t)'
    <3>1. job'[t].purchase = job[t].purchase /\ job'[t].pc \in {"mint", "check open"}
      BY <1>n, <1>j DEF Job
    <3>2. job'[t].pc = "check open" => job'[t].integration \in Insurers(job[t].purchase)
      BY <1>n, <1>j DEF Job, Insurers
    <3>3. certStatus[job[t].purchase] = "GENERATED"
      BY <1>j DEF JobKnows, Issuing
    <3> QED
      BY <1>u, <1>j, <3>1, <3>2, <3>3 DEF JobKnows, Issuing, HasRequest, HasCert, HasPolicy
  <2> QED
    BY <2>1, <2>2 DEF JobsKnow
<1>3. CallbacksKnow' /\ RowsKnow' /\ PaidWasConfirmed' /\ CertifiedWasPaid' /\
     InternalComesFirst' /\ IssuedIsRecorded' /\ OfficialIsGenuine'
  BY DEF ChooseRoute, purchaseVars, outside, CallbacksKnow, RowsKnow, PaidWasConfirmed,
     CertifiedWasPaid, InternalComesFirst, IssuedIsRecorded,
     OfficialIsGenuine, RequestsOf
<1> QED
  BY <1>1, <1>2, <1>3

\* The test for an open request.
LEMMA CheckOpenKeeps ==
  ASSUME IInv, NEW t \in Triggers, CheckOpen(t)
  PROVE  IInv'
<1> USE DEF IInv
<1>1. TypeOK'
  BY ZenonT(60) DEF CheckOpen, Idle, purchaseVars, outside, TypeOK, Request, OpenStatus,
     Job, Callback
<1>2. JobsKnow'
  <2>1. UNCHANGED <<confirmed, certStatus, request, minted, official>>
    BY DEF CheckOpen, purchaseVars, outside
  <2>2. ASSUME NEW u \in Triggers \ {t} PROVE JobKnows(u)'
    <3>1. job'[u] = job[u] /\ JobKnows(u)
      BY DEF CheckOpen, TypeOK, JobsKnow, Triggers
    <3>2. job[u] \in Job
      BY DEF TypeOK
    <3> QED
      BY <3>1, <2>1 DEF JobKnows
  <2>3. JobKnows(t)'
    <3>1. JobKnows(t) /\ job[t].pc = "check open" /\ job[t] \in Job
      BY DEF CheckOpen, JobsKnow, TypeOK
    <3>2. CASE job' = [job EXCEPT ![t] = Idle]
      BY <3>2, IdleKnows DEF TypeOK
    <3>3. CASE job' = [job EXCEPT ![t].pc = "open"]
      <4>1. /\ job'[t].pc = "open" /\ job'[t].purchase = job[t].purchase
            /\ job'[t].integration = job[t].integration
        BY <3>1, <3>3 DEF TypeOK, Job
      <4> QED
        BY <2>1, <3>1, <4>1 DEF JobKnows, Issuing, HasRequest, HasCert, HasPolicy
    <3> QED
      BY <3>2, <3>3 DEF CheckOpen
  <2> QED
    BY <2>2, <2>3 DEF JobsKnow
<1>3. CallbacksKnow' /\ RowsKnow' /\ PaidWasConfirmed' /\ CertifiedWasPaid' /\
     InternalComesFirst' /\ IssuedIsRecorded' /\ OfficialIsGenuine'
  BY DEF CheckOpen, purchaseVars, outside, CallbacksKnow, RowsKnow, PaidWasConfirmed,
     CertifiedWasPaid, InternalComesFirst, IssuedIsRecorded,
     OfficialIsGenuine, RequestsOf
<1> QED
  BY <1>1, <1>2, <1>3

\* A request that is opened.
LEMMA OpenRequestKeeps ==
  ASSUME IInv, NEW t \in Triggers, NEW r \in RequestIds, OpenRequest(t, r)
  PROVE  IInv'
<1> USE DEF IInv
<1>j. /\ job[t] \in Job /\ job[t].purchase \in Purchases /\ job[t].purchase # Null
      /\ job[t].pc = "open" /\ job[t].integration \in Insurers(job[t].purchase)
  BY DistinctAssumption DEF OpenRequest, TypeOK, JobsKnow, JobKnows
<1>r. /\ request'[r].purchase = job[t].purchase
      /\ request'[r].integration = job[t].integration
      /\ request'[r].status \in {"PENDING", "AWAITING_CALLBACK"}
      /\ request'[r].policyNo = Null
      /\ request[r].purchase = Null
      /\ \A q \in RequestIds : q # r => request'[q] = request[q]
  BY DEF OpenRequest, NextRequest, IsLeast, RequestsOf, NoRequest, TypeOK
<1>q. \A q \in RequestIds :
        request[q].purchase \in Purchases => request'[q] = request[q]
  BY <1>r, DistinctAssumption
<1>1. TypeOK'
  <2>1. job[t] \in Job /\ job[t].purchase \in Purchases
    BY DEF OpenRequest, TypeOK, JobsKnow, JobKnows
  <2>2. Idle \in Job /\ [job[t] EXCEPT !.pc = "post", !.request = r] \in Job
    BY <2>1 DEF Job, Idle
  <2>3. job' \in [Triggers -> Job]
    BY <2>2 DEF OpenRequest, TypeOK
  <2>4. request' \in [RequestIds -> Request]
    <3>1. job[t].integration \in Routes
      BY <1>j, RouteAssumption DEF Insurers
    <3>2. [NoRequest EXCEPT !.purchase = job[t].purchase, !.integration = job[t].integration,
             !.status = IF job[t].integration = "DIRECTLINE" THEN "PENDING"
                        ELSE "AWAITING_CALLBACK"] \in Request
      BY <2>1, <3>1 DEF NoRequest, Request, OpenStatus
    <3> QED
      BY <3>2 DEF OpenRequest, TypeOK
  <2> QED
    BY <2>3, <2>4 DEF OpenRequest, purchaseVars, outside, TypeOK
<1>2. JobsKnow'
  <2>1. UNCHANGED <<confirmed, certStatus, minted, official>>
    BY DEF OpenRequest, purchaseVars, outside
  <2>2. \A q \in RequestIds :
          request[q].purchase \in Purchases => request'[q].purchase = request[q].purchase
    BY <1>q
  <2>3. ASSUME NEW u \in Triggers \ {t} PROVE JobKnows(u)'
    <3>1. job'[u] = job[u] /\ JobKnows(u)
      BY DEF OpenRequest, TypeOK, JobsKnow, Triggers
    <3>2. job[u] \in Job
      BY DEF TypeOK
    <3>3. job[u].pc \in HasRequest => request'[job[u].request].purchase = job[u].purchase
      BY <2>2, <3>1 DEF JobKnows, HasRequest
    <3> QED
      BY <3>1, <3>2, <3>3, <2>1, DistinctAssumption DEF JobKnows, Issuing, HasRequest,
         HasCert, HasPolicy, Job
  <2>4. JobKnows(t)'
    <3>1. JobKnows(t) /\ job[t].pc = "open" /\ job[t] \in Job
      BY DEF OpenRequest, JobsKnow, TypeOK
    <3>2. CASE job' = [job EXCEPT ![t] = Idle]
      BY <3>2, IdleKnows DEF TypeOK
    <3>3. CASE job' = [job EXCEPT ![t] = [@ EXCEPT !.pc = "post", !.request = r]]
      <4>1. job'[t].pc = "post" /\ job'[t].purchase = job[t].purchase /\ job'[t].request = r
        BY <3>1, <3>3 DEF TypeOK, Job
      <4>2. request'[r].purchase = job[t].purchase
        BY DEF OpenRequest, TypeOK
      <4> QED
        BY <2>1, <3>1, <4>1, <4>2 DEF JobKnows, Issuing, HasRequest, HasCert, HasPolicy
    <3> QED
      BY <3>2, <3>3 DEF OpenRequest
  <2> QED
    BY <2>3, <2>4 DEF JobsKnow
<1>3. CallbacksKnow' /\ RowsKnow'
  <2>1. UNCHANGED <<callbacks, minted>>
    BY DEF OpenRequest, outside
  <2>2. \A m \in callbacks : m.request \in RequestIds
    BY DEF TypeOK, Callback
  <2>3. CallbacksKnow'
    BY <1>q, <2>1, <2>2 DEF CallbacksKnow
  <2>4. RowsKnow'
    BY <1>j, <1>r DEF RowsKnow, Insurers
  <2> QED
    BY <2>3, <2>4
<1>4. InternalComesFirst'
  <2>1. UNCHANGED <<official, certStatus>> /\ certStatus[job[t].purchase] = "GENERATED"
    BY <1>j DEF OpenRequest, JobsKnow, JobKnows, Issuing
  <2>2. \A p \in Purchases : p # job[t].purchase => RequestsOf(p)' = RequestsOf(p)
    BY <1>r, DistinctAssumption DEF RequestsOf
  <2> QED
    BY <2>1, <2>2 DEF InternalComesFirst
<1>5. IssuedIsRecorded'
  BY DEF OpenRequest, NextRequest, IsLeast, RequestsOf, Idle, purchaseVars,
     outside, IssuedIsRecorded
<1>6. PaidWasConfirmed' /\ CertifiedWasPaid' /\ OfficialIsGenuine'
  BY DEF OpenRequest, purchaseVars, outside, PaidWasConfirmed,
     CertifiedWasPaid, OfficialIsGenuine
<1> QED
  BY <1>1, <1>2, <1>3, <1>4, <1>5, <1>6

\* A request that is posted.
LEMMA PostKeeps ==
  ASSUME IInv, NEW t \in Triggers, Post(t)
  PROVE  IInv'
<1> USE DEF IInv
<1>1. TypeOK'
  <2>1. job[t] \in Job /\ job[t].request \in RequestIds
    BY DEF Post, TypeOK, JobsKnow, JobKnows, HasRequest
  <2>2. \A accepted \in BOOLEAN : [job[t] EXCEPT !.pc = "posted", !.accepted = accepted] \in Job
    BY <2>1 DEF Job
  <2>3. job' \in [Triggers -> Job]
    BY <2>2 DEF Post, TypeOK
  <2>4. reached' \subseteq RequestIds
    BY <2>1 DEF Post, TypeOK
  <2> QED
    BY <2>3, <2>4 DEF Post, purchaseVars, TypeOK
<1>2. JobsKnow'
  <2>1. job[t] \in Job
    BY DEF TypeOK
  <2>2. UNCHANGED <<confirmed, certStatus, request, minted, official>>
    BY DEF Post, purchaseVars, outside
  <2>3. ASSUME NEW u \in Triggers \ {t} PROVE JobKnows(u)'
    <3>1. job'[u] = job[u] /\ JobKnows(u)
      BY DEF Post, TypeOK, JobsKnow, Triggers
    <3>2. job[u] \in Job
      BY DEF TypeOK
    <3> QED
      BY <3>1, <2>2 DEF JobKnows
  <2>4. JobKnows(t)'
    <3>1. \E accepted \in BOOLEAN :
             job'[t] = [job[t] EXCEPT !.pc = "posted", !.accepted = accepted]
      BY DEF Post, TypeOK, Triggers
    <3>2. JobKnows(t) /\ job[t].pc = "post"
      BY DEF JobsKnow, Triggers, Post
    <3> QED
      BY <3>1, <3>2, <2>1, <2>2, DistinctAssumption DEF JobKnows, Issuing, HasRequest,
         HasCert, HasPolicy, Idle, Job
  <2> QED
    BY <2>3, <2>4 DEF JobsKnow
<1>3. CallbacksKnow' /\ RowsKnow' /\ PaidWasConfirmed' /\ CertifiedWasPaid' /\
     InternalComesFirst' /\ IssuedIsRecorded' /\ OfficialIsGenuine'
  BY DEF Post, purchaseVars, CallbacksKnow, RowsKnow, PaidWasConfirmed,
     CertifiedWasPaid, InternalComesFirst, IssuedIsRecorded,
     OfficialIsGenuine, RequestsOf
<1> QED
  BY <1>1, <1>2, <1>3

\* The outcome of a post.
LEMMA RecordPostKeeps ==
  ASSUME IInv, NEW t \in Triggers, RecordPost(t)
  PROVE  IInv'
<1> USE DEF IInv
<1>1. TypeOK'
  <2>1. \A q \in RequestIds : /\ [request[q] EXCEPT !.status = "POSTED"] \in Request
                               /\ [request[q] EXCEPT !.status = "FAILED"] \in Request
    BY DEF TypeOK, Request, OpenStatus
  <2>2. request' \in [RequestIds -> Request]
    BY <2>1 DEF RecordPost, TypeOK
  <2>3. job' \in [Triggers -> Job]
    BY DEF RecordPost, TypeOK, Job, Idle
  <2> QED
    BY <2>2, <2>3 DEF RecordPost, purchaseVars, outside, TypeOK
<1>2. JobsKnow'
  <2>1. \A q \in RequestIds : request'[q].purchase = request[q].purchase
    BY DEF RecordPost, TypeOK, Request
  <2>2. UNCHANGED <<confirmed, certStatus, minted, official>>
    BY DEF RecordPost, purchaseVars, outside
  <2>3. ASSUME NEW u \in Triggers \ {t} PROVE JobKnows(u)'
    <3>1. job'[u] = job[u] /\ JobKnows(u)
      BY DEF RecordPost, TypeOK, JobsKnow, Triggers
    <3>2. job[u] \in Job
      BY DEF TypeOK
    <3> QED
      BY <3>1, <3>2, <2>1, <2>2, DistinctAssumption DEF JobKnows, Issuing, HasRequest,
         HasCert, HasPolicy, Job
  <2>4. JobKnows(t)'
    <3>1. job'[t] = Idle
      BY DEF RecordPost, TypeOK, Triggers
    <3>2. JobKnows(t) /\ job[t].pc = "posted"
      BY DEF JobsKnow, Triggers, RecordPost
    <3> QED
      BY <3>1, <3>2, <2>1, <2>2, DistinctAssumption DEF JobKnows, Issuing, HasRequest,
         HasCert, HasPolicy, Idle, Job
  <2> QED
    BY <2>3, <2>4 DEF JobsKnow
<1>3. RowsKnow'
  <2>1. \A q \in RequestIds :
           /\ request'[q].purchase = request[q].purchase
           /\ request'[q].integration = request[q].integration
           /\ request'[q].policyNo = request[q].policyNo
    BY DEF RecordPost, TypeOK, Request
  <2> QED
    BY <2>1 DEF RowsKnow
<1>7. CallbacksKnow'
  BY DEF RecordPost, Idle, purchaseVars, outside, CallbacksKnow
<1>4. InternalComesFirst'
  BY DEF RecordPost, Idle, purchaseVars, outside, InternalComesFirst,
     RequestsOf
<1>5. IssuedIsRecorded'
  BY DEF RecordPost, Idle, purchaseVars, outside, IssuedIsRecorded
<1>6. PaidWasConfirmed' /\ CertifiedWasPaid' /\ OfficialIsGenuine'
  BY DEF RecordPost, purchaseVars, outside, PaidWasConfirmed,
     CertifiedWasPaid, OfficialIsGenuine
<1> QED
  BY <1>1, <1>2, <1>3, <1>4, <1>5, <1>6, <1>7

\* A certificate of NTSA.
LEMMA MintKeeps ==
  ASSUME IInv, NEW t \in Triggers, NEW c \in Certs \cup {Null}, Mint(t, c)
  PROVE  IInv'
<1> USE DEF IInv
<1>1. TypeOK'
  <2>1. job[t] \in Job /\ job[t].purchase \in Purchases
    BY DEF Mint, TypeOK, JobsKnow, JobKnows
  <2>2. Idle \in Job /\ (c # Null => [job[t] EXCEPT !.pc = "save", !.cert = c] \in Job)
    BY <2>1 DEF Job, Idle
  <2>3. job' \in [Triggers -> Job]
    BY <2>2 DEF Mint, TypeOK
  <2>4. minted' \in [Certs -> Purchases \cup {Null}]
    BY <2>1 DEF Mint, TypeOK
  <2> QED
    BY <2>3, <2>4 DEF Mint, purchaseVars, TypeOK
<1>2. JobsKnow'
  <2>1. UNCHANGED <<confirmed, certStatus, request, official>>
    BY DEF Mint, purchaseVars, outside
  <2>2. \A d \in Certs : minted[d] \in Purchases => minted'[d] = minted[d]
    BY DistinctAssumption DEF Mint, TypeOK, NextCert, IsLeast
  <2>3. ASSUME NEW u \in Triggers \ {t} PROVE JobKnows(u)'
    <3>1. job'[u] = job[u] /\ JobKnows(u)
      BY DEF Mint, TypeOK, JobsKnow, Triggers
    <3>2. job[u] \in Job
      BY DEF TypeOK
    <3>3. job[u].pc \in HasCert /\ (job[u].pc = "save" \/ NumbersAgree) =>
             minted'[job[u].cert] = job[u].purchase
      BY <2>2, <3>1 DEF JobKnows, HasCert
    <3> QED
      BY <3>1, <3>2, <3>3, <2>1, DistinctAssumption DEF JobKnows, Issuing, HasRequest,
         HasCert, HasPolicy, Job
  <2>4. JobKnows(t)'
    <3>1. JobKnows(t) /\ job[t].pc = "mint" /\ job[t] \in Job
      BY DEF Mint, JobsKnow, TypeOK
    <3>2. CASE job' = [job EXCEPT ![t] = Idle]
      BY <3>2, IdleKnows DEF TypeOK
    <3>3. CASE c # Null /\ job' = [job EXCEPT ![t].pc = "save", ![t].cert = c]
      <4>1. job'[t].pc = "save" /\ job'[t].purchase = job[t].purchase /\ job'[t].cert = c
        BY <3>1, <3>3 DEF TypeOK, Job
      <4>2. c \in Certs /\ minted'[c] = job[t].purchase
        BY <3>3 DEF Mint, TypeOK
      <4> QED
        BY <2>1, <3>1, <4>1, <4>2 DEF JobKnows, Issuing, HasRequest, HasCert, HasPolicy
    <3> QED
      BY <3>2, <3>3 DEF Mint
  <2> QED
    BY <2>3, <2>4 DEF JobsKnow
<1>3. CallbacksKnow'
  <2>1. \A d \in Certs : minted[d] \in Purchases => minted'[d] = minted[d]
    BY DistinctAssumption DEF Mint, TypeOK, NextCert, IsLeast
  <2>2. \A m \in callbacks : m.cert \in Certs \cup {Null}
    BY DEF TypeOK, Callback
  <2> QED
    BY <2>1, <2>2 DEF Mint, CallbacksKnow
<1>4. OfficialIsGenuine'
  BY DistinctAssumption DEF Mint, NextCert, IsLeast, Idle, purchaseVars,
     OfficialIsGenuine, TypeOK, JobsKnow, JobKnows, Issuing, HasRequest,
     HasCert, HasPolicy
<1>5. RowsKnow' /\ PaidWasConfirmed' /\ CertifiedWasPaid' /\ InternalComesFirst' /\
     IssuedIsRecorded'
  BY DEF Mint, purchaseVars, RowsKnow, PaidWasConfirmed, CertifiedWasPaid,
     InternalComesFirst, IssuedIsRecorded, RequestsOf
<1> QED
  BY <1>1, <1>2, <1>3, <1>4, <1>5

\* The number of a certificate of NTSA that is saved.
LEMMA SaveKeeps ==
  ASSUME IInv, NEW t \in Triggers, Save(t)
  PROVE  IInv'
<1> USE DEF IInv
<1>1. TypeOK'
  BY DEF Save, Idle, purchaseVars, outside, TypeOK, Request, OpenStatus, Job,
     Callback
<1>2. JobsKnow'
  BY DistinctAssumption DEF Save, Idle, purchaseVars, outside, JobsKnow,
     JobKnows, Issuing, HasRequest, HasCert, HasPolicy, TypeOK
<1>3. InternalComesFirst'
  BY DistinctAssumption DEF Save, Idle, purchaseVars, outside,
     InternalComesFirst, RequestsOf, TypeOK, JobsKnow, JobKnows, Issuing,
     HasRequest, HasCert, HasPolicy
<1>4. IssuedIsRecorded'
  <2>1. \A p \in Purchases : official[p] # Null => official'[p] # Null
    BY DistinctAssumption DEF Save, TypeOK, JobsKnow, JobKnows, HasCert
  <2>2. \A q \in RequestIds : request[q].purchase \in Purchases \cup {Null}
    BY DEF TypeOK, Request
  <2> QED
    BY <2>1, <2>2 DEF Save, IssuedIsRecorded
<1>5. OfficialIsGenuine'
  BY DistinctAssumption DEF Save, Idle, purchaseVars, outside,
     OfficialIsGenuine, TypeOK, JobsKnow, JobKnows, Issuing, HasRequest,
     HasCert, HasPolicy
<1>6. CallbacksKnow' /\ RowsKnow' /\ PaidWasConfirmed' /\ CertifiedWasPaid'
  BY DEF Save, purchaseVars, outside, CallbacksKnow, RowsKnow, PaidWasConfirmed,
     CertifiedWasPaid
<1> QED
  BY <1>1, <1>2, <1>3, <1>4, <1>5, <1>6

\* An answer of an insurer.
LEMMA InsurerAnswersKeeps ==
  ASSUME IInv, NEW r \in RequestIds, NEW c \in Certs \cup {Null},
         InsurerAnswers(r, c)
  PROVE  IInv'
<1> USE DEF IInv
<1>1. TypeOK'
  <2>1. request[r].purchase \in Purchases
    BY DEF InsurerAnswers, TypeOK, Request
  <2>2. minted' \in [Certs -> Purchases \cup {Null}]
    BY <2>1 DEF InsurerAnswers, TypeOK
  <2>3. callbacks' \subseteq Callback
    <3>1. Quoted[request[r].purchase] \subseteq PolicyNumbers
      BY <2>1, QuotedAssumption
    <3> QED
      BY <3>1 DEF InsurerAnswers, TypeOK, Callback
  <2> QED
    BY <2>2, <2>3 DEF InsurerAnswers, purchaseVars, TypeOK
<1>2. JobsKnow'
  <2>1. \A d \in Certs : minted[d] \in Purchases => minted'[d] = minted[d]
    BY DistinctAssumption DEF InsurerAnswers, TypeOK, NextCert, IsLeast
  <2> QED
    BY <2>1 DEF InsurerAnswers, JobsKnow, JobKnows, Issuing, HasRequest, HasCert, HasPolicy,
       purchaseVars
<1>3. CallbacksKnow'
  <2>1. \A d \in Certs : minted[d] \in Purchases => minted'[d] = minted[d]
    BY DistinctAssumption DEF InsurerAnswers, TypeOK, NextCert, IsLeast
  <2>2. \A m \in callbacks : m.cert \in Certs \cup {Null}
    BY DEF TypeOK, Callback
  <2>3. request[r].purchase \in Purchases /\ (c # Null => minted'[c] = request[r].purchase)
    BY DEF InsurerAnswers, TypeOK, Request
  <2> QED
    BY <2>1, <2>2, <2>3 DEF InsurerAnswers, CallbacksKnow
<1>4. OfficialIsGenuine'
  BY DistinctAssumption DEF InsurerAnswers, NextCert, IsLeast, purchaseVars,
     OfficialIsGenuine, TypeOK, JobsKnow, JobKnows, Issuing, HasRequest,
     HasCert, HasPolicy
<1>5. RowsKnow' /\ PaidWasConfirmed' /\ CertifiedWasPaid' /\ InternalComesFirst' /\
     IssuedIsRecorded'
  BY DEF InsurerAnswers, purchaseVars, RowsKnow, PaidWasConfirmed, CertifiedWasPaid,
     InternalComesFirst, IssuedIsRecorded, RequestsOf
<1> QED
  BY <1>1, <1>2, <1>3, <1>4, <1>5

\* An answer finds a row that is in use, and if numbers agree one of the purchase
\* that it is about: by the policy number because no other purchase has a row of the
\* same insurer and goes by that number.
LEMMA Matching ==
  ASSUME IInv, NEW m \in callbacks, NEW r \in RequestIds, Finds(m, r)
  PROVE  /\ request[r].purchase \in Purchases
         /\ NumbersAgree => request[r].purchase = request[m.request].purchase
<1>1. /\ m.request \in RequestIds
      /\ request[m.request].purchase \in Purchases
      /\ m.ref \in {m.request, Null}
      /\ m.policy \in Quoted[request[m.request].purchase] \cup {Null}
  BY DEF IInv, TypeOK, Callback, CallbacksKnow
<1>2. request[r].purchase \in Purchases \cup {Null}
  BY DEF IInv, TypeOK, Request
<1>3. CASE m.ref # Null
  BY <1>1, <1>3 DEF Finds
<1>4. CASE m.ref = Null
  <2>1. r \in Named(m)
    BY <1>4 DEF Finds
  <2>2. /\ m.policy # Null
        /\ request[r].integration = request[m.request].integration
        /\ m.policy = request[r].purchase \/ m.policy = request[r].policyNo
    BY <2>1 DEF Named
  <2>3. request[r].purchase # Null
    BY <2>2 DEF IInv, RowsKnow
  <2>4. ASSUME NumbersAgree, request[r].purchase # request[m.request].purchase
        PROVE  FALSE
    <3> DEFINE p == request[m.request].purchase
               q == request[r].purchase
    <3>1. p \in Purchases /\ q \in Purchases /\ p # q /\ p # Null
      BY <1>1, <1>2, <2>3, <2>4, DistinctAssumption
    <3>2. request[r].integration \in Insurers(p) /\ request[r].integration \in Insurers(q)
      BY <1>1, <2>2, <2>3, <3>1 DEF IInv, RowsKnow
    <3>3. (Route[p] \cap Route[q]) \ {"DMVIC"} # {}
      BY <3>2 DEF Insurers
    <3>4. m.policy \in Quoted[p]
      BY <1>1, <2>2
    <3>5. m.policy \in Quoted[q] \cup {q}
      BY <2>2, <2>3, <2>4 DEF IInv, RowsKnow
    <3>6. Quoted[p] \cap (Quoted[q] \cup {q}) = {}
      BY <2>4, <3>1, <3>3 DEF NumbersAgree
    <3> QED
      BY <3>4, <3>5, <3>6
  <2> QED
    BY <1>2, <2>3, <2>4
<1> QED
  BY <1>3, <1>4

\* A callback that is matched.
LEMMA BeginCallbackKeeps ==
  ASSUME IInv, NEW s \in Sessions, NEW m \in callbacks, NEW r \in RequestIds,
         BeginCallback(s, m, r)
  PROVE  IInv'
<1> USE DEF IInv
<1>1. TypeOK'
  <2>1. m \in Callback /\ request[r] \in Request
    BY DEF TypeOK
  <2>2. [Idle EXCEPT !.pc = IF m.cert = Null THEN "refused" ELSE "save callback",
                     !.purchase = request[r].purchase, !.request = r,
                     !.cert = m.cert, !.policy = m.policy] \in Job
    BY <2>1 DEF Idle, Job, Request, Callback
  <2>3. job' \in [Triggers -> Job]
    BY <2>2 DEF BeginCallback, TypeOK
  <2> QED
    BY <2>3 DEF BeginCallback, purchaseVars, outside, TypeOK
<1>2. JobsKnow'
  <2>1. UNCHANGED <<confirmed, certStatus, request, minted, official>>
    BY DEF BeginCallback, purchaseVars, outside
  <2>2. /\ request[r].purchase \in Purchases
        /\ NumbersAgree => request[r].purchase = request[m.request].purchase
    BY Matching DEF BeginCallback
  <2>3. m.cert # Null =>
          m.cert \in Certs /\ (NumbersAgree => minted[m.cert] = request[r].purchase)
    BY <2>2 DEF CallbacksKnow, TypeOK, Callback
  <2>6. NumbersAgree => m.policy \in Quoted[request[r].purchase] \cup {Null}
    BY <2>2 DEF CallbacksKnow
  <2>4. ASSUME NEW u \in Triggers \ {s} PROVE JobKnows(u)'
    <3>1. job'[u] = job[u] /\ JobKnows(u)
      BY DEF BeginCallback, TypeOK, JobsKnow, Triggers
    <3>2. job[u] \in Job
      BY DEF TypeOK
    <3> QED
      BY <3>1, <3>2, <2>1, DistinctAssumption DEF JobKnows, Issuing, HasRequest, HasCert, HasPolicy,
         Job
  <2>5. JobKnows(s)'
    <3>1. /\ job'[s].pc = IF m.cert = Null THEN "refused" ELSE "save callback"
          /\ job'[s].purchase = request[r].purchase
          /\ job'[s].request = r
          /\ job'[s].cert = m.cert
          /\ job'[s].policy = m.policy
      BY DEF BeginCallback, TypeOK, Triggers, Idle
    <3> QED
      BY <2>1, <2>2, <2>3, <2>6, <3>1 DEF JobKnows, Issuing, HasRequest, HasCert, HasPolicy
  <2> QED
    BY <2>4, <2>5 DEF JobsKnow
<1>3. CallbacksKnow' /\ RowsKnow' /\ PaidWasConfirmed' /\ CertifiedWasPaid' /\
     InternalComesFirst' /\ IssuedIsRecorded' /\ OfficialIsGenuine'
  BY DEF BeginCallback, purchaseVars, outside, CallbacksKnow, RowsKnow,
     PaidWasConfirmed, CertifiedWasPaid, InternalComesFirst, IssuedIsRecorded,
     OfficialIsGenuine, RequestsOf
<1> QED
  BY <1>1, <1>2, <1>3

\* A refusal that is recorded.
LEMMA RecordRefusalKeeps ==
  ASSUME IInv, NEW s \in Sessions, RecordRefusal(s)
  PROVE  IInv'
<1> USE DEF IInv
<1>1. TypeOK'
  BY ZenonT(60) DEF RecordRefusal, Idle, purchaseVars, outside, TypeOK, Request,
     OpenStatus, Job, Callback, Triggers
<1>2. JobsKnow'
  <2>1. \A q \in RequestIds : request'[q].purchase = request[q].purchase
    BY DEF RecordRefusal, TypeOK, Request
  <2>2. UNCHANGED <<confirmed, certStatus, minted, official>>
    BY DEF RecordRefusal, purchaseVars, outside
  <2>3. ASSUME NEW u \in Triggers \ {s} PROVE JobKnows(u)'
    <3>1. job'[u] = job[u] /\ JobKnows(u)
      BY DEF RecordRefusal, TypeOK, JobsKnow, Triggers
    <3>2. job[u] \in Job
      BY DEF TypeOK
    <3> QED
      BY <3>1, <3>2, <2>1, <2>2, DistinctAssumption DEF JobKnows, Issuing, HasRequest,
         HasCert, HasPolicy, Job
  <2>4. JobKnows(s)'
    <3>1. job'[s] = Idle
      BY DEF RecordRefusal, TypeOK, Triggers
    <3>2. JobKnows(s) /\ job[s].pc = "refused"
      BY DEF JobsKnow, Triggers, RecordRefusal
    <3> QED
      BY <3>1, <3>2, <2>1, <2>2, DistinctAssumption DEF JobKnows, Issuing, HasRequest,
         HasCert, HasPolicy, Idle, Job
  <2> QED
    BY <2>3, <2>4 DEF JobsKnow
<1>3. RowsKnow'
  <2>1. \A q \in RequestIds :
           /\ request'[q].purchase = request[q].purchase
           /\ request'[q].integration = request[q].integration
           /\ request'[q].policyNo = request[q].policyNo
    BY DEF RecordRefusal, TypeOK, Request
  <2> QED
    BY <2>1 DEF RowsKnow
<1>7. CallbacksKnow'
  BY DEF RecordRefusal, Idle, purchaseVars, outside, CallbacksKnow, RowsKnow, Triggers
<1>4. InternalComesFirst'
  BY DEF RecordRefusal, Idle, purchaseVars, outside, InternalComesFirst,
     RequestsOf, Triggers
<1>5. IssuedIsRecorded'
  BY DEF RecordRefusal, Idle, purchaseVars, outside, IssuedIsRecorded,
     Triggers
<1>6. PaidWasConfirmed' /\ CertifiedWasPaid' /\ OfficialIsGenuine'
  BY DEF RecordRefusal, purchaseVars, outside, PaidWasConfirmed,
     CertifiedWasPaid, OfficialIsGenuine
<1> QED
  BY <1>1, <1>2, <1>3, <1>4, <1>5, <1>6, <1>7

\* A certificate that arrived by callback.
LEMMA SaveCallbackKeeps ==
  ASSUME IInv, NEW s \in Sessions, SaveCallback(s)
  PROVE  IInv'
<1> USE DEF IInv
<1>1. TypeOK'
  BY ZenonT(60) DEF SaveCallback, purchaseVars, outside, TypeOK, Request, OpenStatus,
     Job, Callback, Triggers
<1>2. JobsKnow'
  <2>1. \A p \in Purchases : official[p] # Null => official'[p] # Null
    BY ZenonT(60), DistinctAssumption DEF SaveCallback, TypeOK, JobsKnow, JobKnows,
       HasCert, Triggers
  <2>2. job[s] \in Job
    BY DEF TypeOK, Triggers
  <2>3. official'[job[s].purchase] # Null
    BY DistinctAssumption DEF SaveCallback, TypeOK, JobsKnow, JobKnows, HasCert, Triggers
  <2>4. UNCHANGED <<confirmed, certStatus, request, minted>>
    BY DEF SaveCallback, purchaseVars, outside
  <2>5. ASSUME NEW u \in Triggers \ {s} PROVE JobKnows(u)'
    <3>1. job'[u] = job[u] /\ JobKnows(u)
      BY DEF SaveCallback, TypeOK, JobsKnow, Triggers
    <3>2. job[u] \in Job
      BY DEF TypeOK
    <3> QED
      BY <3>1, <3>2, <2>1, <2>2, <2>3, <2>4, DistinctAssumption DEF JobKnows, Issuing,
         HasRequest, HasCert, HasPolicy, Job
  <2>6. JobKnows(s)'
    <3>1. job'[s] = [job[s] EXCEPT !.pc = "mark"]
      BY DEF SaveCallback, TypeOK, Triggers
    <3>2. JobKnows(s) /\ job[s].pc = "save callback"
      BY DEF JobsKnow, Triggers, SaveCallback
    <3> QED
      BY <3>1, <3>2, <2>1, <2>2, <2>3, <2>4, DistinctAssumption DEF JobKnows, Issuing,
         HasRequest, HasCert, HasPolicy, Idle, Job
  <2> QED
    BY <2>5, <2>6 DEF JobsKnow
<1>3. InternalComesFirst'
  BY DistinctAssumption DEF SaveCallback, purchaseVars, outside,
     InternalComesFirst, RequestsOf, TypeOK, JobsKnow, JobKnows, Issuing,
     HasRequest, HasCert, HasPolicy, Triggers
<1>4. IssuedIsRecorded'
  <2>1. \A p \in Purchases : official[p] # Null => official'[p] # Null
    BY ZenonT(60), DistinctAssumption DEF SaveCallback, TypeOK, JobsKnow, JobKnows,
       HasCert, Triggers
  <2>2. \A q \in RequestIds : request[q].purchase \in Purchases \cup {Null}
    BY DEF TypeOK, Request
  <2> QED
    BY <2>1, <2>2 DEF SaveCallback, IssuedIsRecorded
<1>5. OfficialIsGenuine'
  BY DistinctAssumption DEF SaveCallback, purchaseVars, outside,
     OfficialIsGenuine, TypeOK, JobsKnow, JobKnows, Issuing, HasRequest,
     HasCert, HasPolicy, Triggers
<1>6. CallbacksKnow' /\ RowsKnow' /\ PaidWasConfirmed' /\ CertifiedWasPaid'
  BY DEF SaveCallback, purchaseVars, outside, CallbacksKnow, RowsKnow, PaidWasConfirmed,
     CertifiedWasPaid
<1> QED
  BY <1>1, <1>2, <1>3, <1>4, <1>5, <1>6

\* A request that is marked ISSUED.
LEMMA MarkIssuedKeeps ==
  ASSUME IInv, NEW s \in Sessions, MarkIssued(s)
  PROVE  IInv'
<1> USE DEF IInv
<1>j. /\ s \in Triggers /\ job[s] \in Job /\ JobKnows(s) /\ job[s].pc = "mark"
      /\ job[s].request \in RequestIds
      /\ request[job[s].request].purchase = job[s].purchase
      /\ job[s].purchase \in Purchases /\ job[s].purchase # Null
  BY DistinctAssumption DEF MarkIssued, Triggers, TypeOK, JobsKnow, JobKnows, HasRequest
<1>r. /\ \A q \in RequestIds : q # job[s].request => request'[q] = request[q]
      /\ request'[job[s].request] =
           [request[job[s].request] EXCEPT
              !.status = "ISSUED", !.policyNo = IF job[s].policy = Null THEN @ ELSE job[s].policy]
  BY <1>j DEF MarkIssued, TypeOK
<1>q. /\ request'[job[s].request].purchase = request[job[s].request].purchase
      /\ request'[job[s].request].integration = request[job[s].request].integration
      /\ request'[job[s].request].status = "ISSUED"
      /\ request'[job[s].request].policyNo =
           IF job[s].policy = Null THEN request[job[s].request].policyNo ELSE job[s].policy
  BY <1>j, <1>r DEF TypeOK, Request
<1>1. TypeOK'
  <2>1. request[job[s].request] \in Request /\ job[s].policy \in PolicyNumbers \cup {Null}
    BY <1>j DEF TypeOK, Job
  <2>2. request'[job[s].request] \in Request
    BY <2>1, <1>r DEF Request, OpenStatus
  <2>3. request' \in [RequestIds -> Request]
    BY <2>2, <1>r DEF MarkIssued, TypeOK
  <2>4. job' \in [Triggers -> Job]
    BY DEF MarkIssued, TypeOK, Job, Idle
  <2> QED
    BY <2>3, <2>4 DEF MarkIssued, purchaseVars, outside, TypeOK
<1>p. \A q \in RequestIds : request'[q].purchase = request[q].purchase
  BY <1>q, <1>r
<1>2. JobsKnow'
  <2>1. \A q \in RequestIds : request'[q].purchase = request[q].purchase
    BY <1>p
  <2>2. UNCHANGED <<confirmed, certStatus, minted, official>>
    BY DEF MarkIssued, purchaseVars, outside
  <2>3. ASSUME NEW u \in Triggers \ {s} PROVE JobKnows(u)'
    <3>1. job'[u] = job[u] /\ JobKnows(u)
      BY DEF MarkIssued, TypeOK, JobsKnow, Triggers
    <3>2. job[u] \in Job
      BY DEF TypeOK
    <3> QED
      BY <3>1, <3>2, <2>1, <2>2, DistinctAssumption DEF JobKnows, Issuing, HasRequest,
         HasCert, HasPolicy, Job
  <2>4. JobKnows(s)'
    <3>1. job'[s] = Idle
      BY DEF MarkIssued, TypeOK, Triggers
    <3>2. JobKnows(s) /\ job[s].pc = "mark"
      BY DEF JobsKnow, Triggers, MarkIssued
    <3> QED
      BY <3>1, <3>2, <2>1, <2>2, DistinctAssumption DEF JobKnows, Issuing, HasRequest,
         HasCert, HasPolicy, Idle, Job
  <2> QED
    BY <2>3, <2>4 DEF JobsKnow
<1>3. CallbacksKnow' /\ RowsKnow'
  <2>1. \A m \in callbacks : m.request \in RequestIds
    BY DEF TypeOK, Callback
  <2>2. CallbacksKnow'
    BY <1>p, <2>1 DEF MarkIssued, outside, CallbacksKnow
  <2>3. NumbersAgree => job[s].policy \in Quoted[job[s].purchase] \cup {Null}
    BY <1>j DEF JobKnows, HasPolicy
  <2>4. RowsKnow'
    BY <1>j, <1>q, <1>r, <2>3 DEF RowsKnow
  <2> QED
    BY <2>2, <2>4
<1>4. InternalComesFirst'
  BY <1>p DEF MarkIssued, InternalComesFirst, RequestsOf
<1>5. IssuedIsRecorded'
  <2>1. JobKnows(s)
    BY DEF JobsKnow, Triggers
  <2>2. \A q \in RequestIds \ {job[s].request} : request'[q] = request[q]
    BY DEF MarkIssued, TypeOK
  <2>3. \A q \in RequestIds : request'[q].purchase = request[q].purchase
    BY <1>p
  <2> QED
    BY <2>1, <2>2, <2>3 DEF MarkIssued, IssuedIsRecorded, JobKnows, HasRequest
<1>6. PaidWasConfirmed' /\ CertifiedWasPaid' /\ OfficialIsGenuine'
  BY DEF MarkIssued, purchaseVars, outside, PaidWasConfirmed,
     CertifiedWasPaid, OfficialIsGenuine
<1> QED
  BY <1>1, <1>2, <1>3, <1>4, <1>5, <1>6

\* A job that dies.
LEMMA DieKeeps ==
  ASSUME IInv, NEW t \in Triggers, Die(t)
  PROVE  IInv'
<1> USE DEF IInv
<1>1. TypeOK'
  <2>1. job' \in [Triggers -> Job]
    BY DEF Die, TypeOK, Job, Idle
  <2>2. setbacks' \in 0 .. MaxSetbacks
    BY NumbersAssumption DEF Die, TypeOK
  <2>3. todo' \subseteq Purchases
    BY DEF Die, TypeOK
  <2> QED
    BY <2>1, <2>2, <2>3 DEF Die, purchaseVars, outside, TypeOK
<1>2. JobsKnow'
  BY DEF Die, Idle, purchaseVars, outside, JobsKnow, JobKnows, Issuing,
     HasRequest, HasCert, HasPolicy, TypeOK
<1>3. CallbacksKnow' /\ RowsKnow' /\ PaidWasConfirmed' /\ CertifiedWasPaid' /\
     InternalComesFirst' /\ IssuedIsRecorded' /\ OfficialIsGenuine'
  BY DEF Die, purchaseVars, outside, CallbacksKnow, RowsKnow, PaidWasConfirmed,
     CertifiedWasPaid, InternalComesFirst, IssuedIsRecorded,
     OfficialIsGenuine, RequestsOf
<1> QED
  BY <1>1, <1>2, <1>3

\* A stuttering step.
LEMMA StutterKeeps == ASSUME IInv, UNCHANGED vars PROVE IInv'
  BY DEF vars, IInv, TypeOK, JobsKnow, CallbacksKnow, RowsKnow, PaidWasConfirmed, CertifiedWasPaid,
     InternalComesFirst, IssuedIsRecorded, OfficialIsGenuine, RequestsOf,
     JobKnows, Issuing, HasRequest, HasCert, HasPolicy

\* A step of a trigger.
LEMMA TriggerKeeps == ASSUME IInv, NEW t \in Triggers, Trigger(t) PROVE IInv'
  BY BeginCompleteKeeps, CompleteKeeps, AlreadyIssuedKeeps, NotIssuableKeeps,
     ChooseRouteKeeps, CheckOpenKeeps, OpenRequestKeeps, PostKeeps, RecordPostKeeps,
     MintKeeps, SaveKeeps DEF Trigger

\* A step of a callback.
LEMMA AnswerKeeps == ASSUME IInv, NEW s \in Sessions, Answer(s) PROVE IInv'
  BY BeginCallbackKeeps, RecordRefusalKeeps, SaveCallbackKeeps, MarkIssuedKeeps DEF Answer

\* Every step preserves the invariant.
LEMMA StepKeeps == ASSUME IInv, [Next]_vars PROVE IInv'
<1>1. ASSUME NEW p \in Purchases, PaymentSucceeds(p) \/ PaymentFails(p)
      PROVE  IInv'
  BY <1>1, PaymentSucceedsKeeps, PaymentFailsKeeps
<1>2. ASSUME NEW p \in Purchases, NEW isActive \in BOOLEAN, UpdateStatus(p, isActive)
      PROVE  IInv'
  BY <1>2, UpdateStatusKeeps
<1>3. CASE WorkerStep
  BY <1>3, PollKeeps, TriggerKeeps DEF WorkerStep, Triggers
<1>4. ASSUME NEW s \in Sessions, Trigger(s) \/ Answer(s)
      PROVE  IInv'
  BY <1>4, TriggerKeeps, AnswerKeeps DEF Triggers
<1>5. ASSUME NEW r \in RequestIds, NEW c \in Certs \cup {Null}, InsurerAnswers(r, c)
      PROVE  IInv'
  BY <1>5, InsurerAnswersKeeps
<1>6. ASSUME NEW t \in Triggers, Die(t)
      PROVE  IInv'
  BY <1>6, DieKeeps
<1> QED
  BY <1>1, <1>2, <1>3, <1>4, <1>5, <1>6, StutterKeeps DEF Next

\* The invariant holds in every reachable state.
LEMMA Invariance == Spec => []IInv
<1>1. IInv /\ [Next]_vars => IInv'
  BY StepKeeps
<1> QED
  BY <1>1, InitIInv, PTL DEF Spec

----------------------------------------------------------------------------
(* Theorems *)

\* Rows, jobs and messages keep their shape.
THEOREM Typing == Spec => []TypeOK
<1>1. IInv => TypeOK
  BY DEF IInv
<1> QED
  BY <1>1, Invariance, PTL

\* However old the check of a trigger is when it acts, a certificate is
\* generated only for a purchase whose money was confirmed.
THEOREM OnlyPaidIsCertified == Spec => []CertifiedWasPaid
<1>1. IInv => CertifiedWasPaid
  BY DEF IInv
<1> QED
  BY <1>1, Invariance, PTL

\* Whoever asks for an official certificate, the internal one exists already.
THEOREM FallbackExists == Spec => []InternalComesFirst
<1>1. IInv => InternalComesFirst
  BY DEF IInv
<1> QED
  BY <1>1, Invariance, PTL

\* A request marked ISSUED stands for a certificate the purchase shows.
THEOREM IssuedMeansRecorded == Spec => []IssuedIsRecorded
<1>1. IInv => IssuedIsRecorded
  BY DEF IInv
<1> QED
  BY <1>1, Invariance, PTL

\* For every routing of underwriters: where no insurer calls two of its purchases by
\* one number, the certificate on a purchase was made for it, whether answers carry
\* our reference, a policy number (ours or the insurer's) or both, and however late
\* or often they arrive.
THEOREM Genuine == Spec => []OfficialIsGenuine
<1>1. IInv => OfficialIsGenuine
  BY DEF IInv
<1> QED
  BY <1>1, Invariance, PTL

----------------------------------------------------------------------------
(***************************************************************************)
(* What NeverDoublePosted fails on: two triggers that complete one         *)
(* purchase at once, and nothing else.                                     *)
(***************************************************************************)

\* Trigger t is between the SELECT of usp_Purchase_CompleteCert and the INSERT of
\* usp_UnderwriterCert_CreateRequest, both for p.
Completing(t, p) ==
  job[t].purchase = p /\ job[t].pc \in {"complete", "issue", "check open", "open"}

OneTriggerAtATime ==
  \A p \in Purchases : \A t, u \in Triggers : Completing(t, p) /\ Completing(u, p) => t = u

\* An insurer is asked for a purchase once, whatever became of the request: one
\* that failed is not repeated either.
AskedOnce == \A p \in Purchases : \A r, q \in RequestsOf(p) : r = q

\* Where a trigger has completed the internal certificate and asked nobody yet.
Asking == {"issue", "check open", "open"}

\* What a trigger looked up is still so when it acts on it, if it is alone.
StillTrue ==
  \A t \in Triggers :
    /\ job[t].pc = "complete" => certStatus[job[t].purchase] # "GENERATED"
    /\ job[t].pc \in Asking => RequestsOf(job[t].purchase) = {}

SerialInv == OneTriggerAtATime /\ StillTrue /\ AskedOnce

\* Steps that neither generate a certificate nor open a request: triggers start
\* on purchases without a certificate and go on with what they started.
Quiet ==
  /\ UNCHANGED certStatus
  /\ \A r \in RequestIds : request'[r].purchase = request[r].purchase
  /\ \A t \in Triggers :
       /\ job'[t].pc = "complete" =>
            job'[t] = job[t] \/ certStatus[job'[t].purchase] # "GENERATED"
       /\ job'[t].pc \in Asking => job[t].pc \in Asking /\ job'[t].purchase = job[t].purchase

\* Only Complete and OpenRequest are not quiet: the steps of a trigger.
LEMMA TriggerIsQuiet ==
  ASSUME IInv, NEW t \in Triggers, Trigger(t)
  PROVE  Quiet \/ Complete(t) \/ \E r \in RequestIds : OpenRequest(t, r)
<1>t. job \in [Triggers -> Job] /\ request \in [RequestIds -> Request] /\ job[t] \in Job
  BY DEF IInv, TypeOK
<1>1. ASSUME NEW p \in Purchases, BeginComplete(t, p)
      PROVE  Quiet
  BY <1>1, <1>t DEF BeginComplete, Completable, Idle, Quiet, Asking
<1>2. CASE AlreadyIssued(t) \/ NotIssuable(t) \/ Save(t)
  <2>1. UNCHANGED <<certStatus, request>> /\ job' = [job EXCEPT ![t] = Idle]
    BY <1>2 DEF AlreadyIssued, NotIssuable, Save, outside
  <2> QED
    BY <1>t, <2>1 DEF Idle, Quiet, Asking
<1>3. CASE ChooseRoute(t)
  <2>1. /\ job'[t].pc \in {"mint", "check open"} /\ job'[t].purchase = job[t].purchase
        /\ \A u \in Triggers : u # t => job'[u] = job[u]
    <3>1. CASE job' = [job EXCEPT ![t].pc = "mint"]
      BY <1>t, <3>1 DEF Job
    <3>2. ASSUME NEW i, job' = [job EXCEPT ![t].pc = "check open", ![t].integration = i]
          PROVE  /\ job'[t].pc = "check open" /\ job'[t].purchase = job[t].purchase
                 /\ \A u \in Triggers : u # t => job'[u] = job[u]
      BY <1>t, <3>2 DEF Job
    <3> QED
      BY <1>3, <3>1, <3>2 DEF ChooseRoute
  <2>2. UNCHANGED <<certStatus, request>> /\ job[t].pc = "issue"
    BY <1>3 DEF ChooseRoute
  <2>3. job'[t].pc # "complete" /\ job[t].pc \in Asking
    BY <2>1, <2>2 DEF Asking
  <2> QED
    BY <2>1, <2>2, <2>3 DEF Quiet
<1>4. CASE CheckOpen(t)
  BY <1>4, <1>t DEF CheckOpen, Idle, Quiet, Asking, Job
<1>5. CASE Post(t)
  <2>1. job'[t].pc = "posted" /\ \A u \in Triggers : u # t => job'[u] = job[u]
    BY <1>5, <1>t DEF Post, Job
  <2> QED
    BY <1>5, <2>1 DEF Post, Quiet, Asking
<1>6. CASE RecordPost(t)
  <2>1. \A r \in RequestIds : request'[r].purchase = request[r].purchase
    BY <1>6, <1>t DEF RecordPost, Request
  <2> QED
    BY <1>6, <1>t, <2>1 DEF RecordPost, Idle, Quiet, Asking
<1>7. ASSUME NEW c \in Certs \cup {Null}, Mint(t, c)
      PROVE  Quiet
  <2>1. job'[t].pc \in {"save", "idle"} /\ \A u \in Triggers : u # t => job'[u] = job[u]
    <3>1. CASE job' = [job EXCEPT ![t] = Idle]
      BY <1>t, <3>1 DEF Idle
    <3>2. CASE job' = [job EXCEPT ![t].pc = "save", ![t].cert = c]
      BY <1>t, <3>2 DEF Job
    <3> QED
      BY <1>7, <3>1, <3>2 DEF Mint
  <2> QED
    BY <1>7, <2>1 DEF Mint, Quiet, Asking
<1> QED
  BY <1>1, <1>2, <1>3, <1>4, <1>5, <1>6, <1>7 DEF Trigger

\* Likewise the other steps.
LEMMA OthersAreQuiet ==
  ASSUME IInv, [Next]_vars
  PROVE  Quiet \/ \E t \in Triggers : Complete(t) \/ \E r \in RequestIds : OpenRequest(t, r)
<1>t. job \in [Triggers -> Job] /\ request \in [RequestIds -> Request]
  BY DEF IInv, TypeOK
<1>1. CASE UNCHANGED <<certStatus, request, job>>
  BY <1>1 DEF Quiet
<1>2. ASSUME NEW s \in Sessions, Answer(s)
      PROVE  Quiet
  <2>a. s \in Triggers /\ job[s] \in Job
    BY <1>t DEF Triggers
  <2>b. \E j : job' = [job EXCEPT ![s] = j]
                /\ j.pc \in {"idle", "refused", "save callback", "mark"}
    <3>1. CASE RecordRefusal(s) \/ MarkIssued(s)
      BY <3>1 DEF RecordRefusal, MarkIssued, Idle
    <3>2. CASE SaveCallback(s)
      <4> DEFINE j == [job[s] EXCEPT !.pc = "mark"]
      <4>1. job' = [job EXCEPT ![s] = j]
        BY <3>2 DEF SaveCallback
      <4>2. j.pc = "mark"
        BY <2>a DEF Job
      <4> HIDE DEF j
      <4> QED
        BY <4>1, <4>2
    <3>3. ASSUME NEW m, NEW r, BeginCallback(s, m, r)
          PROVE  \E j : job' = [job EXCEPT ![s] = j]
                         /\ j.pc \in {"idle", "refused", "save callback", "mark"}
      <4> DEFINE j == [Idle EXCEPT !.pc = IF m.cert = Null THEN "refused" ELSE "save callback",
                                   !.purchase = request[r].purchase, !.request = r,
                                   !.cert = m.cert, !.policy = m.policy]
      <4>1. j.pc \in {"refused", "save callback"}
        BY DEF Idle
      <4>2. job' = [job EXCEPT ![s] = j]
        BY <3>3 DEF BeginCallback
      <4> QED
        BY <4>1, <4>2
    <3> QED
      BY <1>2, <3>1, <3>2, <3>3 DEF Answer
  <2>1. \A r \in RequestIds : request'[r].purchase = request[r].purchase
    <3>1. CASE MarkIssued(s)
      BY <1>t, <3>1 DEF MarkIssued, Request
    <3>2. CASE RecordRefusal(s)
      BY <1>t, <3>2 DEF RecordRefusal, Request
    <3> QED
      BY <1>2, <3>1, <3>2 DEF Answer, BeginCallback, SaveCallback
  <2>2. job'[s].pc \in {"idle", "refused", "save callback", "mark"}
    BY <1>t, <2>a, <2>b
  <2>3. \A u \in Triggers : u # s => job'[u] = job[u]
    BY <1>t, <2>b
  <2>4. UNCHANGED certStatus
    BY <1>2 DEF Answer, BeginCallback, RecordRefusal, SaveCallback, MarkIssued
  <2> QED
    BY <2>1, <2>2, <2>3, <2>4 DEF Quiet, Asking
<1>3. ASSUME NEW t \in Triggers, Die(t)
      PROVE  Quiet
  BY <1>3, <1>t DEF Die, Idle, Quiet, Asking
<1> QED
  BY <1>1, <1>2, <1>3, TriggerIsQuiet DEF Next, WorkerStep, Triggers, Poll, PaymentSucceeds,
     PaymentFails, UpdateStatus, InsurerAnswers, vars

LEMMA QuietKeeps ==
  ASSUME IInv, SerialInv, Quiet
  PROVE  StillTrue' /\ AskedOnce'
<1>1. \A p : RequestsOf(p)' = RequestsOf(p)
  BY DEF Quiet, RequestsOf
<1> QED
  BY <1>1 DEF SerialInv, StillTrue, AskedOnce, Quiet

\* The internal certificate comes first, so a purchase without it has no request
\* yet; nobody else is at the purchase who might rely on there being none.
LEMMA CompleteSerial ==
  ASSUME IInv, SerialInv, NEW t \in Triggers, Complete(t)
  PROVE  StillTrue' /\ AskedOnce'
<1>t. /\ job \in [Triggers -> Job] /\ job[t].pc = "complete"
      /\ certStatus \in [Purchases -> {"NOT_GENERATED", "GENERATED"}]
  BY DEF IInv, TypeOK, Complete
<1>1. PICK p \in Purchases : job[t].purchase = p
  BY <1>t DEF IInv, JobsKnow, JobKnows
<1>2. RequestsOf(p) = {}
  BY <1>t, <1>1 DEF SerialInv, StillTrue, IInv, InternalComesFirst
<1>3. \A q : RequestsOf(q)' = RequestsOf(q)
  BY DEF Complete, RequestsOf
<1>4. /\ job'[t].pc = "issue" /\ job'[t].purchase = p
      /\ \A u \in Triggers : u # t => job'[u] = job[u]
  BY <1>t, <1>1 DEF Complete, Job
<1>5. \A q \in Purchases : q # p => certStatus'[q] = certStatus[q]
  BY <1>t, <1>1 DEF Complete
<1>6. ASSUME NEW u \in Triggers, job'[u].pc = "complete"
      PROVE  certStatus'[job'[u].purchase] # "GENERATED"
  <2>1. u # t /\ job'[u] = job[u]
    BY <1>4, <1>6
  <2>2. job[u].purchase # p
    BY <1>t, <1>1, <1>6, <2>1 DEF SerialInv, OneTriggerAtATime, Completing
  <2>3. job[u].purchase \in Purchases
    BY <1>6, <2>1 DEF IInv, JobsKnow, JobKnows
  <2> QED
    BY <1>5, <1>6, <2>1, <2>2, <2>3 DEF SerialInv, StillTrue
<1>7. ASSUME NEW u \in Triggers, job'[u].pc \in Asking
      PROVE  RequestsOf(job[u].purchase)' = {}
  <2>1. RequestsOf(job'[u].purchase) = {}
    BY <1>2, <1>4, <1>7 DEF SerialInv, StillTrue
  <2> QED
    BY <2>1 DEF Complete, RequestsOf
<1>8. AskedOnce'
  BY <1>3 DEF SerialInv, AskedOnce
<1> QED
  BY <1>6, <1>7, <1>8 DEF StillTrue

\* A request that is opened is the first.
LEMMA OpenRequestSerial ==
  ASSUME IInv, SerialInv, NEW t \in Triggers, NEW r \in RequestIds, OpenRequest(t, r)
  PROVE  StillTrue' /\ AskedOnce'
<1>t. /\ job \in [Triggers -> Job] /\ job[t].pc = "open"
      /\ request \in [RequestIds -> Request]
      /\ request[r].purchase = Null
      /\ UNCHANGED certStatus
  BY DEF IInv, TypeOK, OpenRequest, NextRequest, IsLeast, RequestsOf
<1>1. PICK p \in Purchases : job[t].purchase = p
  BY <1>t DEF IInv, JobsKnow, JobKnows, Issuing
<1>2. RequestsOf(p) = {}
  BY <1>t, <1>1 DEF SerialInv, StillTrue, Asking
<1>3. /\ request'[r].purchase = p
      /\ \A q \in RequestIds : q # r => request'[q] = request[q]
  BY <1>t, <1>1 DEF OpenRequest
<1>4. RequestsOf(p)' = {r}
  BY <1>2, <1>3 DEF RequestsOf
<1>5. \A q \in Purchases : q # p => RequestsOf(q)' = RequestsOf(q)
  BY <1>t, <1>3, DistinctAssumption DEF RequestsOf
<1>6. /\ job'[t].pc \in {"post", "idle"}
      /\ \A u \in Triggers : u # t => job'[u] = job[u]
  BY <1>t DEF OpenRequest, Idle, Job
<1>7. ASSUME NEW u \in Triggers, job'[u].pc \in Asking
      PROVE  RequestsOf(job[u].purchase)' = {}
  <2>1. u # t /\ job'[u] = job[u]
    BY <1>6, <1>7 DEF Asking
  <2>2. job[u].purchase # p
    BY <1>t, <1>1, <1>7, <2>1 DEF SerialInv, OneTriggerAtATime, Completing, Asking
  <2>3. job[u].purchase \in Purchases /\ RequestsOf(job[u].purchase) = {}
    BY <1>7, <2>1 DEF IInv, JobsKnow, JobKnows, Issuing, Asking, SerialInv, StillTrue
  <2>4. {q \in RequestIds : request'[q].purchase = job[u].purchase} = {}
    BY <1>5, <2>2, <2>3 DEF RequestsOf
  <2> QED
    BY <2>1, <2>4 DEF RequestsOf
<1>8. ASSUME NEW u \in Triggers, job'[u].pc = "complete"
      PROVE  certStatus'[job'[u].purchase] # "GENERATED"
  BY <1>t, <1>6, <1>8 DEF SerialInv, StillTrue
<1>9. AskedOnce'
  BY <1>4, <1>5 DEF SerialInv, AskedOnce
<1> QED
  BY <1>7, <1>8, <1>9 DEF StillTrue

LEMMA SerialStep ==
  ASSUME IInv, SerialInv, [Next]_vars, OneTriggerAtATime'
  PROVE  SerialInv'
<1>1. CASE UNCHANGED vars
  <2>1. Quiet
    BY <1>1 DEF Quiet, vars
  <2> QED
    BY <2>1, QuietKeeps DEF SerialInv
<1>2. CASE Next
  BY <1>2, OthersAreQuiet, QuietKeeps, CompleteSerial, OpenRequestSerial DEF SerialInv
<1> QED
  BY <1>1, <1>2

LEMMA InitSerial == Init => SerialInv
<1> SUFFICES ASSUME Init PROVE SerialInv
  OBVIOUS
<1>1. OneTriggerAtATime /\ StillTrue
  BY DEF Init, Idle, OneTriggerAtATime, Completing, StillTrue, Asking
<1>2. AskedOnce
  BY DistinctAssumption DEF Init, NoRequest, RequestsOf, AskedOnce
<1> QED
  BY <1>1, <1>2 DEF SerialInv

\* In a run where no two triggers complete one purchase at once, an insurer is
\* asked for a purchase at most once, for every number of triggers, setbacks and
\* answers.
THEOREM AskedOnceAlone == Spec => ([]OneTriggerAtATime => []AskedOnce)
<1>1. Init /\ OneTriggerAtATime => SerialInv
  BY InitSerial
<1>2. IInv /\ SerialInv /\ [Next]_vars /\ OneTriggerAtATime' => SerialInv'
  BY SerialStep
<1>3. SerialInv => AskedOnce
  BY DEF SerialInv
<1> QED
  BY <1>1, <1>2, <1>3, Invariance, PTL DEF Spec

\* So the comment on usp_UnderwriterCert_CreateRequest is right but for that race.
THEOREM OnePostAlone == Spec => ([]OneTriggerAtATime => []NeverDoublePosted)
<1>1. AskedOnce => NeverDoublePosted
  BY DEF AskedOnce, NeverDoublePosted
<1> QED
  BY <1>1, AskedOnceAlone, PTL
=============================================================================
