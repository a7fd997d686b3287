---------------------------- MODULE WizardProofs ----------------------------
(***************************************************************************)
(* Proofs about Wizard for any number of browsers, requests, people, cars  *)
(* and policies.                                                           *)
(*                                                                         *)
(* Every row that a property compares is written long after it was checked *)
(* and from a copy of the draft.  What carries the argument is that tables *)
(* only grow in what matters (a client keeps its identity number, a        *)
(* vehicle its owner), so that a request may go on believing what it has   *)
(* looked up: Sound says what a request believes at each of its steps.     *)
(***************************************************************************)
EXTENDS Wizard, TLAPS

ClientTables  == [Clients -> ClientRow \cup {NULL}]
VehicleTables == [Vehicles -> VehicleRow \cup {NULL}]

\* The vehicle of a draft is its client's.
Together(f, vs) ==
  f.vehicle # NULL => vs[f.vehicle] # NULL /\ vs[f.vehicle].client = f.client

\* The steps at which the wizard has its client.
Later == {"lookupVehicle", "createVehicle", "insertVehicle", "createPurchase", "insertPurchase"}

\* What a request k believes of the tables, and what it needs for its step.
Sound(k, cs, vs) ==
  /\ k.pc \in {"resolve", "lookupVehicle", "answer"} => k.draft # NULL
  /\ k.pc \in {"resolve", "createClient"} => k.idNo # NULL
  /\ k.pc \in {"createVehicle", "insertVehicle"} => k.regNo # NULL
  /\ k.draft # NULL /\ k.pc # "answer" => k.idNo # NULL /\ k.regNo # NULL
  /\ k.pc \in {"insertVehicle", "insertPurchase"} => k.copy.client # NULL
  /\ k.draft # NULL /\ k.pc # "lookupVehicle" => Together(k.copy, vs)
  /\ k.pc = "insertPurchase" => Together(k.copy, vs)
  /\ k.pc \in Later /\ k.idNo # NULL =>
       /\ k.copy.client # NULL
       /\ cs[k.copy.client] # NULL
       /\ cs[k.copy.client].idNo = k.idNo

CallsSound == \A c \in Calls : Sound(call[c], client, vehicle)

IInv ==
  /\ TypeOK
  /\ CallsSound
  /\ NoDuplicates
  /\ BuyerOwnsVehicle
  /\ BuyerIsNamed
  /\ DraftHangsTogether

\* From one pair of tables to the next, no row loses what others rely on.
Grown(cs, vs, ct, vt) ==
  /\ \A i \in Clients : cs[i] # NULL => ct[i] # NULL /\ ct[i].idNo = cs[i].idNo
  /\ \A v \in Vehicles : vs[v] # NULL => vt[v] # NULL /\ vt[v].client = vs[v].client

-----------------------------------------------------------------------------
(* Beliefs last.                                                           *)

\* A draft that hung together still does.
LEMMA TogetherLasts ==
  ASSUME NEW cs, NEW ct, NEW vs, NEW vt, Grown(cs, vs, ct, vt),
         NEW f \in Draft, Together(f, vs)
  PROVE  Together(f, vt)
BY DEF Grown, Together, Draft

\* A request that was right still is.
LEMMA SoundLasts ==
  ASSUME NEW cs, NEW ct, NEW vs, NEW vt, Grown(cs, vs, ct, vt),
         NEW k \in Call, Sound(k, cs, vs)
  PROVE  Sound(k, ct, vt)
<1>1. k.copy \in Draft /\ k.copy.client \in Clients \cup {NULL}
  BY DEF Call, Draft
<1>2. Together(k.copy, vs) => Together(k.copy, vt)
  BY <1>1, TogetherLasts
<1>3. ASSUME k.pc \in Later, k.idNo # NULL
      PROVE  /\ k.copy.client # NULL
             /\ ct[k.copy.client] # NULL
             /\ ct[k.copy.client].idNo = k.idNo
  BY <1>1, <1>3 DEF Sound, Grown
<1> QED
  BY <1>2, <1>3 DEF Sound

\* A request that nobody has sent believes nothing.
LEMMA NoCallSound ==
  ASSUME NEW cs, NEW vs
  PROVE  NoCall \in Call /\ Sound(NoCall, cs, vs)
BY DEF NoCall, NewDraft, Call, Draft, Steps, Sound, Together, Later

\* One request changes, the tables grow: all requests are sound.
LEMMA CallsStep ==
  ASSUME TypeOK, CallsSound, NEW c \in Calls, NEW k \in Call,
         call' = [call EXCEPT ![c] = k],
         Grown(client, vehicle, client', vehicle'),
         Sound(k, client', vehicle')
  PROVE  call' \in [Calls -> Call] /\ CallsSound'
<1>1. call' \in [Calls -> Call]
  BY DEF TypeOK
<1>2. ASSUME NEW e \in Calls PROVE Sound(call'[e], client', vehicle')
  <2>1. CASE e = c
    BY <2>1 DEF TypeOK
  <2>2. CASE e # c
    <3>1. call'[e] = call[e] /\ call[e] \in Call /\ Sound(call[e], client, vehicle)
      BY <2>2 DEF TypeOK, CallsSound
    <3> QED
      BY <3>1, SoundLasts
  <2> QED
    BY <2>1, <2>2
<1> QED
  BY <1>1, <1>2 DEF CallsSound

\* No request changes, the tables grow.
LEMMA CallsStay ==
  ASSUME TypeOK, CallsSound, call' = call, Grown(client, vehicle, client', vehicle')
  PROVE  call' \in [Calls -> Call] /\ CallsSound'
<1>1. ASSUME NEW e \in Calls PROVE Sound(call'[e], client', vehicle')
  <2>1. call'[e] = call[e] /\ call[e] \in Call /\ Sound(call[e], client, vehicle)
    BY DEF TypeOK, CallsSound
  <2> QED
    BY <2>1, SoundLasts
<1> QED
  BY <1>1 DEF CallsSound, TypeOK

\* The tables stay, so they grow.
LEMMA GrownStays ==
  ASSUME client' = client, vehicle' = vehicle
  PROVE  Grown(client, vehicle, client', vehicle')
BY DEF Grown

\* What the tables and the drafts owe to one another, when the purchases and
\* the drafts do not change.
LEMMA FactsLast ==
  ASSUME IInv, TypeOK', draft' = draft, purchase' = purchase,
         Grown(client, vehicle, client', vehicle')
  PROVE  BuyerOwnsVehicle' /\ BuyerIsNamed' /\ DraftHangsTogether'
<1>1. BuyerOwnsVehicle'
  BY DEF IInv, BuyerOwnsVehicle, Grown, TypeOK, PurchaseRow
<1>2. BuyerIsNamed'
  BY DEF IInv, BuyerIsNamed, Grown, TypeOK, PurchaseRow
<1>3. DraftHangsTogether'
  BY DEF IInv, DraftHangsTogether, Grown, TypeOK, Draft
<1> QED
  BY <1>1, <1>2, <1>3

\* A step of one request that touches nothing else.
LEMMA CallOnly ==
  ASSUME IInv, NEW c \in Calls, NEW k \in Call,
         call' = [call EXCEPT ![c] = k],
         UNCHANGED <<draft, client, vehicle, purchase>>,
         Sound(k, client, vehicle)
  PROVE  IInv'
<1>1. TypeOK /\ CallsSound /\ Grown(client, vehicle, client', vehicle')
  BY GrownStays DEF IInv
<1>2. call' \in [Calls -> Call] /\ CallsSound'
  BY <1>1, CallsStep
<1>3. TypeOK'
  BY <1>1, <1>2 DEF TypeOK
<1>4. NoDuplicates'
  BY DEF IInv, NoDuplicates
<1> QED
  BY <1>1, <1>2, <1>3, <1>4, FactsLast DEF IInv

-----------------------------------------------------------------------------
(* Where a request goes.                                                   *)

\* The request that answers with a copy of the draft.
Answering(k, f) == [NoCall EXCEPT !.pc = "answer", !.draft = k.draft, !.copy = f]

\* The request at another step with another copy.
At(k, step, f) == [k EXCEPT !.pc = step, !.copy = f]

\* Answers leaves a request that is over, or one that has its answer.
LEMMA AnswersStep ==
  ASSUME TypeOK, NEW c \in Calls, NEW f \in Draft, Answers(c, f)
  PROVE  \E k \in Call :
           /\ call' = [call EXCEPT ![c] = k]
           /\ IF call[c].draft = NULL THEN k = NoCall ELSE k = Answering(call[c], f)
<1>1. call[c] \in Call
  BY DEF TypeOK
<1>2. NoCall \in Call /\ Answering(call[c], f) \in Call
  BY <1>1 DEF Answering, NoCall, NewDraft, Call, Draft, Steps
<1> QED
  BY <1>2 DEF Answers, Answering

\* A request that answers with a copy that hangs together is sound.
LEMMA AnsweringSound ==
  ASSUME NEW cs, NEW vs, NEW k \in Call, k.draft # NULL,
         NEW f \in Draft, Together(f, vs)
  PROVE  Sound(Answering(k, f), cs, vs)
BY DEF Answering, NoCall, NewDraft, Call, Sound, Later

\* Goes leaves a request that is over, or one at the next step.
LEMMA GoesStep ==
  ASSUME TypeOK, NEW c \in Calls, NEW f \in Draft, NEW step \in Steps, Goes(c, step, f)
  PROVE  \E k \in Call :
           /\ call' = [call EXCEPT ![c] = k]
           /\ IF call[c].draft = NULL THEN k = NoCall ELSE k = At(call[c], step, f)
<1>1. call[c] \in Call /\ At(call[c], step, f) \in Call
  BY DEF TypeOK, At, Call
<1>2. CASE call[c].draft = NULL
  BY <1>2, AnswersStep DEF Goes
<1>3. CASE call[c].draft # NULL
  <2>1. call' = [call EXCEPT ![c] = At(call[c], step, f)]
    BY <1>3, <1>1 DEF Goes, At, TypeOK, Call
  <2> QED
    BY <1>1, <1>3, <2>1
<1> QED
  BY <1>2, <1>3

\* The copy of the draft with another client, or another vehicle.
LEMMA WithStep ==
  ASSUME TypeOK, NEW c \in Calls
  PROVE  /\ call[c] \in Call /\ call[c].copy \in Draft
         /\ \A i \in Clients \cup {NULL} :
              /\ With(c, "client", i) \in Draft
              /\ With(c, "client", i).client = i
              /\ With(c, "client", i).vehicle = call[c].copy.vehicle
         /\ \A v \in Vehicles \cup {NULL} :
              /\ With(c, "vehicle", v) \in Draft
              /\ With(c, "vehicle", v).vehicle = v
              /\ With(c, "vehicle", v).client = call[c].copy.client
<1>1. call[c] \in Call /\ call[c].copy \in Draft
  BY DEF TypeOK, Call
<1> QED
  BY <1>1 DEF With, Draft

-----------------------------------------------------------------------------
(* The browser.                                                            *)

\* A request sent from a browser or by another caller.
LEMMA SendKeeps ==
  ASSUME IInv, NEW c \in Calls, NEW d, NEW step, NEW f, NEW n, NEW r,
         Send(c, d, step, f, n, r),
         [pc |-> step, draft |-> d, copy |-> f, idNo |-> n, regNo |-> r] \in Call,
         Sound([pc |-> step, draft |-> d, copy |-> f, idNo |-> n, regNo |-> r],
               client, vehicle)
  PROVE  IInv'
BY CallOnly DEF Send

\* Every request of a browser.
LEMMA BrowserSends ==
  ASSUME IInv, NEW c \in Calls, NEW d \in Drafts,
         \/ Visit(c, d) \/ Reset(c, d) \/ Step1Generate(c, d)
         \/ \E q \in Quotes : Step1Next(c, d, q)
         \/ \E n \in IdNos, r \in RegNos : Step2Next(c, d, n, r)
  PROVE  IInv'
<1>1. draft[d] \in Draft /\ Together(draft[d], vehicle) /\ d # NULL
  BY WizardAssumption DEF IInv, TypeOK, DraftHangsTogether, Together
<1>2. ASSUME NEW f \in Draft, Together(f, vehicle), Send(c, d, "answer", f, NULL, NULL)
      PROVE  IInv'
  <2>1. [pc |-> "answer", draft |-> d, copy |-> f, idNo |-> NULL, regNo |-> NULL] \in Call
    BY DEF Call, Steps
  <2>2. Sound([pc |-> "answer", draft |-> d, copy |-> f, idNo |-> NULL, regNo |-> NULL],
              client, vehicle)
    BY <1>1, <1>2 DEF Sound, Later
  <2> QED
    BY <1>2, <2>1, <2>2, SendKeeps
<1>3. CASE Visit(c, d)
  BY <1>1, <1>2, <1>3 DEF Visit
<1>4. CASE Reset(c, d)
  <2>1. NewDraft \in Draft /\ Together(NewDraft, vehicle)
    BY DEF NewDraft, Draft, Together
  <2> QED
    BY <1>2, <1>4, <2>1 DEF Reset
<1>5. ASSUME NEW q \in Quotes \cup {"compared", NULL}
      PROVE  /\ [draft[d] EXCEPT !.quote = q] \in Draft
             /\ Together([draft[d] EXCEPT !.quote = q], vehicle)
  BY <1>1 DEF Draft, Together
<1>6. CASE Step1Generate(c, d)
  BY <1>2, <1>5, <1>6 DEF Step1Generate
<1>7. CASE \E q \in Quotes : Step1Next(c, d, q)
  BY <1>2, <1>5, <1>7 DEF Step1Next
<1>8. ASSUME NEW n \in IdNos, NEW r \in RegNos, Step2Next(c, d, n, r)
      PROVE  IInv'
  <2> DEFINE k == [pc |-> "resolve", draft |-> d, copy |-> draft[d], idNo |-> n, regNo |-> r]
  <2>1. k \in Call
    BY <1>1 DEF Call, Steps
  <2>2. Sound(k, client, vehicle)
    BY <1>1, WizardAssumption DEF Sound, Later
  <2> QED
    BY <1>8, <2>1, <2>2, SendKeeps DEF Step2Next
<1> QED
  BY <1>3, <1>4, <1>6, <1>7, <1>8

\* Every request of another caller.
LEMMA ApiSends ==
  ASSUME IInv, NEW c \in Calls,
         \/ \E n \in IdNos : ApiCreateClient(c, n)
         \/ \E i \in Clients, r \in RegNos : ApiCreateVehicle(c, i, r)
         \/ \E i \in Clients, v \in Vehicles \cup {NULL} : ApiCreatePurchase(c, i, v)
  PROVE  IInv'
<1>1. ASSUME NEW n \in IdNos, ApiCreateClient(c, n) PROVE IInv'
  <2> DEFINE k == [pc |-> "createClient", draft |-> NULL, copy |-> NewDraft,
                   idNo |-> n, regNo |-> NULL]
  <2>1. k \in Call /\ Sound(k, client, vehicle)
    BY WizardAssumption DEF Call, Steps, NewDraft, Draft, Sound, Later
  <2> QED
    BY <1>1, <2>1, SendKeeps DEF ApiCreateClient
<1>2. ASSUME NEW i \in Clients, NEW r \in RegNos, ApiCreateVehicle(c, i, r) PROVE IInv'
  <2> DEFINE k == [pc |-> "createVehicle", draft |-> NULL,
                   copy |-> [NewDraft EXCEPT !.client = i], idNo |-> NULL, regNo |-> r]
  <2>1. k \in Call /\ Sound(k, client, vehicle)
    BY WizardAssumption DEF Call, Steps, NewDraft, Draft, Sound, Later
  <2> QED
    BY <1>2, <2>1, SendKeeps DEF ApiCreateVehicle
<1>3. ASSUME NEW i \in Clients, NEW v \in Vehicles \cup {NULL}, ApiCreatePurchase(c, i, v)
      PROVE  IInv'
  <2> DEFINE k == [pc |-> "createPurchase", draft |-> NULL,
                   copy |-> [NewDraft EXCEPT !.client = i, !.vehicle = v],
                   idNo |-> NULL, regNo |-> NULL]
  <2>1. k \in Call /\ Sound(k, client, vehicle)
    BY DEF Call, Steps, NewDraft, Draft, Sound, Later
  <2> QED
    BY <1>3, <2>1, SendKeeps DEF ApiCreatePurchase
<1> QED
  BY <1>1, <1>2, <1>3

\* The response puts a copy that hangs together into the browser.
LEMMA AnswerKeeps ==
  ASSUME IInv, NEW c \in Calls, Answer(c)
  PROVE  IInv'
<1>1. /\ call[c] \in Call /\ call[c].copy \in Draft /\ call[c].draft \in Drafts
      /\ Together(call[c].copy, vehicle)
  BY DEF IInv, TypeOK, CallsSound, Sound, Answer, Call, Steps
<1>2. call' \in [Calls -> Call] /\ CallsSound'
  BY NoCallSound, GrownStays, CallsStep DEF IInv, Answer
<1>3. TypeOK'
  BY <1>1, <1>2 DEF IInv, TypeOK, Answer
<1>4. DraftHangsTogether'
  <2> SUFFICES ASSUME NEW d \in Drafts, draft'[d].vehicle # NULL
               PROVE  /\ vehicle[draft'[d].vehicle] # NULL
                      /\ vehicle[draft'[d].vehicle].client = draft'[d].client
    BY DEF DraftHangsTogether, Answer
  <2>1. CASE d = call[c].draft
    BY <1>1, <2>1 DEF IInv, TypeOK, Answer, Together
  <2>2. CASE d # call[c].draft
    BY <1>1, <2>2 DEF IInv, TypeOK, Answer, DraftHangsTogether
  <2> QED
    BY <2>1, <2>2
<1>5. NoDuplicates' /\ BuyerOwnsVehicle' /\ BuyerIsNamed'
  BY DEF IInv, Answer, NoDuplicates, BuyerOwnsVehicle, BuyerIsNamed
<1> QED
  BY <1>2, <1>3, <1>4, <1>5 DEF IInv

\* A request without a response leaves nothing.
LEMMA AbandonKeeps ==
  ASSUME IInv, NEW c \in Calls, Abandon(c)
  PROVE  IInv'
BY NoCallSound, CallOnly DEF Abandon

-----------------------------------------------------------------------------
(* Steps of a request that change no table.                                *)

\* A request that goes on, or ends, with the tables as they are.
LEMMA GoesKeeps ==
  ASSUME IInv, NEW c \in Calls, NEW f \in Draft, NEW step \in Steps,
         Goes(c, step, f), UNCHANGED <<draft, client, vehicle, purchase>>,
         call[c].draft # NULL => Sound(At(call[c], step, f), client, vehicle)
  PROVE  IInv'
<1>1. TypeOK
  BY DEF IInv
<1>2. PICK k \in Call :
        /\ call' = [call EXCEPT ![c] = k]
        /\ IF call[c].draft = NULL THEN k = NoCall ELSE k = At(call[c], step, f)
  BY <1>1, GoesStep
<1>3. Sound(k, client, vehicle)
  BY <1>2, NoCallSound
<1> QED
  BY <1>2, <1>3, CallOnly

\* A request that answers, with the tables as they are.
LEMMA AnswersKeeps ==
  ASSUME IInv, NEW c \in Calls, NEW f \in Draft, Answers(c, f),
         UNCHANGED <<draft, client, vehicle, purchase>>,
         call[c].draft # NULL => Together(f, vehicle)
  PROVE  IInv'
<1>1. TypeOK /\ call[c] \in Call
  BY DEF IInv, TypeOK
<1>2. PICK k \in Call :
        /\ call' = [call EXCEPT ![c] = k]
        /\ IF call[c].draft = NULL THEN k = NoCall ELSE k = Answering(call[c], f)
  BY <1>1, AnswersStep
<1>3. Sound(k, client, vehicle)
  BY <1>1, <1>2, NoCallSound, AnsweringSound
<1> QED
  BY <1>2, <1>3, CallOnly

\* What a request knows of itself.
LEMMA CallFacts ==
  ASSUME IInv, NEW c \in Calls
  PROVE  /\ TypeOK
         /\ call[c] \in Call /\ call[c].copy \in Draft
         /\ Sound(call[c], client, vehicle)
         /\ call[c].copy.client \in Clients \cup {NULL}
         /\ call[c].copy.vehicle \in Vehicles \cup {NULL}
<1>1. call[c] \in Call /\ call[c].copy \in Draft
  BY DEF IInv, TypeOK, Call
<1> QED
  BY <1>1 DEF IInv, CallsSound, Draft

\* The client is looked up.
LEMMA ResolveKeeps ==
  ASSUME IInv, NEW c \in Calls, NEW i \in Clients, Resolve(c, i)
  PROVE  IInv'
<1> DEFINE f == With(c, "client", i)
<1>1. TypeOK /\ call[c] \in Call /\ Sound(call[c], client, vehicle)
  BY CallFacts
<1>2. f \in Draft /\ f.client = i
  BY <1>1, WithStep
<1>3. Sound(At(call[c], "lookupVehicle", f), client, vehicle)
  BY <1>1, <1>2 DEF Sound, At, Call, Resolve, LiveClient, Later
<1>4. "lookupVehicle" \in Steps /\ Goes(c, "lookupVehicle", f)
  BY DEF Steps, Resolve
<1> QED
  BY <1>2, <1>3, <1>4, GoesKeeps DEF Resolve

\* The client is not found.
LEMMA NotResolvedKeeps ==
  ASSUME IInv, NEW c \in Calls, NotResolved(c)
  PROVE  IInv'
<1>1. /\ call[c] \in Call /\ call[c].copy \in Draft
      /\ Sound(call[c], client, vehicle)
  BY CallFacts
<1>2. Sound(At(call[c], "createClient", call[c].copy), client, vehicle)
  BY <1>1 DEF Sound, At, Call, NotResolved, Later
<1>3. "createClient" \in Steps /\ Goes(c, "createClient", call[c].copy)
  BY DEF Steps, NotResolved
<1> QED
  BY <1>1, <1>2, <1>3, GoesKeeps DEF NotResolved

\* The vehicle is looked up.
LEMMA FindVehicleKeeps ==
  ASSUME IInv, NEW c \in Calls, NEW v \in Vehicles, FindVehicle(c, v)
  PROVE  IInv'
<1>1. TypeOK /\ call[c] \in Call /\ Sound(call[c], client, vehicle)
  BY CallFacts
<1>2. /\ With(c, "vehicle", v) \in Draft
      /\ With(c, "vehicle", v).vehicle = v
      /\ With(c, "vehicle", v).client = call[c].copy.client
      /\ With(c, "vehicle", NULL) \in Draft
      /\ With(c, "vehicle", NULL).vehicle = NULL
  BY <1>1, WithStep
<1>3. CASE vehicle[v].client = call[c].copy.client
  <2> DEFINE f == With(c, "vehicle", v)
  <2>1. Sound(At(call[c], "createPurchase", f), client, vehicle)
    BY <1>1, <1>2, <1>3 DEF Sound, At, Call, FindVehicle, LiveVehicle, Later, Together
  <2>2. "createPurchase" \in Steps /\ Goes(c, "createPurchase", f)
    BY <1>3 DEF Steps, FindVehicle
  <2> QED
    BY <1>2, <2>1, <2>2, GoesKeeps DEF FindVehicle
<1>4. CASE vehicle[v].client # call[c].copy.client
  <2>1. Together(With(c, "vehicle", NULL), vehicle)
    BY <1>2 DEF Together
  <2> QED
    BY <1>2, <1>4, <2>1, AnswersKeeps DEF FindVehicle
<1> QED
  BY <1>3, <1>4

\* The vehicle is not found.
LEMMA NoVehicleKeeps ==
  ASSUME IInv, NEW c \in Calls, NoVehicle(c)
  PROVE  IInv'
<1> DEFINE f == With(c, "vehicle", NULL)
<1>1. TypeOK /\ call[c] \in Call /\ Sound(call[c], client, vehicle)
  BY CallFacts
<1>2. f \in Draft /\ f.vehicle = NULL /\ f.client = call[c].copy.client
  BY <1>1, WithStep
<1>3. Sound(At(call[c], "createVehicle", f), client, vehicle)
  BY <1>1, <1>2 DEF Sound, At, Call, NoVehicle, Later, Together
<1>4. "createVehicle" \in Steps /\ Goes(c, "createVehicle", f)
  BY DEF Steps, NoVehicle
<1> QED
  BY <1>2, <1>3, <1>4, GoesKeeps DEF NoVehicle

\* A procedure has read, and goes on to write.
LEMMA BeginKeeps ==
  ASSUME IInv, NEW c \in Calls, BeginVehicleCreate(c) \/ BeginPurchaseCreate(c)
  PROVE  IInv'
<1>1. /\ TypeOK /\ call[c] \in Call /\ call[c].copy \in Draft
      /\ Sound(call[c], client, vehicle)
  BY CallFacts
<1>2. ASSUME NEW step \in Steps, call' = [call EXCEPT ![c].pc = step],
             UNCHANGED <<draft, client, vehicle, purchase>>,
             Sound([call[c] EXCEPT !.pc = step], client, vehicle)
      PROVE  IInv'
  <2> DEFINE k == [call[c] EXCEPT !.pc = step]
  <2>1. k \in Call /\ call' = [call EXCEPT ![c] = k]
    BY <1>1, <1>2 DEF Call, TypeOK
  <2> QED
    BY <1>2, <2>1, CallOnly
<1>3. CASE BeginVehicleCreate(c)
  <2>1. Sound([call[c] EXCEPT !.pc = "insertVehicle"], client, vehicle)
    BY <1>1, <1>3 DEF Sound, Call, BeginVehicleCreate, LiveClient, Later
  <2> QED
    BY <1>2, <1>3, <2>1 DEF BeginVehicleCreate, Steps
<1>4. CASE BeginPurchaseCreate(c)
  <2>1. Sound([call[c] EXCEPT !.pc = "insertPurchase"], client, vehicle)
    BY <1>1, <1>4 DEF Sound, Call, BeginPurchaseCreate, LiveClient, LiveVehicle, Later, Together
  <2> QED
    BY <1>2, <1>4, <2>1 DEF BeginPurchaseCreate, Steps
<1> QED
  BY <1>3, <1>4

\* A procedure refuses or fails.
LEMMA RefusedKeeps ==
  ASSUME IInv, NEW c \in Calls, Refused(c)
  PROVE  IInv'
<1>1. call[c].copy \in Draft /\ Sound(call[c], client, vehicle)
  BY CallFacts
<1>2. call[c].draft # NULL => Together(call[c].copy, vehicle)
  BY <1>1 DEF Sound, Refused
<1> QED
  BY <1>1, <1>2, AnswersKeeps DEF Refused

-----------------------------------------------------------------------------
(* Steps that write a table.                                               *)

\* A request whose procedure has written Clients or Vehicles: it goes on with
\* the row's identifier, or answers without it.
LEMMA WrittenKeeps ==
  ASSUME IInv, NEW c \in Calls, NEW f \in Draft, NEW step \in Steps,
         NEW answered \in BOOLEAN,
         IF answered THEN Goes(c, step, f) ELSE Answers(c, call[c].copy),
         UNCHANGED <<draft, purchase>>,
         client' \in ClientTables, vehicle' \in VehicleTables,
         Grown(client, vehicle, client', vehicle'), NoDuplicates',
         call[c].pc # "lookupVehicle",
         call[c].draft # NULL => Sound(At(call[c], step, f), client', vehicle')
  PROVE  IInv'
<1>1. /\ TypeOK /\ call[c] \in Call /\ call[c].copy \in Draft
      /\ Sound(call[c], client, vehicle)
  BY CallFacts
<1>2. CASE answered
  <2>1. PICK k \in Call :
          /\ call' = [call EXCEPT ![c] = k]
          /\ IF call[c].draft = NULL THEN k = NoCall ELSE k = At(call[c], step, f)
    BY <1>1, <1>2, GoesStep
  <2>2. Sound(k, client', vehicle')
    BY <2>1, NoCallSound
  <2>3. call' \in [Calls -> Call] /\ CallsSound'
    BY <1>1, <2>1, <2>2, CallsStep DEF IInv
  <2>4. TypeOK'
    BY <1>1, <2>3 DEF TypeOK, ClientTables, VehicleTables
  <2> QED
    BY <2>3, <2>4, FactsLast DEF IInv
<1>3. CASE ~answered
  <2>1. PICK k \in Call :
          /\ call' = [call EXCEPT ![c] = k]
          /\ IF call[c].draft = NULL THEN k = NoCall
                                     ELSE k = Answering(call[c], call[c].copy)
    BY <1>1, <1>3, AnswersStep
  <2>2. call[c].draft # NULL => Together(call[c].copy, vehicle')
    BY <1>1, TogetherLasts DEF Sound
  <2>3. Sound(k, client', vehicle')
    BY <1>1, <2>1, <2>2, NoCallSound, AnsweringSound
  <2>4. call' \in [Calls -> Call] /\ CallsSound'
    BY <1>1, <2>1, <2>3, CallsStep DEF IInv
  <2>5. TypeOK'
    BY <1>1, <2>4 DEF TypeOK, ClientTables, VehicleTables
  <2> QED
    BY <2>4, <2>5, FactsLast DEF IInv
<1> QED
  BY <1>2, <1>3

\* A client is inserted.
LEMMA CreateClientKeeps ==
  ASSUME IInv, NEW c \in Calls, NEW i \in Clients, NEW a \in BOOLEAN, CreateClient(c, i, a)
  PROVE  IInv'
<1> DEFINE f == With(c, "client", i)
           row == [idNo |-> call[c].idNo, deleted |-> FALSE]
<1>1. TypeOK /\ call[c] \in Call /\ Sound(call[c], client, vehicle)
  BY CallFacts
<1>2. call[c].idNo \in IdNos /\ row \in ClientRow /\ row # NULL
  <2>1. call[c].idNo \in IdNos
    BY <1>1 DEF Sound, CreateClient, Call
  <2>2. row \in ClientRow
    BY <2>1 DEF ClientRow
  <2> QED
    BY <2>1, <2>2, WizardAssumption
<1>3. /\ client' \in ClientTables /\ vehicle' \in VehicleTables
      /\ client'[i] = row
      /\ \A j \in Clients : j # i => client'[j] = client[j]
  BY <1>1, <1>2 DEF CreateClient, TypeOK, ClientTables, VehicleTables
<1>4. Grown(client, vehicle, client', vehicle')
  BY <1>3 DEF Grown, CreateClient
<1>5. NoDuplicates'
  <2>1. ASSUME NEW j \in Clients, NEW k \in Clients, client'[j] # NULL, client'[k] # NULL,
               client'[j].idNo = client'[k].idNo
        PROVE  j = k
    BY <1>3, <2>1 DEF CreateClient, IdNoTaken, IInv, NoDuplicates
  <2> QED
    BY <2>1 DEF CreateClient, IInv, NoDuplicates
<1>6. f \in Draft /\ f.client = i /\ f.vehicle = call[c].copy.vehicle
  BY <1>1, WithStep
<1>7. Sound(At(call[c], "lookupVehicle", f), client', vehicle')
      \/ call[c].draft = NULL
  BY <1>1, <1>2, <1>3, <1>6, WizardAssumption DEF Sound, At, Call, CreateClient, Later
<1> QED
  BY <1>3, <1>4, <1>5, <1>6, <1>7, WrittenKeeps DEF CreateClient, Steps

\* A vehicle is inserted.
LEMMA CreateVehicleKeeps ==
  ASSUME IInv, NEW c \in Calls, NEW v \in Vehicles, NEW a \in BOOLEAN, CreateVehicle(c, v, a)
  PROVE  IInv'
<1> DEFINE f == With(c, "vehicle", v)
           row == [regNo |-> call[c].regNo, client |-> call[c].copy.client, deleted |-> FALSE]
<1>1. /\ TypeOK /\ call[c] \in Call /\ Sound(call[c], client, vehicle)
      /\ call[c].copy.client \in Clients \cup {NULL}
  BY CallFacts
<1>2. row \in VehicleRow /\ row # NULL /\ row.client = call[c].copy.client
  <2>1. call[c].regNo \in RegNos /\ call[c].copy.client \in Clients
    BY <1>1 DEF Sound, CreateVehicle, Call
  <2>2. row \in VehicleRow
    BY <2>1 DEF VehicleRow
  <2> QED
    BY <2>2, WizardAssumption
<1>3. /\ client' \in ClientTables /\ vehicle' \in VehicleTables
      /\ vehicle'[v] = row
      /\ \A w \in Vehicles : w # v => vehicle'[w] = vehicle[w]
  BY <1>1, <1>2 DEF CreateVehicle, TypeOK, ClientTables, VehicleTables
<1>4. Grown(client, vehicle, client', vehicle')
  BY <1>3 DEF Grown, CreateVehicle
<1>5. NoDuplicates'
  <2>1. ASSUME NEW w \in Vehicles, NEW x \in Vehicles, vehicle'[w] # NULL, vehicle'[x] # NULL,
               vehicle'[w].regNo = vehicle'[x].regNo
        PROVE  w = x
    BY <1>3, <2>1 DEF CreateVehicle, RegNoTaken, IInv, NoDuplicates
  <2> QED
    BY <2>1 DEF CreateVehicle, IInv, NoDuplicates
<1>6. f \in Draft /\ f.vehicle = v /\ f.client = call[c].copy.client
  BY <1>1, WithStep
<1>7. Together(f, vehicle')
  BY <1>2, <1>3, <1>6 DEF Together
<1>8. Sound(At(call[c], "createPurchase", f), client', vehicle')
  <2>1. Sound(call[c], client', vehicle')
    BY <1>1, <1>4, SoundLasts
  <2> QED
    BY <1>1, <1>6, <1>7, <2>1 DEF Sound, At, Call, CreateVehicle, Later
<1> QED
  BY <1>3, <1>4, <1>5, <1>6, <1>8, WrittenKeeps DEF CreateVehicle, Steps

\* A purchase is inserted.
LEMMA CreatePurchaseKeeps ==
  ASSUME IInv, NEW c \in Calls, NEW p \in Purchases, CreatePurchase(c, p)
  PROVE  IInv'
<1> DEFINE row == [client |-> call[c].copy.client, vehicle |-> call[c].copy.vehicle,
                   asked |-> call[c].idNo]
<1>1. /\ TypeOK /\ call[c] \in Call /\ call[c].copy \in Draft
      /\ Sound(call[c], client, vehicle)
      /\ call[c].copy.client \in Clients \cup {NULL}
      /\ call[c].copy.vehicle \in Vehicles \cup {NULL}
  BY CallFacts
<1>2. Together(call[c].copy, vehicle) /\ call[c].copy.client \in Clients
  BY <1>1 DEF Sound, CreatePurchase
<1>3. call[c].idNo # NULL => /\ client[call[c].copy.client] # NULL
                             /\ client[call[c].copy.client].idNo = call[c].idNo
  BY <1>1 DEF Sound, CreatePurchase, Later
<1>4. row \in PurchaseRow
  BY <1>1, <1>2 DEF PurchaseRow, Call
<1>5. /\ purchase' \in [Purchases -> PurchaseRow \cup {NULL}]
      /\ purchase'[p] = row
      /\ \A q \in Purchases : q # p => purchase'[q] = purchase[q]
  BY <1>1, <1>4 DEF CreatePurchase, TypeOK
<1>6. PICK k \in Call :
        /\ call' = [call EXCEPT ![c] = k]
        /\ IF call[c].draft = NULL THEN k = NoCall
                                   ELSE k = Answering(call[c], call[c].copy)
  BY <1>1, AnswersStep DEF CreatePurchase
<1>7. Sound(k, client', vehicle')
  BY <1>1, <1>2, <1>6, NoCallSound, AnsweringSound DEF CreatePurchase
<1>8. call' \in [Calls -> Call] /\ CallsSound'
  BY <1>1, <1>6, <1>7, GrownStays, CallsStep DEF CreatePurchase, IInv
<1>9. TypeOK'
  BY <1>1, <1>5, <1>8 DEF TypeOK, CreatePurchase
<1>10. BuyerOwnsVehicle'
  <2>1. ASSUME NEW q \in Purchases, purchase'[q] # NULL, purchase'[q].vehicle # NULL
        PROVE  /\ vehicle[purchase'[q].vehicle] # NULL
               /\ vehicle[purchase'[q].vehicle].client = purchase'[q].client
    BY <1>2, <1>5, <2>1 DEF IInv, BuyerOwnsVehicle, Together
  <2> QED
    BY <2>1 DEF BuyerOwnsVehicle, CreatePurchase
<1>11. BuyerIsNamed'
  <2>1. ASSUME NEW q \in Purchases, purchase'[q] # NULL, purchase'[q].asked # NULL
        PROVE  /\ client[purchase'[q].client] # NULL
               /\ client[purchase'[q].client].idNo = purchase'[q].asked
    BY <1>3, <1>5, <2>1 DEF IInv, BuyerIsNamed
  <2> QED
    BY <2>1 DEF BuyerIsNamed, CreatePurchase
<1>12. NoDuplicates' /\ DraftHangsTogether'
  BY DEF IInv, CreatePurchase, NoDuplicates, DraftHangsTogether
<1> QED
  BY <1>8, <1>9, <1>10, <1>11, <1>12 DEF IInv

\* Tables change under the requests, which stay.
LEMMA TablesKeep ==
  ASSUME IInv, UNCHANGED <<draft, call, purchase>>,
         client' \in ClientTables, vehicle' \in VehicleTables,
         Grown(client, vehicle, client', vehicle'), NoDuplicates'
  PROVE  IInv'
<1>1. call' \in [Calls -> Call] /\ CallsSound'
  BY CallsStay DEF IInv
<1>2. TypeOK'
  BY <1>1 DEF IInv, TypeOK, ClientTables, VehicleTables
<1> QED
  BY <1>1, <1>2, FactsLast DEF IInv

\* A client is deleted.
LEMMA DeleteClientKeeps ==
  ASSUME IInv, NEW i \in Clients, DeleteClient(i)
  PROVE  IInv'
<1> DEFINE row == [client[i] EXCEPT !.deleted = TRUE]
<1>1. client[i] \in ClientRow
  BY DEF IInv, TypeOK, DeleteClient, LiveClient
<1>2. row \in ClientRow /\ row # NULL /\ row.idNo = client[i].idNo
  BY <1>1, WizardAssumption DEF ClientRow
<1>3. /\ client' \in ClientTables /\ vehicle' \in VehicleTables
      /\ client'[i] = row
      /\ \A j \in Clients : j # i => client'[j] = client[j]
  BY <1>2 DEF DeleteClient, IInv, TypeOK, ClientTables, VehicleTables
<1>4. Grown(client, vehicle, client', vehicle')
  BY <1>2, <1>3 DEF Grown, DeleteClient
<1>5. NoDuplicates'
  <2>1. ASSUME NEW j \in Clients, NEW k \in Clients, client'[j] # NULL, client'[k] # NULL,
               client'[j].idNo = client'[k].idNo
        PROVE  j = k
    <3>1. \A h \in Clients : client'[h] # NULL =>
            client[h] # NULL /\ client'[h].idNo = client[h].idNo
      BY <1>2, <1>3 DEF DeleteClient, LiveClient
    <3> QED
      BY <2>1, <3>1 DEF IInv, NoDuplicates
  <2> QED
    BY <2>1 DEF DeleteClient, IInv, NoDuplicates
<1> QED
  BY <1>3, <1>4, <1>5, TablesKeep DEF DeleteClient

\* A vehicle is deleted, or gets another registration number.
LEMMA ChangeVehicleKeeps ==
  ASSUME IInv, NEW v \in Vehicles,
         DeleteVehicle(v) \/ \E r \in RegNos : UpdateVehicle(v, r)
  PROVE  IInv'
<1>1. vehicle[v] \in VehicleRow /\ vehicle[v] # NULL
  BY DEF IInv, TypeOK, DeleteVehicle, UpdateVehicle, LiveVehicle
<1>2. ASSUME NEW row \in VehicleRow, row.client = vehicle[v].client,
             vehicle' = [vehicle EXCEPT ![v] = row],
             row.regNo = vehicle[v].regNo \/ ~RegNoTaken(row.regNo),
             UNCHANGED <<draft, call, client, purchase>>
      PROVE  IInv'
  <2>1. /\ client' \in ClientTables /\ vehicle' \in VehicleTables
        /\ vehicle'[v] = row /\ row # NULL
        /\ \A w \in Vehicles : w # v => vehicle'[w] = vehicle[w]
    BY <1>2, WizardAssumption DEF IInv, TypeOK, ClientTables, VehicleTables
  <2>2. Grown(client, vehicle, client', vehicle')
    BY <1>2, <2>1 DEF Grown
  <2>3. NoDuplicates'
    <3>1. ASSUME NEW w \in Vehicles, NEW x \in Vehicles, vehicle'[w] # NULL, vehicle'[x] # NULL,
                 vehicle'[w].regNo = vehicle'[x].regNo
          PROVE  w = x
      BY <1>1, <1>2, <2>1, <3>1 DEF RegNoTaken, IInv, NoDuplicates
    <3> QED
      BY <1>2, <3>1 DEF IInv, NoDuplicates
  <2> QED
    BY <1>2, <2>1, <2>2, <2>3, TablesKeep
<1>3. CASE DeleteVehicle(v)
  <2> DEFINE row == [vehicle[v] EXCEPT !.deleted = TRUE]
  <2>1. row \in VehicleRow /\ row.client = vehicle[v].client /\ row.regNo = vehicle[v].regNo
    BY <1>1 DEF VehicleRow
  <2>2. vehicle' = [vehicle EXCEPT ![v] = row]
    BY <1>3 DEF DeleteVehicle
  <2> QED
    BY <1>2, <1>3, <2>1, <2>2 DEF DeleteVehicle
<1>4. ASSUME NEW r \in RegNos, UpdateVehicle(v, r) PROVE IInv'
  <2> DEFINE row == [vehicle[v] EXCEPT !.regNo = r]
  <2>1. row \in VehicleRow /\ row.client = vehicle[v].client /\ row.regNo = r
    BY <1>1 DEF VehicleRow
  <2>2. vehicle' = [vehicle EXCEPT ![v] = row] /\ ~RegNoTaken(row.regNo)
    BY <1>4, <2>1 DEF UpdateVehicle
  <2> QED
    BY <1>2, <1>4, <2>1, <2>2 DEF UpdateVehicle
<1> QED
  BY <1>3, <1>4

-----------------------------------------------------------------------------
(* The specification.                                                      *)

\* The invariant holds at first.
LEMMA InitIInv == Init => IInv
<1> SUFFICES ASSUME Init PROVE IInv
  OBVIOUS
<1>1. NewDraft \in Draft /\ NewDraft.vehicle = NULL
  BY DEF NewDraft, Draft
<1>2. NoCall \in Call /\ Sound(NoCall, client, vehicle)
  BY NoCallSound
<1>3. TypeOK /\ CallsSound
  BY <1>1, <1>2 DEF Init, TypeOK, CallsSound
<1>4. NoDuplicates /\ BuyerOwnsVehicle /\ BuyerIsNamed
  BY DEF Init, NoDuplicates, BuyerOwnsVehicle, BuyerIsNamed
<1>5. DraftHangsTogether
  BY <1>1 DEF Init, DraftHangsTogether
<1> QED
  BY <1>3, <1>4, <1>5 DEF IInv

\* Every step keeps the invariant.
LEMMA NextIInv == IInv /\ [Next]_vars => IInv'
<1> SUFFICES ASSUME IInv, [Next]_vars PROVE IInv'
  OBVIOUS
<1>1. ASSUME NEW c \in Calls, Browser(c) PROVE IInv'
  BY <1>1, BrowserSends, AnswerKeeps, AbandonKeeps DEF Browser
<1>2. ASSUME NEW c \in Calls, Serve(c) PROVE IInv'
  BY <1>2, ResolveKeeps, NotResolvedKeeps, CreateClientKeeps, FindVehicleKeeps,
     NoVehicleKeeps, BeginKeeps, CreateVehicleKeeps, CreatePurchaseKeeps, RefusedKeeps
     DEF Serve
<1>3. CASE Others
  BY <1>3, ApiSends, DeleteClientKeeps, ChangeVehicleKeeps DEF Others
<1>4. CASE UNCHANGED vars
  BY <1>4 DEF vars, IInv, TypeOK, CallsSound, NoDuplicates, BuyerOwnsVehicle,
     BuyerIsNamed, DraftHangsTogether
<1> QED
  BY <1>1, <1>2, <1>3, <1>4 DEF Next

\* The invariant always holds.
THEOREM Invariance == Spec => []IInv
BY InitIInv, NextIInv, PTL DEF Spec

\* Every row, draft and request is of its kind: no procedure inserts a row
\* without the identifiers it needs.
THEOREM Typing == Spec => []TypeOK
<1>1. IInv => TypeOK
  BY DEF IInv
<1> QED
  BY <1>1, Invariance, PTL

\* One person is one client and one car one vehicle.
THEOREM Unique == Spec => []NoDuplicates
<1>1. IInv => NoDuplicates
  BY DEF IInv
<1> QED
  BY <1>1, Invariance, PTL

\* Nobody insures the car of somebody else.
THEOREM OwnVehicle == Spec => []BuyerOwnsVehicle
<1>1. IInv => BuyerOwnsVehicle
  BY DEF IInv
<1> QED
  BY <1>1, Invariance, PTL

\* The wizard buys for the person on its form.
THEOREM NamedBuyer == Spec => []BuyerIsNamed
<1>1. IInv => BuyerIsNamed
  BY DEF IInv
<1> QED
  BY <1>1, Invariance, PTL

\* The client and the vehicle of a draft belong together.
THEOREM Consistent == Spec => []DraftHangsTogether
<1>1. IInv => DraftHangsTogether
  BY DEF IInv
<1> QED
  BY <1>1, Invariance, PTL
=============================================================================
