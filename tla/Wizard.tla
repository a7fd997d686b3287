------------------------------- MODULE Wizard -------------------------------
(***************************************************************************)
(* The purchase wizard of the admin portal and what it writes: the client, *)
(* the vehicle and the purchase of one policy, by separate calls to the    *)
(* API, with a draft between the steps that lives in a cookie.             *)
(*                                                                         *)
(* A request carries the draft the browser had when it was sent and the    *)
(* response puts its own copy back, so of two requests under way (two      *)
(* tabs, Back, a reload) the last response wins.  The channels and the     *)
(* mobile application reach the same three procedures without a draft.     *)
(*                                                                         *)
(* An answer that is lost leaves the row it reports: the next attempt must *)
(* find it, which is what the identity number, the registration number and *)
(* their unique keys are for.                                              *)
(***************************************************************************)

CONSTANTS
  Drafts,         \* one for each browser with the wizard open
  Calls,          \* requests that can be under way at once
  IdNos,          \* identity numbers of people
  RegNos,         \* registration numbers of cars
  Clients, Vehicles, Purchases,   \* identifiers of rows
  Quotes,         \* an underwriter and its premium
  NULL

ClientRow   == [idNo : IdNos, deleted : BOOLEAN]
VehicleRow  == [regNo : RegNos, client : Clients, deleted : BOOLEAN]

\* asked is the identity number on the form, for a purchase of the wizard.
PurchaseRow == [client : Clients, vehicle : Vehicles \cup {NULL}, asked : IdNos \cup {NULL}]

ASSUME WizardAssumption ==
  /\ NULL \notin Drafts \cup IdNos \cup RegNos \cup Clients \cup Vehicles \cup Quotes
  /\ NULL \notin ClientRow /\ NULL \notin VehicleRow /\ NULL \notin PurchaseRow

VARIABLES
  draft,          \* PurchaseWizardDraft, as the browser's cookie holds it
  call,           \* the requests under way
  client,         \* Clients
  vehicle,        \* Vehicles
  purchase        \* Purchases

vars == <<draft, call, client, vehicle, purchase>>

Steps == {"resolve", "createClient", "lookupVehicle", "createVehicle", "insertVehicle",
          "createPurchase", "insertPurchase", "answer"}

\* The quote is "compared" when a comparison is there and no choice yet.
\* PurchaseId is left out: it opens the pages of steps 3 and 4 only.
Draft == [quote : Quotes \cup {"compared", NULL}, client : Clients \cup {NULL},
          vehicle : Vehicles \cup {NULL}]

NewDraft == [quote |-> NULL, client |-> NULL, vehicle |-> NULL]

\* draft is NULL for a request that is not the wizard's.
Call == [pc : Steps \cup {"idle"}, draft : Drafts \cup {NULL}, copy : Draft,
         idNo : IdNos \cup {NULL}, regNo : RegNos \cup {NULL}]

NoCall == [pc |-> "idle", draft |-> NULL, copy |-> NewDraft, idNo |-> NULL, regNo |-> NULL]

TypeOK ==
  /\ draft \in [Drafts -> Draft]
  /\ call \in [Calls -> Call]
  /\ client \in [Clients -> ClientRow \cup {NULL}]
  /\ vehicle \in [Vehicles -> VehicleRow \cup {NULL}]
  /\ purchase \in [Purchases -> PurchaseRow \cup {NULL}]

-----------------------------------------------------------------------------
(* Tables.                                                                 *)

LiveClient(i)  == i # NULL /\ client[i] # NULL /\ ~client[i].deleted
LiveVehicle(v) == v # NULL /\ vehicle[v] # NULL /\ ~vehicle[v].deleted

\* uq_clients_id_no and uq_vehicles_reg_no: deleted rows keep their number.
IdNoTaken(n)  == \E i \in Clients : client[i] # NULL /\ client[i].idNo = n
RegNoTaken(r) == \E v \in Vehicles : vehicle[v] # NULL /\ vehicle[v].regNo = r

\* The response, with this copy of the draft: only the wizard's holds one.
Answers(c, copy) ==
  call' = [call EXCEPT ![c] =
    IF call[c].draft = NULL THEN NoCall
    ELSE [NoCall EXCEPT !.pc = "answer", !.draft = call[c].draft, !.copy = copy]]

\* The wizard goes on to a step; the other callers want the one procedure only.
Goes(c, step, copy) ==
  IF call[c].draft = NULL THEN Answers(c, copy)
  ELSE call' = [call EXCEPT ![c].pc = step, ![c].copy = copy]

With(c, field, value) == [call[c].copy EXCEPT ![field] = value]

-----------------------------------------------------------------------------
(* The browser.                                                            *)

Send(c, d, step, copy, n, r) ==
  /\ call[c].pc = "idle"
  /\ call' = [call EXCEPT ![c] =
       [pc |-> step, draft |-> d, copy |-> copy, idNo |-> n, regNo |-> r]]
  /\ UNCHANGED <<draft, client, vehicle, purchase>>

\* A page of the wizard, or a form it refuses: the draft is kept as it is.
Visit(c, d) == Send(c, d, "answer", draft[d], NULL, NULL)

\* Step1 with reset, and Finish.
Reset(c, d) == Send(c, d, "answer", NewDraft, NULL, NULL)

\* Step1Generate: another comparison, and no choice yet.
Step1Generate(c, d) ==
  Send(c, d, "answer", [draft[d] EXCEPT !.quote = "compared"], NULL, NULL)

\* Step1Next: the choice that the page posts.
Step1Next(c, d, q) ==
  /\ draft[d].quote # NULL
  /\ Send(c, d, "answer", [draft[d] EXCEPT !.quote = q], NULL, NULL)

\* Step2Next: the form names a person and a car.
Step2Next(c, d, n, r) ==
  /\ draft[d].quote \in Quotes
  /\ Send(c, d, "resolve", draft[d], n, r)

\* The response reaches the browser, with the draft of the request.
Answer(c) ==
  /\ call[c].pc = "answer"
  /\ draft' = [draft EXCEPT ![call[c].draft] = call[c].copy]
  /\ call' = [call EXCEPT ![c] = NoCall]
  /\ UNCHANGED <<client, vehicle, purchase>>

\* An exception, a restart, a closed tab: no response, no draft.
Abandon(c) ==
  /\ call[c].pc # "idle"
  /\ call' = [call EXCEPT ![c] = NoCall]
  /\ UNCHANGED <<draft, client, vehicle, purchase>>

-----------------------------------------------------------------------------
(* Step2Next: resolve or create the client, look up or create the vehicle, *)
(* create the purchase.                                                    *)

\* Mutant: the client of the draft, if it has one, saves the look-up.
ResolveOnce(c, i) ==
  /\ call[c].pc = "resolve"
  /\ LiveClient(i)
  /\ IF call[c].copy.client # NULL THEN i = call[c].copy.client
                                   ELSE client[i].idNo = call[c].idNo
  /\ Goes(c, "lookupVehicle", With(c, "client", i))
  /\ UNCHANGED <<draft, client, vehicle, purchase>>

Resolve(c, i) ==
  /\ call[c].pc = "resolve"
  /\ LiveClient(i) /\ client[i].idNo = call[c].idNo
  /\ Goes(c, "lookupVehicle", With(c, "client", i))
  /\ UNCHANGED <<draft, client, vehicle, purchase>>

\* Nobody has the number, or the look-up failed.
NotResolved(c) ==
  /\ call[c].pc = "resolve"
  /\ Goes(c, "createClient", call[c].copy)
  /\ UNCHANGED <<draft, client, vehicle, purchase>>

\* Mutant: a key over id_no and isdeleted, with the procedure's own look for a
\* live row in place of it.
CreateClientUnlessLive(c, i, answered) ==
  /\ call[c].pc = "createClient"
  /\ client[i] = NULL
  /\ ~\E j \in Clients : LiveClient(j) /\ client[j].idNo = call[c].idNo
  /\ client' = [client EXCEPT ![i] = [idNo |-> call[c].idNo, deleted |-> FALSE]]
  /\ IF answered THEN Goes(c, "lookupVehicle", With(c, "client", i))
                 ELSE Answers(c, call[c].copy)
  /\ UNCHANGED <<draft, vehicle, purchase>>

\* usp_Client_Create.  Its own look for a live row decides on the message only:
\* the key refuses what it lets through.
CreateClient(c, i, answered) ==
  /\ call[c].pc = "createClient"
  /\ client[i] = NULL
  /\ ~IdNoTaken(call[c].idNo)
  /\ client' = [client EXCEPT ![i] = [idNo |-> call[c].idNo, deleted |-> FALSE]]
  /\ IF answered THEN Goes(c, "lookupVehicle", With(c, "client", i))
                 ELSE Answers(c, call[c].copy)
  /\ UNCHANGED <<draft, vehicle, purchase>>

\* Mutant: a conflict leaves the vehicle of an earlier attempt in the draft.
FindVehicleKeepsDraft(c, v) ==
  /\ call[c].pc = "lookupVehicle"
  /\ LiveVehicle(v) /\ vehicle[v].regNo = call[c].regNo
  /\ IF vehicle[v].client = call[c].copy.client
       THEN Goes(c, "createPurchase", With(c, "vehicle", v))
       ELSE Answers(c, call[c].copy)
  /\ UNCHANGED <<draft, client, vehicle, purchase>>

\* The car is on file: its owner must be the client.
FindVehicle(c, v) ==
  /\ call[c].pc = "lookupVehicle"
  /\ LiveVehicle(v) /\ vehicle[v].regNo = call[c].regNo
  /\ IF vehicle[v].client = call[c].copy.client
       THEN Goes(c, "createPurchase", With(c, "vehicle", v))
       ELSE Answers(c, With(c, "vehicle", NULL))
  /\ UNCHANGED <<draft, client, vehicle, purchase>>

\* It is not, or the look-up failed.
NoVehicle(c) ==
  /\ call[c].pc = "lookupVehicle"
  /\ Goes(c, "createVehicle", With(c, "vehicle", NULL))
  /\ UNCHANGED <<draft, client, vehicle, purchase>>

\* usp_Vehicle_Create reads before its transaction ...
BeginVehicleCreate(c) ==
  /\ call[c].pc = "createVehicle"
  /\ LiveClient(call[c].copy.client)
  /\ ~\E v \in Vehicles : LiveVehicle(v) /\ vehicle[v].regNo = call[c].regNo
  /\ call' = [call EXCEPT ![c].pc = "insertVehicle"]
  /\ UNCHANGED <<draft, client, vehicle, purchase>>

\* Mutant: the owner is left out of the new row.
CreateVehicleOfNobody(c, v, answered) ==
  /\ call[c].pc = "insertVehicle"
  /\ vehicle[v] = NULL
  /\ ~RegNoTaken(call[c].regNo)
  /\ vehicle' = [vehicle EXCEPT ![v] =
       [regNo |-> call[c].regNo, client |-> NULL, deleted |-> FALSE]]
  /\ IF answered THEN Goes(c, "createPurchase", With(c, "vehicle", v))
                 ELSE Answers(c, call[c].copy)
  /\ UNCHANGED <<draft, client, purchase>>

\* ... and inserts, unless the key objects.
CreateVehicle(c, v, answered) ==
  /\ call[c].pc = "insertVehicle"
  /\ vehicle[v] = NULL
  /\ ~RegNoTaken(call[c].regNo)
  /\ vehicle' = [vehicle EXCEPT ![v] =
       [regNo |-> call[c].regNo, client |-> call[c].copy.client, deleted |-> FALSE]]
  /\ IF answered THEN Goes(c, "createPurchase", With(c, "vehicle", v))
                 ELSE Answers(c, call[c].copy)
  /\ UNCHANGED <<draft, client, purchase>>

\* Mutant: any vehicle that exists will do.
BeginPurchaseOfAnyVehicle(c) ==
  LET i == call[c].copy.client
      v == call[c].copy.vehicle
  IN  /\ call[c].pc = "createPurchase"
      /\ LiveClient(i)
      /\ v # NULL => LiveVehicle(v)
      /\ call' = [call EXCEPT ![c].pc = "insertPurchase"]
      /\ UNCHANGED <<draft, client, vehicle, purchase>>

\* usp_Purchase_Create reads before its transaction ...
BeginPurchaseCreate(c) ==
  LET i == call[c].copy.client
      v == call[c].copy.vehicle
  IN  /\ call[c].pc = "createPurchase"
      /\ LiveClient(i)
      /\ v # NULL => LiveVehicle(v) /\ vehicle[v].client = i
      /\ call' = [call EXCEPT ![c].pc = "insertPurchase"]
      /\ UNCHANGED <<draft, client, vehicle, purchase>>

\* ... and inserts, whether the answer arrives or not.
CreatePurchase(c, p) ==
  /\ call[c].pc = "insertPurchase"
  /\ purchase[p] = NULL
  /\ purchase' = [purchase EXCEPT ![p] =
       [client |-> call[c].copy.client, vehicle |-> call[c].copy.vehicle,
        asked |-> call[c].idNo]]
  /\ Answers(c, call[c].copy)
  /\ UNCHANGED <<draft, client, vehicle>>

\* A procedure refuses or fails: the form again, with the draft as far as it got.
Refused(c) ==
  /\ call[c].pc \in {"createClient", "createVehicle", "insertVehicle",
                     "createPurchase", "insertPurchase"}
  /\ Answers(c, call[c].copy)
  /\ UNCHANGED <<draft, client, vehicle, purchase>>

-----------------------------------------------------------------------------
(* The other callers of the API.                                           *)

\* POST /api/clients and self-registration, POST /api/clients/{id}/vehicles
\* and POST /api/purchases, with identifiers of rows that exist: the procedures
\* refuse all others.
ApiCreateClient(c, n) == Send(c, NULL, "createClient", NewDraft, n, NULL)

ApiCreateVehicle(c, i, r) ==
  /\ client[i] # NULL
  /\ Send(c, NULL, "createVehicle", [NewDraft EXCEPT !.client = i], NULL, r)

ApiCreatePurchase(c, i, v) ==
  /\ client[i] # NULL
  /\ v # NULL => vehicle[v] # NULL
  /\ Send(c, NULL, "createPurchase", [NewDraft EXCEPT !.client = i, !.vehicle = v], NULL, NULL)

\* usp_Client_Delete
DeleteClient(i) ==
  /\ LiveClient(i)
  /\ client' = [client EXCEPT ![i].deleted = TRUE]
  /\ UNCHANGED <<draft, call, vehicle, purchase>>

\* usp_Vehicle_Delete
DeleteVehicle(v) ==
  /\ LiveVehicle(v)
  /\ vehicle' = [vehicle EXCEPT ![v].deleted = TRUE]
  /\ UNCHANGED <<draft, call, client, purchase>>

\* usp_Vehicle_Update with another registration number.  The row was live when
\* the procedure read it; it writes whatever has become of it.
UpdateVehicle(v, r) ==
  /\ vehicle[v] # NULL
  /\ ~RegNoTaken(r)
  /\ vehicle' = [vehicle EXCEPT ![v].regNo = r]
  /\ UNCHANGED <<draft, call, client, purchase>>

-----------------------------------------------------------------------------
Init ==
  /\ draft = [d \in Drafts |-> NewDraft]
  /\ call = [c \in Calls |-> NoCall]
  /\ client = [i \in Clients |-> NULL]
  /\ vehicle = [v \in Vehicles |-> NULL]
  /\ purchase = [p \in Purchases |-> NULL]

Browser(c) ==
  \/ \E d \in Drafts : Visit(c, d) \/ Reset(c, d) \/ Step1Generate(c, d)
  \/ \E d \in Drafts, q \in Quotes : Step1Next(c, d, q)
  \/ \E d \in Drafts, n \in IdNos, r \in RegNos : Step2Next(c, d, n, r)
  \/ Answer(c) \/ Abandon(c)

Serve(c) ==
  \/ \E i \in Clients : Resolve(c, i)
  \/ NotResolved(c)
  \/ \E i \in Clients, a \in BOOLEAN : CreateClient(c, i, a)
  \/ \E v \in Vehicles : FindVehicle(c, v)
  \/ NoVehicle(c)
  \/ BeginVehicleCreate(c)
  \/ \E v \in Vehicles, a \in BOOLEAN : CreateVehicle(c, v, a)
  \/ BeginPurchaseCreate(c)
  \/ \E p \in Purchases : CreatePurchase(c, p)
  \/ Refused(c)

Others ==
  \/ \E c \in Calls, n \in IdNos : ApiCreateClient(c, n)
  \/ \E c \in Calls, i \in Clients, r \in RegNos : ApiCreateVehicle(c, i, r)
  \/ \E c \in Calls, i \in Clients, v \in Vehicles \cup {NULL} : ApiCreatePurchase(c, i, v)
  \/ \E i \in Clients : DeleteClient(i)
  \/ \E v \in Vehicles : DeleteVehicle(v)
  \/ \E v \in Vehicles, r \in RegNos : UpdateVehicle(v, r)

Next == (\E c \in Calls : Browser(c) \/ Serve(c)) \/ Others

Spec == Init /\ [][Next]_vars

-----------------------------------------------------------------------------
(* Properties.                                                             *)

\* One person is one client and one car one vehicle, whatever is retried,
\* doubled or answered too late (usp_Client_Create, usp_Vehicle_Create and
\* usp_Vehicle_Update with their keys).
NoDuplicates ==
  /\ \A i, j \in Clients :
       client[i] # NULL /\ client[j] # NULL /\ client[i].idNo = client[j].idNo => i = j
  /\ \A v, w \in Vehicles :
       vehicle[v] # NULL /\ vehicle[w] # NULL /\ vehicle[v].regNo = vehicle[w].regNo => v = w

\* Nobody insures the car of somebody else (the tests of Step2Next and of
\* usp_Purchase_Create).
BuyerOwnsVehicle ==
  \A p \in Purchases :
    purchase[p] # NULL /\ purchase[p].vehicle # NULL =>
      /\ vehicle[purchase[p].vehicle] # NULL
      /\ vehicle[purchase[p].vehicle].client = purchase[p].client

\* The wizard buys for the person on the form it was sent, whatever another
\* tab has left in the draft (Step2Next resolves the client each time).
BuyerIsNamed ==
  \A p \in Purchases :
    purchase[p] # NULL /\ purchase[p].asked # NULL =>
      /\ client[purchase[p].client] # NULL
      /\ client[purchase[p].client].idNo = purchase[p].asked

\* The client and the vehicle that a draft remembers belong together, after any
\* failure half-way and any order of responses (Step2Next clears VehicleId
\* before it looks the vehicle up).
DraftHangsTogether ==
  \A d \in Drafts :
    draft[d].vehicle # NULL =>
      /\ vehicle[draft[d].vehicle] # NULL
      /\ vehicle[draft[d].vehicle].client = draft[d].client
=============================================================================
