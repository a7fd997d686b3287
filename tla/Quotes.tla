------------------------------ MODULE Quotes ------------------------------
(***************************************************************************)
(* Quote requests, the offers the back office uploads for them, and the    *)
(* purchases that convert them: QuoteRequests, QuoteOffers and             *)
(* Purchases.quote_offer_id.                                               *)
(*                                                                         *)
(* Every procedure looks at the row it is about to change BEFORE its       *)
(* transaction starts, so it is a Begin action and an action for the       *)
(* transaction.  The transaction is one action, except that of Delete,     *)
(* Reject and Expire, which is three: its UPDATE of the offer takes the    *)
(* row lock of that offer and keeps it to the end, the plain SELECT        *)
(* COUNT( * ) of the request's ACTIVE offers that follows opens the        *)
(* REPEATABLE READ snapshot and sees what others have committed by then    *)
(* and no more, and the UPDATE of the request and the COMMIT act on that   *)
(* count.                                                                  *)
(***************************************************************************)
EXTENDS FiniteSets

CONSTANTS
  Requests,   \* quote_request_id
  Offers,     \* quote_offer_id
  Purchases,  \* purchase_id
  Sessions,   \* calls in progress at the same time
  Terms,      \* an offer's premium, underwriter and document
  Null        \* SQL NULL

ASSUME NullAssumption == Null \notin Requests \cup Offers \cup Purchases \cup Terms

VARIABLES
  request,   \* QuoteRequests.status
  offer,     \* rows of QuoteOffers
  purchase,  \* Purchases.quote_offer_id
  picked,    \* offers with a SELECT entry in AuditLog
  session    \* procedures in progress

vars == <<request, offer, purchase, picked, session>>

RequestStatus == {"none", "PENDING", "IN_PROGRESS", "QUOTED", "EXPIRED", "CONVERTED"}
OfferStatus == {"ACTIVE", "SELECTED", "REJECTED", "EXPIRED"}
Offer == [request : Requests \cup {Null}, status : OfferStatus, deleted : BOOLEAN,
          terms : Terms \cup {Null}]

Retirements == {"delete", "reject", "expire"}
OfferOps == {"update", "select"} \cup Retirements
\* The pc of a retirement that holds its offer's row: COUNT( * ) is to come,
\* found other ACTIVE offers, found none.
Holding == {"marked", "some left", "none left"}
Session == [pc : {"idle", "checked"} \cup Holding,
            op : {"none", "expire request", "create", "purchase"} \cup OfferOps,
            request : Requests \cup {Null}, offer : Offers \cup {Null}]

NoOffer == [request |-> Null, status |-> "ACTIVE", deleted |-> FALSE, terms |-> Null]
Idle == [pc |-> "idle", op |-> "none", request |-> Null, offer |-> Null]

Init ==
  /\ request = [r \in Requests |-> "none"]
  /\ offer = [o \in Offers |-> NoOffer]
  /\ purchase = [p \in Purchases |-> Null]
  /\ picked = {}
  /\ session = [s \in Sessions |-> Idle]

OffersOf(r) == {o \in Offers : offer[o].request = r}
IsActive(o) == offer[o].request # Null /\ offer[o].status = "ACTIVE" /\ ~offer[o].deleted

\* Offers whose row another session has updated and not committed.
Locked(s) == {session[t].offer : t \in {t \in Sessions \ {s} : session[t].pc \in Holding}}

----------------------------------------------------------------------------
(* Quote requests *)

\* The five usp_QuoteRequest<Type>_Create.
CreateRequest(r) ==
  /\ request[r] = "none"
  /\ request' = [request EXCEPT ![r] = "PENDING"]
  /\ UNCHANGED <<offer, purchase, picked, session>>

\* usp_QuoteRequest_AssignBackoffice: a request that is not PENDING keeps its
\* status, and the caller is told "Success" all the same.
AssignBackoffice(r) ==
  /\ request[r] # "none"
  /\ request' = [request EXCEPT ![r] = IF @ = "PENDING" THEN "IN_PROGRESS" ELSE @]
  /\ UNCHANGED <<offer, purchase, picked, session>>

BeginExpireRequest(s, r) ==
  /\ session[s].pc = "idle"
  /\ request[r] \notin {"none", "CONVERTED"}
  /\ session' = [session EXCEPT
       ![s] = [pc |-> "checked", op |-> "expire request", request |-> r, offer |-> Null]]
  /\ UNCHANGED <<request, offer, purchase, picked>>

ExpireRequest(s) ==
  /\ session[s].op = "expire request"
  /\ request' = [request EXCEPT ![session[s].request] = "EXPIRED"]
  /\ session' = [session EXCEPT ![s] = Idle]
  /\ UNCHANGED <<offer, purchase, picked>>

----------------------------------------------------------------------------
(* Offers *)

\* Mutant: offers are accepted on a request nobody has picked up.
BeginCreateAlways(s, r) ==
  /\ session[s].pc = "idle"
  /\ request[r] \in {"PENDING", "IN_PROGRESS", "QUOTED"}
  /\ session' = [session EXCEPT
       ![s] = [pc |-> "checked", op |-> "create", request |-> r, offer |-> Null]]
  /\ UNCHANGED <<request, offer, purchase, picked>>

BeginCreate(s, r) ==
  /\ session[s].pc = "idle"
  /\ request[r] \in {"IN_PROGRESS", "QUOTED"}
  /\ session' = [session EXCEPT
       ![s] = [pc |-> "checked", op |-> "create", request |-> r, offer |-> Null]]
  /\ UNCHANGED <<request, offer, purchase, picked>>

CreateOffer(s, o, terms) ==
  LET r == session[s].request
  IN  /\ session[s].op = "create"
      /\ offer[o] = NoOffer
      /\ offer' = [offer EXCEPT
           ![o] = [request |-> r, status |-> "ACTIVE", deleted |-> FALSE, terms |-> terms]]
      /\ request' = [request EXCEPT ![r] = "QUOTED"]
      /\ session' = [session EXCEPT ![s] = Idle]
      /\ UNCHANGED <<purchase, picked>>

\* The SELECT every procedure on an ACTIVE offer starts with.
BeginOffer(s, op, o) ==
  /\ session[s].pc = "idle"
  /\ IsActive(o)
  /\ session' = [session EXCEPT
       ![s] = [pc |-> "checked", op |-> op, request |-> offer[o].request, offer |-> o]]
  /\ UNCHANGED <<request, offer, purchase, picked>>

UpdateOffer(s, terms) ==
  LET o == session[s].offer
  IN  /\ session[s].op = "update"
      /\ o \notin Locked(s)
      /\ offer' = [offer EXCEPT ![o].terms = terms]
      /\ session' = [session EXCEPT ![s] = Idle]
      /\ UNCHANGED <<request, purchase, picked>>

\* Mutant: the request is converted as soon as an offer is picked.
SelectConverts(s) ==
  LET o == session[s].offer
      r == session[s].request
  IN  /\ session[s].op = "select"
      /\ OffersOf(r) \cap Locked(s) = {}
      /\ offer' = [x \in Offers |->
           CASE x = o -> [offer[x] EXCEPT !.status = "SELECTED"]
             [] x # o /\ x \in OffersOf(r) /\ IsActive(x) ->
                  [offer[x] EXCEPT !.status = "REJECTED"]
             [] OTHER -> offer[x]]
      /\ request' = [request EXCEPT ![r] = "CONVERTED"]
      /\ picked' = picked \cup {o}
      /\ session' = [session EXCEPT ![s] = Idle]
      /\ UNCHANGED <<purchase>>

\* usp_QuoteOffer_Select: the second UPDATE scans the offers of the request, so
\* it waits for their row locks.
SelectOffer(s) ==
  LET o == session[s].offer
      r == session[s].request
  IN  /\ session[s].op = "select"
      /\ OffersOf(r) \cap Locked(s) = {}
      /\ offer' = [x \in Offers |->
           CASE x = o -> [offer[x] EXCEPT !.status = "SELECTED"]
             [] x # o /\ x \in OffersOf(r) /\ IsActive(x) ->
                  [offer[x] EXCEPT !.status = "REJECTED"]
             [] OTHER -> offer[x]]
      /\ picked' = picked \cup {o}
      /\ session' = [session EXCEPT ![s] = Idle]
      /\ UNCHANGED <<request, purchase>>

\* The first UPDATE of Delete, Reject and Expire, not yet committed.
MarkOffer(s) ==
  /\ session[s].pc = "checked"
  /\ session[s].op \in Retirements
  /\ session[s].offer \notin Locked(s)
  /\ session' = [session EXCEPT ![s].pc = "marked"]
  /\ UNCHANGED <<request, offer, purchase, picked>>

\* Mutant: a deletion is a status, which chk_qo_status does not allow.
RetiredAsDeleted(row, op) ==
  CASE op = "delete" -> [row EXCEPT !.status = "DELETED"]
    [] op = "reject" -> [row EXCEPT !.status = "REJECTED"]
    [] op = "expire" -> [row EXCEPT !.status = "EXPIRED"]

Retired(row, op) ==
  CASE op = "delete" -> [row EXCEPT !.deleted = TRUE]
    [] op = "reject" -> [row EXCEPT !.status = "REJECTED"]
    [] op = "expire" -> [row EXCEPT !.status = "EXPIRED"]

\* SELECT COUNT( * ): the offers others have committed as ACTIVE; its own
\* UPDATE the transaction sees.
CountRemaining(s) ==
  LET remaining == {x \in OffersOf(session[s].request) \ {session[s].offer} : IsActive(x)}
  IN  /\ session[s].pc = "marked"
      /\ session' = [session EXCEPT
           ![s].pc = IF remaining = {} THEN "none left" ELSE "some left"]
      /\ UNCHANGED <<request, offer, purchase, picked>>

\* The UPDATE of the request when the count was 0, which reads the status
\* again, and the COMMIT that lets others see the offer's.
RetireOffer(s) ==
  LET o == session[s].offer
      r == session[s].request
  IN  /\ session[s].pc \in {"some left", "none left"}
      /\ offer' = [offer EXCEPT ![o] = Retired(@, session[s].op)]
      /\ request' = IF session[s].pc = "none left" /\ request[r] = "QUOTED"
                    THEN [request EXCEPT ![r] = "IN_PROGRESS"] ELSE request
      /\ session' = [session EXCEPT ![s] = Idle]
      /\ UNCHANGED <<purchase, picked>>

----------------------------------------------------------------------------
(* Purchases *)

\* Mutant: an offer that was not rejected will do.
BeginPurchaseNotRejected(s, o) ==
  /\ session[s].pc = "idle"
  /\ offer[o].request # Null
  /\ offer[o].status # "REJECTED"
  /\ session' = [session EXCEPT
       ![s] = [pc |-> "checked", op |-> "purchase", request |-> offer[o].request, offer |-> o]]
  /\ UNCHANGED <<request, offer, purchase, picked>>

\* usp_Purchase_Create: "Quote offer must be selected".
BeginPurchase(s, o) ==
  /\ session[s].pc = "idle"
  /\ offer[o].status = "SELECTED"
  /\ session' = [session EXCEPT
       ![s] = [pc |-> "checked", op |-> "purchase", request |-> offer[o].request, offer |-> o]]
  /\ UNCHANGED <<request, offer, purchase, picked>>

\* Its transaction; the UPDATE ... JOIN waits for the row lock of the offer.
CreatePurchase(s, p) ==
  LET o == session[s].offer
  IN  /\ session[s].op = "purchase"
      /\ o \notin Locked(s)
      /\ purchase[p] = Null
      /\ purchase' = [purchase EXCEPT ![p] = o]
      /\ request' = [request EXCEPT ![offer[o].request] = "CONVERTED"]
      /\ session' = [session EXCEPT ![s] = Idle]
      /\ UNCHANGED <<offer, picked>>

\* The exit handler rolls the transaction back, or the connection dies.
Abandon(s) ==
  /\ session[s].pc # "idle"
  /\ session' = [session EXCEPT ![s] = Idle]
  /\ UNCHANGED <<request, offer, purchase, picked>>

----------------------------------------------------------------------------

Begin(s) ==
  \/ \E r \in Requests : BeginExpireRequest(s, r) \/ BeginCreate(s, r)
  \/ \E o \in Offers, op \in OfferOps : BeginOffer(s, op, o)
  \/ \E o \in Offers : BeginPurchase(s, o)

Transaction(s) ==
  \/ ExpireRequest(s)
  \/ \E o \in Offers, terms \in Terms : CreateOffer(s, o, terms)
  \/ \E terms \in Terms : UpdateOffer(s, terms)
  \/ SelectOffer(s)
  \/ MarkOffer(s)
  \/ CountRemaining(s)
  \/ RetireOffer(s)
  \/ \E p \in Purchases : CreatePurchase(s, p)

Next ==
  \/ \E r \in Requests : CreateRequest(r) \/ AssignBackoffice(r)
  \/ \E s \in Sessions : Begin(s) \/ Transaction(s) \/ Abandon(s)

Spec == Init /\ [][Next]_vars

----------------------------------------------------------------------------
(* Properties *)

\* The shape of the rows and of the procedures in progress.
TypeOK ==
  /\ request \in [Requests -> RequestStatus]
  /\ offer \in [Offers -> Offer]
  /\ purchase \in [Purchases -> Offers \cup {Null}]
  /\ picked \subseteq Offers
  /\ session \in [Sessions -> Session]

\* What was bought had been picked, although the check is made before the
\* transaction and the offer may have been retired in between.
PurchaseWasPicked ==
  \A p \in Purchases : purchase[p] # Null => purchase[p] \in picked

\* A request is CONVERTED only by a purchase of one of its offers.
ConvertedWasBought ==
  \A r \in Requests : request[r] = "CONVERTED" =>
    \E p \in Purchases : purchase[p] \in OffersOf(r)

\* Nobody makes an offer on a request the back office has not taken up.
OffersFollowAssignment ==
  \A r \in Requests : request[r] \in {"none", "PENDING"} =>
    /\ OffersOf(r) = {}
    /\ \A s \in Sessions : session[s].op = "create" => session[s].request # r

\* Something the client can be shown.
HasOffer(r) ==
  \E o \in OffersOf(r) : ~offer[o].deleted /\ offer[o].status \in {"ACTIVE", "SELECTED"}

\* "It shouldn't keep claiming 'quoted' once there's nothing left to show the
\* client": with no call in progress, a QUOTED request none of whose offers was
\* ever picked has an offer.
QuotedShowsOffer ==
  (\A s \in Sessions : session[s].pc = "idle") =>
    \A r \in Requests :
      request[r] = "QUOTED" /\ OffersOf(r) \cap picked = {} => HasOffer(r)
=============================================================================
