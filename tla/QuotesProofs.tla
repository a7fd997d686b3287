----------------------------- MODULE QuotesProofs -----------------------------
(***************************************************************************)
(* Proofs about Quotes for every set of requests, offers and concurrent    *)
(* calls.                                                                  *)
(*                                                                         *)
(* The checks are made before the transactions, so the invariant says what *)
(* is left of them when the transaction runs: an offer never changes its   *)
(* request, an offer once picked stays picked, and a request once taken up *)
(* never becomes PENDING again.                                            *)
(***************************************************************************)
EXTENDS Quotes, TLAPS

\* What a call in progress still knows to be true of what it has checked.
CheckedCall(t) ==
  /\ session[t].pc = "idle" <=> session[t].op = "none"
  /\ session[t].op # "none" => session[t].request \in Requests
  /\ session[t].op \in OfferOps \cup {"purchase"} =>
       /\ session[t].offer \in Offers
       /\ offer[session[t].offer].request = session[t].request
  /\ session[t].op = "purchase" => session[t].offer \in picked
  /\ session[t].pc \in Holding => session[t].op \in Retirements

Checked == \A t \in Sessions : CheckedCall(t)

\* An offer that is SELECTED was picked.
SelectedWasPicked ==
  \A o \in Offers : offer[o].status = "SELECTED" => o \in picked

\* An offer that was picked belongs to a request.
PickedHasRequest ==
  \A o \in picked : offer[o].request \in Requests

IInv ==
  /\ TypeOK
  /\ Checked
  /\ SelectedWasPicked
  /\ PickedHasRequest
  /\ PurchaseWasPicked
  /\ ConvertedWasBought
  /\ OffersFollowAssignment

----------------------------------------------------------------------------
(* The invariant holds initially and every action preserves it *)

\* The initial state satisfies the invariant.
LEMMA InitIInv == Init => IInv
<1> SUFFICES ASSUME Init PROVE IInv
  OBVIOUS
<1>1. TypeOK
  BY DEF Init, TypeOK, RequestStatus, Offer, OfferStatus, Session, NoOffer, Idle
<1>2. Checked
  BY DEF Init, Checked, CheckedCall, Idle, OfferOps, Retirements, Holding
<1>3. SelectedWasPicked /\ PickedHasRequest /\ PurchaseWasPicked /\ ConvertedWasBought
  BY DEF Init, SelectedWasPicked, PickedHasRequest, PurchaseWasPicked,
     ConvertedWasBought, NoOffer
<1>4. OffersFollowAssignment
  BY NullAssumption DEF Init, OffersFollowAssignment, OffersOf, NoOffer, Idle
<1> QED
  BY <1>1, <1>2, <1>3, <1>4 DEF IInv

\* A call that ends has nothing left to know.
LEMMA IdleIsChecked == ASSUME NEW t, session'[t] = Idle PROVE CheckedCall(t)'
<1>1. session'[t].pc = "idle" /\ session'[t].op = "none"
  BY DEF Idle
<1>2. "idle" \notin Holding
  BY DEF Holding
<1>3. "none" \notin OfferOps \cup {"purchase"}
  BY DEF OfferOps, Retirements
<1> QED
  BY <1>1, <1>2, <1>3 DEF CheckedCall

\* A call that ends leaves what the others have checked as it was, as long as no
\* offer changes its request.
LEMMA CheckedAtEnd ==
  ASSUME TypeOK, Checked, NEW s \in Sessions,
         session' = [session EXCEPT ![s] = Idle],
         \A x \in Offers : offer'[x].request = offer[x].request,
         picked \subseteq picked'
  PROVE  Checked'
<1> SUFFICES ASSUME NEW t \in Sessions
             PROVE  CheckedCall(t)'
  BY DEF Checked
<1>1. CASE t = s
  <2>1. session'[t] = Idle
    BY <1>1 DEF TypeOK
  <2> QED
    BY <2>1, IdleIsChecked
<1>2. CASE t # s
  <2>1. session'[t] = session[t]
    BY <1>2 DEF TypeOK
  <2> QED
    BY <2>1 DEF Checked, CheckedCall
<1> QED
  BY <1>1, <1>2

\* A request that is made.
LEMMA CreateRequestKeeps ==
  ASSUME IInv, NEW r \in Requests, CreateRequest(r)
  PROVE  IInv'
<1> USE DEF IInv
<1>1. TypeOK'
  BY DEF CreateRequest, TypeOK, RequestStatus, Offer, OfferStatus, Session,
     OfferOps, Retirements
<1>2. Checked'
  BY DEF CreateRequest, Checked, CheckedCall, OfferOps, Retirements
<1>3. SelectedWasPicked'
  BY DEF CreateRequest, SelectedWasPicked
<1>4. PickedHasRequest'
  BY DEF CreateRequest, PickedHasRequest
<1>5. PurchaseWasPicked'
  BY DEF CreateRequest, PurchaseWasPicked
<1>6. ConvertedWasBought'
  BY DEF CreateRequest, ConvertedWasBought, OffersOf
<1>7. OffersFollowAssignment'
  BY DEF CreateRequest, OffersFollowAssignment, OffersOf
<1> QED
  BY <1>1, <1>2, <1>3, <1>4, <1>5, <1>6, <1>7

\* A request that is taken up.
LEMMA AssignBackofficeKeeps ==
  ASSUME IInv, NEW r \in Requests, AssignBackoffice(r)
  PROVE  IInv'
<1> USE DEF IInv
<1>1. TypeOK'
  BY DEF AssignBackoffice, TypeOK, RequestStatus, Offer, OfferStatus,
     Session, OfferOps, Retirements
<1>2. Checked'
  BY DEF AssignBackoffice, Checked, CheckedCall, OfferOps, Retirements
<1>3. SelectedWasPicked'
  BY DEF AssignBackoffice, SelectedWasPicked
<1>4. PickedHasRequest'
  BY DEF AssignBackoffice, PickedHasRequest
<1>5. PurchaseWasPicked'
  BY DEF AssignBackoffice, PurchaseWasPicked
<1>6. ConvertedWasBought'
  BY DEF AssignBackoffice, ConvertedWasBought, OffersOf
<1>7. OffersFollowAssignment'
  BY DEF AssignBackoffice, OffersFollowAssignment, OffersOf
<1> QED
  BY <1>1, <1>2, <1>3, <1>4, <1>5, <1>6, <1>7

\* The check of an expiry.
LEMMA BeginExpireRequestKeeps ==
  ASSUME IInv, NEW s \in Sessions, NEW r \in Requests, BeginExpireRequest(s,
         r)
  PROVE  IInv'
<1> USE DEF IInv
<1>1. TypeOK'
  BY DEF BeginExpireRequest, TypeOK, RequestStatus, Offer, OfferStatus,
     Session, OfferOps, Retirements
<1>2. Checked'
  BY DEF BeginExpireRequest, Checked, CheckedCall, OfferOps, Retirements, Holding, TypeOK
<1>3. SelectedWasPicked'
  BY DEF BeginExpireRequest, SelectedWasPicked
<1>4. PickedHasRequest'
  BY DEF BeginExpireRequest, PickedHasRequest
<1>5. PurchaseWasPicked'
  BY DEF BeginExpireRequest, PurchaseWasPicked
<1>6. ConvertedWasBought'
  BY DEF BeginExpireRequest, ConvertedWasBought, OffersOf
<1>7. OffersFollowAssignment'
  BY DEF BeginExpireRequest, OffersFollowAssignment, OffersOf, TypeOK
<1> QED
  BY <1>1, <1>2, <1>3, <1>4, <1>5, <1>6, <1>7

\* An expiry.
LEMMA ExpireRequestKeeps ==
  ASSUME IInv, NEW s \in Sessions, ExpireRequest(s)
  PROVE  IInv'
<1> USE DEF IInv
<1>1. TypeOK'
  BY DEF ExpireRequest, Idle, TypeOK, RequestStatus, Offer, OfferStatus,
     Session, OfferOps, Retirements
<1>2. Checked'
  BY CheckedAtEnd DEF ExpireRequest
<1>3. SelectedWasPicked'
  BY DEF ExpireRequest, SelectedWasPicked
<1>4. PickedHasRequest'
  BY DEF ExpireRequest, PickedHasRequest
<1>5. PurchaseWasPicked'
  BY DEF ExpireRequest, PurchaseWasPicked
<1>6. ConvertedWasBought'
  BY DEF ExpireRequest, Idle, ConvertedWasBought, OffersOf, TypeOK
<1>7. OffersFollowAssignment'
  BY DEF ExpireRequest, Idle, OffersFollowAssignment, OffersOf, TypeOK
<1> QED
  BY <1>1, <1>2, <1>3, <1>4, <1>5, <1>6, <1>7

\* The check of a new offer.
LEMMA BeginCreateKeeps ==
  ASSUME IInv, NEW s \in Sessions, NEW r \in Requests, BeginCreate(s, r)
  PROVE  IInv'
<1> USE DEF IInv
<1>1. TypeOK'
  BY DEF BeginCreate, TypeOK, RequestStatus, Offer, OfferStatus, Session,
     OfferOps, Retirements
<1>2. Checked'
  <2>1. ASSUME NEW t \in Sessions
        PROVE  CheckedCall(t)'
    <3>1. CASE t = s
      <4>1. session'[t] = [pc |-> "checked", op |-> "create", request |-> r, offer |-> Null]
        BY <3>1 DEF BeginCreate, TypeOK
      <4> QED
        BY <4>1 DEF CheckedCall, OfferOps, Retirements, Holding
    <3>2. CASE t # s
      <4>1. session'[t] = session[t] /\ UNCHANGED <<offer, picked>>
        BY <3>2 DEF BeginCreate, TypeOK
      <4> QED
        BY <4>1 DEF Checked, CheckedCall
    <3> QED
      BY <3>1, <3>2
  <2> QED
    BY <2>1 DEF Checked
<1>3. SelectedWasPicked'
  BY DEF BeginCreate, SelectedWasPicked
<1>4. PickedHasRequest'
  BY DEF BeginCreate, PickedHasRequest
<1>5. PurchaseWasPicked'
  BY DEF BeginCreate, PurchaseWasPicked
<1>6. ConvertedWasBought'
  BY DEF BeginCreate, ConvertedWasBought, OffersOf
<1>7. OffersFollowAssignment'
  BY DEF BeginCreate, OffersFollowAssignment, OffersOf
<1> QED
  BY <1>1, <1>2, <1>3, <1>4, <1>5, <1>6, <1>7

\* A new offer.
LEMMA CreateOfferKeeps ==
  ASSUME IInv, NEW s \in Sessions, NEW o \in Offers, NEW terms \in Terms,
         CreateOffer(s, o, terms)
  PROVE  IInv'
<1> USE DEF IInv
<1>a. PICK r \in Requests :
        /\ session[s].request = r
        /\ offer' = [offer EXCEPT ![o] = [request |-> r, status |-> "ACTIVE",
                                          deleted |-> FALSE, terms |-> terms]]
        /\ request' = [request EXCEPT ![r] = "QUOTED"]
  BY DEF CreateOffer, Checked, CheckedCall
<1>b. /\ offer \in [Offers -> Offer]
      /\ session \in [Sessions -> Session]
      /\ purchase \in [Purchases -> Offers \cup {Null}]
  BY DEF TypeOK
<1>c. \A x \in Offers : x # o => offer'[x] = offer[x]
  BY <1>a, <1>b
<1>d. offer[o].request = Null /\ Null \notin Requests \cup Offers
  BY NullAssumption DEF CreateOffer, NoOffer
<1>1. TypeOK'
  BY DEF CreateOffer, NoOffer, Idle, TypeOK, RequestStatus, Offer,
     OfferStatus, Session, OfferOps, Retirements
<1>2. Checked'
  <2>1. \A t \in Sessions : t # s => session'[t] = session[t]
    BY <1>b DEF CreateOffer
  <2>2. session'[s] = Idle
    BY <1>b DEF CreateOffer
  <2>3. \A t \in Sessions : session[t].op \in OfferOps \cup {"purchase"} => session[t].offer # o
    BY <1>d DEF Checked, CheckedCall, OfferOps, Retirements
  <2>4. picked' = picked
    BY DEF CreateOffer
  <2> SUFFICES ASSUME NEW t \in Sessions
               PROVE  CheckedCall(t)'
    BY DEF Checked
  <2>5. CASE t = s
    BY <2>2, <2>5, IdleIsChecked
  <2>6. CASE t # s
    BY <1>c, <2>1, <2>3, <2>4, <2>6 DEF Checked, CheckedCall
  <2> QED
    BY <2>5, <2>6
<1>3. SelectedWasPicked'
  BY DEF CreateOffer, SelectedWasPicked
<1>4. PickedHasRequest'
  BY <1>c, <1>d DEF CreateOffer, PickedHasRequest, TypeOK
<1>5. PurchaseWasPicked'
  BY DEF CreateOffer, PurchaseWasPicked
<1>6. ConvertedWasBought'
  <2> SUFFICES ASSUME NEW q \in Requests, request'[q] = "CONVERTED"
               PROVE  \E p \in Purchases : purchase'[p] \in OffersOf(q)'
    BY DEF ConvertedWasBought
  <2>1. request[q] = "CONVERTED"
    BY <1>a DEF TypeOK
  <2>2. PICK p \in Purchases : purchase[p] \in OffersOf(q)
    BY <2>1 DEF ConvertedWasBought
  <2>3. purchase[p] # o
    BY <1>d, <2>2 DEF OffersOf
  <2>4. purchase[p] \in OffersOf(q)'
    BY <1>c, <2>2, <2>3 DEF OffersOf
  <2> QED
    BY <2>4 DEF CreateOffer
<1>7. OffersFollowAssignment'
  BY DEF CreateOffer, NoOffer, Idle, OffersFollowAssignment, OffersOf
<1> QED
  BY <1>1, <1>2, <1>3, <1>4, <1>5, <1>6, <1>7

\* The check of a call on an offer.
LEMMA BeginOfferKeeps ==
  ASSUME IInv, NEW s \in Sessions, NEW op \in OfferOps, NEW o \in Offers,
         BeginOffer(s, op, o)
  PROVE  IInv'
<1> USE DEF IInv
<1>1. TypeOK'
  BY DEF BeginOffer, IsActive, TypeOK, RequestStatus, Offer, OfferStatus,
     Session, OfferOps, Retirements
<1>2. Checked'
  BY NullAssumption DEF BeginOffer, IsActive, Checked, CheckedCall, OfferOps,
     Retirements, Holding, TypeOK, RequestStatus, Offer, OfferStatus, Session
<1>3. SelectedWasPicked'
  BY DEF BeginOffer, SelectedWasPicked
<1>4. PickedHasRequest'
  BY DEF BeginOffer, PickedHasRequest
<1>5. PurchaseWasPicked'
  BY DEF BeginOffer, PurchaseWasPicked
<1>6. ConvertedWasBought'
  BY DEF BeginOffer, ConvertedWasBought, OffersOf
<1>7. OffersFollowAssignment'
  BY DEF BeginOffer, OffersFollowAssignment, OffersOf
<1> QED
  BY <1>1, <1>2, <1>3, <1>4, <1>5, <1>6, <1>7

\* An offer that is edited.
LEMMA UpdateOfferKeeps ==
  ASSUME IInv, NEW s \in Sessions, NEW terms \in Terms, UpdateOffer(s,
         terms)
  PROVE  IInv'
<1> USE DEF IInv
<1>a. PICK o \in Offers : offer' = [offer EXCEPT ![o].terms = terms]
  BY DEF UpdateOffer, Checked, CheckedCall, OfferOps
<1>b. offer \in [Offers -> Offer]
  BY DEF TypeOK
<1>c. \A x \in Offers : offer'[x] = offer[x] \/ offer'[x] = [offer[x] EXCEPT !.terms = terms]
  BY <1>a, <1>b
<1>1. TypeOK'
  <2>1. offer' \in [Offers -> Offer]
    BY <1>a, <1>b DEF Offer
  <2>2. session' \in [Sessions -> Session]
    BY DEF UpdateOffer, TypeOK, Session, Idle
  <2> QED
    BY <2>1, <2>2 DEF UpdateOffer, TypeOK
<1>2. Checked'
  <2>1. \A x \in Offers : offer'[x].request = offer[x].request
    BY <1>b, <1>c DEF Offer
  <2> QED
    BY <2>1, CheckedAtEnd DEF UpdateOffer
<1>3. SelectedWasPicked'
  BY DEF UpdateOffer, SelectedWasPicked
<1>4. PickedHasRequest'
  BY DEF UpdateOffer, PickedHasRequest
<1>5. PurchaseWasPicked'
  BY DEF UpdateOffer, PurchaseWasPicked
<1>6. ConvertedWasBought'
  BY DEF UpdateOffer, ConvertedWasBought, OffersOf
<1>7. OffersFollowAssignment'
  BY DEF UpdateOffer, Idle, OffersFollowAssignment, OffersOf
<1> QED
  BY <1>1, <1>2, <1>3, <1>4, <1>5, <1>6, <1>7

\* An offer that is picked.
LEMMA SelectOfferKeeps ==
  ASSUME IInv, NEW s \in Sessions, SelectOffer(s)
  PROVE  IInv'
<1> USE DEF IInv
<1>a. PICK o \in Offers : session[s].offer = o /\ offer[o].request \in Requests
  BY DEF SelectOffer, Checked, CheckedCall, OfferOps
<1>b. offer \in [Offers -> Offer]
  BY DEF TypeOK
<1>c. ASSUME NEW x \in Offers
      PROVE  offer'[x] \in Offer /\ offer'[x].request = offer[x].request
  <2>1. \/ offer'[x] = offer[x]
        \/ offer'[x] = [offer[x] EXCEPT !.status = "SELECTED"]
        \/ offer'[x] = [offer[x] EXCEPT !.status = "REJECTED"]
    BY DEF SelectOffer
  <2> QED
    BY <1>b, <2>1 DEF Offer, OfferStatus
<1>1. TypeOK'
  <2>1. offer' \in [Offers -> Offer]
    BY <1>c DEF SelectOffer
  <2>2. session' \in [Sessions -> Session]
    BY DEF SelectOffer, TypeOK, Session, Idle
  <2> QED
    BY <1>a, <2>1, <2>2 DEF SelectOffer, TypeOK
<1>2. Checked'
  BY <1>c, CheckedAtEnd DEF SelectOffer
<1>3. SelectedWasPicked'
  BY DEF SelectOffer, SelectedWasPicked
<1>4. PickedHasRequest'
  <2>1. picked' = picked \cup {o} /\ picked \subseteq Offers
    BY <1>a DEF SelectOffer, TypeOK
  <2> QED
    BY <1>a, <1>c, <2>1 DEF PickedHasRequest
<1>5. PurchaseWasPicked'
  BY DEF SelectOffer, PurchaseWasPicked
<1>6. ConvertedWasBought'
  BY DEF SelectOffer, ConvertedWasBought, OffersOf
<1>7. OffersFollowAssignment'
  BY DEF SelectOffer, IsActive, OffersOf, Idle, OffersFollowAssignment
<1> QED
  BY <1>1, <1>2, <1>3, <1>4, <1>5, <1>6, <1>7

\* An offer about to be retired.
LEMMA MarkOfferKeeps ==
  ASSUME IInv, NEW s \in Sessions, MarkOffer(s)
  PROVE  IInv'
<1> USE DEF IInv
<1>b. session \in [Sessions -> Session]
  BY DEF TypeOK
<1>1. TypeOK'
  <2>1. session' \in [Sessions -> Session]
    BY DEF MarkOffer, TypeOK, Session, Holding
  <2> QED
    BY <2>1 DEF MarkOffer, TypeOK
<1>2. Checked'
  <2>1. ASSUME NEW t \in Sessions
        PROVE  CheckedCall(t)'
    <3>1. /\ session'[t].op = session[t].op
          /\ session'[t].request = session[t].request
          /\ session'[t].offer = session[t].offer
      BY <1>b DEF MarkOffer, Session
    <3>2. \/ session'[t].pc = session[t].pc
          \/ session'[t].pc = "marked" /\ session[t].pc = "checked" /\ session[t].op \in Retirements
      BY <1>b DEF MarkOffer, Session
    <3> QED
      BY <3>1, <3>2 DEF MarkOffer, Checked, CheckedCall, Retirements
  <2> QED
    BY <2>1 DEF Checked
<1>3. SelectedWasPicked'
  BY DEF MarkOffer, SelectedWasPicked
<1>4. PickedHasRequest'
  BY DEF MarkOffer, PickedHasRequest
<1>5. PurchaseWasPicked'
  BY DEF MarkOffer, PurchaseWasPicked
<1>6. ConvertedWasBought'
  BY DEF MarkOffer, ConvertedWasBought, OffersOf
<1>7. OffersFollowAssignment'
  BY DEF MarkOffer, OffersFollowAssignment, OffersOf
<1> QED
  BY <1>1, <1>2, <1>3, <1>4, <1>5, <1>6, <1>7

\* A count of the offers that remain.
LEMMA CountRemainingKeeps ==
  ASSUME IInv, NEW s \in Sessions, CountRemaining(s)
  PROVE  IInv'
<1> USE DEF IInv
<1>a. PICK pc \in {"some left", "none left"} : session' = [session EXCEPT ![s].pc = pc]
  BY DEF CountRemaining
<1>b. /\ session \in [Sessions -> Session]
      /\ session[s].op \in Retirements
      /\ UNCHANGED <<request, offer, purchase, picked>>
  BY DEF CountRemaining, Checked, CheckedCall, TypeOK, Holding
<1>1. TypeOK'
  <2>1. session' \in [Sessions -> Session]
    BY <1>a, <1>b DEF Session, Holding
  <2> QED
    BY <1>b, <2>1 DEF TypeOK
<1>2. Checked'
  <2>1. ASSUME NEW t \in Sessions
        PROVE  CheckedCall(t)'
    <3>1. /\ session'[t].op = session[t].op
          /\ session'[t].request = session[t].request
          /\ session'[t].offer = session[t].offer
      BY <1>a, <1>b DEF Session
    <3>2. \/ session'[t].pc = session[t].pc
          \/ session'[t].pc = pc /\ session[t].op \in Retirements
      BY <1>a, <1>b DEF Session
    <3> QED
      BY <1>b, <3>1, <3>2 DEF Checked, CheckedCall, Retirements
  <2> QED
    BY <2>1 DEF Checked
<1>3. SelectedWasPicked'
  BY <1>b DEF SelectedWasPicked
<1>4. PickedHasRequest'
  BY <1>b DEF PickedHasRequest
<1>5. PurchaseWasPicked'
  BY <1>b DEF PurchaseWasPicked
<1>6. ConvertedWasBought'
  BY <1>b DEF ConvertedWasBought, OffersOf
<1>7. OffersFollowAssignment'
  <2>1. \A t \in Sessions : /\ session'[t].op = session[t].op
                            /\ session'[t].request = session[t].request
    BY <1>a, <1>b DEF Session
  <2> QED
    BY <1>b, <2>1 DEF OffersFollowAssignment, OffersOf
<1> QED
  BY <1>1, <1>2, <1>3, <1>4, <1>5, <1>6, <1>7

\* An offer that is retired.
LEMMA RetireOfferKeeps ==
  ASSUME IInv, NEW s \in Sessions, RetireOffer(s)
  PROVE  IInv'
<1> USE DEF IInv
<1>a. PICK o \in Offers, op \in Retirements : offer' = [offer EXCEPT ![o] = Retired(@, op)]
  BY DEF RetireOffer, Checked, CheckedCall, OfferOps, Holding
<1>b. offer \in [Offers -> Offer]
  BY DEF TypeOK
<1>c. ASSUME NEW x \in Offers
      PROVE  /\ offer'[x] \in Offer
             /\ offer'[x].request = offer[x].request
             /\ offer'[x].status = "SELECTED" => offer[x].status = "SELECTED"
  <2>1. \/ offer'[x] = offer[x]
        \/ offer'[x] = [offer[x] EXCEPT !.deleted = TRUE]
        \/ offer'[x] = [offer[x] EXCEPT !.status = "REJECTED"]
        \/ offer'[x] = [offer[x] EXCEPT !.status = "EXPIRED"]
    BY <1>a, <1>b DEF Retired, Retirements
  <2> QED
    BY <1>b, <2>1 DEF Offer, OfferStatus
<1>d. UNCHANGED <<purchase, picked>>
  BY DEF RetireOffer
<1>e. /\ request' \in [Requests -> RequestStatus]
      /\ \A r \in Requests : \/ request'[r] = request[r]
                             \/ request[r] = "QUOTED" /\ request'[r] = "IN_PROGRESS"
  <2>1. PICK r \in Requests : \/ request' = request
                              \/ /\ request[r] = "QUOTED"
                                 /\ request' = [request EXCEPT ![r] = "IN_PROGRESS"]
    BY DEF RetireOffer, Checked, CheckedCall, OfferOps
  <2> QED
    BY <2>1 DEF TypeOK, RequestStatus
<1>1. TypeOK'
  <2>1. offer' \in [Offers -> Offer]
    BY <1>a, <1>b, <1>c
  <2>2. session' \in [Sessions -> Session]
    BY DEF RetireOffer, TypeOK, Session, Idle
  <2> QED
    BY <1>d, <1>e, <2>1, <2>2 DEF TypeOK
<1>2. Checked'
  BY <1>c, <1>d, CheckedAtEnd DEF RetireOffer
<1>3. SelectedWasPicked'
  BY <1>c, <1>d DEF SelectedWasPicked
<1>4. PickedHasRequest'
  BY <1>c, <1>d DEF PickedHasRequest, TypeOK
<1>5. PurchaseWasPicked'
  BY <1>d DEF PurchaseWasPicked
<1>6. ConvertedWasBought'
  <2>1. \A r \in Requests : OffersOf(r)' = OffersOf(r)
    BY <1>c DEF OffersOf
  <2>2. \A r \in Requests : request'[r] = "CONVERTED" => request[r] = "CONVERTED"
    BY <1>e
  <2> QED
    BY <1>d, <2>1, <2>2 DEF ConvertedWasBought
<1>7. OffersFollowAssignment'
  <2>1. \A r \in Requests : OffersOf(r)' = OffersOf(r)
    BY <1>c DEF OffersOf
  <2>2. \A r \in Requests : request'[r] \in {"none", "PENDING"} => request'[r] = request[r]
    BY <1>e
  <2>3. \A t \in Sessions : session'[t].op = "create" => session'[t] = session[t]
    BY DEF RetireOffer, TypeOK, Idle
  <2> QED
    BY <2>1, <2>2, <2>3 DEF OffersFollowAssignment
<1> QED
  BY <1>1, <1>2, <1>3, <1>4, <1>5, <1>6, <1>7

\* The check of a purchase.
LEMMA BeginPurchaseKeeps ==
  ASSUME IInv, NEW s \in Sessions, NEW o \in Offers, BeginPurchase(s, o)
  PROVE  IInv'
<1> USE DEF IInv
<1>1. TypeOK'
  BY DEF BeginPurchase, TypeOK, RequestStatus, Offer, OfferStatus, Session,
     OfferOps, Retirements
<1>2. Checked'
  <2>1. o \in picked /\ offer[o].request \in Requests
    BY DEF BeginPurchase, SelectedWasPicked, PickedHasRequest
  <2> QED
    BY <2>1 DEF BeginPurchase, Checked, CheckedCall, OfferOps, Retirements, Holding, TypeOK
<1>3. SelectedWasPicked'
  BY DEF BeginPurchase, SelectedWasPicked
<1>4. PickedHasRequest'
  BY DEF BeginPurchase, PickedHasRequest
<1>5. PurchaseWasPicked'
  BY DEF BeginPurchase, PurchaseWasPicked
<1>6. ConvertedWasBought'
  BY DEF BeginPurchase, ConvertedWasBought, OffersOf
<1>7. OffersFollowAssignment'
  BY DEF BeginPurchase, OffersFollowAssignment, OffersOf
<1> QED
  BY <1>1, <1>2, <1>3, <1>4, <1>5, <1>6, <1>7

\* A purchase.
LEMMA CreatePurchaseKeeps ==
  ASSUME IInv, NEW s \in Sessions, NEW p \in Purchases, CreatePurchase(s, p)
  PROVE  IInv'
<1> USE DEF IInv
<1>1. TypeOK'
  BY DEF CreatePurchase, Idle, TypeOK, RequestStatus, Offer, OfferStatus,
     Session, OfferOps, Retirements
<1>2. Checked'
  BY CheckedAtEnd DEF CreatePurchase
<1>3. SelectedWasPicked'
  BY DEF CreatePurchase, SelectedWasPicked
<1>4. PickedHasRequest'
  BY DEF CreatePurchase, PickedHasRequest
<1>5. PurchaseWasPicked'
  BY NullAssumption DEF CreatePurchase, Idle, PurchaseWasPicked, TypeOK,
     Checked, CheckedCall, RequestStatus, Offer, OfferStatus, Session, OfferOps,
     Retirements
<1>6. ConvertedWasBought'
  <2>1. PICK o \in Offers, r \in Requests :
          /\ offer[o].request = r
          /\ purchase' = [purchase EXCEPT ![p] = o]
          /\ request' = [request EXCEPT ![r] = "CONVERTED"]
    BY DEF CreatePurchase, Checked, CheckedCall
  <2>2. purchase'[p] = o /\ \A q \in Purchases : q # p => purchase'[q] = purchase[q]
    BY <2>1 DEF TypeOK
  <2>3. \A q \in Requests : OffersOf(q)' = OffersOf(q)
    BY DEF CreatePurchase, OffersOf
  <2> SUFFICES ASSUME NEW q \in Requests, request'[q] = "CONVERTED"
               PROVE  \E x \in Purchases : purchase'[x] \in OffersOf(q)
    BY <2>3 DEF ConvertedWasBought
  <2>4. CASE q = r
    BY <2>1, <2>2, <2>4 DEF OffersOf
  <2>5. CASE q # r
    <3>1. PICK x \in Purchases : purchase[x] \in OffersOf(q)
      BY <2>1, <2>5 DEF ConvertedWasBought, TypeOK
    <3>2. x # p
      BY <3>1, NullAssumption DEF CreatePurchase, OffersOf
    <3> QED
      BY <2>2, <3>1, <3>2
  <2> QED
    BY <2>4, <2>5
<1>7. OffersFollowAssignment'
  BY DEF CreatePurchase, Idle, OffersFollowAssignment, OffersOf
<1> QED
  BY <1>1, <1>2, <1>3, <1>4, <1>5, <1>6, <1>7

\* A call that fails.
LEMMA AbandonKeeps ==
  ASSUME IInv, NEW s \in Sessions, Abandon(s)
  PROVE  IInv'
<1> USE DEF IInv
<1>1. TypeOK'
  BY DEF Abandon, Idle, TypeOK, RequestStatus, Offer, OfferStatus, Session,
     OfferOps, Retirements
<1>2. Checked'
  BY CheckedAtEnd DEF Abandon
<1>3. SelectedWasPicked'
  BY DEF Abandon, SelectedWasPicked
<1>4. PickedHasRequest'
  BY DEF Abandon, PickedHasRequest
<1>5. PurchaseWasPicked'
  BY DEF Abandon, PurchaseWasPicked
<1>6. ConvertedWasBought'
  BY DEF Abandon, ConvertedWasBought, OffersOf
<1>7. OffersFollowAssignment'
  BY DEF Abandon, Idle, OffersFollowAssignment, OffersOf
<1> QED
  BY <1>1, <1>2, <1>3, <1>4, <1>5, <1>6, <1>7

\* A stuttering step.
LEMMA StutterKeeps == ASSUME IInv, UNCHANGED vars PROVE IInv'
  BY DEF vars, IInv, TypeOK, Checked, CheckedCall, SelectedWasPicked, PickedHasRequest,
     PurchaseWasPicked, ConvertedWasBought, OffersFollowAssignment, OffersOf

\* Every step preserves the invariant.
LEMMA StepKeeps == ASSUME IInv, [Next]_vars PROVE IInv'
<1>1. ASSUME NEW r \in Requests, CreateRequest(r) \/ AssignBackoffice(r)
      PROVE  IInv'
  BY <1>1, CreateRequestKeeps, AssignBackofficeKeeps
<1>2. ASSUME NEW s \in Sessions, Begin(s)
      PROVE  IInv'
  BY <1>2, BeginExpireRequestKeeps, BeginCreateKeeps, BeginOfferKeeps,
     BeginPurchaseKeeps DEF Begin
<1>3. ASSUME NEW s \in Sessions, Transaction(s)
      PROVE  IInv'
  BY <1>3, ExpireRequestKeeps, CreateOfferKeeps, UpdateOfferKeeps, SelectOfferKeeps,
     MarkOfferKeeps, CountRemainingKeeps, RetireOfferKeeps, CreatePurchaseKeeps
     DEF Transaction
<1>4. ASSUME NEW s \in Sessions, Abandon(s)
      PROVE  IInv'
  BY <1>4, AbandonKeeps
<1> QED
  BY <1>1, <1>2, <1>3, <1>4, StutterKeeps DEF Next

\* The invariant holds in every reachable state.
LEMMA Invariance == Spec => []IInv
<1>1. IInv /\ [Next]_vars => IInv'
  BY StepKeeps
<1> QED
  BY <1>1, InitIInv, PTL DEF Spec

----------------------------------------------------------------------------
(* Theorems *)

\* Rows and calls in progress keep their shape.
THEOREM Typing == Spec => []TypeOK
<1>1. IInv => TypeOK
  BY DEF IInv
<1> QED
  BY <1>1, Invariance, PTL

\* Whatever happens to an offer between the check and the transaction of a
\* purchase, what is bought was picked by a client or an agent.
THEOREM BoughtWasPicked == Spec => []PurchaseWasPicked
<1>1. IInv => PurchaseWasPicked
  BY DEF IInv
<1> QED
  BY <1>1, Invariance, PTL

\* A request is CONVERTED only by a purchase of one of its offers.
THEOREM ConvertedIsBought == Spec => []ConvertedWasBought
<1>1. IInv => ConvertedWasBought
  BY DEF IInv
<1> QED
  BY <1>1, Invariance, PTL

\* A request nobody has taken up has no offer, and gets none from a call that
\* is already on its way.
THEOREM AssignedFirst == Spec => []OffersFollowAssignment
<1>1. IInv => OffersFollowAssignment
  BY DEF IInv
<1> QED
  BY <1>1, Invariance, PTL

----------------------------------------------------------------------------

----------------------------------------------------------------------------
(***************************************************************************)
(* What QuotedShowsOffer fails on: two retirements of offers of one        *)
(* request that overlap, and nothing else.                                 *)
(***************************************************************************)

\* Deletions, rejections and expiries do not overlap on one request.
OneRetirementAtATime ==
  \A s, t \in Sessions :
    session[s].op \in Retirements /\ session[t].op \in Retirements
      /\ session[s].request = session[t].request => s = t

Unpicked(r) == OffersOf(r) \cap picked = {}

\* QuotedShowsOffer, calls in progress or not.
ShownUnlessPicked ==
  \A r \in Requests : request[r] = "QUOTED" /\ Unpicked(r) => HasOffer(r)

\* Some other offer of the call's request is ACTIVE.
AnotherLeft(s) ==
  \E x \in OffersOf(session[s].request) \ {session[s].offer} : IsActive(x)

\* What a retirement has counted is still so, unless an offer was picked.
CountHolds ==
  \A s \in Sessions :
    session[s].pc = "some left" /\ Unpicked(session[s].request) => AnotherLeft(s)

SerialInv == OneRetirementAtATime /\ CountHolds /\ ShownUnlessPicked

LEMMA InitSerial == Init => SerialInv
<1> SUFFICES ASSUME Init PROVE SerialInv
  OBVIOUS
<1>1. \A s \in Sessions : session[s].pc = "idle" /\ session[s].op = "none"
  BY DEF Init, Idle
<1>2. \A r \in Requests : request[r] = "none"
  BY DEF Init
<1>3. OneRetirementAtATime
  BY <1>1 DEF OneRetirementAtATime, Retirements
<1> QED
  BY <1>1, <1>2, <1>3 DEF SerialInv, CountHolds, ShownUnlessPicked

\* Steps that take no offer away: an offer of a request keeps what it is but for
\* its terms, and a request becomes QUOTED only with an offer to show.
Quiet ==
  /\ picked \subseteq picked'
  /\ \A r \in Requests : request'[r] = "QUOTED" => request[r] = "QUOTED" \/ HasOffer(r)'
  /\ \A o \in Offers : offer[o].request # Null =>
       /\ offer'[o].request = offer[o].request
       /\ offer'[o].status = offer[o].status
       /\ offer'[o].deleted = offer[o].deleted
  /\ \A s \in Sessions : session'[s].pc = "some left" => session'[s] = session[s]

LEMMA QuietKeeps ==
  ASSUME IInv, SerialInv, Quiet
  PROVE  CountHolds' /\ ShownUnlessPicked'
<1>a. ASSUME NEW r \in Requests, NEW x \in OffersOf(r)
      PROVE  /\ x \in Offers /\ offer[x].request = r /\ x \in OffersOf(r)'
             /\ offer'[x].status = offer[x].status /\ offer'[x].deleted = offer[x].deleted
  BY NullAssumption DEF OffersOf, Quiet
<1>b. ASSUME NEW r \in Requests, Unpicked(r)'
      PROVE  Unpicked(r)
  BY <1>a, <1>b DEF Unpicked, Quiet
<1>1. ASSUME NEW s \in Sessions, session'[s].pc = "some left", Unpicked(session[s].request)'
      PROVE  AnotherLeft(s)'
  <2>1. session'[s] = session[s]
    BY <1>1 DEF Quiet
  <2>2. session[s].request \in Requests
    BY <1>1, <2>1 DEF IInv, Checked, CheckedCall, Holding, Retirements
  <2>3. PICK x \in OffersOf(session[s].request) \ {session[s].offer} : IsActive(x)
    BY <1>1, <1>b, <2>1, <2>2 DEF SerialInv, CountHolds, AnotherLeft
  <2> QED
    BY <1>a, <2>1, <2>2, <2>3 DEF AnotherLeft, IsActive, OffersOf
<1>2. ASSUME NEW r \in Requests, request'[r] = "QUOTED", Unpicked(r)', ~HasOffer(r)'
      PROVE  FALSE
  <2>1. PICK x \in OffersOf(r) : ~offer[x].deleted /\ offer[x].status \in {"ACTIVE", "SELECTED"}
    BY <1>2, <1>b DEF SerialInv, ShownUnlessPicked, HasOffer, Quiet
  <2> QED
    BY <1>2, <1>a, <2>1 DEF HasOffer
<1> QED
  BY <1>1, <1>2 DEF CountHolds, ShownUnlessPicked

\* Calls that begin.
LEMMA BeginIsQuiet ==
  ASSUME IInv, NEW s \in Sessions, Begin(s)
  PROVE  Quiet
<1>t. session \in [Sessions -> Session] /\ UNCHANGED <<request, offer, picked>>
  BY DEF IInv, TypeOK, Begin, BeginExpireRequest, BeginCreate, BeginOffer, BeginPurchase
<1>1. \A t \in Sessions : t # s => session'[t] = session[t]
  BY <1>t DEF Begin, BeginExpireRequest, BeginCreate, BeginOffer, BeginPurchase
<1>2. session'[s].pc = "checked"
  <2>1. ASSUME NEW r, BeginExpireRequest(s, r)
        PROVE  session'[s].pc = "checked"
    BY <1>t, <2>1 DEF BeginExpireRequest
  <2>4. ASSUME NEW r, BeginCreate(s, r)
        PROVE  session'[s].pc = "checked"
    BY <1>t, <2>4 DEF BeginCreate
  <2>2. ASSUME NEW op, NEW o, BeginOffer(s, op, o)
        PROVE  session'[s].pc = "checked"
    BY <1>t, <2>2 DEF BeginOffer
  <2>3. ASSUME NEW o, BeginPurchase(s, o)
        PROVE  session'[s].pc = "checked"
    BY <1>t, <2>3 DEF BeginPurchase
  <2> QED
    BY <2>1, <2>2, <2>3, <2>4 DEF Begin
<1> QED
  BY <1>t, <1>1, <1>2 DEF Quiet

\* Transactions that take no offer away, and calls that are given up.
LEMMA OtherTransactionsAreQuiet ==
  ASSUME IInv, NEW s \in Sessions,
         \/ ExpireRequest(s) \/ MarkOffer(s) \/ Abandon(s)
         \/ \E terms \in Terms : UpdateOffer(s, terms)
         \/ \E p \in Purchases : CreatePurchase(s, p)
  PROVE  Quiet
<1>t. /\ session \in [Sessions -> Session]
      /\ offer \in [Offers -> Offer]
      /\ request \in [Requests -> RequestStatus]
  BY DEF IInv, TypeOK
<1>1. /\ \A r \in Requests : request'[r] = "QUOTED" => request[r] = "QUOTED"
      /\ picked' = picked
  BY <1>t DEF ExpireRequest, MarkOffer, Abandon, UpdateOffer, CreatePurchase
<1>2. \A o \in Offers : /\ offer'[o].request = offer[o].request
                        /\ offer'[o].status = offer[o].status
                        /\ offer'[o].deleted = offer[o].deleted
  <2>1. UNCHANGED offer \/ \E o, terms : offer' = [offer EXCEPT ![o].terms = terms]
    <3>1. ASSUME NEW terms \in Terms, UpdateOffer(s, terms)
          PROVE  \E o : offer' = [offer EXCEPT ![o].terms = terms]
      <4> DEFINE o == session[s].offer
      <4>1. offer' = [offer EXCEPT ![o].terms = terms]
        BY <3>1 DEF UpdateOffer
      <4> HIDE DEF o
      <4> QED
        BY <4>1
    <3> QED
      BY <3>1 DEF ExpireRequest, MarkOffer, Abandon, CreatePurchase
  <2> QED
    BY <1>t, <2>1 DEF Offer
<1>3. ASSUME NEW t \in Sessions, session'[t].pc = "some left"
      PROVE  session'[t] = session[t]
  <2>1. CASE session' = [session EXCEPT ![s] = Idle]
    BY <1>t, <1>3, <2>1 DEF Idle
  <2>2. CASE session' = [session EXCEPT ![s].pc = "marked"]
    BY <1>t, <1>3, <2>2 DEF Session
  <2> QED
    BY <2>1, <2>2 DEF ExpireRequest, MarkOffer, Abandon, UpdateOffer, CreatePurchase
<1> QED
  BY <1>1, <1>2, <1>3 DEF Quiet

\* A new offer is something to show.
LEMMA CreateOfferIsQuiet ==
  ASSUME IInv, NEW s \in Sessions, NEW o \in Offers, NEW terms \in Terms,
         CreateOffer(s, o, terms)
  PROVE  Quiet
<1>t. /\ session \in [Sessions -> Session]
      /\ offer \in [Offers -> Offer]
      /\ request \in [Requests -> RequestStatus]
      /\ offer[o].request = Null
  BY DEF IInv, TypeOK, CreateOffer, NoOffer
<1>1. PICK r \in Requests : session[s].request = r
  BY DEF CreateOffer, IInv, Checked, CheckedCall
<1>2. /\ offer'[o] = [request |-> r, status |-> "ACTIVE", deleted |-> FALSE, terms |-> terms]
      /\ \A x \in Offers : x # o => offer'[x] = offer[x]
      /\ request' = [request EXCEPT ![r] = "QUOTED"]
      /\ session' = [session EXCEPT ![s] = Idle]
      /\ picked' = picked
  BY <1>t, <1>1 DEF CreateOffer
<1>3. HasOffer(r)'
  BY <1>2 DEF HasOffer, OffersOf
<1>4. \A t \in Sessions : session'[t].pc = "some left" => session'[t] = session[t]
  BY <1>t, <1>2 DEF Idle
<1> QED
  BY <1>t, <1>2, <1>3, <1>4 DEF Quiet

\* The count of a retirement.
LEMMA CountRemainingSerial ==
  ASSUME IInv, SerialInv, NEW s \in Sessions, CountRemaining(s)
  PROVE  CountHolds' /\ ShownUnlessPicked'
<1>t. session \in [Sessions -> Session] /\ UNCHANGED <<request, offer, picked>>
  BY DEF IInv, TypeOK, CountRemaining
<1>1. \A t \in Sessions : /\ session'[t].request = session[t].request
                          /\ session'[t].offer = session[t].offer
                          /\ t # s => session'[t] = session[t]
  BY <1>t DEF CountRemaining, Session
<1>2. session'[s].pc = "some left" => AnotherLeft(s)
  <2> DEFINE remaining == {x \in OffersOf(session[s].request) \ {session[s].offer} : IsActive(x)}
  <2>1. session'[s].pc = IF remaining = {} THEN "none left" ELSE "some left"
    <3>1. session' = [session EXCEPT ![s].pc =
                        IF remaining = {} THEN "none left" ELSE "some left"]
      BY DEF CountRemaining
    <3> HIDE DEF remaining
    <3> QED
      BY <1>t, <3>1 DEF Session
  <2>2. session'[s].pc = "some left" => remaining # {}
    BY <2>1
  <2> QED
    BY <2>2 DEF AnotherLeft
<1>3. \A t \in Sessions :
        session'[t].pc = "some left" /\ Unpicked(session[t].request) => AnotherLeft(t)
  BY <1>1, <1>2 DEF SerialInv, CountHolds
<1>4. \A t \in Sessions : (Unpicked(session[t].request)' <=> Unpicked(session[t].request))
                          /\ (AnotherLeft(t)' <=> AnotherLeft(t))
  BY <1>t, <1>1 DEF Unpicked, AnotherLeft, OffersOf, IsActive
<1> QED
  BY <1>t, <1>3, <1>4 DEF CountHolds, SerialInv, ShownUnlessPicked, Unpicked, HasOffer, OffersOf

\* A pick leaves its request with a picked offer, and the retirement of an offer
\* that overlaps no other leaves the offers the others have counted.
LEMMA DecisionSerial ==
  ASSUME IInv, SerialInv, NEW s \in Sessions, SelectOffer(s) \/ RetireOffer(s)
  PROVE  CountHolds' /\ ShownUnlessPicked'
<1>t. /\ session \in [Sessions -> Session]
      /\ offer \in [Offers -> Offer]
      /\ request \in [Requests -> RequestStatus]
      /\ session[s].op \in {"select"} \cup Retirements
  BY DEF IInv, TypeOK, Checked, CheckedCall, SelectOffer, RetireOffer, Holding
<1>1. PICK r \in Requests, o \in Offers :
        session[s].request = r /\ session[s].offer = o /\ offer[o].request = r
  BY <1>t DEF IInv, Checked, CheckedCall, OfferOps, Retirements
<1>2. /\ \A x \in Offers : offer[x].request # r => offer'[x] = offer[x]
      /\ session' = [session EXCEPT ![s] = Idle]
      /\ \A q \in Requests : q # r => request'[q] = request[q]
      /\ picked \subseteq picked'
  BY <1>t, <1>1 DEF SelectOffer, RetireOffer, OffersOf
<1>3. \A x \in Offers : offer'[x].request = offer[x].request
  <2>1. CASE SelectOffer(s)
    BY <1>t, <2>1 DEF SelectOffer, Offer
  <2>2. CASE RetireOffer(s)
    BY <1>t, <2>2 DEF RetireOffer, Retired, Offer, IInv, Checked, CheckedCall, Retirements,
       Holding
  <2> QED
    BY <2>1, <2>2
<1>4. \A q \in Requests : OffersOf(q)' = OffersOf(q) /\ (Unpicked(q)' => Unpicked(q))
  BY <1>2, <1>3 DEF OffersOf, Unpicked
<1>5. SelectOffer(s) => ~Unpicked(r)'
  BY <1>1, <1>3 DEF SelectOffer, Unpicked, OffersOf
<1>6. ASSUME NEW t \in Sessions, session'[t].pc = "some left", Unpicked(session[t].request)'
      PROVE  AnotherLeft(t)'
  <2>1. t # s /\ session'[t] = session[t]
    BY <1>t, <1>2, <1>6 DEF Idle
  <2>2. session[t].op \in Retirements /\ session[t].request \in Requests
    BY <1>6, <2>1 DEF IInv, Checked, CheckedCall, Holding, Retirements
  <2>3. session[t].request # r
    <3>1. CASE SelectOffer(s)
      BY <1>5, <1>6, <2>1, <3>1
    <3>2. CASE RetireOffer(s)
      <4>1. session[s].op \in Retirements
        BY <3>2 DEF RetireOffer, IInv, Checked, CheckedCall, Holding
      <4> QED
        BY <1>1, <2>1, <2>2, <4>1 DEF SerialInv, OneRetirementAtATime
    <3> QED
      BY <3>1, <3>2
  <2>4. PICK x \in OffersOf(session[t].request) \ {session[t].offer} : IsActive(x)
    BY <1>4, <1>6, <2>1, <2>2 DEF SerialInv, CountHolds, AnotherLeft
  <2>5. offer'[x] = offer[x] /\ x \in OffersOf(session[t].request)'
    BY <1>2, <1>4, <2>1, <2>2, <2>3, <2>4 DEF OffersOf
  <2> QED
    BY <2>1, <2>4, <2>5 DEF AnotherLeft, IsActive
<1>7. ASSUME NEW q \in Requests, request'[q] = "QUOTED", Unpicked(q)'
      PROVE  HasOffer(q)'
  <2>1. CASE q # r
    <3>1. HasOffer(q)
      BY <1>2, <1>4, <1>7, <2>1 DEF SerialInv, ShownUnlessPicked
    <3> QED
      BY <1>2, <1>4, <2>1, <3>1 DEF HasOffer, OffersOf
  <2>2. CASE q = r
    <3>1. RetireOffer(s)
      BY <1>5, <1>7, <2>2
    <3>2. session[s].pc = "some left"
      BY <1>t, <1>1, <1>7, <2>2, <3>1 DEF RetireOffer
    <3>3. PICK x \in OffersOf(r) \ {o} : IsActive(x)
      BY <1>1, <1>4, <1>7, <2>2, <3>2 DEF SerialInv, CountHolds, AnotherLeft
    <3>4. offer'[x] = offer[x]
      BY <1>t, <1>1, <3>1, <3>3 DEF RetireOffer, OffersOf
    <3> QED
      BY <1>4, <2>2, <3>3, <3>4 DEF HasOffer, IsActive
  <2> QED
    BY <2>1, <2>2
<1> QED
  BY <1>6, <1>7 DEF CountHolds, ShownUnlessPicked

LEMMA SerialStep ==
  ASSUME IInv, SerialInv, [Next]_vars, OneRetirementAtATime'
  PROVE  SerialInv'
<1>1. CASE UNCHANGED vars
  <2>1. Quiet
    BY <1>1 DEF Quiet, vars
  <2> QED
    BY <2>1, QuietKeeps DEF SerialInv
<1>2. ASSUME NEW r \in Requests, CreateRequest(r) \/ AssignBackoffice(r)
      PROVE  Quiet
  BY <1>2 DEF CreateRequest, AssignBackoffice, Quiet, IInv, TypeOK
<1>3. CASE Next
  BY <1>2, <1>3, QuietKeeps, BeginIsQuiet, OtherTransactionsAreQuiet, CreateOfferIsQuiet,
     CountRemainingSerial, DecisionSerial DEF Next, Transaction, SerialInv
<1> QED
  BY <1>1, <1>3

\* In a run where retirements of one request's offers do not overlap, a QUOTED
\* request none of whose offers was picked has an offer to show, for any number of
\* requests, offers and calls, picks that race with a retirement included: two
\* retirements that overlap are the only cause of the finding.
THEOREM NoVainClaimAlone ==
  Spec => ([]OneRetirementAtATime => []QuotedShowsOffer)
<1>1. Init /\ OneRetirementAtATime => SerialInv
  BY InitSerial
<1>2. IInv /\ SerialInv /\ [Next]_vars /\ OneRetirementAtATime' => SerialInv'
  BY SerialStep
<1>3. SerialInv => QuotedShowsOffer
  BY DEF SerialInv, ShownUnlessPicked, QuotedShowsOffer, Unpicked
<1> QED
  BY <1>1, <1>2, <1>3, Invariance, PTL DEF Spec
=============================================================================
