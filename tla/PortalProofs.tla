---------------------------- MODULE PortalProofs ----------------------------
(***************************************************************************)
(* Proofs about Portal, for a page with any forms.                         *)
(*                                                                         *)
(* How often a form was posted is told by two marks the scripts leave on   *)
(* it: dataset.confirmed, which only a Yes sets, and the disabled          *)
(* controls, which only the loader's listener sets.  Posts relates them.   *)
(***************************************************************************)
EXTENDS Portal, TLAPS

\* The values the variables of a page can take.
Shape ==
  /\ overlay \in BOOLEAN /\ searching \in BOOLEAN /\ leaving \in BOOLEAN /\ linked \in BOOLEAN
  /\ dialog \in Asks \cup {NoForm}
  /\ confirmed \subseteq Asks /\ disabled \subseteq Forms /\ agreed \subseteq Asks
  /\ sent \in [Forms -> Nat]

\* A form is marked as confirmed by a Yes only, and not asked about again.
MarkedByYes ==
  /\ confirmed \subseteq agreed
  /\ dialog \notin confirmed

\* A form that does not ask is posted by the loader's listener, which disables
\* it.  One that asks is posted by proceed(), which marks it, and after that by
\* the listener, which disables it.
Posts(f) ==
  /\ f \notin confirmed /\ f \notin disabled => sent[f] = 0
  /\ f \notin confirmed /\ f \in disabled => sent[f] <= 1 /\ f \notin Asks
  /\ f \in confirmed /\ f \notin disabled => sent[f] <= 1
  /\ sent[f] <= 2

IInv == Shape /\ MarkedByYes /\ FrozenForAReason /\ \A f \in Forms : Posts(f)

-----------------------------------------------------------------------------
(* The invariant holds on a new page and every action preserves it.        *)

\* A page that has just been loaded, whether first or again.
NewPage ==
  /\ overlay = FALSE /\ dialog = NoForm /\ confirmed = {} /\ disabled = {}
  /\ searching = FALSE /\ leaving = FALSE /\ linked = FALSE
  /\ sent = [f \in Forms |-> 0] /\ agreed = {}

LEMMA NewPageIInv == NewPage => IInv
<1> SUFFICES ASSUME NewPage PROVE IInv
  OBVIOUS
<1>1. Shape
  <2>1. sent \in [Forms -> Nat]
    BY DEF NewPage
  <2>2. /\ overlay \in BOOLEAN /\ searching \in BOOLEAN /\ leaving \in BOOLEAN
        /\ linked \in BOOLEAN
    BY Zenon DEF NewPage
  <2> QED
    BY <2>1, <2>2 DEF NewPage, Shape
<1>2. MarkedByYes /\ FrozenForAReason
  BY DEF NewPage, MarkedByYes, FrozenForAReason
<1>3. ASSUME NEW f \in Forms PROVE Posts(f)
  <2>1. sent[f] = 0 /\ f \notin confirmed /\ f \notin disabled
    BY DEF NewPage
  <2> QED
    BY <2>1 DEF Posts
<1> QED
  BY <1>1, <1>2, <1>3 DEF IInv

\* The dialog opens for a form that is not confirmed yet.
LEMMA AskKeeps ==
  ASSUME IInv, NEW f \in Forms, Ask(f)
  PROVE  IInv'
<1>1. /\ dialog' = f /\ f \in Asks /\ f \notin confirmed
      /\ UNCHANGED <<overlay, confirmed, disabled, searching, leaving, sent, agreed, linked>>
  BY DEF Ask
<1>2. Shape' /\ MarkedByYes'
  BY <1>1 DEF IInv, Shape, MarkedByYes
<1>3. FrozenForAReason' /\ \A g \in Forms : Posts(g)'
  BY <1>1 DEF IInv, FrozenForAReason, Posts
<1> QED
  BY <1>2, <1>3 DEF IInv

\* What a post does to the counters.
LEMMA PostCounts ==
  ASSUME Shape, NEW f \in Forms, Post(f)
  PROVE  /\ sent' \in [Forms -> Nat]
         /\ sent'[f] = sent[f] + 1 /\ sent[f] \in Nat
         /\ \A g \in Forms : g # f => sent'[g] = sent[g]
         /\ leaving' = TRUE
BY DEF Post, Shape

\* The loader's listener: the form's controls were enabled, and are not any more.
LEMMA SubmitKeeps ==
  ASSUME IInv, NEW f \in Forms, Submit(f)
  PROVE  IInv'
<1>1. Post(f) /\ f \notin disabled /\ f \notin Asks \ confirmed
  BY DEF Submit, Submittable
<1>2. /\ overlay' = TRUE /\ disabled' = disabled \cup {f}
      /\ UNCHANGED <<dialog, confirmed, searching, agreed, linked>>
  BY DEF Submit
<1>0. /\ sent' \in [Forms -> Nat]
      /\ sent'[f] = sent[f] + 1 /\ sent[f] \in Nat
      /\ \A g \in Forms : g # f => sent'[g] = sent[g]
      /\ leaving' = TRUE
  BY <1>1, PostCounts DEF IInv
<1>3. Shape'
  BY <1>0, <1>2 DEF IInv, Shape
<1>4. MarkedByYes'
  BY <1>2 DEF IInv, MarkedByYes
<1>5. FrozenForAReason'
  <2>1. sent'[f] > 0
    BY <1>0
  <2> QED
    BY <2>1 DEF FrozenForAReason
<1>6. ASSUME NEW g \in Forms PROVE Posts(g)'
  <2>1. CASE g = f
    BY <1>0, <1>1, <1>2, <2>1 DEF IInv, Posts
  <2>2. CASE g # f
    BY <1>0, <1>1, <1>2, <2>2 DEF IInv, Posts
  <2> QED
    BY <2>1, <2>2
<1> QED
  BY <1>3, <1>4, <1>5, <1>6 DEF IInv

\* Yes: the form was neither confirmed nor posted before.
LEMMA ProceedKeeps ==
  ASSUME IInv, Proceed
  PROVE  IInv'
<1>1. dialog \in Asks /\ dialog \in Forms /\ dialog \notin confirmed
  BY PortalAssumption DEF Proceed, IInv, Shape, MarkedByYes
<1>2. /\ Post(dialog)
      /\ confirmed' = confirmed \cup {dialog} /\ agreed' = agreed \cup {dialog}
      /\ overlay' = TRUE /\ dialog' = NoForm
      /\ UNCHANGED <<disabled, searching, linked>>
  BY DEF Proceed
<1>0. /\ sent' \in [Forms -> Nat]
      /\ sent'[dialog] = sent[dialog] + 1 /\ sent[dialog] \in Nat
      /\ \A g \in Forms : g # dialog => sent'[g] = sent[g]
      /\ leaving' = TRUE
  BY <1>1, <1>2, PostCounts DEF IInv
<1>3. Shape'
  BY <1>0, <1>1, <1>2 DEF IInv, Shape
<1>4. MarkedByYes'
  BY <1>1, <1>2, PortalAssumption DEF IInv, MarkedByYes, Shape
<1>5. FrozenForAReason'
  <2>1. sent'[dialog] > 0
    BY <1>0
  <2> QED
    BY <1>1, <2>1 DEF FrozenForAReason
<1>6. ASSUME NEW g \in Forms PROVE Posts(g)'
  <2>1. CASE g = dialog
    BY <1>0, <1>1, <1>2, <2>1 DEF IInv, Posts
  <2>2. CASE g # dialog
    BY <1>0, <1>1, <1>2, <2>2 DEF IInv, Posts
  <2> QED
    BY <2>1, <2>2
<1> QED
  BY <1>3, <1>4, <1>5, <1>6 DEF IInv

\* The steps that neither post nor mark a form.
LEMMA OtherKeeps ==
  ASSUME IInv,
         Dismiss \/ FollowLink \/ Search \/ SearchEnds \/ Stop \/ UNCHANGED vars
  PROVE  IInv'
<1>1. UNCHANGED <<confirmed, disabled, sent, agreed>>
  BY DEF Dismiss, FollowLink, Search, SearchEnds, Stop, vars
<1>2. dialog' \in {dialog, NoForm}
  BY DEF Dismiss, FollowLink, Search, SearchEnds, Stop, vars
<1>3. Shape'
  BY <1>1, <1>2 DEF IInv, Shape, Dismiss, FollowLink, Search, SearchEnds, Stop, vars
<1>4. MarkedByYes'
  BY <1>1, <1>2, PortalAssumption DEF IInv, MarkedByYes, Shape
<1>5. FrozenForAReason'
  BY <1>1 DEF IInv, FrozenForAReason, Dismiss, FollowLink, Search, SearchEnds, Stop, vars
<1>6. \A f \in Forms : Posts(f)'
  BY <1>1 DEF IInv, Posts
<1> QED
  BY <1>3, <1>4, <1>5, <1>6 DEF IInv

LEMMA Invariance == Spec => []IInv
<1>1. Init => IInv
  BY NewPageIInv DEF Init, NewPage
<1>2. IInv /\ [Next]_vars => IInv'
  <2>1. ASSUME Arrive PROVE IInv'
    <3>1. Shape'
      BY <2>1 DEF Arrive, Shape
    <3>2. MarkedByYes' /\ FrozenForAReason'
      BY <2>1 DEF Arrive, MarkedByYes, FrozenForAReason
    <3>3. \A f \in Forms : Posts(f)'
      BY <2>1 DEF Arrive, Posts
    <3> QED
      BY <3>1, <3>2, <3>3 DEF IInv
  <2> QED
    BY <2>1, AskKeeps, SubmitKeeps, ProceedKeeps, OtherKeeps DEF Next
<1> QED
  BY <1>1, <1>2, PTL DEF Spec

-----------------------------------------------------------------------------

\* A form with data-confirm is not posted before the user has said Yes, by
\* whatever mixture of clicks and keys (the confirmation's listener).
THEOREM Consent == Spec => []AskedFirst
<1>1. IInv => AskedFirst
  BY PortalAssumption DEF IInv, AskedFirst, Posts, MarkedByYes, Shape
<1> QED
  BY <1>1, Invariance, PTL

\* One page posts a form without data-confirm once, however the overlay comes
\* and goes and however often the browser is stopped (the loader's listener
\* disables what it posts).
THEOREM NoRepeats == Spec => []PostedOnce
<1>1. IInv => PostedOnce
  <2> SUFFICES ASSUME IInv, NEW f \in Forms \ Asks
               PROVE  sent[f] <= 1
    BY DEF PostedOnce
  <2>1. Posts(f) /\ sent[f] \in Nat /\ confirmed \subseteq Asks
    BY DEF IInv, Shape
  <2> QED
    BY <2>1 DEF Posts
<1> QED
  BY <1>1, Invariance, PTL

\* A form that asks may be posted again after the Yes, because proceed() posts
\* past the loader's listener; not a third time, because that second submission
\* is the listener's.
THEOREM NoThirdPost == Spec => [](\A f \in Asks : sent[f] <= 2)
<1>1. IInv => \A f \in Asks : sent[f] <= 2
  BY PortalAssumption DEF IInv, Posts
<1> QED
  BY <1>1, Invariance, PTL

\* Whatever freezes the page is a request, a link or a search, and never a
\* confirmation that was dismissed.
THEOREM NoIdleFreeze == Spec => []FrozenForAReason
<1>1. IInv => FrozenForAReason
  BY DEF IInv
<1> QED
  BY <1>1, Invariance, PTL
=============================================================================
