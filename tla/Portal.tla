------------------------------- MODULE Portal -------------------------------
(***************************************************************************)
(* One page of the admin portal, from its load to the next: the scripts    *)
(* that freeze it while a request is under way, that ask before a form     *)
(* with data-confirm is sent, and the search for a client on the wizard's  *)
(* second page.                                                            *)
(*                                                                         *)
(* The overlay stops the mouse only: Enter in a field and the keys on a    *)
(* focused button or link work underneath.  Nobody counts who has shown    *)
(* the overlay: whoever hides it hides it for all.                         *)
(***************************************************************************)
EXTENDS Naturals

CONSTANTS
  Forms,          \* the forms of the page
  Asks,           \* those with data-confirm
  NoForm

ASSUME PortalAssumption == Asks \subseteq Forms /\ NoForm \notin Forms

VARIABLES
  overlay,        \* is #page-loader-overlay shown?
  dialog,         \* the form the confirmation is open for
  confirmed,      \* forms with dataset.confirmed = "1"
  disabled,       \* forms whose submit controls are disabled
  searching,      \* is a client being looked up?
  leaving,        \* is the browser on its way to another page?
  sent,           \* how often the form was posted
  agreed,         \* forms the user has said Yes for
  linked          \* has a link been followed?

vars == <<overlay, dialog, confirmed, disabled, searching, leaving, sent, agreed, linked>>

Init ==
  /\ overlay = FALSE /\ dialog = NoForm
  /\ confirmed = {} /\ disabled = {}
  /\ searching = FALSE /\ leaving = FALSE /\ linked = FALSE
  /\ sent = [f \in Forms |-> 0] /\ agreed = {}

-----------------------------------------------------------------------------
\* The browser posts the form and waits for the next page.
Post(f) == sent' = [sent EXCEPT ![f] = @ + 1] /\ leaving' = TRUE

\* A form can be submitted unless the dialog holds the focus or its controls
\* are disabled, which stops Enter as well.
Submittable(f) == dialog = NoForm /\ f \notin disabled

\* Mutant: the event goes on to the loader.
AskAndFreeze(f) ==
  /\ Submittable(f)
  /\ f \in Asks \ confirmed
  /\ dialog' = f
  /\ overlay' = TRUE /\ disabled' = disabled \cup {f}
  /\ UNCHANGED <<confirmed, searching, leaving, sent, agreed, linked>>

\* Mutant: the attribute marks the form as soon as it has asked.
AskOnce(f) ==
  /\ Submittable(f)
  /\ f \in Asks \ confirmed
  /\ dialog' = f
  /\ confirmed' = confirmed \cup {f}
  /\ UNCHANGED <<overlay, disabled, searching, leaving, sent, agreed, linked>>

\* The listener of the capture phase stops the event and asks.
Ask(f) ==
  /\ Submittable(f)
  /\ f \in Asks \ confirmed
  /\ dialog' = f
  /\ UNCHANGED <<overlay, confirmed, disabled, searching, leaving, sent, agreed, linked>>

\* Mutant: the loader does not disable.
FreezeOnly(f) ==
  /\ Submittable(f)
  /\ f \notin Asks \ confirmed
  /\ sent[f] < 3
  /\ overlay' = TRUE
  /\ Post(f)
  /\ UNCHANGED <<dialog, confirmed, disabled, searching, agreed, linked>>

\* The loader's listener freezes the page, and the browser posts the form.
Submit(f) ==
  /\ Submittable(f)
  /\ f \notin Asks \ confirmed
  /\ overlay' = TRUE /\ disabled' = disabled \cup {f}
  /\ Post(f)
  /\ UNCHANGED <<dialog, confirmed, searching, agreed, linked>>

\* Yes: proceed() marks the form and posts it past all listeners.
Proceed ==
  /\ dialog # NoForm
  /\ confirmed' = confirmed \cup {dialog} /\ agreed' = agreed \cup {dialog}
  /\ overlay' = TRUE /\ dialog' = NoForm
  /\ Post(dialog)
  /\ UNCHANGED <<disabled, searching, linked>>

Dismiss ==
  /\ dialog # NoForm
  /\ dialog' = NoForm
  /\ UNCHANGED <<overlay, confirmed, disabled, searching, leaving, sent, agreed, linked>>

\* A link shown as a button; with Ctrl the other page opens in another tab.
FollowLink ==
  /\ dialog = NoForm
  /\ overlay' = TRUE /\ linked' = TRUE
  /\ leaving' \in {leaving, TRUE}
  /\ UNCHANGED <<dialog, confirmed, disabled, searching, sent, agreed>>

\* The wizard looks a client up ...
Search ==
  /\ dialog = NoForm /\ ~searching
  /\ overlay' = TRUE /\ searching' = TRUE
  /\ UNCHANGED <<dialog, confirmed, disabled, leaving, sent, agreed, linked>>

\* ... and hides the overlay when it has an answer, whoever else needs it.
SearchEnds ==
  /\ searching
  /\ overlay' = FALSE /\ searching' = FALSE
  /\ UNCHANGED <<dialog, confirmed, disabled, leaving, sent, agreed, linked>>

\* The user stops the browser: the page stays as it is.
Stop ==
  /\ leaving
  /\ leaving' = FALSE
  /\ UNCHANGED <<overlay, dialog, confirmed, disabled, searching, sent, agreed, linked>>

\* The next page, or this one again.
Arrive ==
  /\ leaving
  /\ overlay' = FALSE /\ dialog' = NoForm
  /\ confirmed' = {} /\ disabled' = {}
  /\ searching' = FALSE /\ leaving' = FALSE /\ linked' = FALSE
  /\ sent' = [f \in Forms |-> 0] /\ agreed' = {}

Next ==
  \/ \E f \in Forms : Ask(f) \/ Submit(f)
  \/ Proceed \/ Dismiss
  \/ FollowLink
  \/ Search \/ SearchEnds
  \/ Stop \/ Arrive

Spec == Init /\ [][Next]_vars

-----------------------------------------------------------------------------
(* Properties.                                                             *)

\* A form that asks is not posted before the user has said Yes, however often
\* it was dismissed, by button or by Enter (the confirmation's listener).
AskedFirst == \A f \in Asks : sent[f] > 0 => f \in agreed

\* A page posts a form without data-confirm once, by any mixture of clicks and
\* keys while the overlay comes and goes and the browser is stopped ("so a
\* second click/Enter can't fire a duplicate request", the loader's listener).
\* It is false of the forms that ask: proceed() posts past the listener and
\* leaves their controls enabled, so Enter sends them again under the overlay.
PostedOnce == \A f \in Forms \ Asks : sent[f] <= 1

\* The page is frozen for a request, a link or a search only: a confirmation
\* that is dismissed leaves it usable (the order of the two listeners).
FrozenForAReason ==
  overlay => searching \/ linked \/ \E f \in Forms : sent[f] > 0
=============================================================================
