--------------------------- MODULE Authentication ---------------------------
(***************************************************************************)
(* One login account: its row of Users with the failed-login counter and   *)
(* the lockout, and its one-time codes in OtpVerifications.  Rows of       *)
(* different accounts never meet.                                          *)
(*                                                                         *)
(* A call of the API is a sequence of stored procedures on connections of  *)
(* their own, and what it has read it keeps in memory: a login compares    *)
(* the password with a row it read before, a verification writes to the    *)
(* code its SELECT found before its transaction.  Each statement that      *)
(* another call can come between is an action of its own.                  *)
(*                                                                         *)
(* A time is kept as what the code asks of it: whether it has passed.  The *)
(* comparison of a password or of a code is a free choice, since what is   *)
(* typed is the caller's.                                                  *)
(***************************************************************************)
EXTENDS Naturals, FiniteSets

CONSTANTS
  Sessions,     \* calls in progress at the same time
  MaxFailures,  \* wrong passwords that lock the account (5 in the code)
  MaxTries,     \* mismatches that spend a code (5 in the code)
  MaxCodes      \* bound: codes created in a behaviour

ASSUME LimitsAssumption ==
  /\ IsFiniteSet(Sessions)
  /\ MaxFailures \in Nat \ {0}
  /\ MaxTries \in Nat \ {0}
  /\ MaxCodes \in Nat

VARIABLES
  user,         \* the row of Users
  code,         \* rows of OtpVerifications by otp_id
  issued,       \* the last otp_id
  verified,     \* codes with an OTP_VERIFIED entry in AuditLog
  activations,  \* times the account was made ACTIVE other than by a cooldown
  tokens,       \* codes a token was returned for
  resets,       \* codes the password was changed for
  call          \* calls in progress

vars == <<user, code, issued, verified, activations, tokens, resets, call>>

Codes == 1..MaxCodes
Purposes == {"LOGIN", "REGISTER", "RESET_PASSWORD"}
Until == {"null", "ahead", "passed"}   \* locked_until against NOW()
User == [status : {"none", "ACTIVE", "INACTIVE", "LOCKED"}, attempts : Nat,
         until : Until, selfRegistered : BOOLEAN]
Code == [purpose : Purposes \cup {"none"}, used : BOOLEAN, tries : Nat, expired : BOOLEAN]

\* The purpose of the code a call creates or verifies.
Purpose == [register |-> "REGISTER", activate |-> "REGISTER",
            login |-> "LOGIN", verify |-> "LOGIN",
            forgot |-> "RESET_PASSWORD", reset |-> "RESET_PASSWORD"]
Ops == DOMAIN Purpose
Verifications == {"activate", "verify", "reset"}
Call == [pc : {"idle", "unlock", "read", "failed", "passed", "create", "submit",
               "compare", "apply"},
         op : Ops \cup {"none"}, code : Codes \cup {0}]

NoUser == [status |-> "none", attempts |-> 0, until |-> "null", selfRegistered |-> FALSE]
NoCode == [purpose |-> "none", used |-> FALSE, tries |-> 0, expired |-> FALSE]
Idle == [pc |-> "idle", op |-> "none", code |-> 0]

Init ==
  /\ user = NoUser
  /\ code = [c \in Codes |-> NoCode]
  /\ issued = 0
  /\ verified = {}
  /\ activations = 0
  /\ tokens = {}
  /\ resets = {}
  /\ call = [s \in Sessions |-> Idle]

At(s, pc) == call[s].pc = pc
Goto(s, pc) == call' = [call EXCEPT ![s].pc = pc]
Return(s) == call' = [call EXCEPT ![s] = Idle]

history == <<verified, activations, tokens, resets>>
codes == <<code, issued>>

----------------------------------------------------------------------------
(* Accounts *)

\* Mutant: a status that chk_users_status does not allow.
CreateUserPending ==
  /\ user.status = "none"
  /\ user' = [NoUser EXCEPT !.status = "PENDING"]
  /\ activations' = activations + 1
  /\ UNCHANGED <<codes, verified, tokens, resets, call>>

\* usp_User_Create, for staff and agents.
CreateUser ==
  /\ user.status = "none"
  /\ user' = [NoUser EXCEPT !.status = "ACTIVE"]
  /\ activations' = activations + 1
  /\ UNCHANGED <<codes, verified, tokens, resets, call>>

\* usp_Client_SelfRegister; RegisterAsync goes on to create a code.
SelfRegister(s) ==
  /\ At(s, "idle")
  /\ user.status = "none"
  /\ user' = [NoUser EXCEPT !.status = "INACTIVE", !.selfRegistered = TRUE]
  /\ call' = [call EXCEPT ![s] = [pc |-> "create", op |-> "register", code |-> 0]]
  /\ UNCHANGED <<codes, history>>

CooldownOver == user.status = "LOCKED" /\ user.until = "passed"

\* Every other call starts with usp_User_GetByIdNoForLogin and its SELECT for a
\* lock whose cooldown is over.
Begin(s, op) ==
  /\ At(s, "idle")
  /\ user.status # "none"
  /\ call' = [call EXCEPT ![s] =
       [pc |-> IF CooldownOver THEN "unlock" ELSE "read", op |-> op, code |-> 0]]
  /\ UNCHANGED <<user, codes, history>>

\* Its UPDATE, which does not look at the row again.
Unlock(s) ==
  /\ At(s, "unlock")
  /\ user' = [user EXCEPT !.status = "ACTIVE", !.attempts = 0, !.until = "null"]
  /\ Goto(s, "read")
  /\ UNCHANGED <<codes, history>>

\* Mutant: only a LOCKED account is turned away.
ReadForLoginUnlocked(s, right) ==
  /\ At(s, "read")
  /\ call[s].op = "login"
  /\ CASE user.status = "LOCKED" -> Return(s)
       [] user.status # "LOCKED" /\ right -> Goto(s, "passed")
       [] user.status # "LOCKED" /\ ~right -> Goto(s, "failed")
  /\ UNCHANGED <<user, codes, history>>

\* Mutant: only an INACTIVE account is turned away.
ReadForLoginLocked(s, right) ==
  /\ At(s, "read")
  /\ call[s].op = "login"
  /\ CASE user.status = "INACTIVE" -> Return(s)
       [] user.status # "INACTIVE" /\ right -> Goto(s, "passed")
       [] user.status # "INACTIVE" /\ ~right -> Goto(s, "failed")
  /\ UNCHANGED <<user, codes, history>>

\* LoginAsync: the row as it is now, and the password against its hash.
ReadForLogin(s, right) ==
  /\ At(s, "read")
  /\ call[s].op = "login"
  /\ CASE user.status # "ACTIVE" -> Return(s)
       [] user.status = "ACTIVE" /\ right -> Goto(s, "passed")
       [] user.status = "ACTIVE" /\ ~right -> Goto(s, "failed")
  /\ UNCHANGED <<user, codes, history>>

\* The other calls take the row whatever its status.
ReadForCode(s) ==
  /\ At(s, "read")
  /\ call[s].op # "login"
  /\ Goto(s, IF call[s].op = "forgot" THEN "create" ELSE "submit")
  /\ UNCHANGED <<user, codes, history>>

\* usp_User_RecordFailedLogin, one transaction.
RecordFailedLogin(s) ==
  /\ At(s, "failed")
  /\ user' = IF user.attempts + 1 >= MaxFailures
             THEN [user EXCEPT !.attempts = @ + 1, !.status = "LOCKED", !.until = "ahead"]
             ELSE [user EXCEPT !.attempts = @ + 1]
  /\ Return(s)
  /\ UNCHANGED <<codes, history>>

\* usp_User_RecordSuccessfulLogin: the status stays as it is.
RecordSuccessfulLogin(s) ==
  /\ At(s, "passed")
  /\ user' = [user EXCEPT !.attempts = 0, !.until = "null"]
  /\ Goto(s, "create")
  /\ UNCHANGED <<codes, history>>

\* A success that could not be recorded is logged, and the login goes on.
SuccessNotRecorded(s) ==
  /\ At(s, "passed")
  /\ Goto(s, "create")
  /\ UNCHANGED <<user, codes, history>>

\* The 15 minutes are over.
CooldownPasses ==
  /\ user.until = "ahead"
  /\ user' = [user EXCEPT !.until = "passed"]
  /\ UNCHANGED <<codes, history, call>>

----------------------------------------------------------------------------
(* One-time codes *)

Live(c, purpose) == code[c].purpose = purpose /\ ~code[c].used

\* Mutant: a new code leaves those before it valid.
CreateCodeBeside(s) ==
  /\ At(s, "create")
  /\ issued < MaxCodes
  /\ code' = [code EXCEPT ![issued + 1] = [NoCode EXCEPT !.purpose = Purpose[call[s].op]]]
  /\ issued' = issued + 1
  /\ Return(s)
  /\ UNCHANGED <<user, history>>

\* usp_Otp_Create: its UPDATE locks the codes of the account, so two of them run
\* one after the other.  Delivering the code by e-mail or SMS changes nothing here,
\* and when it fails the code is there all the same.
CreateCode(s) ==
  LET purpose == Purpose[call[s].op]
  IN  /\ At(s, "create")
      /\ issued < MaxCodes
      /\ code' = [c \in Codes |->
           CASE c = issued + 1 -> [NoCode EXCEPT !.purpose = purpose]
             [] c # issued + 1 /\ Live(c, purpose) -> [code[c] EXCEPT !.used = TRUE]
             [] OTHER -> code[c]]
      /\ issued' = issued + 1
      /\ Return(s)
      /\ UNCHANGED <<user, history>>

\* Its five minutes are over; codes expire in the order they were created, and
\* of a used one nobody asks.
CodeExpires(c) ==
  /\ code[c].purpose # "none" /\ ~code[c].used /\ ~code[c].expired
  /\ \A d \in 1..(c - 1) : code[d].used \/ code[d].expired
  /\ code' = [code EXCEPT ![c].expired = TRUE]
  /\ UNCHANGED <<user, issued, history, call>>

\* Mutant: a code of any purpose will do.
AcceptableForAny(c, purpose) ==
  /\ code[c].purpose # "none" /\ ~code[c].used
  /\ ~code[c].expired
  /\ code[c].tries < MaxTries

\* Mutant: mismatches are counted, and the count is never looked at.
AcceptableUntried(c, purpose) ==
  /\ Live(c, purpose)
  /\ \A d \in Codes : Live(d, purpose) => d <= c
  /\ ~code[c].expired

\* The newest unused code of the purpose, unless it has expired or is spent.
Acceptable(c, purpose) ==
  /\ Live(c, purpose)
  /\ \A d \in Codes : Live(d, purpose) => d <= c
  /\ ~code[c].expired
  /\ code[c].tries < MaxTries

\* usp_Otp_Verify before its transaction.
FindCode(s) ==
  /\ At(s, "submit")
  /\ \E c \in Codes :
       /\ Acceptable(c, Purpose[call[s].op])
       /\ call' = [call EXCEPT ![s].pc = "compare", ![s].code = c]
  /\ UNCHANGED <<user, codes, history>>

NoSuchCode(s) ==
  /\ At(s, "submit")
  /\ \A c \in Codes : ~Acceptable(c, Purpose[call[s].op])
  /\ Return(s)
  /\ UNCHANGED <<user, codes, history>>

\* Its transaction when the hashes differ.
Mismatch(s) ==
  /\ At(s, "compare")
  /\ code' = [code EXCEPT ![call[s].code].tries = @ + 1]
  /\ Return(s)
  /\ UNCHANGED <<user, issued, history>>

\* Its transaction when they agree.  A login has its token; a reset and a
\* registration have another procedure to call.
Match(s) ==
  /\ At(s, "compare")
  /\ code' = [code EXCEPT ![call[s].code].used = TRUE]
  /\ verified' = verified \cup {call[s].code}
  /\ IF call[s].op = "verify"
     THEN /\ tokens' = tokens \cup {call[s].code}
          /\ Return(s)
     ELSE /\ Goto(s, "apply")
          /\ UNCHANGED tokens
  /\ UNCHANGED <<user, issued, activations, resets>>

\* VerifyRegistrationOtpAsync: usp_User_UpdateStatus and the token.
Activate(s) ==
  /\ At(s, "apply")
  /\ call[s].op = "activate"
  /\ user' = [user EXCEPT !.status = "ACTIVE"]
  /\ activations' = activations + 1
  /\ tokens' = tokens \cup {call[s].code}
  /\ Return(s)
  /\ UNCHANGED <<codes, verified, resets>>

\* ResetPasswordAsync: usp_User_UpdatePassword.
UpdatePassword(s) ==
  /\ At(s, "apply")
  /\ call[s].op = "reset"
  /\ resets' = resets \cup {call[s].code}
  /\ Return(s)
  /\ UNCHANGED <<user, codes, verified, activations, tokens>>

\* A procedure fails or refuses, or the caller goes away.
Abandon(s) ==
  /\ ~At(s, "idle")
  /\ Return(s)
  /\ UNCHANGED <<user, codes, history>>

----------------------------------------------------------------------------

Account(s) ==
  \/ SelfRegister(s)
  \/ \E op \in Ops \ {"register"} : Begin(s, op)
  \/ Unlock(s)
  \/ \E right \in BOOLEAN : ReadForLogin(s, right)
  \/ ReadForCode(s)
  \/ RecordFailedLogin(s)
  \/ RecordSuccessfulLogin(s)
  \/ SuccessNotRecorded(s)

OneTimeCode(s) ==
  \/ CreateCode(s)
  \/ FindCode(s)
  \/ NoSuchCode(s)
  \/ Mismatch(s)
  \/ Match(s)
  \/ Activate(s)
  \/ UpdatePassword(s)

Step(s) == Account(s) \/ OneTimeCode(s) \/ Abandon(s)

Next ==
  \/ CreateUser
  \/ CooldownPasses
  \/ \E c \in Codes : CodeExpires(c)
  \/ \E s \in Sessions : Step(s)

Spec == Init /\ [][Next]_vars

\* Time passes, every call ends, and somebody keeps trying to log in and gets as
\* far as the UPDATE now and then, however often connections fail.
Fairness ==
  /\ WF_vars(CooldownPasses)
  /\ \A s \in Sessions : /\ WF_vars(~At(s, "idle") /\ Step(s))
                         /\ SF_vars(Begin(s, "login"))
                         /\ SF_vars(Unlock(s))

FairSpec == Spec /\ Fairness

----------------------------------------------------------------------------
(* Properties *)

\* The shape of the rows and of the calls in progress.
TypeOK ==
  /\ user \in User
  /\ code \in [Codes -> Code]
  /\ issued \in 0..MaxCodes
  /\ activations \in Nat
  /\ verified \subseteq Codes /\ tokens \subseteq Codes /\ resets \subseteq Codes
  /\ call \in [Sessions -> Call]

\* A lockout stops the guessing: calls that read the account as ACTIVE before
\* it was locked still add their failures, but no more of them than there are
\* calls at a time, for every time the account was made ACTIVE by other means
\* than the cooldown.
FailuresAreBounded ==
  user.attempts <= MaxFailures - 1 + Cardinality(Sessions) * activations

\* A code is given up after MaxTries mismatches and those of the calls that had
\* found it before.
TriesAreBounded ==
  \A c \in Codes : code[c].tries <= MaxTries - 1 + Cardinality(Sessions)

\* However many calls ask for codes at once, one code of a purpose is valid,
\* and it is the last that was created.
OneLiveCode ==
  \A c, d \in 1..issued :
    code[c].purpose = code[d].purpose /\ ~code[c].used => d <= c

\* A self-registered account lets nobody in, is not even locked, until the
\* REGISTER code was verified.
NoEntryBeforeActivation ==
  user.selfRegistered /\ (user.status # "INACTIVE" \/ tokens # {}) =>
    \E c \in verified : code[c].purpose = "REGISTER"

\* The password changes only for a verified RESET_PASSWORD code, and a token is
\* never returned for one.
ResetsAreVerified ==
  /\ \A c \in resets : c \in verified /\ code[c].purpose = "RESET_PASSWORD"
  /\ \A c \in tokens : c \in verified /\ code[c].purpose # "RESET_PASSWORD"

\* "No admin action needed": an account that is locked does not stay so as long
\* as somebody tries to log in.
LockIsLifted ==
  user.status = "LOCKED" ~> user.status # "LOCKED"
=============================================================================
