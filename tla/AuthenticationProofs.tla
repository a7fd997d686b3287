------------------------ MODULE AuthenticationProofs ------------------------
(***************************************************************************)
(* Proofs about Authentication for any number of concurrent calls, any     *)
(* limits and any number of codes.                                         *)
(*                                                                         *)
(* Both bounds have the same shape: a counter plus the calls that are      *)
(* about to raise it never exceeds what it was when the limit was last     *)
(* tested plus one for each call there can be.  For the failed logins the  *)
(* limit is tested against the status, which registration sets back to     *)
(* ACTIVE without looking at the counter; hence a factor for every         *)
(* activation.                                                             *)
(***************************************************************************)
EXTENDS Authentication, FiniteSetTheorems, TLAPS

\* Calls about to record a failed login, and to record a mismatch on c.
Failing == {s \in Sessions : call[s].pc = "failed"}
Comparing(c) == {s \in Sessions : call[s].pc = "compare" /\ call[s].code = c}

\* What the counter of failed logins may have reached when the account was last
\* made ACTIVE, and what it may reach.
Overshoot(n) == MaxFailures - 1 + Cardinality(Sessions) * n

Failures ==
  /\ user.attempts + Cardinality(Failing) <= Overshoot(activations)
  /\ user.status = "ACTIVE" => user.attempts <= Overshoot(activations - 1)

Tries ==
  \A c \in Codes :
    code[c].tries + Cardinality(Comparing(c)) <= MaxTries - 1 + Cardinality(Sessions)

\* An account that was ACTIVE once, and what there is before it was created.
Accounts ==
  /\ user.status \in {"ACTIVE", "LOCKED"} => activations >= 1
  /\ user.status = "none" =>
       issued = 0 /\ activations = 0 /\ tokens = {} /\ \A s \in Sessions : call[s].pc = "idle"

\* Codes are numbered as they are created.
Numbered ==
  /\ \A c \in Codes : code[c].purpose = "none" <=> c > issued
  /\ verified \subseteq 1..issued

\* What a call in progress still knows.
Known ==
  \A s \in Sessions :
    /\ call[s].pc \in {"unlock", "failed", "passed"} => activations >= 1
    /\ call[s].pc \in {"failed", "passed"} => call[s].op = "login"
    /\ call[s].pc \in {"unlock", "read"} => call[s].op \in Ops \ {"register"}
    /\ call[s].pc = "create" => call[s].op \in Ops \ Verifications
    /\ call[s].pc \in {"submit", "compare", "apply"} => call[s].op \in Verifications
    /\ call[s].pc \in {"compare", "apply"} =>
         call[s].code \in 1..issued /\ code[call[s].code].purpose = Purpose[call[s].op]
    /\ call[s].pc = "apply" => call[s].op # "verify" /\ call[s].code \in verified

\* Before the REGISTER code is verified nobody gets past the status.
RegisterVerified == \E c \in verified : code[c].purpose = "REGISTER"

Untouched ==
  user.selfRegistered /\ ~RegisterVerified =>
    /\ user.status = "INACTIVE"
    /\ tokens = {}
    /\ \A c \in Codes : code[c].purpose # "LOGIN"
    /\ \A s \in Sessions : /\ call[s].pc \notin {"unlock", "failed", "passed"}
                           /\ call[s].pc = "create" => call[s].op # "login"

IInv ==
  /\ TypeOK
  /\ Failures
  /\ Tries
  /\ Accounts
  /\ Numbered
  /\ Known
  /\ Untouched
  /\ OneLiveCode
  /\ ResetsAreVerified

----------------------------------------------------------------------------
(* Numbers *)

\* The bound on failed logins grows by one per call with every activation.
LEMMA OvershootGrows ==
  ASSUME NEW n \in Nat
  PROVE  /\ Cardinality(Sessions) \in Nat
         /\ Overshoot(n) \in Nat
         /\ Overshoot(n + 1) = Overshoot(n) + Cardinality(Sessions)
         /\ Overshoot((n + 1) - 1) = Overshoot(n)
         /\ n >= 1 => /\ Overshoot(n - 1) \in Nat
                      /\ Overshoot(n) = Overshoot(n - 1) + Cardinality(Sessions)
<1> DEFINE N == Cardinality(Sessions)
<1>1. N \in Nat
  BY LimitsAssumption, FS_CardinalityType
<1>2. ASSUME NEW m \in Nat PROVE N * m \in Nat /\ N * (m + 1) = N * m + N
  BY <1>1
<1>3. ASSUME NEW m \in Nat PROVE Overshoot(m) \in Nat /\ Overshoot(m + 1) = Overshoot(m) + N
  <2>1. Overshoot(m) = MaxFailures - 1 + N * m /\ Overshoot(m + 1) = MaxFailures - 1 + N * (m + 1)
    BY DEF Overshoot
  <2> HIDE DEF N
  <2> QED
    BY <1>1, <1>2, <2>1, LimitsAssumption
<1>4. ASSUME n >= 1 PROVE Overshoot(n - 1) \in Nat /\ Overshoot(n) = Overshoot(n - 1) + N
  <2>1. n - 1 \in Nat /\ (n - 1) + 1 = n
    BY <1>4
  <2> QED
    BY <2>1, <1>3
<1>5. (n + 1) - 1 = n
  OBVIOUS
<1> QED
  BY <1>1, <1>3, <1>4, <1>5

\* Also where it is below zero.
LEMMA OvershootIsInteger ==
  ASSUME NEW n \in Nat
  PROVE  Overshoot(n - 1) \in Int
<1>1. CASE n = 0
  <2>1. Cardinality(Sessions) \in Nat /\ Cardinality(Sessions) * (n - 1) \in Int
    BY <1>1, LimitsAssumption, FS_CardinalityType
  <2> QED
    BY <2>1, LimitsAssumption DEF Overshoot
<1>2. CASE n >= 1
  BY <1>2, OvershootGrows
<1> QED
  BY <1>1, <1>2

\* A set of calls has a size, and a smaller set a smaller one.
LEMMA Sizes ==
  ASSUME NEW A \in SUBSET Sessions, NEW B \in SUBSET A
  PROVE  /\ Cardinality(A) \in Nat /\ Cardinality(B) \in Nat
         /\ Cardinality(B) <= Cardinality(A)
         /\ Cardinality(A) <= Cardinality(Sessions)
<1>1. IsFiniteSet(A) /\ Cardinality(A) <= Cardinality(Sessions)
  BY LimitsAssumption, FS_Subset
<1>2. IsFiniteSet(B) /\ Cardinality(B) <= Cardinality(A)
  BY <1>1, FS_Subset
<1> QED
  BY <1>1, <1>2, FS_CardinalityType

\* A call that leaves a set makes it one smaller.
LEMMA OneLess ==
  ASSUME NEW A \in SUBSET Sessions, NEW s \in A
  PROVE  Cardinality(A \ {s}) = Cardinality(A) - 1
BY LimitsAssumption, FS_Subset, FS_RemoveElement

----------------------------------------------------------------------------
(* Every action keeps every part of the invariant *)

\* The codes that were issued are codes.
LEMMA IssuedAreCodes ==
  ASSUME TypeOK
  PROVE  /\ 1..issued \subseteq Codes
         /\ issued \in Nat
         /\ issued < MaxCodes => issued + 1 \in Codes
<1>1. issued \in 0..MaxCodes
  BY DEF TypeOK
<1> QED
  BY <1>1, LimitsAssumption DEF Codes

\* The row of the account keeps its shape.
LEMMA UserTyped ==
  ASSUME IInv, Next
  PROVE  user' \in User /\ activations' \in Nat
<1>0. TypeOK /\ Known
  BY DEF IInv
<1>1. CASE CreateUser
  <2>1. user' \in User
    BY <1>1 DEF CreateUser, NoUser, User, Until
  <2>2. activations' \in Nat
    BY <1>0, <1>1 DEF CreateUser, TypeOK
  <2> QED
    BY <2>1, <2>2
<1>2. CASE CooldownPasses
  BY <1>0, <1>2 DEF CooldownPasses, codes, history, TypeOK, User, Until
<1>3. ASSUME NEW c \in Codes, CodeExpires(c) PROVE user' \in User /\ activations' \in Nat
  BY <1>0, <1>3 DEF CodeExpires, history, TypeOK, User, Until
<1>4. ASSUME NEW s \in Sessions, Step(s) PROVE user' \in User /\ activations' \in Nat
  <2>1. CASE SelfRegister(s)
    BY <1>0, <2>1 DEF SelfRegister, At, Goto, Return, codes, history, Idle,
       NoUser, TypeOK, User, Until
  <2>2. ASSUME NEW op \in Ops \ {"register"}, Begin(s, op) PROVE user' \in User /\ activations' \in Nat
    BY <1>0, <2>2 DEF Begin, At, Goto, Return, codes, history, Idle,
       CooldownOver, TypeOK, User, Until
  <2>3. CASE Unlock(s)
    BY <1>0, <2>3 DEF Unlock, At, Goto, Return, codes, history, Idle, TypeOK,
       User, Until
  <2>4. ASSUME NEW right \in BOOLEAN, ReadForLogin(s, right) PROVE user' \in User /\ activations' \in Nat
    BY <1>0, <2>4 DEF ReadForLogin, At, Goto, Return, codes, history, Idle,
       TypeOK, User, Until
  <2>5. CASE ReadForCode(s)
    BY <1>0, <2>5 DEF ReadForCode, At, Goto, Return, codes, history, Idle,
       TypeOK, User, Until
  <2>6. CASE RecordFailedLogin(s)
    <3>1. [user EXCEPT !.attempts = @ + 1] \in User
      BY <1>0 DEF TypeOK, User
    <3>2. [[user EXCEPT !.attempts = @ + 1] EXCEPT !.status = "LOCKED", !.until = "ahead"] \in User
      BY <3>1 DEF User, Until
    <3>3. user' \in User
      BY <2>6, <3>1, <3>2 DEF RecordFailedLogin
    <3> QED
      BY <1>0, <2>6, <3>3 DEF RecordFailedLogin, history, TypeOK
  <2>7. CASE RecordSuccessfulLogin(s)
    BY <1>0, <2>7 DEF RecordSuccessfulLogin, At, Goto, Return, codes, history,
       Idle, TypeOK, User, Until
  <2>8. CASE SuccessNotRecorded(s)
    BY <1>0, <2>8 DEF SuccessNotRecorded, At, Goto, Return, codes, history,
       Idle, TypeOK, User, Until
  <2>9. CASE CreateCode(s)
    BY <1>0, <2>9 DEF CreateCode, At, Goto, Return, codes, history, Idle,
       NoCode, Live, TypeOK, User, Until
  <2>10. CASE FindCode(s)
    BY <1>0, <2>10 DEF FindCode, At, Goto, Return, codes, history, Idle,
       Acceptable, Live, TypeOK, User, Until
  <2>11. CASE NoSuchCode(s)
    BY <1>0, <2>11 DEF NoSuchCode, At, Goto, Return, codes, history, Idle,
       TypeOK, User, Until
  <2>12. CASE Mismatch(s)
    BY <1>0, <2>12 DEF Mismatch, At, Goto, Return, codes, history, Idle,
       TypeOK, User, Until
  <2>13. CASE Match(s)
    BY <1>0, <2>13 DEF Match, At, Goto, Return, codes, history, Idle, TypeOK,
       User, Until
  <2>14. CASE Activate(s)
    BY <1>0, <2>14 DEF Activate, At, Goto, Return, codes, history, Idle,
       TypeOK, User, Until
  <2>15. CASE UpdatePassword(s)
    BY <1>0, <2>15 DEF UpdatePassword, At, Goto, Return, codes, history, Idle,
       TypeOK, User, Until
  <2>16. CASE Abandon(s)
    BY <1>0, <2>16 DEF Abandon, At, Goto, Return, codes, history, Idle, TypeOK,
       User, Until
  <2> QED
    BY <1>4, <2>1, <2>2, <2>3, <2>4, <2>5, <2>6, <2>7, <2>8,
       <2>9, <2>10, <2>11, <2>12, <2>13, <2>14, <2>15, <2>16
       DEF Step, Account, OneTimeCode
<1> QED
  BY <1>1, <1>2, <1>3, <1>4 DEF Next

\* Codes keep theirs.
LEMMA CodesTyped ==
  ASSUME IInv, Next
  PROVE  code' \in [Codes -> Code] /\ issued' \in 0..MaxCodes
<1>0. TypeOK /\ Known
  BY DEF IInv
<1>c. \A s \in Sessions : call[s].pc \in {"compare", "apply"} => call[s].code \in Codes
  BY <1>0, IssuedAreCodes DEF Known
<1>1. CASE CreateUser
  BY <1>0, <1>1 DEF CreateUser, NoUser, codes, TypeOK, Code
<1>2. CASE CooldownPasses
  BY <1>0, <1>2 DEF CooldownPasses, codes, history, TypeOK, Code
<1>3. ASSUME NEW c \in Codes, CodeExpires(c) PROVE code' \in [Codes -> Code] /\ issued' \in 0..MaxCodes
  BY <1>0, <1>3 DEF CodeExpires, history, TypeOK, Code
<1>4. ASSUME NEW s \in Sessions, Step(s) PROVE code' \in [Codes -> Code] /\ issued' \in 0..MaxCodes
  <2>1. CASE SelfRegister(s)
    BY <1>0, <2>1 DEF SelfRegister, At, Goto, Return, codes, history, Idle,
       NoUser, TypeOK, Code
  <2>2. ASSUME NEW op \in Ops \ {"register"}, Begin(s, op) PROVE code' \in [Codes -> Code] /\ issued' \in 0..MaxCodes
    BY <1>0, <2>2 DEF Begin, At, Goto, Return, codes, history, Idle,
       CooldownOver, TypeOK, Code
  <2>3. CASE Unlock(s)
    BY <1>0, <2>3 DEF Unlock, At, Goto, Return, codes, history, Idle, TypeOK,
       Code
  <2>4. ASSUME NEW right \in BOOLEAN, ReadForLogin(s, right) PROVE code' \in [Codes -> Code] /\ issued' \in 0..MaxCodes
    BY <1>0, <2>4 DEF ReadForLogin, At, Goto, Return, codes, history, Idle,
       TypeOK, Code
  <2>5. CASE ReadForCode(s)
    BY <1>0, <2>5 DEF ReadForCode, At, Goto, Return, codes, history, Idle,
       TypeOK, Code
  <2>6. CASE RecordFailedLogin(s)
    BY <1>0, <2>6 DEF RecordFailedLogin, At, Goto, Return, codes, history,
       Idle, TypeOK, Code
  <2>7. CASE RecordSuccessfulLogin(s)
    BY <1>0, <2>7 DEF RecordSuccessfulLogin, At, Goto, Return, codes, history,
       Idle, TypeOK, Code
  <2>8. CASE SuccessNotRecorded(s)
    BY <1>0, <2>8 DEF SuccessNotRecorded, At, Goto, Return, codes, history,
       Idle, TypeOK, Code
  <2>9. CASE CreateCode(s)
    <3>1. Purpose[call[s].op] \in Purposes
      BY <1>0, <2>9 DEF CreateCode, At, Known, Ops, Verifications, Purpose, Purposes
    <3>2. issued' \in 0..MaxCodes
      BY <1>0, <2>9, LimitsAssumption DEF CreateCode, TypeOK
    <3>3. code' \in [Codes -> Code]
      BY <1>0, <2>9, <3>1 DEF CreateCode, TypeOK, Code, NoCode
    <3> QED
      BY <3>2, <3>3
  <2>10. CASE FindCode(s)
    BY <1>0, <2>10 DEF FindCode, At, Goto, Return, codes, history, Idle,
       Acceptable, Live, TypeOK, Code
  <2>11. CASE NoSuchCode(s)
    BY <1>0, <2>11 DEF NoSuchCode, At, Goto, Return, codes, history, Idle,
       TypeOK, Code
  <2>12. CASE Mismatch(s)
    <3>1. call[s].code \in Codes /\ code[call[s].code] \in Code
      BY <1>0, <1>c, <2>12 DEF Mismatch, At, TypeOK
    <3>2. [code[call[s].code] EXCEPT !.tries = @ + 1] \in Code
      BY <3>1 DEF Code
    <3>3. code' = [code EXCEPT ![call[s].code] = [code[call[s].code] EXCEPT !.tries = @ + 1]]
      BY <2>12 DEF Mismatch
    <3> QED
      BY <1>0, <2>12, <3>2, <3>3 DEF Mismatch, TypeOK
  <2>13. CASE Match(s)
    BY <1>0, <2>13 DEF Match, At, Goto, Return, codes, history, Idle, TypeOK,
       Code
  <2>14. CASE Activate(s)
    BY <1>0, <2>14 DEF Activate, At, Goto, Return, codes, history, Idle,
       TypeOK, Code
  <2>15. CASE UpdatePassword(s)
    BY <1>0, <2>15 DEF UpdatePassword, At, Goto, Return, codes, history, Idle,
       TypeOK, Code
  <2>16. CASE Abandon(s)
    BY <1>0, <2>16 DEF Abandon, At, Goto, Return, codes, history, Idle, TypeOK,
       Code
  <2> QED
    BY <1>4, <2>1, <2>2, <2>3, <2>4, <2>5, <2>6, <2>7, <2>8,
       <2>9, <2>10, <2>11, <2>12, <2>13, <2>14, <2>15, <2>16
       DEF Step, Account, OneTimeCode
<1> QED
  BY <1>1, <1>2, <1>3, <1>4 DEF Next

\* Calls keep theirs.
LEMMA CallsTyped ==
  ASSUME IInv, Next
  PROVE  call' \in [Sessions -> Call]
<1>0. TypeOK /\ Known
  BY DEF IInv
<1>1. CASE CreateUser
  BY <1>0, <1>1 DEF CreateUser, NoUser, codes, TypeOK, Call
<1>2. CASE CooldownPasses
  BY <1>0, <1>2 DEF CooldownPasses, codes, history, TypeOK, Call
<1>3. ASSUME NEW c \in Codes, CodeExpires(c) PROVE call' \in [Sessions -> Call]
  BY <1>0, <1>3 DEF CodeExpires, history, TypeOK, Call
<1>4. ASSUME NEW s \in Sessions, Step(s) PROVE call' \in [Sessions -> Call]
  <2>1. CASE SelfRegister(s)
    BY <1>0, <2>1 DEF SelfRegister, TypeOK, Call, Ops, Purpose
  <2>2. ASSUME NEW op \in Ops \ {"register"}, Begin(s, op) PROVE call' \in [Sessions -> Call]
    BY <1>0, <2>2 DEF Begin, TypeOK, Call
  <2>3. CASE Unlock(s)
    BY <1>0, <2>3 DEF Unlock, At, Goto, Return, codes, history, Idle, TypeOK,
       Call
  <2>4. ASSUME NEW right \in BOOLEAN, ReadForLogin(s, right) PROVE call' \in [Sessions -> Call]
    <3>1. PICK new \in Call : call' = [call EXCEPT ![s] = new]
      <4>1. /\ Idle \in Call
            /\ \A pc \in {"failed", "passed"} : [call[s] EXCEPT !.pc = pc] \in Call
        BY <1>0 DEF TypeOK, Call, Idle
      <4> QED
        BY <2>4, <4>1 DEF ReadForLogin, Goto, Return
    <3> QED
      BY <1>0, <3>1 DEF TypeOK
  <2>5. CASE ReadForCode(s)
    BY <1>0, <2>5 DEF ReadForCode, At, Goto, Return, codes, history, Idle,
       TypeOK, Call
  <2>6. CASE RecordFailedLogin(s)
    BY <1>0, <2>6 DEF RecordFailedLogin, At, Goto, Return, codes, history,
       Idle, TypeOK, Call
  <2>7. CASE RecordSuccessfulLogin(s)
    BY <1>0, <2>7 DEF RecordSuccessfulLogin, At, Goto, Return, codes, history,
       Idle, TypeOK, Call
  <2>8. CASE SuccessNotRecorded(s)
    BY <1>0, <2>8 DEF SuccessNotRecorded, At, Goto, Return, codes, history,
       Idle, TypeOK, Call
  <2>9. CASE CreateCode(s)
    BY <1>0, <2>9 DEF CreateCode, At, Goto, Return, codes, history, Idle,
       NoCode, Live, TypeOK, Call
  <2>10. CASE FindCode(s)
    <3>1. PICK c \in Codes : call' = [call EXCEPT ![s].pc = "compare", ![s].code = c]
      BY <2>10 DEF FindCode
    <3>2. [call[s] EXCEPT !.pc = "compare", !.code = c] \in Call
      BY <1>0 DEF TypeOK, Call
    <3>3. call' = [call EXCEPT ![s] = [call[s] EXCEPT !.pc = "compare", !.code = c]]
      BY <1>0, <3>1 DEF TypeOK
    <3> QED
      BY <1>0, <3>2, <3>3 DEF TypeOK
  <2>11. CASE NoSuchCode(s)
    BY <1>0, <2>11 DEF NoSuchCode, At, Goto, Return, codes, history, Idle,
       TypeOK, Call
  <2>12. CASE Mismatch(s)
    BY <1>0, <2>12 DEF Mismatch, At, Goto, Return, codes, history, Idle,
       TypeOK, Call
  <2>13. CASE Match(s)
    BY <1>0, <2>13 DEF Match, At, Goto, Return, codes, history, Idle, TypeOK,
       Call
  <2>14. CASE Activate(s)
    BY <1>0, <2>14 DEF Activate, At, Goto, Return, codes, history, Idle,
       TypeOK, Call
  <2>15. CASE UpdatePassword(s)
    BY <1>0, <2>15 DEF UpdatePassword, At, Goto, Return, codes, history, Idle,
       TypeOK, Call
  <2>16. CASE Abandon(s)
    BY <1>0, <2>16 DEF Abandon, At, Goto, Return, codes, history, Idle, TypeOK,
       Call
  <2> QED
    BY <1>4, <2>1, <2>2, <2>3, <2>4, <2>5, <2>6, <2>7, <2>8,
       <2>9, <2>10, <2>11, <2>12, <2>13, <2>14, <2>15, <2>16
       DEF Step, Account, OneTimeCode
<1> QED
  BY <1>1, <1>2, <1>3, <1>4 DEF Next

\* Codes that are spoken of exist.
LEMMA HistoryTyped ==
  ASSUME IInv, Next
  PROVE  verified' \subseteq Codes /\ tokens' \subseteq Codes /\ resets' \subseteq Codes
<1>0. TypeOK /\ Known
  BY DEF IInv
<1>c. \A s \in Sessions : call[s].pc \in {"compare", "apply"} => call[s].code \in Codes
  BY <1>0, IssuedAreCodes DEF Known
<1>1. CASE CreateUser
  BY <1>0, <1>1 DEF CreateUser, NoUser, codes, TypeOK
<1>2. CASE CooldownPasses
  BY <1>0, <1>2 DEF CooldownPasses, codes, history, TypeOK
<1>3. ASSUME NEW c \in Codes, CodeExpires(c) PROVE verified' \subseteq Codes /\ tokens' \subseteq Codes /\ resets' \subseteq Codes
  BY <1>0, <1>3 DEF CodeExpires, history, TypeOK
<1>4. ASSUME NEW s \in Sessions, Step(s) PROVE verified' \subseteq Codes /\ tokens' \subseteq Codes /\ resets' \subseteq Codes
  <2>1. CASE SelfRegister(s)
    BY <1>0, <2>1 DEF SelfRegister, At, Goto, Return, codes, history, Idle,
       NoUser, TypeOK
  <2>2. ASSUME NEW op \in Ops \ {"register"}, Begin(s, op) PROVE verified' \subseteq Codes /\ tokens' \subseteq Codes /\ resets' \subseteq Codes
    BY <1>0, <2>2 DEF Begin, At, Goto, Return, codes, history, Idle,
       CooldownOver, TypeOK
  <2>3. CASE Unlock(s)
    BY <1>0, <2>3 DEF Unlock, At, Goto, Return, codes, history, Idle, TypeOK
  <2>4. ASSUME NEW right \in BOOLEAN, ReadForLogin(s, right) PROVE verified' \subseteq Codes /\ tokens' \subseteq Codes /\ resets' \subseteq Codes
    BY <1>0, <2>4 DEF ReadForLogin, At, Goto, Return, codes, history, Idle,
       TypeOK
  <2>5. CASE ReadForCode(s)
    BY <1>0, <2>5 DEF ReadForCode, At, Goto, Return, codes, history, Idle,
       TypeOK
  <2>6. CASE RecordFailedLogin(s)
    BY <1>0, <2>6 DEF RecordFailedLogin, At, Goto, Return, codes, history,
       Idle, TypeOK
  <2>7. CASE RecordSuccessfulLogin(s)
    BY <1>0, <2>7 DEF RecordSuccessfulLogin, At, Goto, Return, codes, history,
       Idle, TypeOK
  <2>8. CASE SuccessNotRecorded(s)
    BY <1>0, <2>8 DEF SuccessNotRecorded, At, Goto, Return, codes, history,
       Idle, TypeOK
  <2>9. CASE CreateCode(s)
    BY <1>0, <2>9 DEF CreateCode, At, Goto, Return, codes, history, Idle,
       NoCode, Live, TypeOK
  <2>10. CASE FindCode(s)
    BY <1>0, <2>10 DEF FindCode, At, Goto, Return, codes, history, Idle,
       Acceptable, Live, TypeOK
  <2>11. CASE NoSuchCode(s)
    BY <1>0, <2>11 DEF NoSuchCode, At, Goto, Return, codes, history, Idle,
       TypeOK
  <2>12. CASE Mismatch(s)
    BY <1>0, <2>12 DEF Mismatch, At, Goto, Return, codes, history, Idle, TypeOK
  <2>13. CASE Match(s)
    BY <1>0, <1>c, <2>13 DEF Match, At, TypeOK, codes
  <2>14. CASE Activate(s)
    BY <1>0, <1>c, <2>14 DEF Activate, At, TypeOK, codes
  <2>15. CASE UpdatePassword(s)
    BY <1>0, <1>c, <2>15 DEF UpdatePassword, At, TypeOK, codes
  <2>16. CASE Abandon(s)
    BY <1>0, <2>16 DEF Abandon, At, Goto, Return, codes, history, Idle, TypeOK
  <2> QED
    BY <1>4, <2>1, <2>2, <2>3, <2>4, <2>5, <2>6, <2>7, <2>8,
       <2>9, <2>10, <2>11, <2>12, <2>13, <2>14, <2>15, <2>16
       DEF Step, Account, OneTimeCode
<1> QED
  BY <1>1, <1>2, <1>3, <1>4 DEF Next

\* All of it.
LEMMA TypesKept ==
  ASSUME IInv, Next
  PROVE  TypeOK'
BY UserTyped, CodesTyped, CallsTyped, HistoryTyped DEF TypeOK

\* Nobody calls before there is an account, and an account was ACTIVE before it is locked.
LEMMA AccountsKept ==
  ASSUME IInv, Next
  PROVE  Accounts'
<1>0. TypeOK /\ Known /\ Accounts /\ Numbered
  BY DEF IInv
<1>1. CASE CreateUser
  BY <1>0, <1>1 DEF CreateUser, NoUser, codes, TypeOK, Accounts, User, Known
<1>2. CASE CooldownPasses
  BY <1>0, <1>2 DEF CooldownPasses, codes, history, TypeOK, Accounts, User,
     Known
<1>3. ASSUME NEW c \in Codes, CodeExpires(c) PROVE Accounts'
  BY <1>0, <1>3 DEF CodeExpires, history, TypeOK, Accounts, User, Known
<1>4. ASSUME NEW s \in Sessions, Step(s) PROVE Accounts'
  <2>1. CASE SelfRegister(s)
    BY <1>0, <2>1 DEF SelfRegister, At, Goto, Return, codes, history, Idle,
       NoUser, TypeOK, Accounts, User, Known
  <2>2. ASSUME NEW op \in Ops \ {"register"}, Begin(s, op) PROVE Accounts'
    BY <1>0, <2>2 DEF Begin, At, Goto, Return, codes, history, Idle,
       CooldownOver, TypeOK, Accounts, User, Known
  <2>3. CASE Unlock(s)
    BY <1>0, <2>3 DEF Unlock, At, Goto, Return, codes, history, Idle, TypeOK,
       Accounts, User, Known
  <2>4. ASSUME NEW right \in BOOLEAN, ReadForLogin(s, right) PROVE Accounts'
    BY <1>0, <2>4 DEF ReadForLogin, At, Goto, Return, codes, history, Idle,
       TypeOK, Accounts, User, Known
  <2>5. CASE ReadForCode(s)
    BY <1>0, <2>5 DEF ReadForCode, At, Goto, Return, codes, history, Idle,
       TypeOK, Accounts, User, Known
  <2>6. CASE RecordFailedLogin(s)
    BY <1>0, <2>6 DEF RecordFailedLogin, At, Goto, Return, codes, history,
       Idle, TypeOK, Accounts, User, Known
  <2>7. CASE RecordSuccessfulLogin(s)
    BY <1>0, <2>7 DEF RecordSuccessfulLogin, At, Goto, Return, codes, history,
       Idle, TypeOK, Accounts, User, Known
  <2>8. CASE SuccessNotRecorded(s)
    BY <1>0, <2>8 DEF SuccessNotRecorded, At, Goto, Return, codes, history,
       Idle, TypeOK, Accounts, User, Known
  <2>9. CASE CreateCode(s)
    BY <1>0, <2>9 DEF CreateCode, At, Goto, Return, codes, history, Idle,
       NoCode, Live, TypeOK, Accounts, User, Known
  <2>10. CASE FindCode(s)
    BY <1>0, <2>10 DEF FindCode, At, Goto, Return, codes, history, Idle,
       Acceptable, Live, TypeOK, Accounts, User, Known
  <2>11. CASE NoSuchCode(s)
    BY <1>0, <2>11 DEF NoSuchCode, At, Goto, Return, codes, history, Idle,
       TypeOK, Accounts, User, Known
  <2>12. CASE Mismatch(s)
    BY <1>0, <2>12 DEF Mismatch, At, Goto, Return, codes, history, Idle,
       TypeOK, Accounts, User, Known
  <2>13. CASE Match(s)
    BY <1>0, <2>13 DEF Match, At, Goto, Return, codes, history, Idle, TypeOK,
       Accounts, User, Known
  <2>14. CASE Activate(s)
    BY <1>0, <2>14 DEF Activate, At, Goto, Return, codes, history, Idle,
       TypeOK, Accounts, User, Known
  <2>15. CASE UpdatePassword(s)
    BY <1>0, <2>15 DEF UpdatePassword, At, Goto, Return, codes, history, Idle,
       TypeOK, Accounts, User, Known
  <2>16. CASE Abandon(s)
    BY <1>0, <2>16 DEF Abandon, At, Goto, Return, codes, history, Idle, TypeOK,
       Accounts, User, Known
  <2> QED
    BY <1>4, <2>1, <2>2, <2>3, <2>4, <2>5, <2>6, <2>7, <2>8,
       <2>9, <2>10, <2>11, <2>12, <2>13, <2>14, <2>15, <2>16
       DEF Step, Account, OneTimeCode
<1> QED
  BY <1>1, <1>2, <1>3, <1>4 DEF Next

\* Codes are numbered in order, and only those that exist are verified.
LEMMA NumberedKept ==
  ASSUME IInv, Next
  PROVE  Numbered'
<1>0. TypeOK /\ Known /\ Accounts /\ Numbered
  BY DEF IInv
<1>1. CASE CreateUser
  BY <1>0, IssuedAreCodes, <1>1 DEF CreateUser, NoUser, codes, TypeOK,
     Numbered, Code
<1>2. CASE CooldownPasses
  BY <1>0, IssuedAreCodes, <1>2 DEF CooldownPasses, codes, history, TypeOK,
     Numbered, Code
<1>3. ASSUME NEW c \in Codes, CodeExpires(c) PROVE Numbered'
  BY <1>0, IssuedAreCodes, <1>3 DEF CodeExpires, history, TypeOK, Numbered,
     Code
<1>4. ASSUME NEW s \in Sessions, Step(s) PROVE Numbered'
  <2>1. CASE SelfRegister(s)
    BY <1>0, IssuedAreCodes, <2>1 DEF SelfRegister, At, Goto, Return, codes,
       history, Idle, NoUser, TypeOK, Numbered, Code
  <2>2. ASSUME NEW op \in Ops \ {"register"}, Begin(s, op) PROVE Numbered'
    BY <1>0, IssuedAreCodes, <2>2 DEF Begin, At, Goto, Return, codes, history,
       Idle, CooldownOver, TypeOK, Numbered, Code
  <2>3. CASE Unlock(s)
    BY <1>0, IssuedAreCodes, <2>3 DEF Unlock, At, Goto, Return, codes, history,
       Idle, TypeOK, Numbered, Code
  <2>4. ASSUME NEW right \in BOOLEAN, ReadForLogin(s, right) PROVE Numbered'
    BY <1>0, IssuedAreCodes, <2>4 DEF ReadForLogin, At, Goto, Return, codes,
       history, Idle, TypeOK, Numbered, Code
  <2>5. CASE ReadForCode(s)
    BY <1>0, IssuedAreCodes, <2>5 DEF ReadForCode, At, Goto, Return, codes,
       history, Idle, TypeOK, Numbered, Code
  <2>6. CASE RecordFailedLogin(s)
    BY <1>0, IssuedAreCodes, <2>6 DEF RecordFailedLogin, At, Goto, Return,
       codes, history, Idle, TypeOK, Numbered, Code
  <2>7. CASE RecordSuccessfulLogin(s)
    BY <1>0, IssuedAreCodes, <2>7 DEF RecordSuccessfulLogin, At, Goto, Return,
       codes, history, Idle, TypeOK, Numbered, Code
  <2>8. CASE SuccessNotRecorded(s)
    BY <1>0, IssuedAreCodes, <2>8 DEF SuccessNotRecorded, At, Goto, Return,
       codes, history, Idle, TypeOK, Numbered, Code
  <2>9. CASE CreateCode(s)
    <3>1. Purpose[call[s].op] # "none"
      BY <1>0, <2>9 DEF CreateCode, At, Known, Ops, Verifications, Purpose
    <3>2. \A c \in Codes : code'[c].purpose = IF c = issued + 1 THEN Purpose[call[s].op] ELSE code[c].purpose
      BY <1>0, <2>9 DEF CreateCode, TypeOK, Code, NoCode
    <3>3. issued' = issued + 1 /\ verified' = verified /\ issued \in Nat
      BY <1>0, <2>9, IssuedAreCodes DEF CreateCode, history
    <3>4. \A c \in Codes : c \in Nat
      BY DEF Codes
    <3> QED
      BY <1>0, <3>1, <3>2, <3>3, <3>4 DEF Numbered
  <2>10. CASE FindCode(s)
    BY <1>0, IssuedAreCodes, <2>10 DEF FindCode, At, Goto, Return, codes,
       history, Idle, Acceptable, Live, TypeOK, Numbered, Code
  <2>11. CASE NoSuchCode(s)
    BY <1>0, IssuedAreCodes, <2>11 DEF NoSuchCode, At, Goto, Return, codes,
       history, Idle, TypeOK, Numbered, Code
  <2>12. CASE Mismatch(s)
    BY <1>0, IssuedAreCodes, <2>12 DEF Mismatch, At, Goto, Return, codes,
       history, Idle, TypeOK, Numbered, Code
  <2>13. CASE Match(s)
    BY <1>0, <2>13 DEF Match, At, TypeOK, Code, Known, Numbered
  <2>14. CASE Activate(s)
    BY <1>0, IssuedAreCodes, <2>14 DEF Activate, At, Goto, Return, codes,
       history, Idle, TypeOK, Numbered, Code
  <2>15. CASE UpdatePassword(s)
    BY <1>0, IssuedAreCodes, <2>15 DEF UpdatePassword, At, Goto, Return, codes,
       history, Idle, TypeOK, Numbered, Code
  <2>16. CASE Abandon(s)
    BY <1>0, IssuedAreCodes, <2>16 DEF Abandon, At, Goto, Return, codes,
       history, Idle, TypeOK, Numbered, Code
  <2> QED
    BY <1>4, <2>1, <2>2, <2>3, <2>4, <2>5, <2>6, <2>7, <2>8,
       <2>9, <2>10, <2>11, <2>12, <2>13, <2>14, <2>15, <2>16
       DEF Step, Account, OneTimeCode
<1> QED
  BY <1>1, <1>2, <1>3, <1>4 DEF Next

\* Calls go by what they have read.
LEMMA KnownKept ==
  ASSUME IInv, Next
  PROVE  Known'
<1>0. TypeOK /\ Known /\ Accounts /\ Numbered
  BY DEF IInv
<1>1. CASE CreateUser
  BY <1>0, IssuedAreCodes, <1>1 DEF CreateUser, NoUser, codes, TypeOK, Known,
     Call, Accounts, Numbered, Ops, Purpose, Verifications
<1>2. CASE CooldownPasses
  BY <1>0, IssuedAreCodes, <1>2 DEF CooldownPasses, codes, history, TypeOK,
     Known, Call, Accounts, Numbered, Ops, Purpose, Verifications
<1>3. ASSUME NEW c \in Codes, CodeExpires(c) PROVE Known'
  BY <1>0, IssuedAreCodes, <1>3 DEF CodeExpires, history, TypeOK, Known, Call,
     Accounts, Numbered, Ops, Purpose, Verifications
<1>4. ASSUME NEW s \in Sessions, Step(s) PROVE Known'
  <2>1. CASE SelfRegister(s)
    BY <1>0, IssuedAreCodes, <2>1 DEF SelfRegister, At, Goto, Return, codes,
       history, Idle, NoUser, TypeOK, Known, Call, Accounts, Numbered, Ops,
       Purpose, Verifications
  <2>2. ASSUME NEW op \in Ops \ {"register"}, Begin(s, op) PROVE Known'
    BY <1>0, IssuedAreCodes, <2>2 DEF Begin, At, Goto, Return, codes, history,
       Idle, CooldownOver, TypeOK, Known, Call, Accounts, Numbered, Ops,
       Purpose, Verifications
  <2>3. CASE Unlock(s)
    BY <1>0, IssuedAreCodes, <2>3 DEF Unlock, At, Goto, Return, codes, history,
       Idle, TypeOK, Known, Call, Accounts, Numbered, Ops, Purpose,
       Verifications
  <2>4. ASSUME NEW right \in BOOLEAN, ReadForLogin(s, right) PROVE Known'
    <3>1. UNCHANGED <<user, codes, history>>
      BY <2>4 DEF ReadForLogin
    <3>2. CASE user.status # "ACTIVE"
      <4>1. Return(s)
        BY <2>4, <3>2 DEF ReadForLogin
      <4> QED
        BY <1>0, <3>1, <4>1 DEF Return, Idle, Known, TypeOK, Call, codes, history
    <3>3. CASE user.status = "ACTIVE"
      <4>1. PICK pc \in {"failed", "passed"} : Goto(s, pc)
        BY <2>4, <3>3 DEF ReadForLogin
      <4> QED
        BY <1>0, <2>4, <3>1, <3>3, <4>1 DEF ReadForLogin, Goto, Known, Accounts, TypeOK, Call, codes, history
    <3> QED
      BY <3>2, <3>3
  <2>5. CASE ReadForCode(s)
    <3>1. UNCHANGED <<user, codes, history>> /\ call[s].op \in Ops \ {"login", "register"}
      BY <1>0, <2>5 DEF ReadForCode, At, Known
    <3>2. CASE call[s].op = "forgot"
      BY <1>0, <2>5, <3>1, <3>2 DEF ReadForCode, Goto, Known, TypeOK, Call, codes, history, Verifications
    <3>3. CASE call[s].op # "forgot"
      <4>1. Goto(s, "submit")
        BY <2>5, <3>3 DEF ReadForCode
      <4>2. call[s].op \in Verifications
        BY <3>1, <3>3 DEF Ops, Purpose, Verifications
      <4> QED
        BY <1>0, <3>1, <4>1, <4>2 DEF Goto, Known, TypeOK, Call, codes, history
    <3> QED
      BY <3>2, <3>3
  <2>6. CASE RecordFailedLogin(s)
    BY <1>0, IssuedAreCodes, <2>6 DEF RecordFailedLogin, At, Goto, Return,
       codes, history, Idle, TypeOK, Known, Call, Accounts, Numbered, Ops,
       Purpose, Verifications
  <2>7. CASE RecordSuccessfulLogin(s)
    BY <1>0, IssuedAreCodes, <2>7 DEF RecordSuccessfulLogin, At, Goto, Return,
       codes, history, Idle, TypeOK, Known, Call, Accounts, Numbered, Ops,
       Purpose, Verifications
  <2>8. CASE SuccessNotRecorded(s)
    BY <1>0, IssuedAreCodes, <2>8 DEF SuccessNotRecorded, At, Goto, Return,
       codes, history, Idle, TypeOK, Known, Call, Accounts, Numbered, Ops,
       Purpose, Verifications
  <2>9. CASE CreateCode(s)
    BY <1>0, IssuedAreCodes, <2>9 DEF CreateCode, At, Goto, Return, codes,
       history, Idle, NoCode, Live, TypeOK, Known, Call, Accounts, Numbered,
       Ops, Purpose, Verifications
  <2>10. CASE FindCode(s)
    <3>1. PICK c \in Codes : /\ code[c].purpose = Purpose[call[s].op]
                              /\ call' = [call EXCEPT ![s].pc = "compare", ![s].code = c]
      BY <2>10 DEF FindCode, Acceptable, Live
    <3>2. call[s].op \in Verifications /\ call[s].pc = "submit"
      BY <1>0, <2>10 DEF FindCode, At, Known
    <3>3. c \in 1..issued
      <4>1. code[c].purpose # "none"
        BY <3>1, <3>2 DEF Verifications, Purpose
      <4> QED
        BY <1>0, <4>1, IssuedAreCodes DEF Numbered, Codes
    <3> QED
      BY <1>0, <2>10, <3>1, <3>2, <3>3 DEF FindCode, Known, TypeOK, Call, codes, history
  <2>11. CASE NoSuchCode(s)
    BY <1>0, IssuedAreCodes, <2>11 DEF NoSuchCode, At, Goto, Return, codes,
       history, Idle, TypeOK, Known, Call, Accounts, Numbered, Ops, Purpose,
       Verifications
  <2>12. CASE Mismatch(s)
    BY <1>0, IssuedAreCodes, <2>12 DEF Mismatch, At, Goto, Return, codes,
       history, Idle, TypeOK, Known, Call, Accounts, Numbered, Ops, Purpose,
       Verifications
  <2>13. CASE Match(s)
    BY <1>0, IssuedAreCodes, <2>13 DEF Match, At, Goto, Return, codes, history,
       Idle, TypeOK, Known, Call, Accounts, Numbered, Ops, Purpose,
       Verifications
  <2>14. CASE Activate(s)
    BY <1>0, IssuedAreCodes, <2>14 DEF Activate, At, Goto, Return, codes,
       history, Idle, TypeOK, Known, Call, Accounts, Numbered, Ops, Purpose,
       Verifications
  <2>15. CASE UpdatePassword(s)
    BY <1>0, IssuedAreCodes, <2>15 DEF UpdatePassword, At, Goto, Return, codes,
       history, Idle, TypeOK, Known, Call, Accounts, Numbered, Ops, Purpose,
       Verifications
  <2>16. CASE Abandon(s)
    BY <1>0, IssuedAreCodes, <2>16 DEF Abandon, At, Goto, Return, codes,
       history, Idle, TypeOK, Known, Call, Accounts, Numbered, Ops, Purpose,
       Verifications
  <2> QED
    BY <1>4, <2>1, <2>2, <2>3, <2>4, <2>5, <2>6, <2>7, <2>8,
       <2>9, <2>10, <2>11, <2>12, <2>13, <2>14, <2>15, <2>16
       DEF Step, Account, OneTimeCode
<1> QED
  BY <1>1, <1>2, <1>3, <1>4 DEF Next

\* An action that neither raises the counter nor adds a call about to raise it
\* keeps the bound.
LEMMA FailuresShrink ==
  ASSUME TypeOK, Failures, user' \in User,
         Failing' \subseteq Failing,
         user'.attempts <= user.attempts,
         activations' = activations,
         user'.status = "ACTIVE" => user.status = "ACTIVE"
  PROVE  Failures'
<1>1. Cardinality(Failing') <= Cardinality(Failing) /\ Cardinality(Failing) \in Nat /\ Cardinality(Failing') \in Nat
  BY Sizes DEF Failing
<1>2. activations \in Nat /\ user.attempts \in Nat /\ user'.attempts \in Nat
  BY DEF TypeOK, User
<1>3. Overshoot(activations) \in Nat /\ (Failures)
  BY <1>2, OvershootGrows
<1>4. user.attempts + Cardinality(Failing) <= Overshoot(activations)
  BY DEF Failures
<1>5. user'.attempts + Cardinality(Failing') <= Overshoot(activations)
  BY <1>1, <1>2, <1>3, <1>4
<1>6. user.status = "ACTIVE" => user.attempts <= Overshoot(activations - 1)
  BY DEF Failures
<1>7. ASSUME user'.status = "ACTIVE" PROVE user'.attempts <= Overshoot(activations - 1)
  <2>1. user.attempts <= Overshoot(activations - 1)
    BY <1>6, <1>7
  <2>2. Overshoot(activations - 1) \in Int
    BY <1>2, OvershootIsInteger
  <2> QED
    BY <1>2, <2>1, <2>2
<1>8. (Overshoot(activations))' = Overshoot(activations) /\ (Overshoot(activations - 1))' = Overshoot(activations - 1)
  BY DEF Overshoot
<1> QED
  BY <1>5, <1>7, <1>8 DEF Failures

\* The bound on failed logins.
LEMMA FailuresKept ==
  ASSUME IInv, Next
  PROVE  Failures'
<1>0. TypeOK /\ Known /\ Accounts /\ Failures
  BY DEF IInv
<1>n. activations \in Nat /\ user.attempts \in Nat /\ activations + 1 \in Nat
  BY <1>0 DEF TypeOK, User
<1>f. /\ Cardinality(Failing) \in Nat
      /\ \A B \in SUBSET Failing : Cardinality(B) \in Nat /\ Cardinality(B) <= Cardinality(Failing)
  BY Sizes DEF Failing
<1>u. user' \in User
  BY UserTyped
<1>v. /\ Cardinality(Failing) \in Nat /\ Cardinality(Failing') \in Nat
      /\ Cardinality(Failing') <= Cardinality(Sessions)
  BY Sizes DEF Failing
<1>w. (\A n : Overshoot(n) = Overshoot(n)') /\ Overshoot(activations) \in Nat /\ Cardinality(Sessions) \in Nat
  BY <1>n, OvershootGrows DEF Overshoot
<1>1. CASE CreateUser
  <2>1. user'.attempts = 0 /\ activations' = 1 /\ Failing' = {}
    BY <1>0, <1>1 DEF CreateUser, NoUser, Accounts, Failing
  <2>2. Cardinality({}) = 0 /\ Overshoot(1) \in Nat /\ Overshoot(1 - 1) \in Nat
    BY FS_EmptySet, OvershootGrows
  <2> QED
    BY <2>1, <2>2 DEF Failures, Overshoot
<1>2. CASE CooldownPasses
  <2>1. Failing' \subseteq Failing
    BY <1>0, <1>2 DEF CooldownPasses, Failing, TypeOK, Call
  <2>2. user'.attempts <= user.attempts /\ activations' = activations
    BY <1>0, <1>n, <1>2 DEF CooldownPasses, history, TypeOK, User
  <2>3. user'.status = "ACTIVE" => user.status = "ACTIVE"
    BY <1>0, <1>2 DEF CooldownPasses, TypeOK, User
  <2> QED
    BY <1>0, <1>u, <2>1, <2>2, <2>3, FailuresShrink
<1>3. ASSUME NEW c \in Codes, CodeExpires(c) PROVE Failures'
  <2>1. Failing' \subseteq Failing
    BY <1>0, <1>3 DEF CodeExpires, Failing, TypeOK, Call
  <2>2. user'.attempts <= user.attempts /\ activations' = activations
    BY <1>0, <1>n, <1>3 DEF CodeExpires, history, TypeOK, User
  <2>3. user'.status = "ACTIVE" => user.status = "ACTIVE"
    BY <1>0, <1>3 DEF CodeExpires, TypeOK, User
  <2> QED
    BY <1>0, <1>u, <2>1, <2>2, <2>3, FailuresShrink
<1>4. ASSUME NEW s \in Sessions, Step(s) PROVE Failures'
  <2>1. CASE SelfRegister(s)
    <3>1. Failing' \subseteq Failing
      BY <1>0, <2>1 DEF SelfRegister, At, Goto, Return, Idle, NoUser, Failing, TypeOK, Call
    <3>2. user'.attempts <= user.attempts /\ activations' = activations
      BY <1>0, <1>n, <2>1 DEF SelfRegister, history, NoUser, TypeOK, User
    <3>3. user'.status = "ACTIVE" => user.status = "ACTIVE"
      BY <1>0, <2>1 DEF SelfRegister, NoUser, TypeOK, User
    <3> QED
      BY <1>0, <1>u, <3>1, <3>2, <3>3, FailuresShrink
  <2>2. ASSUME NEW op \in Ops \ {"register"}, Begin(s, op) PROVE Failures'
    <3>1. Failing' \subseteq Failing
      BY <1>0, <2>2 DEF Begin, At, Goto, Return, Idle, CooldownOver, Failing, TypeOK, Call
    <3>2. user'.attempts <= user.attempts /\ activations' = activations
      BY <1>0, <1>n, <2>2 DEF Begin, history, CooldownOver, TypeOK, User
    <3>3. user'.status = "ACTIVE" => user.status = "ACTIVE"
      BY <1>0, <2>2 DEF Begin, CooldownOver, TypeOK, User
    <3> QED
      BY <1>0, <1>u, <3>1, <3>2, <3>3, FailuresShrink
  <2>3. CASE Unlock(s)
    <3>1. user'.attempts = 0 /\ activations' = activations /\ activations >= 1
      BY <1>0, <2>3 DEF Unlock, At, Known, history, TypeOK, User
    <3>2. Overshoot(activations - 1) \in Nat /\ Overshoot(activations) = Overshoot(activations - 1) + Cardinality(Sessions)
      BY <1>n, <3>1, OvershootGrows
    <3>3. 0 + Cardinality(Failing') <= Overshoot(activations) /\ 0 <= Overshoot(activations - 1)
      BY <1>v, <1>w, <3>2
    <3> QED
      BY <1>w, <3>1, <3>3 DEF Failures, Overshoot
  <2>4. ASSUME NEW right \in BOOLEAN, ReadForLogin(s, right) PROVE Failures'
    <3>1. user' = user /\ activations' = activations
      BY <2>4 DEF ReadForLogin, history
    <3>2. CASE user.status # "ACTIVE"
      <4>1. Failing' \subseteq Failing
        <5>1. Return(s)
          BY <2>4, <3>2 DEF ReadForLogin
        <5> QED
          BY <1>0, <5>1 DEF Return, Idle, Failing, TypeOK, Call
      <4> QED
        BY <1>0, <1>u, <1>n, <3>1, <4>1, FailuresShrink
    <3>3. CASE user.status = "ACTIVE"
      <4>1. activations >= 1 /\ user.attempts <= Overshoot(activations - 1)
        BY <1>0, <3>3 DEF Failures, Accounts
      <4>2. Overshoot(activations - 1) \in Nat /\ Overshoot(activations) = Overshoot(activations - 1) + Cardinality(Sessions)
        BY <1>n, <4>1, OvershootGrows
      <4>3. user.attempts + Cardinality(Failing') <= Overshoot(activations)
        BY <1>n, <1>v, <1>w, <4>1, <4>2
      <4> QED
        BY <1>0, <3>1, <4>1, <4>3 DEF Failures, Overshoot
    <3> QED
      BY <3>2, <3>3
  <2>5. CASE ReadForCode(s)
    <3>1. Failing' \subseteq Failing
      BY <1>0, <2>5 DEF ReadForCode, At, Goto, Return, Idle, Failing, TypeOK, Call
    <3>2. user'.attempts <= user.attempts /\ activations' = activations
      BY <1>0, <1>n, <2>5 DEF ReadForCode, history, TypeOK, User
    <3>3. user'.status = "ACTIVE" => user.status = "ACTIVE"
      BY <1>0, <2>5 DEF ReadForCode, TypeOK, User
    <3> QED
      BY <1>0, <1>u, <3>1, <3>2, <3>3, FailuresShrink
  <2>6. CASE RecordFailedLogin(s)
    <3>1. user'.attempts = user.attempts + 1 /\ activations' = activations
      BY <1>0, <2>6 DEF RecordFailedLogin, history, TypeOK, User
    <3>2. Failing' = Failing \ {s} /\ s \in Failing
      BY <1>0, <2>6 DEF RecordFailedLogin, Return, At, Idle, Failing, TypeOK, Call
    <3>3. Cardinality(Failing') = Cardinality(Failing) - 1
      BY <3>2, OneLess DEF Failing
    <3>4. user.attempts + 1 + Cardinality(Failing') <= Overshoot(activations)
      BY <1>0, <1>n, <1>v, <1>w, <3>3 DEF Failures
    <3>5. ASSUME user'.status = "ACTIVE" PROVE user.attempts + 1 <= Overshoot(activations - 1)
      <4>1. user.attempts + 1 < MaxFailures /\ activations >= 1
        BY <1>0, <2>6, <3>5, LimitsAssumption DEF RecordFailedLogin, At, Known, TypeOK, User
      <4>2. activations - 1 \in Nat /\ Cardinality(Sessions) * (activations - 1) \in Nat
        BY <1>n, <1>w, <4>1
      <4> QED
        BY <1>n, <4>1, <4>2, LimitsAssumption DEF Overshoot
    <3> QED
      BY <3>1, <3>4, <3>5 DEF Failures, Overshoot
  <2>7. CASE RecordSuccessfulLogin(s)
    <3>1. Failing' \subseteq Failing
      BY <1>0, <2>7 DEF RecordSuccessfulLogin, At, Goto, Return, Idle, Failing, TypeOK, Call
    <3>2. user'.attempts <= user.attempts /\ activations' = activations
      BY <1>0, <1>n, <2>7 DEF RecordSuccessfulLogin, history, TypeOK, User
    <3>3. user'.status = "ACTIVE" => user.status = "ACTIVE"
      BY <1>0, <2>7 DEF RecordSuccessfulLogin, TypeOK, User
    <3> QED
      BY <1>0, <1>u, <3>1, <3>2, <3>3, FailuresShrink
  <2>8. CASE SuccessNotRecorded(s)
    <3>1. Failing' \subseteq Failing
      BY <1>0, <2>8 DEF SuccessNotRecorded, At, Goto, Return, Idle, Failing, TypeOK, Call
    <3>2. user'.attempts <= user.attempts /\ activations' = activations
      BY <1>0, <1>n, <2>8 DEF SuccessNotRecorded, history, TypeOK, User
    <3>3. user'.status = "ACTIVE" => user.status = "ACTIVE"
      BY <1>0, <2>8 DEF SuccessNotRecorded, TypeOK, User
    <3> QED
      BY <1>0, <1>u, <3>1, <3>2, <3>3, FailuresShrink
  <2>9. CASE CreateCode(s)
    <3>1. Failing' \subseteq Failing
      BY <1>0, <2>9 DEF CreateCode, At, Goto, Return, Idle, NoCode, Live, Failing, TypeOK, Call
    <3>2. user'.attempts <= user.attempts /\ activations' = activations
      BY <1>0, <1>n, <2>9 DEF CreateCode, history, NoCode, Live, TypeOK, User
    <3>3. user'.status = "ACTIVE" => user.status = "ACTIVE"
      BY <1>0, <2>9 DEF CreateCode, NoCode, Live, TypeOK, User
    <3> QED
      BY <1>0, <1>u, <3>1, <3>2, <3>3, FailuresShrink
  <2>10. CASE FindCode(s)
    <3>1. Failing' \subseteq Failing
      BY <1>0, <2>10 DEF FindCode, At, Goto, Return, Idle, Acceptable, Live, Failing, TypeOK, Call
    <3>2. user'.attempts <= user.attempts /\ activations' = activations
      BY <1>0, <1>n, <2>10 DEF FindCode, history, Acceptable, Live, TypeOK, User
    <3>3. user'.status = "ACTIVE" => user.status = "ACTIVE"
      BY <1>0, <2>10 DEF FindCode, Acceptable, Live, TypeOK, User
    <3> QED
      BY <1>0, <1>u, <3>1, <3>2, <3>3, FailuresShrink
  <2>11. CASE NoSuchCode(s)
    <3>1. Failing' \subseteq Failing
      BY <1>0, <2>11 DEF NoSuchCode, At, Goto, Return, Idle, Failing, TypeOK, Call
    <3>2. user'.attempts <= user.attempts /\ activations' = activations
      BY <1>0, <1>n, <2>11 DEF NoSuchCode, history, TypeOK, User
    <3>3. user'.status = "ACTIVE" => user.status = "ACTIVE"
      BY <1>0, <2>11 DEF NoSuchCode, TypeOK, User
    <3> QED
      BY <1>0, <1>u, <3>1, <3>2, <3>3, FailuresShrink
  <2>12. CASE Mismatch(s)
    <3>1. Failing' \subseteq Failing
      BY <1>0, <2>12 DEF Mismatch, At, Goto, Return, Idle, Failing, TypeOK, Call
    <3>2. user'.attempts <= user.attempts /\ activations' = activations
      BY <1>0, <1>n, <2>12 DEF Mismatch, history, TypeOK, User
    <3>3. user'.status = "ACTIVE" => user.status = "ACTIVE"
      BY <1>0, <2>12 DEF Mismatch, TypeOK, User
    <3> QED
      BY <1>0, <1>u, <3>1, <3>2, <3>3, FailuresShrink
  <2>13. CASE Match(s)
    <3>1. Failing' \subseteq Failing
      BY <1>0, <2>13 DEF Match, At, Goto, Return, Idle, Failing, TypeOK, Call
    <3>2. user'.attempts <= user.attempts /\ activations' = activations
      BY <1>0, <1>n, <2>13 DEF Match, history, TypeOK, User
    <3>3. user'.status = "ACTIVE" => user.status = "ACTIVE"
      BY <1>0, <2>13 DEF Match, TypeOK, User
    <3> QED
      BY <1>0, <1>u, <3>1, <3>2, <3>3, FailuresShrink
  <2>14. CASE Activate(s)
    <3>1. user'.attempts = user.attempts /\ activations' = activations + 1
      BY <1>0, <2>14 DEF Activate, TypeOK, User
    <3>2. Failing' \subseteq Failing
      BY <1>0, <2>14 DEF Activate, Return, Idle, Failing, TypeOK, Call
    <3>3. user.attempts + Cardinality(Failing) <= Overshoot(activations)
      BY <1>0 DEF Failures
    <3>4. Overshoot(activations + 1) = Overshoot(activations) + Cardinality(Sessions) /\ Overshoot((activations + 1) - 1) = Overshoot(activations)
      BY <1>n, OvershootGrows
    <3>5. Cardinality(Failing') <= Cardinality(Failing)
      BY <1>f, <3>2
    <3>6. user.attempts + Cardinality(Failing') <= Overshoot(activations + 1) /\ user.attempts <= Overshoot((activations + 1) - 1)
      BY <1>n, <1>v, <1>w, <3>3, <3>4, <3>5
    <3> QED
      BY <3>1, <3>6 DEF Failures, Overshoot
  <2>15. CASE UpdatePassword(s)
    <3>1. Failing' \subseteq Failing
      BY <1>0, <2>15 DEF UpdatePassword, At, Goto, Return, Idle, Failing, TypeOK, Call
    <3>2. user'.attempts <= user.attempts /\ activations' = activations
      BY <1>0, <1>n, <2>15 DEF UpdatePassword, history, TypeOK, User
    <3>3. user'.status = "ACTIVE" => user.status = "ACTIVE"
      BY <1>0, <2>15 DEF UpdatePassword, TypeOK, User
    <3> QED
      BY <1>0, <1>u, <3>1, <3>2, <3>3, FailuresShrink
  <2>16. CASE Abandon(s)
    <3>1. Failing' \subseteq Failing
      BY <1>0, <2>16 DEF Abandon, At, Goto, Return, Idle, Failing, TypeOK, Call
    <3>2. user'.attempts <= user.attempts /\ activations' = activations
      BY <1>0, <1>n, <2>16 DEF Abandon, history, TypeOK, User
    <3>3. user'.status = "ACTIVE" => user.status = "ACTIVE"
      BY <1>0, <2>16 DEF Abandon, TypeOK, User
    <3> QED
      BY <1>0, <1>u, <3>1, <3>2, <3>3, FailuresShrink
  <2> QED
    BY <1>4, <2>1, <2>2, <2>3, <2>4, <2>5, <2>6, <2>7, <2>8,
       <2>9, <2>10, <2>11, <2>12, <2>13, <2>14, <2>15, <2>16
       DEF Step, Account, OneTimeCode
<1> QED
  BY <1>1, <1>2, <1>3, <1>4 DEF Next

\* An action that neither raises the count of a code nor adds a call about to
\* raise it keeps the bound.
LEMMA TriesShrink ==
  ASSUME TypeOK, Tries, code' \in [Codes -> Code],
         \A c \in Codes : Comparing(c)' \subseteq Comparing(c) /\ code'[c].tries = code[c].tries
  PROVE  Tries'
<1> SUFFICES ASSUME NEW c \in Codes
             PROVE  code'[c].tries + Cardinality(Comparing(c)')
                      <= MaxTries - 1 + Cardinality(Sessions)
  BY DEF Tries
<1>1. Comparing(c)' \subseteq Comparing(c) /\ code'[c].tries = code[c].tries
  OBVIOUS
<1>2. /\ Cardinality(Comparing(c)') <= Cardinality(Comparing(c))
      /\ Cardinality(Comparing(c)) \in Nat /\ Cardinality(Comparing(c)') \in Nat
      /\ Cardinality(Comparing(c)) <= Cardinality(Sessions)
  BY <1>1, Sizes DEF Comparing
<1>3. Cardinality(Sessions) \in Nat /\ code[c].tries \in Nat
  BY LimitsAssumption, FS_CardinalityType DEF TypeOK, Code
<1>4. code[c].tries + Cardinality(Comparing(c)) <= MaxTries - 1 + Cardinality(Sessions)
  BY DEF Tries
<1> QED
  BY <1>1, <1>2, <1>3, <1>4, LimitsAssumption

\* The bound on mismatches.
LEMMA TriesKept ==
  ASSUME IInv, Next
  PROVE  Tries'
<1>0. TypeOK /\ Known /\ Tries
  BY DEF IInv
<1>c. code' \in [Codes -> Code]
  BY CodesTyped
<1>s. Cardinality(Sessions) \in Nat
  BY LimitsAssumption, FS_CardinalityType
<1>1. CASE CreateUser
  <2>1. \A d \in Codes : Comparing(d)' \subseteq Comparing(d)
    BY <1>0, <1>1 DEF CreateUser, NoUser, Comparing, TypeOK, Call
  <2>2. \A d \in Codes : code'[d].tries = code[d].tries
    BY <1>0, <1>1 DEF CreateUser, codes, TypeOK, Code
  <2> QED
    BY <1>0, <1>c, <2>1, <2>2, TriesShrink
<1>2. CASE CooldownPasses
  <2>1. \A d \in Codes : Comparing(d)' \subseteq Comparing(d)
    BY <1>0, <1>2 DEF CooldownPasses, Comparing, TypeOK, Call
  <2>2. \A d \in Codes : code'[d].tries = code[d].tries
    BY <1>0, <1>2 DEF CooldownPasses, codes, TypeOK, Code
  <2> QED
    BY <1>0, <1>c, <2>1, <2>2, TriesShrink
<1>3. ASSUME NEW c \in Codes, CodeExpires(c) PROVE Tries'
  <2>1. \A d \in Codes : Comparing(d)' \subseteq Comparing(d)
    BY <1>0, <1>3 DEF CodeExpires, Comparing, TypeOK, Call
  <2>2. \A d \in Codes : code'[d].tries = code[d].tries
    BY <1>0, <1>3 DEF CodeExpires, codes, TypeOK, Code
  <2> QED
    BY <1>0, <1>c, <2>1, <2>2, TriesShrink
<1>4. ASSUME NEW s \in Sessions, Step(s) PROVE Tries'
  <2>1. CASE SelfRegister(s)
    <3>1. \A d \in Codes : Comparing(d)' \subseteq Comparing(d)
      BY <1>0, <2>1 DEF SelfRegister, At, Goto, Return, Idle, NoUser, Comparing, TypeOK, Call
    <3>2. \A d \in Codes : code'[d].tries = code[d].tries
      BY <1>0, <2>1 DEF SelfRegister, codes, TypeOK, Code
    <3> QED
      BY <1>0, <1>c, <3>1, <3>2, TriesShrink
  <2>2. ASSUME NEW op \in Ops \ {"register"}, Begin(s, op) PROVE Tries'
    <3>1. \A d \in Codes : Comparing(d)' \subseteq Comparing(d)
      BY <1>0, <2>2 DEF Begin, At, Goto, Return, Idle, CooldownOver, Comparing, TypeOK, Call
    <3>2. \A d \in Codes : code'[d].tries = code[d].tries
      BY <1>0, <2>2 DEF Begin, codes, TypeOK, Code
    <3> QED
      BY <1>0, <1>c, <3>1, <3>2, TriesShrink
  <2>3. CASE Unlock(s)
    <3>1. \A d \in Codes : Comparing(d)' \subseteq Comparing(d)
      BY <1>0, <2>3 DEF Unlock, At, Goto, Return, Idle, Comparing, TypeOK, Call
    <3>2. \A d \in Codes : code'[d].tries = code[d].tries
      BY <1>0, <2>3 DEF Unlock, codes, TypeOK, Code
    <3> QED
      BY <1>0, <1>c, <3>1, <3>2, TriesShrink
  <2>4. ASSUME NEW right \in BOOLEAN, ReadForLogin(s, right) PROVE Tries'
    <3>1. \E pc \in {"failed", "passed"} : Goto(s, pc) \/ Return(s)
      BY <2>4 DEF ReadForLogin
    <3>2. \A d \in Codes : Comparing(d)' \subseteq Comparing(d)
      BY <1>0, <3>1 DEF Goto, Return, Idle, Comparing, TypeOK, Call
    <3>3. code' = code
      BY <2>4 DEF ReadForLogin, codes
    <3> QED
      BY <1>0, <1>c, <3>2, <3>3, TriesShrink
  <2>5. CASE ReadForCode(s)
    <3>1. \A d \in Codes : Comparing(d)' \subseteq Comparing(d)
      BY <1>0, <2>5 DEF ReadForCode, At, Goto, Return, Idle, Comparing, TypeOK, Call
    <3>2. \A d \in Codes : code'[d].tries = code[d].tries
      BY <1>0, <2>5 DEF ReadForCode, codes, TypeOK, Code
    <3> QED
      BY <1>0, <1>c, <3>1, <3>2, TriesShrink
  <2>6. CASE RecordFailedLogin(s)
    <3>1. \A d \in Codes : Comparing(d)' \subseteq Comparing(d)
      BY <1>0, <2>6 DEF RecordFailedLogin, At, Goto, Return, Idle, Comparing, TypeOK, Call
    <3>2. \A d \in Codes : code'[d].tries = code[d].tries
      BY <1>0, <2>6 DEF RecordFailedLogin, codes, TypeOK, Code
    <3> QED
      BY <1>0, <1>c, <3>1, <3>2, TriesShrink
  <2>7. CASE RecordSuccessfulLogin(s)
    <3>1. \A d \in Codes : Comparing(d)' \subseteq Comparing(d)
      BY <1>0, <2>7 DEF RecordSuccessfulLogin, At, Goto, Return, Idle, Comparing, TypeOK, Call
    <3>2. \A d \in Codes : code'[d].tries = code[d].tries
      BY <1>0, <2>7 DEF RecordSuccessfulLogin, codes, TypeOK, Code
    <3> QED
      BY <1>0, <1>c, <3>1, <3>2, TriesShrink
  <2>8. CASE SuccessNotRecorded(s)
    <3>1. \A d \in Codes : Comparing(d)' \subseteq Comparing(d)
      BY <1>0, <2>8 DEF SuccessNotRecorded, At, Goto, Return, Idle, Comparing, TypeOK, Call
    <3>2. \A d \in Codes : code'[d].tries = code[d].tries
      BY <1>0, <2>8 DEF SuccessNotRecorded, codes, TypeOK, Code
    <3> QED
      BY <1>0, <1>c, <3>1, <3>2, TriesShrink
  <2>9. CASE CreateCode(s)
    <3>1. \A d \in Codes : Comparing(d)' \subseteq Comparing(d)
      BY <1>0, <2>9 DEF CreateCode, At, Return, Idle, Comparing, TypeOK, Call
    <3>2. \A d \in Codes : code'[d].tries = IF d = issued + 1 THEN 0 ELSE code[d].tries
      BY <1>0, <2>9 DEF CreateCode, NoCode, TypeOK, Code
    <3> SUFFICES ASSUME NEW d \in Codes
                 PROVE  code'[d].tries + Cardinality(Comparing(d)') <= MaxTries - 1 + Cardinality(Sessions)
      BY DEF Tries
    <3>3. /\ Cardinality(Comparing(d)') <= Cardinality(Comparing(d))
          /\ Cardinality(Comparing(d)) \in Nat /\ Cardinality(Comparing(d)') \in Nat
          /\ Cardinality(Comparing(d)) <= Cardinality(Sessions)
      BY <3>1, Sizes DEF Comparing
    <3>4. code[d].tries \in Nat /\ code[d].tries + Cardinality(Comparing(d)) <= MaxTries - 1 + Cardinality(Sessions)
      BY <1>0 DEF TypeOK, Code, Tries
    <3> QED
      BY <1>s, <3>2, <3>3, <3>4, LimitsAssumption
  <2>10. CASE FindCode(s)
    <3>1. PICK c \in Codes : code[c].tries < MaxTries /\ call' = [call EXCEPT ![s].pc = "compare", ![s].code = c]
      BY <2>10 DEF FindCode, Acceptable
    <3>2. code' = code
      BY <2>10 DEF FindCode, codes
    <3>3. \A d \in Codes \ {c} : Comparing(d)' \subseteq Comparing(d)
      BY <1>0, <3>1 DEF Comparing, TypeOK, Call
    <3> SUFFICES ASSUME NEW d \in Codes
                 PROVE  code[d].tries + Cardinality(Comparing(d)') <= MaxTries - 1 + Cardinality(Sessions)
      BY <3>2 DEF Tries
    <3>4. code[d].tries \in Nat /\ code[d].tries + Cardinality(Comparing(d)) <= MaxTries - 1 + Cardinality(Sessions)
      BY <1>0 DEF TypeOK, Code, Tries
    <3>5. Cardinality(Comparing(d)') \in Nat /\ Cardinality(Comparing(d)') <= Cardinality(Sessions) /\ Cardinality(Comparing(d)) \in Nat
      BY Sizes DEF Comparing
    <3>6. CASE d = c
      BY <1>s, <3>1, <3>4, <3>5, <3>6, LimitsAssumption
    <3>7. CASE d # c
      <4>1. Cardinality(Comparing(d)') <= Cardinality(Comparing(d))
        BY <3>3, <3>7, Sizes DEF Comparing
      <4> QED
        BY <1>s, <3>4, <3>5, <4>1, LimitsAssumption
    <3> QED
      BY <3>6, <3>7
  <2>11. CASE NoSuchCode(s)
    <3>1. \A d \in Codes : Comparing(d)' \subseteq Comparing(d)
      BY <1>0, <2>11 DEF NoSuchCode, At, Goto, Return, Idle, Comparing, TypeOK, Call
    <3>2. \A d \in Codes : code'[d].tries = code[d].tries
      BY <1>0, <2>11 DEF NoSuchCode, codes, TypeOK, Code
    <3> QED
      BY <1>0, <1>c, <3>1, <3>2, TriesShrink
  <2>12. CASE Mismatch(s)
    <3>1. call[s].pc = "compare" /\ call[s].code \in Codes
      BY <1>0, <2>12, IssuedAreCodes DEF Mismatch, At, Known
    <3>2. \A d \in Codes : code'[d].tries = IF d = call[s].code THEN code[d].tries + 1 ELSE code[d].tries
      BY <1>0, <2>12, <3>1 DEF Mismatch, TypeOK, Code
    <3>3. \A d \in Codes : Comparing(d)' = Comparing(d) \ {s} /\ (d = call[s].code <=> s \in Comparing(d))
      BY <1>0, <2>12, <3>1 DEF Mismatch, Return, Idle, Comparing, TypeOK, Call
    <3> SUFFICES ASSUME NEW d \in Codes
                 PROVE  code'[d].tries + Cardinality(Comparing(d)') <= MaxTries - 1 + Cardinality(Sessions)
      BY DEF Tries
    <3>4. code[d].tries \in Nat /\ code[d].tries + Cardinality(Comparing(d)) <= MaxTries - 1 + Cardinality(Sessions)
      BY <1>0 DEF TypeOK, Code, Tries
    <3>5. /\ Cardinality(Comparing(d)') \in Nat /\ Cardinality(Comparing(d)) \in Nat
          /\ Cardinality(Comparing(d)') <= Cardinality(Comparing(d))
      BY <3>3, Sizes DEF Comparing
    <3>6. CASE d = call[s].code
      <4>1. Cardinality(Comparing(d)') = Cardinality(Comparing(d)) - 1
        BY <3>3, <3>6, OneLess DEF Comparing
      <4> QED
        BY <1>s, <3>2, <3>4, <3>5, <3>6, <4>1, LimitsAssumption
    <3>7. CASE d # call[s].code
      BY <1>s, <3>2, <3>4, <3>5, <3>7, LimitsAssumption
    <3> QED
      BY <3>6, <3>7
  <2>13. CASE Match(s)
    <3>1. \A d \in Codes : Comparing(d)' \subseteq Comparing(d)
      BY <1>0, <2>13 DEF Match, At, Goto, Return, Idle, Comparing, TypeOK, Call
    <3>2. \A d \in Codes : code'[d].tries = code[d].tries
      BY <1>0, <2>13 DEF Match, codes, TypeOK, Code
    <3> QED
      BY <1>0, <1>c, <3>1, <3>2, TriesShrink
  <2>14. CASE Activate(s)
    <3>1. \A d \in Codes : Comparing(d)' \subseteq Comparing(d)
      BY <1>0, <2>14 DEF Activate, At, Goto, Return, Idle, Comparing, TypeOK, Call
    <3>2. \A d \in Codes : code'[d].tries = code[d].tries
      BY <1>0, <2>14 DEF Activate, codes, TypeOK, Code
    <3> QED
      BY <1>0, <1>c, <3>1, <3>2, TriesShrink
  <2>15. CASE UpdatePassword(s)
    <3>1. \A d \in Codes : Comparing(d)' \subseteq Comparing(d)
      BY <1>0, <2>15 DEF UpdatePassword, At, Goto, Return, Idle, Comparing, TypeOK, Call
    <3>2. \A d \in Codes : code'[d].tries = code[d].tries
      BY <1>0, <2>15 DEF UpdatePassword, codes, TypeOK, Code
    <3> QED
      BY <1>0, <1>c, <3>1, <3>2, TriesShrink
  <2>16. CASE Abandon(s)
    <3>1. \A d \in Codes : Comparing(d)' \subseteq Comparing(d)
      BY <1>0, <2>16 DEF Abandon, At, Goto, Return, Idle, Comparing, TypeOK, Call
    <3>2. \A d \in Codes : code'[d].tries = code[d].tries
      BY <1>0, <2>16 DEF Abandon, codes, TypeOK, Code
    <3> QED
      BY <1>0, <1>c, <3>1, <3>2, TriesShrink
  <2> QED
    BY <1>4, <2>1, <2>2, <2>3, <2>4, <2>5, <2>6, <2>7, <2>8,
       <2>9, <2>10, <2>11, <2>12, <2>13, <2>14, <2>15, <2>16
       DEF Step, Account, OneTimeCode
<1> QED
  BY <1>1, <1>2, <1>3, <1>4 DEF Next

\* The last code of a purpose is the only one that is valid.
LEMMA OneLiveCodeKept ==
  ASSUME IInv, Next
  PROVE  OneLiveCode'
<1>0. TypeOK /\ Known /\ Numbered /\ OneLiveCode /\ ResetsAreVerified /\ Accounts /\ Untouched
  BY DEF IInv
<1>1. CASE CreateUser
  BY <1>0, IssuedAreCodes, <1>1 DEF CreateUser, NoUser, codes, TypeOK, Code,
     OneLiveCode
<1>2. CASE CooldownPasses
  BY <1>0, IssuedAreCodes, <1>2 DEF CooldownPasses, codes, history, TypeOK,
     Code, OneLiveCode
<1>3. ASSUME NEW c \in Codes, CodeExpires(c) PROVE OneLiveCode'
  BY <1>0, IssuedAreCodes, <1>3 DEF CodeExpires, history, TypeOK, Code,
     OneLiveCode
<1>4. ASSUME NEW s \in Sessions, Step(s) PROVE OneLiveCode'
  <2>1. CASE SelfRegister(s)
    BY <1>0, IssuedAreCodes, <2>1 DEF SelfRegister, At, Goto, Return, codes,
       history, Idle, NoUser, TypeOK, Code, OneLiveCode
  <2>2. ASSUME NEW op \in Ops \ {"register"}, Begin(s, op) PROVE OneLiveCode'
    BY <1>0, IssuedAreCodes, <2>2 DEF Begin, At, Goto, Return, codes, history,
       Idle, CooldownOver, TypeOK, Code, OneLiveCode
  <2>3. CASE Unlock(s)
    BY <1>0, IssuedAreCodes, <2>3 DEF Unlock, At, Goto, Return, codes, history,
       Idle, TypeOK, Code, OneLiveCode
  <2>4. ASSUME NEW right \in BOOLEAN, ReadForLogin(s, right) PROVE OneLiveCode'
    BY <1>0, IssuedAreCodes, <2>4 DEF ReadForLogin, At, Goto, Return, codes,
       history, Idle, TypeOK, Code, OneLiveCode
  <2>5. CASE ReadForCode(s)
    BY <1>0, IssuedAreCodes, <2>5 DEF ReadForCode, At, Goto, Return, codes,
       history, Idle, TypeOK, Code, OneLiveCode
  <2>6. CASE RecordFailedLogin(s)
    BY <1>0, IssuedAreCodes, <2>6 DEF RecordFailedLogin, At, Goto, Return,
       codes, history, Idle, TypeOK, Code, OneLiveCode
  <2>7. CASE RecordSuccessfulLogin(s)
    BY <1>0, IssuedAreCodes, <2>7 DEF RecordSuccessfulLogin, At, Goto, Return,
       codes, history, Idle, TypeOK, Code, OneLiveCode
  <2>8. CASE SuccessNotRecorded(s)
    BY <1>0, IssuedAreCodes, <2>8 DEF SuccessNotRecorded, At, Goto, Return,
       codes, history, Idle, TypeOK, Code, OneLiveCode
  <2>9. CASE CreateCode(s)
    <3>1. \A c \in Codes : code'[c].purpose = IF c = issued + 1 THEN Purpose[call[s].op] ELSE code[c].purpose
      BY <1>0, <2>9 DEF CreateCode, TypeOK, Code, NoCode
    <3>2. \A c \in Codes \ {issued + 1} : /\ code[c].purpose = Purpose[call[s].op] => code'[c].used
                                          /\ code[c].used => code'[c].used
      BY <1>0, <2>9 DEF CreateCode, Live, TypeOK, Code
    <3>3. issued' = issued + 1 /\ issued \in Nat /\ issued + 1 \in Codes /\ 1..issued \subseteq Codes
      BY <1>0, <2>9, IssuedAreCodes DEF CreateCode
    <3>b. \A c \in Codes : code'[c].used \in BOOLEAN /\ code[c].used \in BOOLEAN
      BY <1>0, CodesTyped DEF TypeOK, Code
    <3> SUFFICES ASSUME NEW c \in 1..(issued + 1), NEW d \in 1..(issued + 1),
                        code'[c].purpose = code'[d].purpose, ~code'[c].used
                 PROVE  d <= c
      BY <3>3 DEF OneLiveCode
    <3>4. CASE c = issued + 1
      BY <3>3, <3>4
    <3>a. c \in Codes /\ d \in Codes
      BY <3>3
    <3>5. CASE c \in 1..issued /\ d = issued + 1
      <4>1. c # issued + 1 /\ code'[c].purpose = code[c].purpose
        BY <3>1, <3>3, <3>5, <3>a
      <4>2. code'[d].purpose = Purpose[call[s].op]
        BY <3>1, <3>5, <3>a
      <4>3. c \in Codes \ {issued + 1} /\ code[c].purpose = Purpose[call[s].op]
        BY <3>a, <4>1, <4>2
      <4>4. code'[c].used
        BY <3>2, <4>3, Zenon
      <4> QED
        BY <4>4
    <3>6. CASE c \in 1..issued /\ d \in 1..issued
      <4>0. c # issued + 1 /\ d # issued + 1
        BY <3>3, <3>6
      <4>1. c \in Codes \ {issued + 1} /\ code[c].purpose = code[d].purpose
        BY <3>1, <3>a, <4>0
      <4>2. ~code[c].used
        BY <3>2, <4>1, Zenon
      <4> QED
        BY <1>0, <3>6, <4>1, <4>2 DEF OneLiveCode
    <3> QED
      BY <3>3, <3>4, <3>5, <3>6
  <2>10. CASE FindCode(s)
    BY <1>0, IssuedAreCodes, <2>10 DEF FindCode, At, Goto, Return, codes,
       history, Idle, Acceptable, Live, TypeOK, Code, OneLiveCode
  <2>11. CASE NoSuchCode(s)
    BY <1>0, IssuedAreCodes, <2>11 DEF NoSuchCode, At, Goto, Return, codes,
       history, Idle, TypeOK, Code, OneLiveCode
  <2>12. CASE Mismatch(s)
    BY <1>0, IssuedAreCodes, <2>12 DEF Mismatch, At, Goto, Return, codes,
       history, Idle, TypeOK, Code, OneLiveCode
  <2>13. CASE Match(s)
    BY <1>0, IssuedAreCodes, <2>13 DEF Match, At, Goto, Return, codes, history,
       Idle, TypeOK, Code, OneLiveCode
  <2>14. CASE Activate(s)
    BY <1>0, IssuedAreCodes, <2>14 DEF Activate, At, Goto, Return, codes,
       history, Idle, TypeOK, Code, OneLiveCode
  <2>15. CASE UpdatePassword(s)
    BY <1>0, IssuedAreCodes, <2>15 DEF UpdatePassword, At, Goto, Return, codes,
       history, Idle, TypeOK, Code, OneLiveCode
  <2>16. CASE Abandon(s)
    BY <1>0, IssuedAreCodes, <2>16 DEF Abandon, At, Goto, Return, codes,
       history, Idle, TypeOK, Code, OneLiveCode
  <2> QED
    BY <1>4, <2>1, <2>2, <2>3, <2>4, <2>5, <2>6, <2>7, <2>8,
       <2>9, <2>10, <2>11, <2>12, <2>13, <2>14, <2>15, <2>16
       DEF Step, Account, OneTimeCode
<1> QED
  BY <1>1, <1>2, <1>3, <1>4 DEF Next

\* Tokens and resets follow their verification.
LEMMA ResetsKept ==
  ASSUME IInv, Next
  PROVE  ResetsAreVerified'
<1>0. TypeOK /\ Known /\ Numbered /\ OneLiveCode /\ ResetsAreVerified /\ Accounts /\ Untouched
  BY DEF IInv
<1>1. CASE CreateUser
  BY <1>0, IssuedAreCodes, <1>1 DEF CreateUser, NoUser, codes, TypeOK, Code,
     ResetsAreVerified, Known, Numbered, Purpose, Verifications
<1>2. CASE CooldownPasses
  BY <1>0, IssuedAreCodes, <1>2 DEF CooldownPasses, codes, history, TypeOK,
     Code, ResetsAreVerified, Known, Numbered, Purpose, Verifications
<1>3. ASSUME NEW c \in Codes, CodeExpires(c) PROVE ResetsAreVerified'
  BY <1>0, IssuedAreCodes, <1>3 DEF CodeExpires, history, TypeOK, Code,
     ResetsAreVerified, Known, Numbered, Purpose, Verifications
<1>4. ASSUME NEW s \in Sessions, Step(s) PROVE ResetsAreVerified'
  <2>1. CASE SelfRegister(s)
    BY <1>0, IssuedAreCodes, <2>1 DEF SelfRegister, At, Goto, Return, codes,
       history, Idle, NoUser, TypeOK, Code, ResetsAreVerified, Known, Numbered,
       Purpose, Verifications
  <2>2. ASSUME NEW op \in Ops \ {"register"}, Begin(s, op) PROVE ResetsAreVerified'
    BY <1>0, IssuedAreCodes, <2>2 DEF Begin, At, Goto, Return, codes, history,
       Idle, CooldownOver, TypeOK, Code, ResetsAreVerified, Known, Numbered,
       Purpose, Verifications
  <2>3. CASE Unlock(s)
    BY <1>0, IssuedAreCodes, <2>3 DEF Unlock, At, Goto, Return, codes, history,
       Idle, TypeOK, Code, ResetsAreVerified, Known, Numbered, Purpose,
       Verifications
  <2>4. ASSUME NEW right \in BOOLEAN, ReadForLogin(s, right) PROVE ResetsAreVerified'
    BY <1>0, IssuedAreCodes, <2>4 DEF ReadForLogin, At, Goto, Return, codes,
       history, Idle, TypeOK, Code, ResetsAreVerified, Known, Numbered,
       Purpose, Verifications
  <2>5. CASE ReadForCode(s)
    BY <1>0, IssuedAreCodes, <2>5 DEF ReadForCode, At, Goto, Return, codes,
       history, Idle, TypeOK, Code, ResetsAreVerified, Known, Numbered,
       Purpose, Verifications
  <2>6. CASE RecordFailedLogin(s)
    BY <1>0, IssuedAreCodes, <2>6 DEF RecordFailedLogin, At, Goto, Return,
       codes, history, Idle, TypeOK, Code, ResetsAreVerified, Known, Numbered,
       Purpose, Verifications
  <2>7. CASE RecordSuccessfulLogin(s)
    BY <1>0, IssuedAreCodes, <2>7 DEF RecordSuccessfulLogin, At, Goto, Return,
       codes, history, Idle, TypeOK, Code, ResetsAreVerified, Known, Numbered,
       Purpose, Verifications
  <2>8. CASE SuccessNotRecorded(s)
    BY <1>0, IssuedAreCodes, <2>8 DEF SuccessNotRecorded, At, Goto, Return,
       codes, history, Idle, TypeOK, Code, ResetsAreVerified, Known, Numbered,
       Purpose, Verifications
  <2>9. CASE CreateCode(s)
    BY <1>0, IssuedAreCodes, <2>9 DEF CreateCode, At, Goto, Return, codes,
       history, Idle, NoCode, Live, TypeOK, Code, ResetsAreVerified, Known,
       Numbered, Purpose, Verifications
  <2>10. CASE FindCode(s)
    BY <1>0, IssuedAreCodes, <2>10 DEF FindCode, At, Goto, Return, codes,
       history, Idle, Acceptable, Live, TypeOK, Code, ResetsAreVerified, Known,
       Numbered, Purpose, Verifications
  <2>11. CASE NoSuchCode(s)
    BY <1>0, IssuedAreCodes, <2>11 DEF NoSuchCode, At, Goto, Return, codes,
       history, Idle, TypeOK, Code, ResetsAreVerified, Known, Numbered,
       Purpose, Verifications
  <2>12. CASE Mismatch(s)
    BY <1>0, IssuedAreCodes, <2>12 DEF Mismatch, At, Goto, Return, codes,
       history, Idle, TypeOK, Code, ResetsAreVerified, Known, Numbered,
       Purpose, Verifications
  <2>13. CASE Match(s)
    BY <1>0, IssuedAreCodes, <2>13 DEF Match, At, Goto, Return, codes, history,
       Idle, TypeOK, Code, ResetsAreVerified, Known, Numbered, Purpose,
       Verifications
  <2>14. CASE Activate(s)
    BY <1>0, IssuedAreCodes, <2>14 DEF Activate, At, Goto, Return, codes,
       history, Idle, TypeOK, Code, ResetsAreVerified, Known, Numbered,
       Purpose, Verifications
  <2>15. CASE UpdatePassword(s)
    BY <1>0, IssuedAreCodes, <2>15 DEF UpdatePassword, At, Goto, Return, codes,
       history, Idle, TypeOK, Code, ResetsAreVerified, Known, Numbered,
       Purpose, Verifications
  <2>16. CASE Abandon(s)
    BY <1>0, IssuedAreCodes, <2>16 DEF Abandon, At, Goto, Return, codes,
       history, Idle, TypeOK, Code, ResetsAreVerified, Known, Numbered,
       Purpose, Verifications
  <2> QED
    BY <1>4, <2>1, <2>2, <2>3, <2>4, <2>5, <2>6, <2>7, <2>8,
       <2>9, <2>10, <2>11, <2>12, <2>13, <2>14, <2>15, <2>16
       DEF Step, Account, OneTimeCode
<1> QED
  BY <1>1, <1>2, <1>3, <1>4 DEF Next

\* Nobody gets past an account that was never activated.
LEMMA UntouchedKept ==
  ASSUME IInv, Next
  PROVE  Untouched'
<1>0. TypeOK /\ Known /\ Numbered /\ OneLiveCode /\ ResetsAreVerified /\ Accounts /\ Untouched
  BY DEF IInv
<1>1. CASE CreateUser
  BY <1>0, IssuedAreCodes, <1>1 DEF CreateUser, NoUser, codes, TypeOK, User,
     Call, Code, Untouched, RegisterVerified, Known, Numbered, Purpose,
     Verifications, Accounts
<1>2. CASE CooldownPasses
  BY <1>0, IssuedAreCodes, <1>2 DEF CooldownPasses, codes, history, TypeOK,
     User, Call, Code, Untouched, RegisterVerified, Known, Numbered, Purpose,
     Verifications, Accounts
<1>3. ASSUME NEW c \in Codes, CodeExpires(c) PROVE Untouched'
  BY <1>0, IssuedAreCodes, <1>3 DEF CodeExpires, history, TypeOK, User, Call,
     Code, Untouched, RegisterVerified, Known, Numbered, Purpose,
     Verifications, Accounts
<1>4. ASSUME NEW s \in Sessions, Step(s) PROVE Untouched'
  <2>1. CASE SelfRegister(s)
    <3>1. user.status = "none" /\ issued = 0 /\ tokens = {} /\ UNCHANGED <<code, issued, verified, tokens>>
      BY <1>0, <2>1 DEF SelfRegister, Accounts, codes, history
    <3>2. \A c \in Codes : code[c].purpose = "none"
      BY <1>0, <3>1 DEF Numbered, Codes
    <3>3. \A t \in Sessions : call[t].pc = "idle"
      BY <1>0, <3>1 DEF Accounts
    <3>4. user'.status = "INACTIVE"
      BY <2>1 DEF SelfRegister, NoUser
    <3>5. \A t \in Sessions : call'[t].pc \in {"idle", "create"} /\ (call'[t].pc = "create" => call'[t].op # "login")
      BY <1>0, <2>1, <3>3 DEF SelfRegister, TypeOK, Call
    <3> QED
      BY <3>1, <3>2, <3>4, <3>5 DEF Untouched
  <2>2. ASSUME NEW op \in Ops \ {"register"}, Begin(s, op) PROVE Untouched'
    BY <1>0, IssuedAreCodes, <2>2 DEF Begin, At, Goto, Return, codes, history,
       Idle, CooldownOver, TypeOK, User, Call, Code, Untouched,
       RegisterVerified, Known, Numbered, Purpose, Verifications, Accounts
  <2>3. CASE Unlock(s)
    BY <1>0, IssuedAreCodes, <2>3 DEF Unlock, At, Goto, Return, codes, history,
       Idle, TypeOK, User, Call, Code, Untouched, RegisterVerified, Known,
       Numbered, Purpose, Verifications, Accounts
  <2>4. ASSUME NEW right \in BOOLEAN, ReadForLogin(s, right) PROVE Untouched'
    <3>1. UNCHANGED <<user, codes, history>>
      BY <2>4 DEF ReadForLogin
    <3> SUFFICES ASSUME user.selfRegistered, ~RegisterVerified PROVE Untouched'
      BY <3>1 DEF Untouched, RegisterVerified, codes, history
    <3>2. Return(s)
      BY <1>0, <2>4 DEF ReadForLogin, Untouched
    <3> QED
      BY <1>0, <3>1, <3>2 DEF Return, Idle, Untouched, RegisterVerified, codes, history, TypeOK, Call
  <2>5. CASE ReadForCode(s)
    BY <1>0, IssuedAreCodes, <2>5 DEF ReadForCode, At, Goto, Return, codes,
       history, Idle, TypeOK, User, Call, Code, Untouched, RegisterVerified,
       Known, Numbered, Purpose, Verifications, Accounts
  <2>6. CASE RecordFailedLogin(s)
    BY <1>0, IssuedAreCodes, <2>6 DEF RecordFailedLogin, At, Goto, Return,
       codes, history, Idle, TypeOK, User, Call, Code, Untouched,
       RegisterVerified, Known, Numbered, Purpose, Verifications, Accounts
  <2>7. CASE RecordSuccessfulLogin(s)
    BY <1>0, IssuedAreCodes, <2>7 DEF RecordSuccessfulLogin, At, Goto, Return,
       codes, history, Idle, TypeOK, User, Call, Code, Untouched,
       RegisterVerified, Known, Numbered, Purpose, Verifications, Accounts
  <2>8. CASE SuccessNotRecorded(s)
    BY <1>0, IssuedAreCodes, <2>8 DEF SuccessNotRecorded, At, Goto, Return,
       codes, history, Idle, TypeOK, User, Call, Code, Untouched,
       RegisterVerified, Known, Numbered, Purpose, Verifications, Accounts
  <2>9. CASE CreateCode(s)
    <3>1. \A c \in Codes : code'[c].purpose = IF c = issued + 1 THEN Purpose[call[s].op] ELSE code[c].purpose
      BY <1>0, <2>9 DEF CreateCode, TypeOK, Code, NoCode
    <3>2. UNCHANGED <<user, verified, tokens>> /\ call[s].pc = "create" /\ Return(s)
      BY <2>9 DEF CreateCode, At, history
    <3>3. issued \in Nat /\ \A c \in verified : c \in Codes /\ c # issued + 1
      <4>1. issued \in Nat /\ 1..issued \subseteq Codes
        BY <1>0, IssuedAreCodes
      <4>2. \A c \in 1..issued : c # issued + 1
        BY <4>1
      <4> QED
        BY <1>0, <4>1, <4>2 DEF Numbered
    <3>4. RegisterVerified <=> RegisterVerified'
      BY <3>1, <3>2, <3>3 DEF RegisterVerified
    <3> SUFFICES ASSUME user.selfRegistered, ~RegisterVerified PROVE Untouched'
      BY <3>2, <3>4 DEF Untouched
    <3>5. call[s].op \in {"register", "forgot"}
      BY <1>0, <3>2 DEF Known, Untouched, Ops, Verifications, Purpose
    <3>6. Purpose[call[s].op] # "LOGIN"
      BY <3>5 DEF Purpose
    <3>7. \A c \in Codes : code'[c].purpose # "LOGIN"
      BY <1>0, <3>1, <3>6 DEF Untouched
    <3>8. \A t \in Sessions : call'[t] = call[t] \/ call'[t] = Idle
      BY <1>0, <3>2 DEF Return, TypeOK
    <3> QED
      BY <1>0, <3>2, <3>7, <3>8 DEF Untouched, Idle
  <2>10. CASE FindCode(s)
    BY <1>0, IssuedAreCodes, <2>10 DEF FindCode, At, Goto, Return, codes,
       history, Idle, Acceptable, Live, TypeOK, User, Call, Code, Untouched,
       RegisterVerified, Known, Numbered, Purpose, Verifications, Accounts
  <2>11. CASE NoSuchCode(s)
    BY <1>0, IssuedAreCodes, <2>11 DEF NoSuchCode, At, Goto, Return, codes,
       history, Idle, TypeOK, User, Call, Code, Untouched, RegisterVerified,
       Known, Numbered, Purpose, Verifications, Accounts
  <2>12. CASE Mismatch(s)
    BY <1>0, IssuedAreCodes, <2>12 DEF Mismatch, At, Goto, Return, codes,
       history, Idle, TypeOK, User, Call, Code, Untouched, RegisterVerified,
       Known, Numbered, Purpose, Verifications, Accounts
  <2>13. CASE Match(s)
    BY <1>0, IssuedAreCodes, <2>13 DEF Match, At, Goto, Return, codes, history,
       Idle, TypeOK, User, Call, Code, Untouched, RegisterVerified, Known,
       Numbered, Purpose, Verifications, Accounts
  <2>14. CASE Activate(s)
    BY <1>0, IssuedAreCodes, <2>14 DEF Activate, At, Goto, Return, codes,
       history, Idle, TypeOK, User, Call, Code, Untouched, RegisterVerified,
       Known, Numbered, Purpose, Verifications, Accounts
  <2>15. CASE UpdatePassword(s)
    BY <1>0, IssuedAreCodes, <2>15 DEF UpdatePassword, At, Goto, Return, codes,
       history, Idle, TypeOK, User, Call, Code, Untouched, RegisterVerified,
       Known, Numbered, Purpose, Verifications, Accounts
  <2>16. CASE Abandon(s)
    BY <1>0, IssuedAreCodes, <2>16 DEF Abandon, At, Goto, Return, codes,
       history, Idle, TypeOK, User, Call, Code, Untouched, RegisterVerified,
       Known, Numbered, Purpose, Verifications, Accounts
  <2> QED
    BY <1>4, <2>1, <2>2, <2>3, <2>4, <2>5, <2>6, <2>7, <2>8,
       <2>9, <2>10, <2>11, <2>12, <2>13, <2>14, <2>15, <2>16
       DEF Step, Account, OneTimeCode
<1> QED
  BY <1>1, <1>2, <1>3, <1>4 DEF Next

----------------------------------------------------------------------------
(* The theorems *)

\* The initial state satisfies the invariant.
LEMMA InitIInv == Init => IInv
<1> SUFFICES ASSUME Init PROVE IInv
  OBVIOUS
<1>1. TypeOK
  BY LimitsAssumption DEF Init, TypeOK, User, Code, Call, NoUser, NoCode, Idle, Until
<1>2. Failing = {} /\ \A c \in Codes : Comparing(c) = {}
  BY DEF Init, Failing, Comparing, Idle
<1>3. Cardinality({}) = 0 /\ Cardinality(Sessions) \in Nat
  BY FS_EmptySet, LimitsAssumption, FS_CardinalityType
<1>4. Failures
  BY <1>2, <1>3, LimitsAssumption DEF Init, Failures, Overshoot, NoUser
<1>5. Tries
  <2>1. \A c \in Codes : code[c].tries = 0 /\ Cardinality(Comparing(c)) = 0
    BY <1>2, <1>3 DEF Init, NoCode
  <2>2. 0 + 0 <= MaxTries - 1 + Cardinality(Sessions)
    BY <1>3, LimitsAssumption
  <2> QED
    BY <2>1, <2>2 DEF Tries
<1>6. Accounts /\ Numbered /\ Known /\ Untouched
  BY DEF Init, Accounts, Numbered, Known, Untouched, NoUser, NoCode, Idle, Codes
<1>7. OneLiveCode /\ ResetsAreVerified
  BY DEF Init, OneLiveCode, ResetsAreVerified
<1> QED
  BY <1>1, <1>4, <1>5, <1>6, <1>7 DEF IInv

\* Every step keeps it.
LEMMA NextIInv == IInv /\ [Next]_vars => IInv'
<1> SUFFICES ASSUME IInv, [Next]_vars PROVE IInv'
  OBVIOUS
<1>1. CASE Next
  BY <1>1, TypesKept, FailuresKept, TriesKept, AccountsKept, NumberedKept, KnownKept,
     UntouchedKept, OneLiveCodeKept, ResetsKept DEF IInv
<1>2. CASE UNCHANGED vars
  BY <1>2 DEF vars, IInv, TypeOK, Failures, Failing, Tries, Comparing, Overshoot,
     Accounts, Numbered, Known, Untouched, RegisterVerified, OneLiveCode, ResetsAreVerified
<1> QED
  BY <1>1, <1>2

\* The invariant of every behaviour.
LEMMA Invariance == Spec => []IInv
<1>1. Init => IInv
  BY InitIInv
<1>2. IInv /\ [Next]_vars => IInv'
  BY NextIInv
<1> QED
  BY <1>1, <1>2, PTL DEF Spec

\* Rows and calls keep their shape.
THEOREM Typing == Spec => []TypeOK
<1>1. IInv => TypeOK
  BY DEF IInv
<1> QED
  BY <1>1, Invariance, PTL

\* However many calls try passwords at once, the counter of failed logins passes
\* the limit by less than one for each of them, for every activation.
THEOREM LockoutHolds == Spec => []FailuresAreBounded
<1>1. IInv => FailuresAreBounded
  <2> SUFFICES ASSUME IInv PROVE FailuresAreBounded
    OBVIOUS
  <2>1. activations \in Nat /\ user.attempts \in Nat
    BY DEF IInv, TypeOK, User
  <2>2. Cardinality(Failing) \in Nat /\ Overshoot(activations) \in Nat
    BY <2>1, Sizes, OvershootGrows DEF Failing
  <2>3. user.attempts + Cardinality(Failing) <= Overshoot(activations)
    BY DEF IInv, Failures
  <2>4. user.attempts <= Overshoot(activations)
    BY <2>1, <2>2, <2>3
  <2> QED
    BY <2>4 DEF FailuresAreBounded, Overshoot
<1> QED
  BY <1>1, Invariance, PTL

\* A code is given up after MaxTries mismatches and those already under way.
THEOREM CodesAreSpent == Spec => []TriesAreBounded
<1>1. IInv => TriesAreBounded
  <2> SUFFICES ASSUME IInv, NEW c \in Codes
               PROVE  code[c].tries <= MaxTries - 1 + Cardinality(Sessions)
    BY DEF TriesAreBounded
  <2>1. /\ code[c].tries \in Nat
        /\ Cardinality(Comparing(c)) \in Nat
        /\ Cardinality(Sessions) \in Nat
    BY Sizes, LimitsAssumption, FS_CardinalityType DEF IInv, TypeOK, Code, Comparing
  <2>2. code[c].tries + Cardinality(Comparing(c)) <= MaxTries - 1 + Cardinality(Sessions)
    BY DEF IInv, Tries
  <2> QED
    BY <2>1, <2>2, LimitsAssumption
<1> QED
  BY <1>1, Invariance, PTL

\* Of the codes of a purpose only the last can be verified.
THEOREM LastCodeOnly == Spec => []OneLiveCode
<1>1. IInv => OneLiveCode
  BY DEF IInv
<1> QED
  BY <1>1, Invariance, PTL

\* A self-registered account stays closed until its REGISTER code is verified.
THEOREM RegistrationComesFirst == Spec => []NoEntryBeforeActivation
<1>1. IInv => NoEntryBeforeActivation
  BY DEF IInv, Untouched, RegisterVerified, NoEntryBeforeActivation
<1> QED
  BY <1>1, Invariance, PTL

\* A password changes only for a verified code of that purpose, a token is given
\* only for one of another.
THEOREM CodesKeepTheirPurpose == Spec => []ResetsAreVerified
<1>1. IInv => ResetsAreVerified
  BY DEF IInv
<1> QED
  BY <1>1, Invariance, PTL
=============================================================================
