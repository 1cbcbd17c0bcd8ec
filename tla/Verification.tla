---------------------------- MODULE Verification ----------------------------
(***************************************************************************)
(* The six-digit codes: registration by mail, a seller's phone number by   *)
(* WhatsApp, and a forgotten password by mail.  The three flows keep the   *)
(* same kind of rows and take the same steps; they differ in what a right  *)
(* code brings about.                                                      *)
(*                                                                         *)
(* Grain.  No transaction spans a handler, so each database call is a step *)
(* and calls for the same subject interleave.  A code is named by the row  *)
(* it was made for (two rows never share one), and time is no more than    *)
(* which rows have expired: a handler computes expiresAt well before it    *)
(* inserts, so that rows may expire in any order.                          *)
(***************************************************************************)
EXTENDS Integers, Sequences, FiniteSets

CONSTANTS
  Subjects,      \* an email to register, a user to become a seller, a user who forgot
  Kind,          \* which flow a subject is in
  Claims,        \* what is asked for: a registration form, a phone, a new password
  None,          \* no account, no profile
  Elsewhere,     \* an account that came by Google, or a password set without a code
  Calls,         \* bound: requests in flight
  MaxAttempts,   \* OTP_MAX_ATTEMPTS
  MaxCodes       \* bound: rows ever created

ASSUME KindAssumption == Kind \in [Subjects -> {"register", "seller", "reset"}]
ASSUME ClaimAssumption == None \notin Claims /\ Elsewhere \notin Claims \cup {None}
ASSUME CountAssumption == /\ MaxAttempts \in Nat \ {0} /\ MaxCodes \in Nat
                          /\ IsFiniteSet(Calls)

VARIABLES
  rows,      \* EmailVerification, PhoneVerification and PasswordReset rows
  issued,    \* history: subject and claim of every row, by its number
  call,      \* the requests in flight
  granted,   \* the User row, the SellerProfile and its role, or the password
  proof      \* history: the code that was typed for it

vars == <<rows, issued, call, granted, proof>>

Idle == [step |-> "free"]

Row == [id: 1 .. MaxCodes, subject: Subjects, claim: Claims,
        consumed: BOOLEAN, expired: BOOLEAN, attempts: Nat]

Call ==
  {Idle} \cup [step: {"clear", "insert"}, subject: Subjects, claim: Claims]
    \cup [step: {"recheck", "grant"}, subject: Subjects, claim: Claims,
          row: 1 .. MaxCodes, code: 1 .. MaxCodes]
    \cup [step: {"count", "consume"}, row: 1 .. MaxCodes]
    \cup [step: {"store"}, subject: {s \in Subjects : Kind[s] = "reset"}]

TypeOK ==
  /\ rows \subseteq Row
  /\ \A i, j \in rows : i.id = j.id => i = j
  /\ issued \in Seq([subject: Subjects, claim: Claims]) /\ Len(issued) <= MaxCodes
  /\ call \in [Calls -> Call]
  /\ granted \in [Subjects -> Claims \cup {None, Elsewhere}]
  /\ proof \in [Subjects -> 0 .. MaxCodes]

Init ==
  /\ rows = {} /\ issued = <<>>
  /\ call = [k \in Calls |-> Idle]
  /\ granted = [s \in Subjects |-> IF Kind[s] = "reset" THEN Elsewhere ELSE None]
  /\ proof = [s \in Subjects |-> 0]

Pending(s) == {r \in rows : r.subject = s /\ ~r.consumed}

(* findLatestPending, where there is one. *)
Latest(s) == CHOOSE r \in Pending(s) : \A q \in Pending(s) : q.id <= r.id

Sellers == {s \in Subjects : Kind[s] = "seller"}

(* The phone numbers of the sellers there are. *)
Taken == {granted[s] : s \in Sellers} \ {None}

Present(id) == {r \in rows : r.id = id}

(* The call k, which was at this step, goes on as the record says.         *)
Goes(k, here, next) == call[k].step = here /\ call' = [call EXCEPT ![k] = next]

To(k, there) == [call[k] EXCEPT !.step = there]

(* Only the row is left to be marked. *)
Done(k) == [step |-> "consume", row |-> call[k].row]

----------------------------------------------------------------------------
(* Asking for a code.                                                      *)

(* register: the mail has no account yet. *)
Registers(s) == Kind[s] = "register" /\ granted[s] = None

(* requestVerification: no seller yet, and no other seller has the phone.  *)
Applies(s, c) == Kind[s] = "seller" /\ granted[s] = None /\ c \notin Taken

(* forgotPassword: there is an account. *)
Forgot(s) == Kind[s] = "reset"

(* The three handlers before createPending. *)
Ask(k, s, c) ==
  /\ Registers(s) \/ Applies(s, c) \/ Forgot(s)
  /\ Goes(k, "free", [step |-> "clear", subject |-> s, claim |-> c])
  /\ UNCHANGED <<rows, issued, granted, proof>>

(* resendVerification and resend: the claim of the pending row again.      *)
Resend(k, s) ==
  /\ Kind[s] # "reset" /\ Pending(s) # {}
  /\ Goes(k, "free", [step |-> "clear", subject |-> s, claim |-> Latest(s).claim])
  /\ UNCHANGED <<rows, issued, granted, proof>>

(* createPending, its two calls. *)
Clear(k) ==
  /\ Goes(k, "clear", To(k, "insert"))
  /\ rows' = rows \ Pending(call[k].subject)
  /\ UNCHANGED <<issued, granted, proof>>

Insert(k) ==
  /\ Len(issued) < MaxCodes
  /\ Goes(k, "insert", Idle)
  /\ LET s == call[k].subject  c == call[k].claim
     IN /\ rows' = rows \cup {[id |-> Len(issued) + 1, subject |-> s, claim |-> c,
                               consumed |-> FALSE, expired |-> FALSE, attempts |-> 0]}
        /\ issued' = Append(issued, [subject |-> s, claim |-> c])
  /\ UNCHANGED <<granted, proof>>

----------------------------------------------------------------------------
(* Typing a code: verifyEmail, verifyPhone and resetPassword.              *)

(* Mutant: the attempts are counted but not looked at. *)
IsOpen_Uncounted(r) == ~r.expired

IsOpen(r) == r.attempts < MaxAttempts /\ ~r.expired

(* Mutant: the row is marked before the effect. *)
Then_ConsumeFirst(s) == "consume"

(* The step after a right code. *)
Then(s) == IF Kind[s] = "register" THEN "recheck" ELSE "grant"

(* The new password comes with the code; a form or a phone was asked for.  *)
Enter(k, s, code, c) ==
  /\ Pending(s) # {}
  /\ LET r == Latest(s)
         right == [step |-> Then(s), subject |-> s, row |-> r.id, code |-> code,
                   claim |-> IF Kind[s] = "reset" THEN c ELSE r.claim]
     IN /\ IsOpen(r)
        /\ Goes(k, "free", IF code = r.id THEN right ELSE [step |-> "count", row |-> r.id])
  /\ UNCHANGED <<rows, issued, granted, proof>>

(* incrementAttempts, which fails if the row is gone. *)
Count(k) ==
  /\ Goes(k, "count", Idle)
  /\ LET old == Present(call[k].row)
     IN rows' = (rows \ old) \cup {[r EXCEPT !.attempts = @ + 1] : r \in old}
  /\ UNCHANGED <<issued, granted, proof>>

(* verifyEmail looks for the account once more before it makes one.        *)
Recheck(k) ==
  /\ Goes(k, "recheck", 
               IF granted[call[k].subject] = None THEN To(k, "grant") ELSE Done(k))
  /\ UNCHANGED <<rows, issued, granted, proof>>

(* Mutants: no unique key at all; none on the phone number. *)
Grantable_Always(s, c) == TRUE
Grantable_SharedPhone(s, c) == Kind[s] = "reset" \/ granted[s] = None

(* The unique keys of User.email, SellerProfile.userId and .phoneNumber.   *)
Grantable(s, c) ==
  \/ Kind[s] = "reset"
  \/ granted[s] = None /\ (Kind[s] = "seller" => c \notin Taken)

(* Mutant: the phone is taken from the row as it is now. *)
Proven_Reread(k) ==
  LET s == call[k].subject
  IN IF Kind[s] # "reset" /\ Pending(s) # {} THEN Latest(s).claim ELSE call[k].claim

(* What the code was typed for: what the call read together with it.       *)
Proven(k) == call[k].claim

(* The account, the profile with its role, or the password.                *)
Grant(k) ==
  LET s == call[k].subject
  IN \/ /\ Goes(k, "grant", Done(k))
        /\ Grantable(s, Proven(k))
        /\ granted' = [granted EXCEPT ![s] = Proven(k)]
        /\ proof' = [proof EXCEPT ![s] = call[k].code]
        /\ UNCHANGED <<rows, issued>>
     \/ /\ Goes(k, "grant", Idle)
        /\ ~Grantable(s, Proven(k))
        /\ UNCHANGED <<rows, issued, granted, proof>>

(* markConsumed, which fails if the row is gone. *)
Consume(k) ==
  /\ Goes(k, "consume", Idle)
  /\ LET old == Present(call[k].row)
     IN rows' = (rows \ old) \cup {[r EXCEPT !.consumed = TRUE] : r \in old}
  /\ UNCHANGED <<issued, granted, proof>>

----------------------------------------------------------------------------
(* changePassword: the current password was typed, and the new one is      *)
(* written by id once it is hashed, whatever a reset has done meanwhile.   *)
Change(k, s) ==
  /\ Kind[s] = "reset"
  /\ Goes(k, "free", [step |-> "store", subject |-> s])
  /\ UNCHANGED <<rows, issued, granted, proof>>

Store(k) ==
  /\ Goes(k, "store", Idle)
  /\ granted' = [granted EXCEPT ![call[k].subject] = Elsewhere]
  /\ UNCHANGED <<rows, issued, proof>>

(* googleAuth makes the account if there is none. *)
Google(s) ==
  /\ Kind[s] = "register" /\ granted[s] = None
  /\ granted' = [granted EXCEPT ![s] = Elsewhere]
  /\ UNCHANGED <<rows, issued, call, proof>>

(* A handler dies, or its next database call fails. *)
Break(k) ==
  /\ call[k] # Idle
  /\ call' = [call EXCEPT ![k] = Idle]
  /\ UNCHANGED <<rows, issued, granted, proof>>

(* A pending row passes its expiresAt. *)
Lapse(s) ==
  \E r \in Pending(s) :
    /\ ~r.expired
    /\ rows' = (rows \ {r}) \cup {[r EXCEPT !.expired = TRUE]}
    /\ UNCHANGED <<issued, call, granted, proof>>

(* The codes a user may type: those that were sent, or a wrong one. *)
Codes(s) == {i \in 1 .. Len(issued) : issued[i].subject = s} \cup {0}

Next ==
  \/ \E k \in Calls, s \in Subjects, c \in Claims : Ask(k, s, c)
  \/ \E k \in Calls, s \in Subjects : Resend(k, s)
  \/ \E k \in Calls : Clear(k)
  \/ \E k \in Calls : Insert(k)
  \/ \E k \in Calls, s \in Subjects, c \in Claims : \E i \in Codes(s) : Enter(k, s, i, c)
  \/ \E k \in Calls : Count(k)
  \/ \E k \in Calls : Recheck(k)
  \/ \E k \in Calls : Grant(k)
  \/ \E k \in Calls : Consume(k)
  \/ \E k \in Calls, s \in Subjects : Change(k, s)
  \/ \E k \in Calls : Store(k)
  \/ \E k \in Calls : Break(k)
  \/ \E s \in Subjects : Google(s)
  \/ \E s \in Subjects : Lapse(s)

Spec == Init /\ [][Next]_vars

----------------------------------------------------------------------------
(* Whoever was granted something typed the code that was sent for it: the  *)
(* phone of a profile is the one whose code came back, and the account has *)
(* the form that was confirmed, although the pending row may be replaced   *)
(* while the code is checked.                                              *)
ProvenClaim ==
  \A s \in Subjects : granted[s] \in Claims =>
    /\ proof[s] \in 1 .. Len(issued)
    /\ issued[proof[s]].subject = s
    /\ Kind[s] # "reset" => issued[proof[s]].claim = granted[s]

(* A phone number belongs to one seller, although it is looked up when the *)
(* code is asked for and stored by another request, when the code is typed.*)
OneSellerPerPhone ==
  \A s, t \in Sellers : granted[s] # None /\ granted[s] = granted[t] => s = t

(* Wrong codes are counted, and the row closed by them: the calls that     *)
(* looked at the counter before it was full may all still add to it, and   *)
(* no others.                                                              *)
AttemptsBounded ==
  \A r \in rows : r.attempts < MaxAttempts + Cardinality(Calls)

(* The account or the profile is there, or a password that came with a     *)
(* code (an account always has some password).                             *)
Made(s) == granted[s] # None /\ (Kind[s] = "reset" => proof[s] # 0)

(* A code counts as used only when what it stands for exists.              *)
ConsumedIsGranted == \A r \in rows : r.consumed => Made(r.subject)

(* Account and profile are made once: no second code, late code or sign-in *)
(* replaces them.                                                          *)
GrantedOnce ==
  [][\A s \in Subjects :
       Kind[s] # "reset" /\ granted[s] # None => granted'[s] = granted[s]]_vars

(* A new code replaces the pending ones of its subject. *)
OnePending == \A s \in Subjects : Cardinality(Pending(s)) <= 1
=============================================================================
