------------------------ MODULE Verification_proofs ------------------------
(***************************************************************************)
(* The safety invariants of Verification, for every value of its constants.*)
(***************************************************************************)
EXTENDS Verification, TLAPS, SequenceTheorems, FiniteSetTheorems, WellFoundedInduction

----------------------------------------------------------------------------
(* The inductive invariant: what the rows and the calls in flight have to  *)
(* do with the codes that were sent.                                       *)

RowsAreIssued ==
  \A r \in rows : /\ r.id \in 1 .. Len(issued)
                  /\ issued[r.id].subject = r.subject
                  /\ issued[r.id].claim = r.claim

(* A call past the comparison carries the code of the row it has read, and *)
(* the claim that went with it.                                            *)
CallsAreProven ==
  \A k \in Calls : call[k].step \in {"recheck", "grant"} =>
    /\ call[k].row \in 1 .. Len(issued) /\ call[k].code = call[k].row
    /\ issued[call[k].code].subject = call[k].subject
    /\ Kind[call[k].subject] # "reset" => issued[call[k].code].claim = call[k].claim
    /\ call[k].step = "recheck" => Kind[call[k].subject] # "reset"

CallsAreDone ==
  \A k \in Calls :
    /\ call[k].step \in {"count", "consume"} => call[k].row \in 1 .. Len(issued)
    /\ call[k].step = "consume" => Made(issued[call[k].row].subject)

IInv == /\ TypeOK /\ RowsAreIssued /\ CallsAreProven /\ CallsAreDone
        /\ ProvenClaim /\ OneSellerPerPhone /\ ConsumedIsGranted

----------------------------------------------------------------------------
(* A bounded set of numbers that is not empty has a greatest element.      *)
LEMMA Greatest ==
  ASSUME NEW n \in Nat, NEW T \in SUBSET (1 .. n), T # {}
  PROVE  \E m \in T : \A i \in T : i <= m
<1> DEFINE below == {n - i : i \in T}
           less == {p \in Nat \X Nat : p[1] < p[2]}
<1>1. IsWellFoundedOn(less, Nat)
  BY NatLessThanWellFounded DEF OpToRel
<1>2. below \subseteq Nat
  OBVIOUS
<1>3. below # {}
  <2>1. PICK i \in T : TRUE
    OBVIOUS
  <2> QED BY <2>1
<1>4. PICK x \in below : \A y \in below : <<y, x>> \notin less
  <2> HIDE DEF less, below
  <2> QED BY <1>1, <1>2, <1>3, WFMin
<1>5. PICK m \in T : x = n - m
  OBVIOUS
<1>6. ASSUME NEW i \in T PROVE i <= m
  <2>1. n - i \in below /\ n - i \in Nat /\ x \in Nat
    BY <1>2
  <2>2. ~(n - i < x)
    BY <2>1, <1>4
  <2> QED BY <2>2, <1>5
<1> QED BY <1>6

(* findLatestPending finds a pending row if there is one.                  *)
LEMMA LatestIsPending ==
  ASSUME TypeOK, NEW s \in Subjects, Pending(s) # {}
  PROVE  Latest(s) \in Pending(s)
<1> DEFINE ids == {r.id : r \in Pending(s)}
<1>1. ids \subseteq 1 .. MaxCodes
  BY DEF TypeOK, Row, Pending
<1>2. ids # {}
  <2>1. PICK r \in Pending(s) : TRUE
    OBVIOUS
  <2> QED BY <2>1
<1>3. PICK m \in ids : \A i \in ids : i <= m
  <2> HIDE DEF ids
  <2> QED BY <1>1, <1>2, Greatest, CountAssumption
<1>4. PICK r \in Pending(s) : r.id = m
  OBVIOUS
<1>5. \A q \in Pending(s) : q.id <= r.id
  BY <1>3, <1>4
<1> QED BY <1>5 DEF Latest

(* The fields of a call, by the step that comes next.                      *)
LEMMA CallFields ==
  ASSUME TypeOK, NEW k \in Calls
  PROVE  /\ call[k] \in Call
         /\ call[k].step \in {"clear", "insert"} =>
              call[k].subject \in Subjects /\ call[k].claim \in Claims
         /\ call[k].step \in {"recheck", "grant"} =>
              /\ call[k].subject \in Subjects /\ call[k].claim \in Claims
              /\ call[k].row \in 1 .. MaxCodes /\ call[k].code \in 1 .. MaxCodes
         /\ call[k].step \in {"count", "consume"} => call[k].row \in 1 .. MaxCodes
         /\ call[k].step = "store" =>
              call[k].subject \in Subjects /\ Kind[call[k].subject] = "reset"
BY DEF TypeOK, Call, Idle

(* The record a call goes on with is one of those there are.               *)
LEMMA GoesOn ==
  ASSUME TypeOK, NEW k \in Calls, NEW here, NEW next \in Call, Goes(k, here, next)
  PROVE  call' \in [Calls -> Call] /\ call'[k] = next
         /\ \A j \in Calls \ {k} : call'[j] = call[j]
BY DEF TypeOK, Goes

(* A free request is one of the records of a call. *)
LEMMA IdleIsFree == Idle \in Call /\ Idle.step = "free"
BY DEF Call, Idle

(* The records a call goes on with, step by step. *)
LEMMA CallKinds ==
  /\ \A st \in {"clear", "insert"}, s \in Subjects, c \in Claims :
       [step |-> st, subject |-> s, claim |-> c] \in Call
  /\ \A st \in {"recheck", "grant"}, s \in Subjects, c \in Claims, i, j \in 1 .. MaxCodes :
       [step |-> st, subject |-> s, row |-> i, code |-> j, claim |-> c] \in Call
  /\ \A st \in {"count", "consume"}, i \in 1 .. MaxCodes : [step |-> st, row |-> i] \in Call
  /\ \A s \in Subjects : Kind[s] = "reset" => [step |-> "store", subject |-> s] \in Call
BY DEF Call

(* The invariant holds before any request. *)
LEMMA IInvInit == Init => IInv
<1> SUFFICES ASSUME Init PROVE IInv
  OBVIOUS
<1>1. TypeOK
  BY KindAssumption, CountAssumption, EmptySeq, IdleIsFree DEF Init, TypeOK, Row
<1>2. RowsAreIssued /\ ConsumedIsGranted
  BY DEF Init, RowsAreIssued, ConsumedIsGranted
<1>3. CallsAreProven /\ CallsAreDone
  BY DEF Init, CallsAreProven, CallsAreDone, Idle
<1>4. ProvenClaim
  BY ClaimAssumption DEF Init, ProvenClaim
<1>5. OneSellerPerPhone
  BY KindAssumption DEF Init, OneSellerPerPhone, Sellers
<1> QED BY <1>1, <1>2, <1>3, <1>4, <1>5 DEF IInv

----------------------------------------------------------------------------
(* Steps that move a call and nothing else.                                *)

(* What the next record of a call has to say for the invariant to hold.    *)
Sound(next) ==
  /\ next.step \in {"recheck", "grant"} =>
       /\ next.row \in 1 .. Len(issued) /\ next.code = next.row
       /\ issued[next.code].subject = next.subject
       /\ Kind[next.subject] # "reset" => issued[next.code].claim = next.claim
       /\ next.step = "recheck" => Kind[next.subject] # "reset"
  /\ next.step \in {"count", "consume"} => next.row \in 1 .. Len(issued)
  /\ next.step = "consume" => Made(issued[next.row].subject)

(* Calls stay sound as long as what was issued and granted stays.          *)
LEMMA CallsStaySound ==
  ASSUME IInv, NEW k \in Calls, NEW here, NEW next \in Call,
         Goes(k, here, next), Sound(next), UNCHANGED <<issued, granted, proof>>
  PROVE  CallsAreProven' /\ CallsAreDone'
<1>1. /\ call'[k] = next /\ \A j \in Calls \ {k} : call'[j] = call[j]
  BY GoesOn DEF IInv
<1>2. ASSUME NEW j \in Calls
      PROVE  /\ call'[j].step \in {"recheck", "grant"} =>
                  /\ call'[j].row \in 1 .. Len(issued) /\ call'[j].code = call'[j].row
                  /\ issued[call'[j].code].subject = call'[j].subject
                  /\ Kind[call'[j].subject] # "reset"
                       => issued[call'[j].code].claim = call'[j].claim
                  /\ call'[j].step = "recheck" => Kind[call'[j].subject] # "reset"
             /\ call'[j].step \in {"count", "consume"} => call'[j].row \in 1 .. Len(issued)
             /\ call'[j].step = "consume" => Made(issued[call'[j].row].subject)
  <2>1. CASE j = k
    BY <1>1, <2>1 DEF Sound
  <2>2. CASE j # k
    BY <1>1, <2>2 DEF IInv, CallsAreProven, CallsAreDone, Made
  <2> QED BY <2>1, <2>2
<1> QED BY <1>2 DEF CallsAreProven, CallsAreDone, Made

(* A call that moves to a sound record, and nothing else, keeps it. *)
LEMMA CallMoves ==
  ASSUME IInv, NEW k \in Calls, NEW here, NEW next \in Call, Goes(k, here, next),
         Sound(next), UNCHANGED <<rows, issued, granted, proof>>
  PROVE  IInv'
<1>1. TypeOK'
  BY GoesOn DEF IInv, TypeOK
<1>2. CallsAreProven' /\ CallsAreDone'
  BY CallsStaySound
<1> QED BY <1>1, <1>2 DEF IInv, RowsAreIssued, ProvenClaim, OneSellerPerPhone,
                         ConsumedIsGranted, Made

(* A request for a code. *)
LEMMA AskKeeps ==
  ASSUME IInv, NEW k \in Calls, NEW s \in Subjects, NEW c \in Claims, Ask(k, s, c)
  PROVE  IInv'
<1> DEFINE next == [step |-> "clear", subject |-> s, claim |-> c]
<1>1. next \in Call /\ Sound(next)
  BY CallKinds DEF Sound
<1>2. Goes(k, "free", next) /\ UNCHANGED <<rows, issued, granted, proof>>
  BY DEF Ask
<1> QED
  <2> HIDE DEF next
  <2> QED BY <1>1, <1>2, CallMoves

(* A request for the code of the pending row again. *)
LEMMA ResendKeeps ==
  ASSUME IInv, NEW k \in Calls, NEW s \in Subjects, Resend(k, s)
  PROVE  IInv'
<1> DEFINE next == [step |-> "clear", subject |-> s, claim |-> Latest(s).claim]
<1>1. Latest(s) \in rows
  BY LatestIsPending DEF IInv, Resend, Pending
<1>2. Latest(s).claim \in Claims
  BY <1>1 DEF IInv, TypeOK, Row
<1>3. next \in Call /\ Sound(next)
  BY <1>2, CallKinds DEF Sound
<1>4. Goes(k, "free", next) /\ UNCHANGED <<rows, issued, granted, proof>>
  BY DEF Resend
<1> QED
  <2> HIDE DEF next
  <2> QED BY <1>3, <1>4, CallMoves

(* A code is typed: right or wrong, the next record is sound. *)
LEMMA EnterKeeps ==
  ASSUME IInv, NEW k \in Calls, NEW s \in Subjects, NEW c \in Claims, NEW code,
         Enter(k, s, code, c)
  PROVE  IInv'
<1> DEFINE r == Latest(s)
           right == [step |-> Then(s), subject |-> s, row |-> r.id, code |-> code,
                     claim |-> IF Kind[s] = "reset" THEN c ELSE r.claim]
           wrong == [step |-> "count", row |-> r.id]
           next == IF code = r.id THEN right ELSE wrong
<1>1. r \in rows /\ r.subject = s
  BY LatestIsPending DEF IInv, Enter, Pending
<1>2. /\ r.id \in 1 .. MaxCodes /\ r.claim \in Claims /\ r.id \in 1 .. Len(issued)
      /\ issued[r.id].subject = s /\ issued[r.id].claim = r.claim
  <2> HIDE DEF r
  <2> QED BY <1>1 DEF IInv, TypeOK, Row, RowsAreIssued
<1>3. Goes(k, "free", next) /\ UNCHANGED <<rows, issued, granted, proof>>
  BY DEF Enter
<1>4. Then(s) \in {"recheck", "grant"}
  BY DEF Then
<1>5. next \in Call /\ Sound(next)
  <2> HIDE DEF r
  <2>1. CASE code = r.id
    <3>1. right \in Call
      BY <1>2, <1>4, <2>1, CallKinds
    <3>2. Sound(right)
      BY <1>2, <1>4, <2>1 DEF Sound, Then
    <3> QED BY <2>1, <3>1, <3>2
  <2>2. CASE code # r.id
    <3>1. wrong \in Call /\ Sound(wrong)
      BY <1>2, CallKinds DEF Sound
    <3> QED BY <2>2, <3>1
  <2> QED BY <2>1, <2>2
<1> QED
  <2> HIDE DEF next
  <2> QED BY <1>3, <1>5, CallMoves

(* The next record of Recheck and Grant: only the row is left.             *)
LEMMA DoneIsSound ==
  ASSUME IInv, NEW k \in Calls, call[k].step \in {"recheck", "grant"}
  PROVE  /\ Done(k) \in Call /\ Done(k).step = "consume" /\ Done(k).row = call[k].row
         /\ call[k].row \in 1 .. Len(issued)
         /\ issued[call[k].row].subject = call[k].subject
<1>1. /\ call[k].row \in 1 .. MaxCodes /\ call[k].row \in 1 .. Len(issued)
      /\ issued[call[k].row].subject = call[k].subject
  BY CallFields DEF IInv, CallsAreProven
<1>2. Done(k) \in Call
  BY <1>1, CallKinds DEF Done
<1> QED BY <1>1, <1>2 DEF Done

(* The account is looked for once more. *)
LEMMA RecheckKeeps ==
  ASSUME IInv, NEW k \in Calls, Recheck(k)
  PROVE  IInv'
<1> DEFINE next == IF granted[call[k].subject] = None THEN To(k, "grant") ELSE Done(k)
<1>1. call[k].step = "recheck" /\ Goes(k, "recheck", next)
      /\ UNCHANGED <<rows, issued, granted, proof>>
  BY DEF Recheck, Goes
<1>2. CASE granted[call[k].subject] = None
  <2>1. To(k, "grant") \in Call
    BY <1>1, CallFields DEF IInv, To, Call, Idle
  <2>2. /\ To(k, "grant").step = "grant" /\ To(k, "grant").row = call[k].row
        /\ To(k, "grant").code = call[k].code /\ To(k, "grant").subject = call[k].subject
        /\ To(k, "grant").claim = call[k].claim
    BY <1>1, CallFields DEF IInv, To, Call, Idle
  <2>3. Sound(To(k, "grant"))
    BY <1>1, <2>2 DEF IInv, CallsAreProven, Sound
  <2>4. next = To(k, "grant")
    BY <1>2
  <2> QED BY <1>1, <2>1, <2>3, <2>4, CallMoves
<1>3. CASE granted[call[k].subject] # None
  <2>1. next = Done(k) /\ Sound(Done(k))
    BY <1>1, <1>3, DoneIsSound DEF IInv, CallsAreProven, Sound, Made
  <2> QED BY <1>1, <2>1, DoneIsSound, CallMoves
<1> QED BY <1>2, <1>3

(* The current password was typed. *)
LEMMA ChangeKeeps ==
  ASSUME IInv, NEW k \in Calls, NEW s \in Subjects, Change(k, s)
  PROVE  IInv'
<1> DEFINE next == [step |-> "store", subject |-> s]
<1>1. next \in Call /\ Sound(next)
  BY CallKinds DEF Change, Sound
<1>2. Goes(k, "free", next) /\ UNCHANGED <<rows, issued, granted, proof>>
  BY DEF Change
<1> QED
  <2> HIDE DEF next
  <2> QED BY <1>1, <1>2, CallMoves

(* A call is lost on its way. *)
LEMMA BreakKeeps ==
  ASSUME IInv, NEW k \in Calls, Break(k)
  PROVE  IInv'
<1>1. Goes(k, call[k].step, Idle) /\ UNCHANGED <<rows, issued, granted, proof>>
  BY DEF Break, Goes
<1>2. Sound(Idle)
  BY IdleIsFree DEF Sound
<1> QED BY <1>1, <1>2, IdleIsFree, CallMoves

----------------------------------------------------------------------------
(* Steps that take rows away or change them in place.                      *)

(* Every row of the next state is an old one, but for its counters; it is  *)
(* consumed only if it was, or if its subject has been granted something.  *)
SameRows(new) ==
  /\ new \subseteq Row
  /\ \A i, j \in new : i.id = j.id => i = j
  /\ \A r \in new : \E q \in rows :
       /\ q.id = r.id /\ q.subject = r.subject /\ q.claim = r.claim
       /\ r.consumed => q.consumed \/ Made(r.subject)

(* Rows that stay the same but for their counters keep the invariant. *)
LEMMA RowsMove ==
  ASSUME IInv, SameRows(rows'), call' \in [Calls -> Call], CallsAreProven', CallsAreDone',
         UNCHANGED <<issued, granted, proof>>
  PROVE  IInv'
<1>1. TypeOK'
  BY DEF IInv, TypeOK, SameRows
<1>2. RowsAreIssued'
  BY DEF IInv, RowsAreIssued, SameRows
<1>3. ConsumedIsGranted'
  BY DEF IInv, ConsumedIsGranted, SameRows, Made
<1> QED BY <1>1, <1>2, <1>3 DEF IInv, ProvenClaim, OneSellerPerPhone

(* One row changed in place. *)
LEMMA RowChanged ==
  ASSUME IInv, NEW old \in SUBSET rows, NEW f \in [old -> Row],
         \A i, j \in old : i = j,
         \A r \in old : /\ f[r].id = r.id /\ f[r].subject = r.subject
                        /\ f[r].claim = r.claim
                        /\ f[r].consumed => r.consumed \/ Made(r.subject)
  PROVE  SameRows((rows \ old) \cup {f[r] : r \in old})
BY DEF IInv, TypeOK, SameRows

(* What the three edits of a row leave alone. *)
LEMMA Edits ==
  ASSUME NEW r \in Row
  PROVE  /\ [r EXCEPT !.attempts = @ + 1] \in Row /\ [r EXCEPT !.consumed = TRUE] \in Row
         /\ [r EXCEPT !.attempts = @ + 1].id = r.id
         /\ [r EXCEPT !.attempts = @ + 1].subject = r.subject
         /\ [r EXCEPT !.attempts = @ + 1].claim = r.claim
         /\ [r EXCEPT !.attempts = @ + 1].consumed = r.consumed
         /\ [r EXCEPT !.consumed = TRUE].id = r.id
         /\ [r EXCEPT !.consumed = TRUE].subject = r.subject
         /\ [r EXCEPT !.consumed = TRUE].claim = r.claim
<1>1. /\ r.id \in 1 .. MaxCodes /\ r.subject \in Subjects /\ r.claim \in Claims
      /\ r.consumed \in BOOLEAN /\ r.expired \in BOOLEAN /\ r.attempts \in Nat
  BY DEF Row
<1>2. r.attempts + 1 \in Nat
  BY <1>1
<1>3. /\ [r EXCEPT !.attempts = @ + 1].id = r.id
      /\ [r EXCEPT !.attempts = @ + 1].subject = r.subject
      /\ [r EXCEPT !.attempts = @ + 1].claim = r.claim
      /\ [r EXCEPT !.attempts = @ + 1].consumed = r.consumed
  BY DEF Row
<1>4. /\ [r EXCEPT !.consumed = TRUE].id = r.id
      /\ [r EXCEPT !.consumed = TRUE].subject = r.subject
      /\ [r EXCEPT !.consumed = TRUE].claim = r.claim
  BY DEF Row
<1>5. [r EXCEPT !.attempts = @ + 1] \in Row
  BY <1>2 DEF Row
<1>6. [r EXCEPT !.consumed = TRUE] \in Row
  BY DEF Row
<1> QED BY <1>3, <1>4, <1>5, <1>6

(* No two rows share a number. *)
LEMMA PresentIsOne ==
  ASSUME TypeOK, NEW i
  PROVE  Present(i) \in SUBSET rows /\ \A q, r \in Present(i) : q = r
BY DEF TypeOK, Present

(* The pending rows are deleted. *)
LEMMA ClearKeeps ==
  ASSUME IInv, NEW k \in Calls, Clear(k)
  PROVE  IInv'
<1>1. call[k].step = "clear" /\ Goes(k, "clear", To(k, "insert"))
      /\ UNCHANGED <<issued, granted, proof>>
  BY DEF Clear, Goes
<1>2. To(k, "insert") \in Call /\ To(k, "insert").step = "insert"
  BY <1>1, CallFields DEF IInv, To, Call, Idle
<1>3. Sound(To(k, "insert"))
  BY <1>2 DEF Sound
<1>4. call' \in [Calls -> Call] /\ CallsAreProven' /\ CallsAreDone'
  BY <1>1, <1>2, <1>3, GoesOn, CallsStaySound DEF IInv
<1>5. SameRows(rows')
  BY DEF Clear, SameRows, IInv, TypeOK
<1> QED BY <1>1, <1>4, <1>5, RowsMove

(* A wrong code is counted. *)
LEMMA CountKeeps ==
  ASSUME IInv, NEW k \in Calls, Count(k)
  PROVE  IInv'
<1> DEFINE old == Present(call[k].row)
           f == [r \in old |-> [r EXCEPT !.attempts = @ + 1]]
<1>1. Goes(k, "count", Idle) /\ UNCHANGED <<issued, granted, proof>>
  BY DEF Count
<1>2. Sound(Idle)
  BY IdleIsFree DEF Sound
<1>3. call' \in [Calls -> Call] /\ CallsAreProven' /\ CallsAreDone'
  BY <1>1, <1>2, IdleIsFree, GoesOn, CallsStaySound DEF IInv
<1>4. rows' = (rows \ old) \cup {f[r] : r \in old}
  BY DEF Count
<1>5. old \in SUBSET rows /\ \A i, j \in old : i = j
  BY PresentIsOne DEF IInv
<1>6. \A r \in old : /\ f[r] \in Row /\ f[r].id = r.id /\ f[r].subject = r.subject
                     /\ f[r].claim = r.claim /\ f[r].consumed = r.consumed
  <2>1. ASSUME NEW r \in old PROVE r \in Row
    BY <1>5 DEF IInv, TypeOK
  <2> QED BY <2>1, Edits
<1>7. f \in [old -> Row]
  BY <1>6
<1>8. SameRows((rows \ old) \cup {f[r] : r \in old})
  <2> HIDE DEF f, old
  <2> QED BY <1>5, <1>6, <1>7, RowChanged
<1> QED BY <1>1, <1>3, <1>4, <1>8, RowsMove

(* The row is marked after what it stands for exists. *)
LEMMA ConsumeKeeps ==
  ASSUME IInv, NEW k \in Calls, Consume(k)
  PROVE  IInv'
<1> DEFINE old == Present(call[k].row)
           f == [r \in old |-> [r EXCEPT !.consumed = TRUE]]
<1>1. call[k].step = "consume" /\ Goes(k, "consume", Idle)
      /\ UNCHANGED <<issued, granted, proof>>
  BY DEF Consume, Goes
<1>2. Sound(Idle)
  BY IdleIsFree DEF Sound
<1>3. call' \in [Calls -> Call] /\ CallsAreProven' /\ CallsAreDone'
  BY <1>1, <1>2, IdleIsFree, GoesOn, CallsStaySound DEF IInv
<1>4. rows' = (rows \ old) \cup {f[r] : r \in old}
  BY DEF Consume
<1>5. old \in SUBSET rows /\ \A i, j \in old : i = j
  BY PresentIsOne DEF IInv
<1>6. \A r \in old : /\ f[r] \in Row /\ f[r].id = r.id /\ f[r].subject = r.subject
                     /\ f[r].claim = r.claim
  <2>1. ASSUME NEW r \in old PROVE r \in Row
    BY <1>5 DEF IInv, TypeOK
  <2> QED BY <2>1, Edits
<1>7. \A r \in old : Made(r.subject)
  BY <1>1, <1>5 DEF IInv, RowsAreIssued, CallsAreDone, Present
<1>8. f \in [old -> Row]
  BY <1>6
<1>9. SameRows((rows \ old) \cup {f[r] : r \in old})
  <2> HIDE DEF f, old
  <2> QED BY <1>5, <1>6, <1>7, <1>8, RowChanged
<1> QED BY <1>1, <1>3, <1>4, <1>9, RowsMove

(* A row expires. *)
LEMMA LapseKeeps ==
  ASSUME IInv, NEW s \in Subjects, Lapse(s)
  PROVE  IInv'
<1>1. PICK q \in Pending(s) : /\ rows' = (rows \ {q}) \cup {[q EXCEPT !.expired = TRUE]}
                              /\ UNCHANGED <<issued, call, granted, proof>>
  BY DEF Lapse
<1> DEFINE f == [r \in {q} |-> [r EXCEPT !.expired = TRUE]]
<1>2. q \in rows /\ {q} \in SUBSET rows
  BY DEF Pending
<1>3. \A r \in {q} : /\ f[r] \in Row /\ f[r].id = r.id /\ f[r].subject = r.subject
                     /\ f[r].claim = r.claim /\ f[r].consumed = r.consumed
  BY <1>2 DEF IInv, TypeOK, Row
<1>4. f \in [{q} -> Row] /\ \A i, j \in {q} : i = j
  BY <1>3
<1>5. rows' = (rows \ {q}) \cup {f[r] : r \in {q}}
  BY <1>1
<1>6. SameRows((rows \ {q}) \cup {f[r] : r \in {q}})
  <2> HIDE DEF f
  <2> QED BY <1>2, <1>3, <1>4, RowChanged
<1>7. call' \in [Calls -> Call] /\ CallsAreProven' /\ CallsAreDone'
  BY <1>1 DEF IInv, TypeOK, CallsAreProven, CallsAreDone, Made
<1> QED BY <1>1, <1>5, <1>6, <1>7, RowsMove

(* A row with the next number, issued for the subject and claim of the call. *)
LEMMA InsertKeeps ==
  ASSUME IInv, NEW k \in Calls, Insert(k)
  PROVE  IInv'
<1> DEFINE s == call[k].subject
           c == call[k].claim
           e == [subject |-> s, claim |-> c]
           n == Len(issued) + 1
           new == [id |-> n, subject |-> s, claim |-> c,
                   consumed |-> FALSE, expired |-> FALSE, attempts |-> 0]
<1>1. /\ call[k].step = "insert" /\ Goes(k, "insert", Idle) /\ Len(issued) < MaxCodes
      /\ rows' = rows \cup {new} /\ issued' = Append(issued, e)
      /\ UNCHANGED <<granted, proof>>
  BY DEF Insert, Goes
<1>2. s \in Subjects /\ c \in Claims
  BY <1>1, CallFields DEF IInv
<1>3. e \in [subject: Subjects, claim: Claims] /\ Len(issued) \in Nat
      /\ issued \in Seq([subject: Subjects, claim: Claims])
  BY <1>2, LenProperties DEF IInv, TypeOK
<1>4. /\ issued' \in Seq([subject: Subjects, claim: Claims]) /\ Len(issued') = n
      /\ \A i \in 1 .. Len(issued) : issued'[i] = issued[i]
      /\ issued'[n] = e
  BY <1>1, <1>3, AppendProperties
<1>5. /\ call' \in [Calls -> Call] /\ call'[k] = Idle
      /\ \A j \in Calls \ {k} : call'[j] = call[j]
  BY <1>1, IdleIsFree, GoesOn DEF IInv
<1>6. n \in 1 .. MaxCodes
  BY <1>1, <1>3, CountAssumption
<1>7. new \in Row
  BY <1>2, <1>6 DEF Row
<1>8. \A r \in rows : r.id \in 1 .. Len(issued) /\ r.id # n
  BY <1>3 DEF IInv, RowsAreIssued
<1>9. TypeOK'
  <2>1. rows' \subseteq Row
    BY <1>1, <1>7 DEF IInv, TypeOK
  <2>2. \A i, j \in rows' : i.id = j.id => i = j
    <3>1. \A i, j \in rows : i.id = j.id => i = j
      BY DEF IInv, TypeOK
    <3>2. new.id = n
      OBVIOUS
    <3> HIDE DEF new
    <3> QED BY <1>1, <1>8, <3>1, <3>2
  <2>3. Len(issued') <= MaxCodes
    BY <1>4, <1>6
  <2> QED BY <1>1, <1>4, <1>5, <2>1, <2>2, <2>3 DEF IInv, TypeOK
<1>10. RowsAreIssued'
  <2>1. ASSUME NEW r \in rows
        PROVE  r.id \in 1 .. Len(issued') /\ issued'[r.id].subject = r.subject
               /\ issued'[r.id].claim = r.claim
    BY <1>3, <1>4, <1>8 DEF IInv, RowsAreIssued
  <2>2. new.id \in 1 .. Len(issued') /\ issued'[new.id].subject = new.subject
        /\ issued'[new.id].claim = new.claim
    BY <1>3, <1>4
  <2> QED BY <1>1, <2>1, <2>2 DEF RowsAreIssued
<1>11. 1 .. Len(issued) \subseteq 1 .. Len(issued')
  BY <1>3, <1>4
<1>12. CallsAreProven' /\ CallsAreDone'
  <2>1. ASSUME NEW j \in Calls
        PROVE  /\ call'[j].step \in {"recheck", "grant"} =>
                    /\ call'[j].row \in 1 .. Len(issued') /\ call'[j].code = call'[j].row
                    /\ issued'[call'[j].code].subject = call'[j].subject
                    /\ Kind[call'[j].subject] # "reset"
                         => issued'[call'[j].code].claim = call'[j].claim
                    /\ call'[j].step = "recheck" => Kind[call'[j].subject] # "reset"
               /\ call'[j].step \in {"count", "consume"} => call'[j].row \in 1 .. Len(issued')
               /\ call'[j].step = "consume" => Made(issued'[call'[j].row].subject)
    <3>1. CASE j = k
      BY <1>5, <3>1, IdleIsFree
    <3>2. CASE j # k
      <4>1. call'[j] = call[j]
        BY <1>5, <3>2
      <4> QED BY <4>1, <1>4, <1>11 DEF IInv, CallsAreProven, CallsAreDone
    <3> QED BY <3>1, <3>2
  <2> QED BY <1>1, <2>1 DEF CallsAreProven, CallsAreDone, Made
<1>13. ProvenClaim'
  BY <1>1, <1>4, <1>11 DEF IInv, ProvenClaim
<1>14. ConsumedIsGranted'
  BY <1>1 DEF IInv, ConsumedIsGranted, Made
<1> QED BY <1>1, <1>9, <1>10, <1>12, <1>13, <1>14 DEF IInv, OneSellerPerPhone

----------------------------------------------------------------------------
(* Steps that grant something.                                             *)

(* What is granted to one subject leaves what the others have.             *)
LEMMA GrantTo ==
  ASSUME IInv, NEW s \in Subjects, NEW c \in Claims \cup {Elsewhere},
         granted' = [granted EXCEPT ![s] = c]
  PROVE  /\ granted' \in [Subjects -> Claims \cup {None, Elsewhere}]
         /\ granted'[s] = c /\ c # None
         /\ \A t \in Subjects \ {s} : granted'[t] = granted[t]
         /\ \A t \in Subjects : granted[t] # None => granted'[t] # None
BY ClaimAssumption DEF IInv, TypeOK

(* Every code was sent for a subject. *)
LEMMA IssuedTo ==
  ASSUME TypeOK
  PROVE  \A i \in 1 .. Len(issued) : issued[i].subject \in Subjects
<1> DEFINE S == [subject: Subjects, claim: Claims]
<1>1. issued \in Seq(S)
  BY DEF TypeOK
<1>2. \A i \in 1 .. Len(issued) : issued[i] \in S
  <2> HIDE DEF S
  <2> QED BY <1>1, ElementOfSeq
<1> QED BY <1>2

(* The call that grants, and the others, stay sound.                       *)
LEMMA GrantKeeps ==
  ASSUME IInv, NEW k \in Calls, Grant(k)
  PROVE  IInv'
<1> DEFINE s == call[k].subject
           c == call[k].claim
<1>1. CASE /\ Goes(k, "grant", Idle) /\ UNCHANGED <<rows, issued, granted, proof>>
  <2>1. Sound(Idle)
    BY IdleIsFree DEF Sound
  <2> QED BY <1>1, <2>1, IdleIsFree, CallMoves
<1>2. CASE /\ Goes(k, "grant", Done(k)) /\ Grantable(s, c)
           /\ granted' = [granted EXCEPT ![s] = c]
           /\ proof' = [proof EXCEPT ![s] = call[k].code]
           /\ UNCHANGED <<rows, issued>>
  <2>1. call[k].step = "grant"
    BY <1>2 DEF Goes
  <2>2. s \in Subjects /\ c \in Claims /\ call[k].code \in 1 .. MaxCodes
    BY <2>1, CallFields DEF IInv
  <2>3. /\ call[k].code = call[k].row /\ call[k].code \in 1 .. Len(issued)
        /\ issued[call[k].code].subject = s
        /\ Kind[s] # "reset" => issued[call[k].code].claim = c
    BY <2>1 DEF IInv, CallsAreProven
  <2>4. /\ granted' \in [Subjects -> Claims \cup {None, Elsewhere}]
        /\ granted'[s] = c /\ c # None
        /\ \A t \in Subjects \ {s} : granted'[t] = granted[t]
        /\ \A t \in Subjects : granted[t] # None => granted'[t] # None
    BY <1>2, <2>2, GrantTo
  <2>5. /\ Done(k) \in Call /\ Done(k).step = "consume" /\ Done(k).row = call[k].row
    BY <2>1, DoneIsSound
  <2>6. /\ call' \in [Calls -> Call] /\ call'[k] = Done(k)
        /\ \A j \in Calls \ {k} : call'[j] = call[j]
    BY <1>2, <2>5, GoesOn DEF IInv
  <2>7. /\ proof' \in [Subjects -> 0 .. MaxCodes] /\ proof'[s] = call[k].code
        /\ \A t \in Subjects \ {s} : proof'[t] = proof[t]
    BY <1>2, <2>2 DEF IInv, TypeOK
  <2>8. TypeOK'
    BY <1>2, <2>4, <2>6, <2>7 DEF IInv, TypeOK
  <2>made. \A t \in Subjects : t = s \/ Made(t) => Made(t)'
    <3>1. ASSUME NEW t \in Subjects, t = s \/ Made(t)
          PROVE  granted'[t] # None /\ (Kind[t] = "reset" => proof'[t] # 0)
      <4>1. CASE t = s
        BY <2>2, <2>4, <2>7, <4>1
      <4>2. CASE t # s
        BY <2>4, <2>7, <3>1, <4>2 DEF Made
      <4> QED BY <4>1, <4>2
    <3> QED BY <3>1 DEF Made
  <2>9. RowsAreIssued'
    BY <1>2 DEF IInv, RowsAreIssued
  <2>10. CallsAreProven'
    <3>1. ASSUME NEW j \in Calls, call'[j].step \in {"recheck", "grant"}
          PROVE  j # k /\ call'[j] = call[j]
      BY <2>5, <2>6, <3>1
    <3> QED BY <1>2, <3>1 DEF IInv, CallsAreProven
  <2>11. CallsAreDone'
    <3>1. \A i \in 1 .. Len(issued) : issued[i].subject \in Subjects
      BY IssuedTo DEF IInv
    <3>2. ASSUME NEW j \in Calls
          PROVE  /\ (call[j].step \in {"count", "consume"} => call[j].row \in 1 .. Len(issued))'
                 /\ (call[j].step = "consume" => Made(issued[call[j].row].subject))'
      <4>1. CASE j = k
        BY <1>2, <2>2, <2>3, <2>5, <2>6, <2>made, <4>1 DEF Made
      <4>2. CASE j # k
        BY <1>2, <2>6, <2>made, <3>1, <4>2 DEF IInv, CallsAreDone, Made
      <4> QED BY <4>1, <4>2
    <3> QED BY <3>2 DEF CallsAreDone
  <2>12. ProvenClaim'
    <3>1. ASSUME NEW t \in Subjects, granted'[t] \in Claims
          PROVE  /\ proof'[t] \in 1 .. Len(issued)
                 /\ issued[proof'[t]].subject = t
                 /\ Kind[t] # "reset" => issued[proof'[t]].claim = granted'[t]
      <4>1. CASE t = s
        BY <2>3, <2>4, <2>7, <4>1
      <4>2. CASE t # s
        BY <2>4, <2>7, <3>1, <4>2 DEF IInv, ProvenClaim
      <4> QED BY <4>1, <4>2
    <3> QED BY <1>2, <3>1 DEF ProvenClaim
  <2>13. OneSellerPerPhone'
    <3>1. Sellers \subseteq Subjects
      BY DEF Sellers
    <3>2. s \in Sellers => \A t \in Sellers : granted[t] # c
      BY <1>2, <2>4 DEF Grantable, Sellers, Taken
    <3>3. ASSUME NEW t \in Sellers, NEW u \in Sellers,
                 granted'[t] # None, granted'[t] = granted'[u]
          PROVE  t = u
      <4>1. CASE t # s /\ u # s
        BY <2>4, <3>1, <3>3, <4>1 DEF IInv, OneSellerPerPhone
      <4>2. CASE t = s \/ u = s
        BY <2>4, <3>1, <3>2, <3>3, <4>2
      <4> QED BY <4>1, <4>2
    <3> QED BY <3>3 DEF OneSellerPerPhone, Sellers
  <2>14. ConsumedIsGranted'
    <3>1. \A r \in rows : r.subject \in Subjects
      BY DEF IInv, TypeOK, Row
    <3> QED BY <1>2, <2>made, <3>1 DEF IInv, ConsumedIsGranted, Made
  <2> QED BY <2>8, <2>9, <2>10, <2>11, <2>12, <2>13, <2>14 DEF IInv
<1> QED BY <1>1, <1>2 DEF Grant, Proven

(* An account that came by Google. *)
LEMMA GoogleKeeps ==
  ASSUME IInv, NEW s \in Subjects, Google(s)
  PROVE  IInv'
<1>1. /\ Kind[s] = "register" /\ granted[s] = None
      /\ granted' = [granted EXCEPT ![s] = Elsewhere]
      /\ UNCHANGED <<rows, issued, call, proof>>
  BY DEF Google
<1>2. /\ granted' \in [Subjects -> Claims \cup {None, Elsewhere}]
      /\ granted'[s] = Elsewhere
      /\ \A t \in Subjects \ {s} : granted'[t] = granted[t]
      /\ \A t \in Subjects : granted[t] # None => granted'[t] # None
  BY <1>1, GrantTo
<1>3. TypeOK'
  BY <1>1, <1>2 DEF IInv, TypeOK
<1>4. RowsAreIssued' /\ CallsAreProven'
  BY <1>1 DEF IInv, RowsAreIssued, CallsAreProven
<1>5. CallsAreDone'
  <2>1. \A i \in 1 .. Len(issued) : issued[i].subject \in Subjects
    BY IssuedTo DEF IInv
  <2> QED BY <1>1, <1>2, <2>1 DEF IInv, CallsAreDone, Made
<1>6. ProvenClaim'
  BY <1>1, <1>2, ClaimAssumption DEF IInv, ProvenClaim
<1>7. OneSellerPerPhone'
  BY <1>1, <1>2 DEF IInv, OneSellerPerPhone, Sellers
<1>8. ConsumedIsGranted'
  <2>1. \A r \in rows : r.subject \in Subjects
    BY DEF IInv, TypeOK, Row
  <2> QED BY <1>1, <1>2, <2>1 DEF IInv, ConsumedIsGranted, Made
<1> QED BY <1>3, <1>4, <1>5, <1>6, <1>7, <1>8 DEF IInv

(* The new password is written. *)
LEMMA StoreKeeps ==
  ASSUME IInv, NEW k \in Calls, Store(k)
  PROVE  IInv'
<1>1. PICK s \in Subjects : s = call[k].subject /\ Kind[s] = "reset"
  BY CallFields DEF IInv, Store, Goes
<1>2. /\ granted' = [granted EXCEPT ![s] = Elsewhere] /\ Goes(k, "store", Idle)
      /\ UNCHANGED <<rows, issued, proof>>
  BY <1>1 DEF Store
<1>3. /\ granted' \in [Subjects -> Claims \cup {None, Elsewhere}]
      /\ granted'[s] = Elsewhere
      /\ \A t \in Subjects \ {s} : granted'[t] = granted[t]
      /\ \A t \in Subjects : granted[t] # None => granted'[t] # None
  BY <1>2, GrantTo
<1>4. call' \in [Calls -> Call] /\ \A j \in Calls : call'[j] = call[j] \/ call'[j].step = "free"
  BY <1>2, GoesOn, IdleIsFree DEF IInv
<1>5. TypeOK'
  BY <1>2, <1>3, <1>4 DEF IInv, TypeOK
<1>6. RowsAreIssued' /\ CallsAreProven'
  BY <1>2, <1>4 DEF IInv, RowsAreIssued, CallsAreProven
<1>7. CallsAreDone'
  <2>1. \A i \in 1 .. Len(issued) : issued[i].subject \in Subjects
    BY IssuedTo DEF IInv
  <2> QED BY <1>2, <1>3, <1>4, <2>1 DEF IInv, CallsAreDone, Made
<1>8. ProvenClaim'
  BY <1>2, <1>3, ClaimAssumption DEF IInv, ProvenClaim
<1>9. OneSellerPerPhone'
  BY <1>1, <1>2, <1>3 DEF IInv, OneSellerPerPhone, Sellers
<1>10. ConsumedIsGranted'
  <2>1. \A r \in rows : r.subject \in Subjects
    BY DEF IInv, TypeOK, Row
  <2> QED BY <1>2, <1>3, <2>1 DEF IInv, ConsumedIsGranted, Made
<1> QED BY <1>5, <1>6, <1>7, <1>8, <1>9, <1>10 DEF IInv

(* Every step keeps the invariant, one lemma for each action. *)
LEMMA IInvNext == IInv /\ [Next]_vars => IInv'
<1> SUFFICES ASSUME IInv, [Next]_vars PROVE IInv'
  OBVIOUS
<1>1. CASE UNCHANGED vars
  BY <1>1 DEF vars, IInv, TypeOK, RowsAreIssued, CallsAreProven, CallsAreDone,
              ProvenClaim, OneSellerPerPhone, ConsumedIsGranted, Made
<1>2. CASE Next
  BY <1>2, AskKeeps, ResendKeeps, ClearKeeps, InsertKeeps, EnterKeeps, CountKeeps,
     RecheckKeeps, GrantKeeps, ConsumeKeeps, BreakKeeps, GoogleKeeps, LapseKeeps,
     ChangeKeeps, StoreKeeps DEF Next
<1> QED BY <1>1, <1>2

----------------------------------------------------------------------------
(* What a right code brings about, whatever comes between its steps.       *)

(* The inductive invariant holds. *)
THEOREM Inductive == Spec => []IInv
<1> QED BY IInvInit, IInvNext, PTL DEF Spec

(* The variables, the rows and the records of the calls keep their types.  *)
THEOREM TypeCorrect == Spec => []TypeOK
<1>1. IInv => TypeOK
  BY DEF IInv
<1> QED BY <1>1, Inductive, PTL

(* verifyPhone and verifyEmail grant what the typed code was sent for.     *)
THEOREM GrantsAreProven == Spec => []ProvenClaim
<1>1. IInv => ProvenClaim
  BY DEF IInv
<1> QED BY <1>1, Inductive, PTL

(* No two profiles have one phone number. *)
THEOREM PhonesAreExclusive == Spec => []OneSellerPerPhone
<1>1. IInv => OneSellerPerPhone
  BY DEF IInv
<1> QED BY <1>1, Inductive, PTL

(* A consumed row has an account, a profile or a password behind it.       *)
THEOREM ConsumedAreGranted == Spec => []ConsumedIsGranted
<1>1. IInv => ConsumedIsGranted
  BY DEF IInv
<1> QED BY <1>1, Inductive, PTL

(* Account and profile are made once: two right codes, a late one or a     *)
(* sign-in by Google never replace what is there.                          *)
THEOREM GrantsAreFinal == Spec => GrantedOnce
<1>1. ASSUME IInv, [Next]_vars, NEW s \in Subjects, Kind[s] # "reset", granted[s] # None
      PROVE  granted'[s] = granted[s]
  <2>1. CASE UNCHANGED granted
    BY <2>1
  <2>2. ASSUME NEW k \in Calls, Grant(k) PROVE granted'[s] = granted[s]
    <3>1. CASE UNCHANGED granted
      BY <3>1
    <3>2. CASE /\ call[k].step = "grant" /\ Grantable(call[k].subject, call[k].claim)
               /\ granted' = [granted EXCEPT ![call[k].subject] = call[k].claim]
      <4>1. call[k].subject # s
        BY <1>1, <3>2 DEF Grantable
      <4> QED BY <1>1, <3>2, <4>1 DEF IInv, TypeOK
    <3> QED BY <2>2, <3>1, <3>2 DEF Grant, Goes, Proven
  <2>3. ASSUME NEW t \in Subjects, Google(t) PROVE granted'[s] = granted[s]
    BY <1>1, <2>3 DEF Google, IInv, TypeOK
  <2>4. ASSUME NEW k \in Calls, Store(k) PROVE granted'[s] = granted[s]
    <3>1. call[k].subject \in Subjects /\ call[k].subject # s
      BY <1>1, <2>4, CallFields DEF IInv, Store, Goes
    <3> QED BY <2>4, <3>1 DEF Store, IInv, TypeOK
  <2> QED BY <1>1, <2>1, <2>2, <2>3, <2>4 DEF Next, vars, Ask, Resend, Clear, Insert, Enter,
             Count, Recheck, Consume, Change, Break, Lapse
<1>2. IInv /\ [Next]_vars =>
        [\A s \in Subjects :
           Kind[s] # "reset" /\ granted[s] # None => granted'[s] = granted[s]]_vars
  BY <1>1
<1> QED BY <1>2, Inductive, PTL DEF Spec, GrantedOnce

----------------------------------------------------------------------------
(* Attempts.  A call about to count a wrong code looked at a counter that  *)
(* was not full: what is counted and what is about to be stays within the  *)
(* limit and the other calls.                                              *)

Counting(i) == {k \in Calls : call[k].step = "count" /\ call[k].row = i}

AttemptsInv ==
  \A r \in rows : r.attempts + Cardinality(Counting(r.id)) < MaxAttempts + Cardinality(Calls)

(* The calls about to count for one row are no more than there are.        *)
LEMMA CountingIsSmall ==
  \A i : /\ Counting(i) \subseteq Calls /\ IsFiniteSet(Counting(i))
         /\ Cardinality(Counting(i)) \in Nat /\ Cardinality(Calls) \in Nat
         /\ Cardinality(Counting(i)) <= Cardinality(Calls)
<1> SUFFICES ASSUME NEW i
             PROVE  /\ Counting(i) \subseteq Calls /\ IsFiniteSet(Counting(i))
                    /\ Cardinality(Counting(i)) \in Nat /\ Cardinality(Calls) \in Nat
                    /\ Cardinality(Counting(i)) <= Cardinality(Calls)
  OBVIOUS
<1>1. Counting(i) \subseteq Calls
  BY DEF Counting
<1> QED BY <1>1, FS_Subset, FS_CardinalityType, CountAssumption

(* Fewer calls about to count leave room. *)
LEMMA CountingShrinks ==
  ASSUME AttemptsInv, TypeOK, CallsAreDone, NEW i,
         Counting(i)' \subseteq Counting(i)
  PROVE  Cardinality(Counting(i)') <= Cardinality(Counting(i))
BY CountingIsSmall, FS_Subset

(* Every row of the next state had no more attempts before, and no call    *)
(* began to count for it.                                                  *)
LEMMA AttemptsFall ==
  ASSUME IInv, IInv', AttemptsInv,
         \A r \in rows' : \E q \in rows : q.id = r.id /\ r.attempts = q.attempts,
         \A i : Counting(i)' \subseteq Counting(i)
  PROVE  AttemptsInv'
<1>1. ASSUME NEW r \in rows'
      PROVE  r.attempts + Cardinality(Counting(r.id)') < MaxAttempts + Cardinality(Calls)
  <2>1. PICK q \in rows : q.id = r.id /\ r.attempts = q.attempts
    OBVIOUS
  <2>2. q.attempts + Cardinality(Counting(q.id)) < MaxAttempts + Cardinality(Calls)
    BY DEF AttemptsInv
  <2>3. Cardinality(Counting(r.id)') <= Cardinality(Counting(r.id))
    BY CountingShrinks DEF IInv
  <2>4. /\ q.attempts \in Nat /\ MaxAttempts \in Nat /\ Cardinality(Calls) \in Nat
        /\ Cardinality(Counting(r.id)) \in Nat
    BY CountingIsSmall, CountAssumption DEF IInv, TypeOK, Row
  <2>5. Cardinality(Counting(r.id)') \in Nat
    BY CountingIsSmall, FS_Subset, FS_CardinalityType
  <2> QED BY <2>1, <2>2, <2>3, <2>4, <2>5
<1> QED BY <1>1 DEF AttemptsInv

(* A call that does not go on to count leaves the sets no larger.          *)
LEMMA OthersCount ==
  ASSUME IInv, NEW k \in Calls, NEW here, NEW next \in Call, Goes(k, here, next),
         next.step # "count"
  PROVE  \A i : Counting(i)' \subseteq Counting(i) \ {k}
<1>1. /\ call'[k] = next /\ \A j \in Calls \ {k} : call'[j] = call[j]
  BY GoesOn DEF IInv
<1> QED BY <1>1 DEF Counting

(* A wrong code typed for a row that is not full. *)
LEMMA EnterCounts ==
  ASSUME IInv, IInv', AttemptsInv, NEW k \in Calls, NEW s \in Subjects, NEW c \in Claims,
         NEW code, Enter(k, s, code, c)
  PROVE  AttemptsInv'
<1> DEFINE l == Latest(s)
<1>1. l \in rows /\ l.attempts < MaxAttempts /\ rows' = rows
  BY LatestIsPending DEF IInv, Enter, Pending, IsOpen
<1>2. \A j \in Calls \ {k} : call'[j] = call[j]
  BY DEF Enter, Goes, IInv, TypeOK
<1>3. call'[k].step = "count" => call'[k].row = l.id
  BY DEF Enter, Goes, IInv, TypeOK, Then
<1>4. ASSUME NEW r \in rows
      PROVE  r.attempts + Cardinality(Counting(r.id)') < MaxAttempts + Cardinality(Calls)
  <2>1. /\ r.attempts \in Nat /\ MaxAttempts \in Nat /\ Cardinality(Calls) \in Nat
        /\ Cardinality(Counting(r.id)) \in Nat
    BY CountingIsSmall, CountAssumption DEF IInv, TypeOK, Row
  <2>2. Counting(r.id)' \subseteq Calls
    BY DEF Counting
  <2>3. /\ Cardinality(Counting(r.id)') \in Nat
        /\ Cardinality(Counting(r.id)') <= Cardinality(Calls)
    BY <2>2, FS_Subset, FS_CardinalityType, CountAssumption
  <2>4. CASE r = l
    BY <1>1, <2>1, <2>3, <2>4
  <2>5. CASE r # l
    <3>1. r.id # l.id
      BY <1>1, <2>5 DEF IInv, TypeOK
    <3>2. Counting(r.id)' \subseteq Counting(r.id)
      BY <1>2, <1>3, <3>1 DEF Counting
    <3>3. Cardinality(Counting(r.id)') <= Cardinality(Counting(r.id))
      BY <3>2, CountingShrinks DEF IInv
    <3>4. r.attempts + Cardinality(Counting(r.id)) < MaxAttempts + Cardinality(Calls)
      BY DEF AttemptsInv
    <3> QED BY <2>1, <2>3, <3>3, <3>4
  <2> QED BY <2>4, <2>5
<1> QED BY <1>1, <1>4 DEF AttemptsInv

(* A new row starts with no attempts, whoever is about to count. *)
LEMMA InsertCounts ==
  ASSUME IInv, IInv', AttemptsInv, NEW k \in Calls, Insert(k)
  PROVE  AttemptsInv'
<1>1. PICK new : rows' = rows \cup {new} /\ new.attempts = 0
  <2> DEFINE row == [id |-> Len(issued) + 1, subject |-> call[k].subject,
                     claim |-> call[k].claim,
                     consumed |-> FALSE, expired |-> FALSE, attempts |-> 0]
  <2>1. rows' = rows \cup {row} /\ row.attempts = 0
    BY DEF Insert
  <2> QED BY <2>1
<1>2. \A i : Counting(i)' \subseteq Counting(i)
  BY IdleIsFree, OthersCount DEF Insert
<1>3. ASSUME NEW r \in rows'
      PROVE  r.attempts + Cardinality(Counting(r.id)') < MaxAttempts + Cardinality(Calls)
  <2>1. /\ MaxAttempts \in Nat \ {0} /\ Cardinality(Calls) \in Nat
        /\ Cardinality(Counting(r.id)) \in Nat
        /\ Cardinality(Counting(r.id)) <= Cardinality(Calls)
    BY CountingIsSmall, CountAssumption
  <2>2. /\ Cardinality(Counting(r.id)') <= Cardinality(Counting(r.id))
        /\ Cardinality(Counting(r.id)') \in Nat
    BY <1>2, CountingShrinks, CountingIsSmall, FS_Subset, FS_CardinalityType DEF IInv
  <2>3. CASE r \in rows
    <3>1. r.attempts + Cardinality(Counting(r.id)) < MaxAttempts + Cardinality(Calls)
          /\ r.attempts \in Nat
      BY <2>3 DEF AttemptsInv, IInv, TypeOK, Row
    <3> QED BY <2>1, <2>2, <3>1
  <2>4. CASE r = new
    BY <1>1, <2>1, <2>2, <2>4
  <2> QED BY <1>1, <2>3, <2>4
<1> QED BY <1>3 DEF AttemptsInv

(* A call about to count becomes an attempt. *)
LEMMA CountCounts ==
  ASSUME IInv, IInv', AttemptsInv, NEW k \in Calls, Count(k)
  PROVE  AttemptsInv'
<1>0. PICK i : i = call[k].row
  OBVIOUS
<1> DEFINE old == Present(i)
<1>1. call[k].step = "count" /\ k \in Counting(i)
  BY <1>0 DEF Count, Goes, Counting
<1>2. rows' = (rows \ old) \cup {[r EXCEPT !.attempts = @ + 1] : r \in old}
  BY <1>0 DEF Count
<1>3. \A j : Counting(j)' \subseteq Counting(j) \ {k}
  BY IdleIsFree, OthersCount DEF Count
<1>4. ASSUME NEW r \in rows'
      PROVE  r.attempts + Cardinality(Counting(r.id)') < MaxAttempts + Cardinality(Calls)
  <2>1. /\ MaxAttempts \in Nat /\ Cardinality(Calls) \in Nat
        /\ \A j : IsFiniteSet(Counting(j)) /\ Cardinality(Counting(j)) \in Nat
    BY CountingIsSmall, CountAssumption
  <2>2. /\ Cardinality(Counting(r.id)') <= Cardinality(Counting(r.id))
        /\ Cardinality(Counting(r.id)') \in Nat
    BY <1>3, <2>1, FS_Subset, FS_CardinalityType
  <2>3. CASE r \in rows \ old
    <3>1. r.attempts + Cardinality(Counting(r.id)) < MaxAttempts + Cardinality(Calls)
          /\ r.attempts \in Nat
      BY <2>3 DEF AttemptsInv, IInv, TypeOK, Row
    <3> QED BY <2>1, <2>2, <3>1
  <2>4. CASE r \in {[q EXCEPT !.attempts = @ + 1] : q \in old}
    <3>1. PICK q \in old : r = [q EXCEPT !.attempts = @ + 1]
      BY <2>4
    <3>2. q \in rows /\ q \in Row /\ q.id = i /\ q.attempts \in Nat
      BY DEF Present, IInv, TypeOK, Row
    <3>3. r.id = i /\ r.attempts = q.attempts + 1
      BY <3>1, <3>2 DEF Row
    <3>4. q.attempts + Cardinality(Counting(i)) < MaxAttempts + Cardinality(Calls)
      BY <3>2 DEF AttemptsInv
    <3>5. Cardinality(Counting(i) \ {k}) = Cardinality(Counting(i)) - 1
          /\ IsFiniteSet(Counting(i) \ {k})
      BY <1>1, <2>1, FS_RemoveElement
    <3>6. Cardinality(Counting(i)') <= Cardinality(Counting(i)) - 1
      BY <1>3, <3>5, FS_Subset
    <3> QED BY <2>1, <2>2, <3>2, <3>3, <3>4, <3>6
  <2> QED BY <1>2, <2>3, <2>4
<1> QED BY <1>4 DEF AttemptsInv

(* The steps that move a call past nothing but its own record.             *)
LEMMA OtherCallsCount ==
  ASSUME IInv, IInv', AttemptsInv, NEW k \in Calls,
         \/ \E s \in Subjects, c \in Claims : Ask(k, s, c)
         \/ \E s \in Subjects : Resend(k, s)
         \/ \E s \in Subjects : Change(k, s)
         \/ Clear(k) \/ Recheck(k) \/ Grant(k) \/ Store(k) \/ Break(k)
  PROVE  AttemptsInv'
<1>1. rows' \subseteq rows
  BY DEF Ask, Resend, Change, Clear, Recheck, Grant, Store, Break
<1>2. /\ \A j \in Calls \ {k} : call'[j] = call[j]
      /\ call'[k].step # "count"
  <2>1. call \in [Calls -> Call]
    BY DEF IInv, TypeOK
  <2>2. CASE \/ \E s \in Subjects, c \in Claims : Ask(k, s, c)
             \/ \E s \in Subjects : Resend(k, s) \/ Change(k, s)
    BY <2>1, <2>2 DEF Ask, Resend, Change, Goes
  <2>3. CASE Clear(k)
    <3>1. To(k, "insert").step = "insert"
      BY <2>3, CallFields DEF Clear, Goes, IInv, To, Call, Idle
    <3> QED BY <2>1, <2>3, <3>1 DEF Clear, Goes
  <2>4. CASE Recheck(k)
    <3>1. To(k, "grant").step = "grant"
      BY <2>4, CallFields DEF Recheck, Goes, IInv, To, Call, Idle
    <3> QED BY <2>1, <2>4, <3>1 DEF Recheck, Goes, Done
  <2>5. CASE Grant(k)
    BY <2>1, <2>5, IdleIsFree DEF Grant, Goes, Done
  <2>6. CASE Break(k) \/ Store(k)
    BY <2>1, <2>6, IdleIsFree DEF Break, Store, Goes
  <2> QED BY <2>2, <2>3, <2>4, <2>5, <2>6
<1>3. \A i : Counting(i)' \subseteq Counting(i)
  BY <1>2 DEF Counting
<1> QED BY <1>1, <1>3, AttemptsFall

(* Marking a row as used leaves its counter alone. *)
LEMMA ConsumeCounts ==
  ASSUME IInv, IInv', AttemptsInv, NEW k \in Calls, Consume(k)
  PROVE  AttemptsInv'
<1>0. PICK i : i = call[k].row
  OBVIOUS
<1>1. rows' = (rows \ Present(i)) \cup {[r EXCEPT !.consumed = TRUE] : r \in Present(i)}
  BY <1>0 DEF Consume
<1>2. ASSUME NEW r \in rows'
      PROVE  \E q \in rows : q.id = r.id /\ r.attempts = q.attempts
  <2>1. CASE r \in rows
    BY <2>1
  <2>2. CASE r \notin rows
    <3>1. PICK q \in Present(i) : r = [q EXCEPT !.consumed = TRUE]
      BY <1>1, <2>2
    <3>2. q \in rows /\ q \in Row
      BY DEF Present, IInv, TypeOK
    <3> QED BY <3>1, <3>2 DEF Row
  <2> QED BY <2>1, <2>2
<1>3. \A j : Counting(j)' \subseteq Counting(j)
  BY IdleIsFree, OthersCount DEF Consume
<1> QED BY <1>2, <1>3, AttemptsFall

(* Neither time nor a sign-in by Google touches a counter. *)
LEMMA SubjectsCount ==
  ASSUME IInv, IInv', AttemptsInv, NEW s \in Subjects, Google(s) \/ Lapse(s)
  PROVE  AttemptsInv'
<1>1. ASSUME NEW r \in rows'
      PROVE  \E q \in rows : q.id = r.id /\ r.attempts = q.attempts
  <2>1. CASE r \in rows
    BY <2>1
  <2>2. CASE r \notin rows
    <3>1. PICK q \in Pending(s) : r = [q EXCEPT !.expired = TRUE]
      BY <2>2 DEF Google, Lapse
    <3>2. q \in rows /\ q \in Row
      BY DEF Pending, IInv, TypeOK
    <3> QED BY <3>1, <3>2 DEF Row
  <2> QED BY <2>1, <2>2
<1>2. call' = call
  BY DEF Google, Lapse
<1>3. \A i : Counting(i)' \subseteq Counting(i)
  BY <1>2 DEF Counting
<1> QED BY <1>1, <1>3, AttemptsFall

(* Every step keeps the counters and the calls about to add to them apart. *)
LEMMA AttemptsNext == IInv /\ IInv' /\ AttemptsInv /\ [Next]_vars => AttemptsInv'
<1> SUFFICES ASSUME IInv, IInv', AttemptsInv, [Next]_vars PROVE AttemptsInv'
  OBVIOUS
<1>1. CASE UNCHANGED vars
  BY <1>1 DEF vars, AttemptsInv, Counting
<1>2. CASE Next
  BY <1>2, EnterCounts, InsertCounts, CountCounts, ConsumeCounts, OtherCallsCount,
     SubjectsCount DEF Next
<1> QED BY <1>1, <1>2

(* Wrong codes typed in any number of requests at once add no more than    *)
(* one attempt each to a row that was still open when they looked.         *)
THEOREM AttemptsAreBounded == Spec => []AttemptsBounded
<1>1. Init => AttemptsInv
  BY DEF Init, AttemptsInv
<1>2. IInv /\ AttemptsInv => AttemptsBounded
  <2> SUFFICES ASSUME IInv, AttemptsInv, NEW r \in rows
               PROVE  r.attempts < MaxAttempts + Cardinality(Calls)
    BY DEF AttemptsBounded
  <2>1. r.attempts + Cardinality(Counting(r.id)) < MaxAttempts + Cardinality(Calls)
    BY DEF AttemptsInv
  <2>2. /\ r.attempts \in Nat /\ MaxAttempts \in Nat /\ Cardinality(Calls) \in Nat
        /\ Cardinality(Counting(r.id)) \in Nat
    BY CountingIsSmall, CountAssumption DEF IInv, TypeOK, Row
  <2> QED BY <2>1, <2>2
<1> QED BY <1>1, <1>2, AttemptsNext, Inductive, PTL DEF Spec
=============================================================================
