------------------------ MODULE DeliveryOutboxProofs ------------------------
(***************************************************************************)
(* Proofs about DeliveryOutbox for any number of calls and any identifiers *)
(* they draw.  OutboxInv is inductive: what a call has seen is the record  *)
(* or is older than it, and so each step knows the state it starts from.   *)
(***************************************************************************)
EXTENDS DeliveryOutbox, TLAPS

\* A call that has given its reminder to the adapter, or is about to.
Begun(w) == w \in sent \/ pc[w] = "call"

\* What a call has seen is at most as new as the record, and is the record
\* when it is as new: a revision is written once.
SeenPast ==
    \A w \in Workers :
        /\ seen[w].revision <= record.revision
        /\ seen[w].revision = record.revision => seen[w] = record
        /\ seen[w].deduplicates = record.deduplicates

\* Where a call stands tells the state it has seen.
SeenPlaces ==
    \A w \in Workers :
        /\ pc[w] = "reject" => seen[w].state \in {"pending", "claimed"}
        /\ pc[w] = "claim" => \/ seen[w].state = "pending"
                              \/ seen[w].state = "unknown" /\ seen[w].deduplicates
        /\ pc[w] = "begin" => seen[w].state = "claimed"
        /\ pc[w] \in {"call", "complete"} =>
               seen[w].state = "attempting" /\ seen[w].attempt = AttemptOf[w]
        /\ pc[w] = "recomplete" =>
               seen[w].state = "unknown" /\ seen[w].attempt = AttemptOf[w]

\* The identifiers in use are in the history, and without an attempt there is
\* none in it.
History ==
    /\ record.claim # None => record.claim \in claimed
    /\ record.attempts = 0 => attempted = {}
    /\ \A w \in Workers : Begun(w) => AttemptOf[w] \in attempted

\* A call sends once, and only its own answer is on its way to the record.
Answers ==
    \A w \in Workers :
        /\ w \in sent =>
               pc[w] \in {"complete", "reread", "recomplete", "mark", "done"}
        /\ pc[w] \in {"complete", "reread", "recomplete"} =>
               /\ w \in sent /\ answer[w] \in Outcomes
               /\ answer[w] = "delivered" => w \in landed
               /\ answer[w] = "failed" => w \notin landed \cup adrift

\* No two calls own one attempt.
Alone ==
    \A w, v \in Workers :
        Begun(w) /\ Begun(v) /\ w # v =>
            record.deduplicates /\ AttemptOf[w] # AttemptOf[v]

\* The recorded outcome is that of a call.
Recorded ==
    /\ record.state = "delivered" =>
           \E w \in landed : AttemptOf[w] = record.attempt
    /\ record.state = "failed" =>
           \E w \in sent \ (landed \cup adrift) : AttemptOf[w] = record.attempt

\* The call that recorded an attempt still knows that it did.
Owned ==
    record.state = "attempting" /\ ~abandoned =>
        \E w \in Workers : Owns(w) /\ seen[w] = record

\* The inductive invariant.
OutboxInv ==
    /\ TypeOK /\ SeenPast /\ SeenPlaces /\ History
    /\ Answers /\ Alone /\ Recorded /\ Owned

USE IdentifiersAssumption
USE DEF OutboxInv, Goto, See, ledger, adapter

-----------------------------------------------------------------------------
(* What the three kinds of revision leave.                                 *)

\* A revision that settles, rejects or gives up a record changes its state only.
LEMMA StateRevised ==
    ASSUME record \in Records, NEW s \in DeliveryStates,
           Revise([record EXCEPT !.state = s])
    PROVE  /\ record' \in Records
           /\ record'.state = s /\ record'.revision = record.revision + 1
           /\ record'.attempts = record.attempts
           /\ record'.claim = record.claim /\ record'.attempt = record.attempt
           /\ record'.deduplicates = record.deduplicates
<1>1. record' = [state |-> s, revision |-> record.revision + 1,
                 attempts |-> record.attempts, claim |-> record.claim,
                 attempt |-> record.attempt, deduplicates |-> record.deduplicates]
  BY DEF Records, Revise
<1> QED BY <1>1 DEF Records

\* A claim names its owner and forgets the attempt before it.
LEMMA ClaimRevised ==
    ASSUME record \in Records, NEW w \in Workers,
           Revise([record EXCEPT !.state = "claimed", !.claim = ClaimOf[w],
                                 !.attempt = None])
    PROVE  /\ record' \in Records
           /\ record'.state = "claimed" /\ record'.revision = record.revision + 1
           /\ record'.attempts = record.attempts
           /\ record'.claim = ClaimOf[w] /\ record'.attempt = None
           /\ record'.deduplicates = record.deduplicates
<1>1. "claimed" \in DeliveryStates /\ ClaimOf[w] \in Claims
  BY DEF DeliveryStates
<1>2. record' = [state |-> "claimed", revision |-> record.revision + 1,
                 attempts |-> record.attempts, claim |-> ClaimOf[w],
                 attempt |-> None, deduplicates |-> record.deduplicates]
  BY DEF Records, Revise
<1> QED BY <1>1, <1>2 DEF Records

\* An attempt is counted and named.
LEMMA AttemptRevised ==
    ASSUME record \in Records, NEW w \in Workers, Attempt(w)
    PROVE  /\ record' \in Records
           /\ record'.state = "attempting" /\ record'.revision = record.revision + 1
           /\ record'.attempts = record.attempts + 1
           /\ record'.claim = record.claim /\ record'.attempt = AttemptOf[w]
           /\ record'.deduplicates = record.deduplicates
<1>1. "attempting" \in DeliveryStates /\ AttemptOf[w] \in Attempts
  BY DEF DeliveryStates
<1>2. record' = [state |-> "attempting", revision |-> record.revision + 1,
                 attempts |-> record.attempts + 1, claim |-> record.claim,
                 attempt |-> AttemptOf[w], deduplicates |-> record.deduplicates]
  BY DEF Records, Revise, Attempt
<1> QED BY <1>1, <1>2 DEF Records

-----------------------------------------------------------------------------
(* Steps that leave the record alone.                                      *)

\* A call takes the record it reads, in a state that leaves it something to do.
LEMMA ReadInv ==
    ASSUME OutboxInv, NEW w \in Workers, Read(w)
    PROVE  OutboxInv'
<1>1. TypeOK'
  BY DEF Read, TypeOK, Places, Outcomes
<1>2. SeenPast'
  BY DEF Read, TypeOK, Records, SeenPast
<1>3. SeenPlaces'
  BY DEF Read, TypeOK, SeenPast, SeenPlaces, Settled, Final, Records,
     DeliveryStates
<1>4. History'
  BY DEF Read, TypeOK, History, Begun
<1>5. Answers'
  BY DEF Read, TypeOK, Answers, Outcomes
<1>6. Alone'
  BY DEF Read, TypeOK, Alone, Begun, Answers
<1>7. Recorded'
  BY DEF Read, TypeOK, Recorded, Answers
<1>8. Owned'
  BY DEF Read, TypeOK, Owned, Owns, Resolving
<1> QED BY <1>1, <1>2, <1>3, <1>4, <1>5, <1>6, <1>7, <1>8

\* A cancelled call finds its attempt in the record, or has none.
LEMMA VerifyInv ==
    ASSUME OutboxInv, NEW w \in Workers, Verify(w)
    PROVE  OutboxInv'
<1>1. TypeOK'
  BY DEF Verify, TypeOK, Places, Outcomes
<1>2. SeenPast'
  BY DEF Verify, TypeOK, Records, SeenPast
<1>3. SeenPlaces'
  BY DEF Verify, TypeOK, SeenPast, SeenPlaces
<1>4. History'
  BY DEF Verify, TypeOK, History, Begun
<1>5. Answers'
  BY DEF Verify, TypeOK, Answers, Outcomes
<1>6. Alone'
  BY DEF Verify, TypeOK, Alone, Begun, Answers
<1>7. Recorded'
  BY DEF Verify, TypeOK, Recorded, Answers
<1>8. Owned'
  BY DEF Verify, TypeOK, Owned, Owns, Resolving, OwnsRecord
<1> QED BY <1>1, <1>2, <1>3, <1>4, <1>5, <1>6, <1>7, <1>8

\* The adapter takes the reminder.
LEMMA CallDeliveredInv ==
    ASSUME OutboxInv, NEW w \in Workers, CallDelivered(w)
    PROVE  OutboxInv'
<1>1. TypeOK'
  BY DEF CallDelivered, TypeOK, Places, Outcomes
<1>2. SeenPast'
  BY DEF CallDelivered, TypeOK, Records, SeenPast
<1>3. SeenPlaces'
  BY DEF CallDelivered, TypeOK, SeenPast, SeenPlaces
<1>4. History'
  BY DEF CallDelivered, TypeOK, History, Begun
<1>5. Answers'
  BY DEF CallDelivered, TypeOK, Answers, Outcomes
<1>6. Alone'
  BY DEF CallDelivered, TypeOK, Alone, Begun, Answers
<1>7. Recorded'
  BY DEF CallDelivered, TypeOK, Recorded, Answers
<1>8. Owned'
  BY DEF CallDelivered, TypeOK, Owned, Owns, Resolving
<1> QED BY <1>1, <1>2, <1>3, <1>4, <1>5, <1>6, <1>7, <1>8

\* The adapter refuses it, and no call's reminder of this attempt is on its way.
LEMMA CallFailedInv ==
    ASSUME OutboxInv, NEW w \in Workers, CallFailed(w)
    PROVE  OutboxInv'
<1>1. TypeOK'
  BY DEF CallFailed, TypeOK, Places, Outcomes
<1>2. SeenPast'
  BY DEF CallFailed, TypeOK, Records, SeenPast
<1>3. SeenPlaces'
  BY DEF CallFailed, TypeOK, SeenPast, SeenPlaces
<1>4. History'
  BY DEF CallFailed, TypeOK, History, Begun
<1>5. Answers'
  BY DEF CallFailed, TypeOK, Answers, Outcomes
<1>6. Alone'
  BY DEF CallFailed, TypeOK, Alone, Begun, Answers
<1>7. Recorded'
  BY DEF CallFailed, TypeOK, Recorded, Answers, SeenPlaces
<1>8. Owned'
  BY DEF CallFailed, TypeOK, Owned, Owns, Resolving
<1> QED BY <1>1, <1>2, <1>3, <1>4, <1>5, <1>6, <1>7, <1>8

\* The answer is lost, and the call goes on to say so.
LEMMA CallUnclearInv ==
    ASSUME OutboxInv, NEW w \in Workers, CallUnclear(w)
    PROVE  OutboxInv'
<1>1. TypeOK'
  BY DEF CallUnclear, TypeOK, Places, Outcomes
<1>2. SeenPast'
  BY DEF CallUnclear, TypeOK, Records, SeenPast
<1>3. SeenPlaces'
  BY DEF CallUnclear, TypeOK, SeenPast, SeenPlaces
<1>4. History'
  BY DEF CallUnclear, TypeOK, History, Begun
<1>5. Answers'
  BY DEF CallUnclear, TypeOK, Answers, Outcomes
<1>6. Alone'
  BY DEF CallUnclear, TypeOK, Alone, Begun, Answers
<1>7. Recorded'
  BY DEF CallUnclear, TypeOK, Recorded, Answers
<1>8. Owned'
  BY DEF CallUnclear, TypeOK, Owned, Owns, Resolving
<1> QED BY <1>1, <1>2, <1>3, <1>4, <1>5, <1>6, <1>7, <1>8

\* The adapter takes a reminder late, of a call that never said it failed.
LEMMA LandInv ==
    ASSUME OutboxInv, NEW w \in Workers, Land(w)
    PROVE  OutboxInv'
<1>1. TypeOK'
  BY DEF Land, TypeOK, Places, Outcomes
<1>2. SeenPast'
  BY DEF Land, TypeOK, Records, SeenPast
<1>3. SeenPlaces'
  BY DEF Land, TypeOK, SeenPast, SeenPlaces
<1>4. History'
  BY DEF Land, TypeOK, History, Begun
<1>5. Answers'
  BY DEF Land, TypeOK, Answers, Outcomes
<1>6. Alone'
  BY DEF Land, TypeOK, Alone, Begun, Answers
<1>7. Recorded'
  BY DEF Land, TypeOK, Recorded, Answers
<1>8. Owned'
  BY DEF Land, TypeOK, Owned, Owns, Resolving
<1> QED BY <1>1, <1>2, <1>3, <1>4, <1>5, <1>6, <1>7, <1>8

\* A call finds its attempt given up by recovery, or has no more say.
LEMMA RereadInv ==
    ASSUME OutboxInv, NEW w \in Workers, Reread(w)
    PROVE  OutboxInv'
<1>1. TypeOK'
  BY DEF Reread, TypeOK, Places, Outcomes
<1>2. SeenPast'
  BY DEF Reread, TypeOK, Records, SeenPast
<1>3. SeenPlaces'
  BY DEF Reread, TypeOK, SeenPast, SeenPlaces, OwnsRecord
<1>4. History'
  BY DEF Reread, TypeOK, History, Begun
<1>5. Answers'
  BY DEF Reread, TypeOK, Answers, Outcomes
<1>6. Alone'
  BY DEF Reread, TypeOK, Alone, Begun, Answers
<1>7. Recorded'
  BY DEF Reread, TypeOK, Recorded, Answers
<1>8. Owned'
  BY DEF Reread, TypeOK, Owned, Owns, Resolving
<1> QED BY <1>1, <1>2, <1>3, <1>4, <1>5, <1>6, <1>7, <1>8

\* A call forgets the answer it could not record.
LEMMA InterruptedInv ==
    ASSUME OutboxInv, NEW w \in Workers, Interrupted(w)
    PROVE  OutboxInv'
<1>1. TypeOK'
  BY DEF Interrupted, TypeOK, Places, Outcomes
<1>2. SeenPast'
  BY DEF Interrupted, TypeOK, Records, SeenPast
<1>3. SeenPlaces'
  BY DEF Interrupted, TypeOK, SeenPast, SeenPlaces
<1>4. History'
  BY DEF Interrupted, TypeOK, History, Begun
<1>5. Answers'
  BY DEF Interrupted, TypeOK, Answers, Outcomes
<1>6. Alone'
  BY DEF Interrupted, TypeOK, Alone, Begun, Answers
<1>7. Recorded'
  BY DEF Interrupted, TypeOK, Recorded, Answers
<1>8. Owned'
  BY DEF Interrupted, TypeOK, Owned, Owns, Resolving
<1> QED BY <1>1, <1>2, <1>3, <1>4, <1>5, <1>6, <1>7, <1>8

\* A call ends and leaves what it owned.
LEMMA StopInv ==
    ASSUME OutboxInv, NEW w \in Workers, Stop(w)
    PROVE  OutboxInv'
<1>1. TypeOK'
  BY DEF Stop, TypeOK, Places, Outcomes
<1>2. SeenPast'
  BY DEF Stop, TypeOK, Records, SeenPast
<1>3. SeenPlaces'
  BY DEF Stop, TypeOK, SeenPast, SeenPlaces
<1>4. History'
  BY DEF Stop, TypeOK, History, Begun
<1>5. Answers'
  BY DEF Stop, TypeOK, Answers, Outcomes
<1>6. Alone'
  BY DEF Stop, TypeOK, Alone, Begun, Answers
<1>7. Recorded'
  BY DEF Stop, TypeOK, Recorded, Answers
<1>8. Owned'
  BY DEF Stop, TypeOK, Owned, Owns, Resolving
<1> QED BY <1>1, <1>2, <1>3, <1>4, <1>5, <1>6, <1>7, <1>8

-----------------------------------------------------------------------------
(* Steps that revise it, unless another call has done so first.            *)

\* A rejection settles a record nobody attempted since it was claimed.
LEMMA RejectInv ==
    ASSUME OutboxInv, NEW w \in Workers, Reject(w)
    PROVE  OutboxInv'
<1>1. CASE ~Current(w)
  <2>1. TypeOK'
    BY <1>1 DEF Reject, TypeOK, Places, Outcomes
  <2>2. SeenPast'
    BY <1>1 DEF Reject, TypeOK, Records, SeenPast
  <2>3. SeenPlaces'
    BY <1>1 DEF Reject, TypeOK, SeenPast, SeenPlaces
  <2>4. History'
    BY <1>1 DEF Reject, TypeOK, History, Begun
  <2>5. Answers'
    BY <1>1 DEF Reject, TypeOK, Answers, Outcomes
  <2>6. Alone'
    BY <1>1 DEF Reject, TypeOK, Alone, Begun, Answers
  <2>7. Recorded'
    BY <1>1 DEF Reject, TypeOK, Recorded, Answers
  <2>8. Owned'
    BY <1>1 DEF Reject, TypeOK, Owned, Owns, Resolving
  <2> QED BY <2>1, <2>2, <2>3, <2>4, <2>5, <2>6, <2>7, <2>8
<1>2. CASE Current(w)
  <2>1. seen[w] = record /\ record.state \in {"pending", "claimed"}
    BY <1>2 DEF Reject, Current, SeenPast, SeenPlaces, TypeOK
  <2>2. /\ record' \in Records
           /\ record'.state = "rejected" /\ record'.revision = record.revision + 1
           /\ record'.attempts = record.attempts
           /\ record'.claim = record.claim /\ record'.attempt = record.attempt
           /\ record'.deduplicates = record.deduplicates
    BY <1>2, StateRevised DEF Reject, TypeOK, DeliveryStates, Final
  <2>3. TypeOK'
    BY <1>2, <2>1, <2>2 DEF Reject, TypeOK, Valid, Places, SeenPlaces,
       Outcomes
  <2>4. SeenPast'
    BY <1>2, <2>1, <2>2 DEF Reject, TypeOK, Records, SeenPast
  <2>5. SeenPlaces'
    BY <1>2, <2>1, <2>2 DEF Reject, TypeOK, SeenPlaces, SeenPast
  <2>6. History'
    BY <1>2, <2>1, <2>2 DEF Reject, TypeOK, Records, History, Begun
  <2>7. Answers'
    BY <1>2, <2>1, <2>2 DEF Reject, TypeOK, Answers, Outcomes
  <2>8. Alone'
    BY <1>2, <2>1, <2>2 DEF Reject, TypeOK, Records, Alone, Begun, Answers,
       History
  <2>9. Recorded'
    BY <1>2, <2>1, <2>2 DEF Reject, TypeOK, Recorded, Answers, Outcomes
  <2>10. Owned'
    BY <1>2, <2>1, <2>2 DEF Reject, TypeOK, Owned, Owns, Resolving
  <2> QED BY <2>3, <2>4, <2>5, <2>6, <2>7, <2>8, <2>9, <2>10
<1> QED BY <1>1, <1>2

\* A claim opens a record that no call is sending.
LEMMA ClaimInv ==
    ASSUME OutboxInv, NEW w \in Workers, Claim(w)
    PROVE  OutboxInv'
<1>1. CASE ~(Current(w) /\ ClaimOf[w] \notin claimed)
  <2>1. TypeOK'
    BY <1>1 DEF Claim, TypeOK, Places, Outcomes
  <2>2. SeenPast'
    BY <1>1 DEF Claim, TypeOK, Records, SeenPast
  <2>3. SeenPlaces'
    BY <1>1 DEF Claim, TypeOK, SeenPast, SeenPlaces
  <2>4. History'
    BY <1>1 DEF Claim, TypeOK, History, Begun
  <2>5. Answers'
    BY <1>1 DEF Claim, TypeOK, Answers, Outcomes
  <2>6. Alone'
    BY <1>1 DEF Claim, TypeOK, Alone, Begun, Answers
  <2>7. Recorded'
    BY <1>1 DEF Claim, TypeOK, Recorded, Answers
  <2>8. Owned'
    BY <1>1 DEF Claim, TypeOK, Owned, Owns, Resolving
  <2> QED BY <2>1, <2>2, <2>3, <2>4, <2>5, <2>6, <2>7, <2>8
<1>2. CASE (Current(w) /\ ClaimOf[w] \notin claimed)
  <2>1. /\ seen[w] = record
         /\ \/ record.state = "pending"
            \/ record.state = "unknown" /\ record.deduplicates
    BY <1>2 DEF Claim, Current, SeenPast, SeenPlaces, TypeOK
  <2>2. /\ record' \in Records
           /\ record'.state = "claimed" /\ record'.revision = record.revision + 1
           /\ record'.attempts = record.attempts
           /\ record'.claim = ClaimOf[w] /\ record'.attempt = None
           /\ record'.deduplicates = record.deduplicates
    BY <1>2, ClaimRevised DEF Claim, TypeOK
  <2>3. TypeOK'
    BY <1>2, <2>1, <2>2 DEF Claim, TypeOK, Valid, Places, SeenPlaces,
       Outcomes
  <2>4. SeenPast'
    BY <1>2, <2>1, <2>2 DEF Claim, TypeOK, Records, SeenPast
  <2>5. SeenPlaces'
    BY <1>2, <2>1, <2>2 DEF Claim, TypeOK, SeenPlaces, SeenPast
  <2>6. History'
    BY <1>2, <2>1, <2>2 DEF Claim, TypeOK, Records, History, Begun
  <2>7. Answers'
    BY <1>2, <2>1, <2>2 DEF Claim, TypeOK, Answers, Outcomes
  <2>8. Alone'
    BY <1>2, <2>1, <2>2 DEF Claim, TypeOK, Records, Alone, Begun, Answers,
       History
  <2>9. Recorded'
    BY <1>2, <2>1, <2>2 DEF Claim, TypeOK, Recorded, Answers, Outcomes
  <2>10. Owned'
    BY <1>2, <2>1, <2>2 DEF Claim, TypeOK, Owned, Owns, Resolving
  <2> QED BY <2>3, <2>4, <2>5, <2>6, <2>7, <2>8, <2>9, <2>10
<1> QED BY <1>1, <1>2

\* An attempt is new, and the only one of an adapter that does not deduplicate.
LEMMA BeginInv ==
    ASSUME OutboxInv, NEW w \in Workers, Begin(w)
    PROVE  OutboxInv'
<1>1. CASE ~MayAttempt(w)
  <2>1. TypeOK'
    BY <1>1 DEF Begin, TypeOK, Places, Outcomes
  <2>2. SeenPast'
    BY <1>1 DEF Begin, TypeOK, Records, SeenPast
  <2>3. SeenPlaces'
    BY <1>1 DEF Begin, TypeOK, SeenPast, SeenPlaces
  <2>4. History'
    BY <1>1 DEF Begin, TypeOK, History, Begun
  <2>5. Answers'
    BY <1>1 DEF Begin, TypeOK, Answers, Outcomes
  <2>6. Alone'
    BY <1>1 DEF Begin, TypeOK, Alone, Begun, Answers
  <2>7. Recorded'
    BY <1>1 DEF Begin, TypeOK, Recorded, Answers
  <2>8. Owned'
    BY <1>1 DEF Begin, TypeOK, Owned, Owns, Resolving
  <2> QED BY <2>1, <2>2, <2>3, <2>4, <2>5, <2>6, <2>7, <2>8
<1>2. CASE MayAttempt(w)
  <2>1. seen[w] = record /\ record.state = "claimed"
    BY <1>2 DEF Begin, MayAttempt, Current, SeenPast, SeenPlaces, TypeOK
  <2>2. /\ record' \in Records
           /\ record'.state = "attempting" /\ record'.revision = record.revision + 1
           /\ record'.attempts = record.attempts + 1
           /\ record'.claim = record.claim /\ record'.attempt = AttemptOf[w]
           /\ record'.deduplicates = record.deduplicates
    BY <1>2, AttemptRevised DEF Begin, TypeOK
  <2>3. Valid(record')
    BY <1>2, <2>1, <2>2 DEF MayAttempt, TypeOK, Records, Valid
  <2>4. TypeOK'
    BY <1>2, <2>1, <2>2, <2>3 DEF Begin, TypeOK, Places, Attempt
  <2>5. SeenPast'
    BY <1>2, <2>1, <2>2, <2>3 DEF Begin, TypeOK, Records, SeenPast, Attempt
  <2>6. SeenPlaces'
    BY <1>2, <2>1, <2>2, <2>3 DEF Begin, TypeOK, SeenPlaces, SeenPast,
       Attempt
  <2>7. History'
    BY <1>2, <2>1, <2>2, <2>3 DEF Begin, TypeOK, Records, History, Begun,
       Attempt
  <2>8. Answers'
    BY <1>2, <2>1, <2>2, <2>3 DEF Begin, TypeOK, Answers, Outcomes, Attempt
  <2>9. Alone'
    BY <1>2, <2>1, <2>2, <2>3 DEF Begin, TypeOK, Records, Alone, Begun,
       Answers, History, Attempt, MayAttempt
  <2>10. Recorded'
    BY <1>2, <2>1, <2>2, <2>3 DEF Begin, TypeOK, Recorded, Answers,
       Outcomes, Attempt
  <2>11. Owned'
    BY <1>2, <2>1, <2>2, <2>3 DEF Begin, TypeOK, Owned, Owns, Resolving,
       Attempt
  <2> QED BY <2>4, <2>5, <2>6, <2>7, <2>8, <2>9, <2>10, <2>11
<1> QED BY <1>1, <1>2

\* A cancelled call may own the attempt it does not know of.
LEMMA BeginCancelledInv ==
    ASSUME OutboxInv, NEW w \in Workers, BeginCancelled(w)
    PROVE  OutboxInv'
<1>1. CASE ~(MayAttempt(w) /\ Attempt(w))
  <2>1. TypeOK'
    BY <1>1 DEF BeginCancelled, TypeOK, Places, Outcomes
  <2>2. SeenPast'
    BY <1>1 DEF BeginCancelled, TypeOK, Records, SeenPast
  <2>3. SeenPlaces'
    BY <1>1 DEF BeginCancelled, TypeOK, SeenPast, SeenPlaces
  <2>4. History'
    BY <1>1 DEF BeginCancelled, TypeOK, History, Begun
  <2>5. Answers'
    BY <1>1 DEF BeginCancelled, TypeOK, Answers, Outcomes
  <2>6. Alone'
    BY <1>1 DEF BeginCancelled, TypeOK, Alone, Begun, Answers
  <2>7. Recorded'
    BY <1>1 DEF BeginCancelled, TypeOK, Recorded, Answers
  <2>8. Owned'
    BY <1>1 DEF BeginCancelled, TypeOK, Owned, Owns, Resolving
  <2> QED BY <2>1, <2>2, <2>3, <2>4, <2>5, <2>6, <2>7, <2>8
<1>2. CASE (MayAttempt(w) /\ Attempt(w))
  <2>1. seen[w] = record /\ record.state = "claimed"
    BY <1>2 DEF BeginCancelled, MayAttempt, Current, SeenPast, SeenPlaces,
       TypeOK
  <2>2. /\ record' \in Records
           /\ record'.state = "attempting" /\ record'.revision = record.revision + 1
           /\ record'.attempts = record.attempts + 1
           /\ record'.claim = record.claim /\ record'.attempt = AttemptOf[w]
           /\ record'.deduplicates = record.deduplicates
    BY <1>2, AttemptRevised DEF BeginCancelled, TypeOK
  <2>3. Valid(record')
    BY <1>2, <2>1, <2>2 DEF MayAttempt, TypeOK, Records, Valid
  <2>4. TypeOK'
    BY <1>2, <2>1, <2>2, <2>3 DEF BeginCancelled, TypeOK, Places, Attempt
  <2>5. SeenPast'
    BY <1>2, <2>1, <2>2, <2>3 DEF BeginCancelled, TypeOK, Records, SeenPast,
       Attempt
  <2>6. SeenPlaces'
    BY <1>2, <2>1, <2>2, <2>3 DEF BeginCancelled, TypeOK, SeenPlaces,
       SeenPast, Attempt
  <2>7. History'
    BY <1>2, <2>1, <2>2, <2>3 DEF BeginCancelled, TypeOK, Records, History,
       Begun, Attempt
  <2>8. Answers'
    BY <1>2, <2>1, <2>2, <2>3 DEF BeginCancelled, TypeOK, Answers, Outcomes,
       Attempt
  <2>9. Alone'
    BY <1>2, <2>1, <2>2, <2>3 DEF BeginCancelled, TypeOK, Records, Alone,
       Begun, Answers, History, Attempt
  <2>10. Recorded'
    BY <1>2, <2>1, <2>2, <2>3 DEF BeginCancelled, TypeOK, Recorded, Answers,
       Outcomes, Attempt
  <2>11. Owned'
    BY <1>2, <2>1, <2>2, <2>3 DEF BeginCancelled, TypeOK, Owned, Owns,
       Resolving, Attempt
  <2> QED BY <2>4, <2>5, <2>6, <2>7, <2>8, <2>9, <2>10, <2>11
<1> QED BY <1>1, <1>2

\* The answer is recorded on the attempt it belongs to.
LEMMA CompleteInv ==
    ASSUME OutboxInv, NEW w \in Workers, Complete(w)
    PROVE  OutboxInv'
<1>1. CASE ~Current(w)
  <2>1. TypeOK'
    BY <1>1 DEF Complete, TypeOK, Places, Outcomes
  <2>2. SeenPast'
    BY <1>1 DEF Complete, TypeOK, Records, SeenPast
  <2>3. SeenPlaces'
    BY <1>1 DEF Complete, TypeOK, SeenPast, SeenPlaces
  <2>4. History'
    BY <1>1 DEF Complete, TypeOK, History, Begun
  <2>5. Answers'
    BY <1>1 DEF Complete, TypeOK, Answers, Outcomes
  <2>6. Alone'
    BY <1>1 DEF Complete, TypeOK, Alone, Begun, Answers
  <2>7. Recorded'
    BY <1>1 DEF Complete, TypeOK, Recorded, Answers
  <2>8. Owned'
    BY <1>1 DEF Complete, TypeOK, Owned, Owns, Resolving, Current
  <2> QED BY <2>1, <2>2, <2>3, <2>4, <2>5, <2>6, <2>7, <2>8
<1>2. CASE Current(w)
  <2>1. /\ seen[w] = record /\ record.state = "attempting"
         /\ record.attempt = AttemptOf[w]
         /\ w \in sent /\ answer[w] \in Outcomes
    BY <1>2 DEF Complete, Current, Answers, SeenPast, SeenPlaces, TypeOK
  <2>2. /\ record' \in Records
           /\ record'.state = answer[w] /\ record'.revision = record.revision + 1
           /\ record'.attempts = record.attempts
           /\ record'.claim = record.claim /\ record'.attempt = record.attempt
           /\ record'.deduplicates = record.deduplicates
    BY <1>2, <2>1, StateRevised DEF Complete, Completed, TypeOK, Outcomes,
       DeliveryStates, Final
  <2>3. TypeOK'
    BY <1>2, <2>1, <2>2 DEF Complete, TypeOK, Valid, Places, SeenPlaces,
       Outcomes
  <2>4. SeenPast'
    BY <1>2, <2>1, <2>2 DEF Complete, TypeOK, Records, SeenPast
  <2>5. SeenPlaces'
    BY <1>2, <2>1, <2>2 DEF Complete, TypeOK, SeenPlaces, SeenPast
  <2>6. History'
    BY <1>2, <2>1, <2>2 DEF Complete, TypeOK, Records, History, Begun
  <2>7. Answers'
    BY <1>2, <2>1, <2>2 DEF Complete, TypeOK, Answers, Outcomes
  <2>8. Alone'
    BY <1>2, <2>1, <2>2 DEF Complete, TypeOK, Records, Alone, Begun,
       Answers, History
  <2>9. Recorded'
    BY <1>2, <2>1, <2>2 DEF Complete, TypeOK, Recorded, Answers, Outcomes
  <2>10. Owned'
    BY <1>2, <2>1, <2>2 DEF Complete, TypeOK, Owned, Owns, Resolving,
       Outcomes
  <2> QED BY <2>3, <2>4, <2>5, <2>6, <2>7, <2>8, <2>9, <2>10
<1> QED BY <1>1, <1>2

\* The answer is recorded on the attempt recovery gave up.
LEMMA RecompleteInv ==
    ASSUME OutboxInv, NEW w \in Workers, Recomplete(w)
    PROVE  OutboxInv'
<1>1. CASE ~Current(w)
  <2>1. TypeOK'
    BY <1>1 DEF Recomplete, TypeOK, Places, Outcomes
  <2>2. SeenPast'
    BY <1>1 DEF Recomplete, TypeOK, Records, SeenPast
  <2>3. SeenPlaces'
    BY <1>1 DEF Recomplete, TypeOK, SeenPast, SeenPlaces
  <2>4. History'
    BY <1>1 DEF Recomplete, TypeOK, History, Begun
  <2>5. Answers'
    BY <1>1 DEF Recomplete, TypeOK, Answers, Outcomes
  <2>6. Alone'
    BY <1>1 DEF Recomplete, TypeOK, Alone, Begun, Answers
  <2>7. Recorded'
    BY <1>1 DEF Recomplete, TypeOK, Recorded, Answers
  <2>8. Owned'
    BY <1>1 DEF Recomplete, TypeOK, Owned, Owns, Resolving
  <2> QED BY <2>1, <2>2, <2>3, <2>4, <2>5, <2>6, <2>7, <2>8
<1>2. CASE Current(w)
  <2>1. /\ seen[w] = record /\ record.state = "unknown"
         /\ record.attempt = AttemptOf[w]
         /\ w \in sent /\ answer[w] \in Outcomes
    BY <1>2 DEF Recomplete, Current, Answers, SeenPast, SeenPlaces, TypeOK
  <2>2. /\ record' \in Records
           /\ record'.state = answer[w] /\ record'.revision = record.revision + 1
           /\ record'.attempts = record.attempts
           /\ record'.claim = record.claim /\ record'.attempt = record.attempt
           /\ record'.deduplicates = record.deduplicates
    BY <1>2, <2>1, StateRevised DEF Recomplete, Completed, TypeOK, Outcomes,
       DeliveryStates, Final
  <2>3. TypeOK'
    BY <1>2, <2>1, <2>2 DEF Recomplete, TypeOK, Valid, Places, SeenPlaces,
       Outcomes
  <2>4. SeenPast'
    BY <1>2, <2>1, <2>2 DEF Recomplete, TypeOK, Records, SeenPast
  <2>5. SeenPlaces'
    BY <1>2, <2>1, <2>2 DEF Recomplete, TypeOK, SeenPlaces, SeenPast
  <2>6. History'
    BY <1>2, <2>1, <2>2 DEF Recomplete, TypeOK, Records, History, Begun
  <2>7. Answers'
    BY <1>2, <2>1, <2>2 DEF Recomplete, TypeOK, Answers, Outcomes
  <2>8. Alone'
    BY <1>2, <2>1, <2>2 DEF Recomplete, TypeOK, Records, Alone, Begun,
       Answers, History
  <2>9. Recorded'
    BY <1>2, <2>1, <2>2 DEF Recomplete, TypeOK, Recorded, Answers, Outcomes
  <2>10. Owned'
    BY <1>2, <2>1, <2>2 DEF Recomplete, TypeOK, Owned, Owns, Resolving,
       Outcomes
  <2> QED BY <2>3, <2>4, <2>5, <2>6, <2>7, <2>8, <2>9, <2>10
<1> QED BY <1>1, <1>2

\* An attempt is given up by the call that made it.
LEMMA MarkInv ==
    ASSUME OutboxInv, NEW w \in Workers, Mark(w)
    PROVE  OutboxInv'
<1>1. CASE ~(Current(w) /\ record.state = "attempting")
  <2>1. TypeOK'
    BY <1>1 DEF Mark, TypeOK, Places, Outcomes
  <2>2. SeenPast'
    BY <1>1 DEF Mark, TypeOK, Records, SeenPast
  <2>3. SeenPlaces'
    BY <1>1 DEF Mark, TypeOK, SeenPast, SeenPlaces
  <2>4. History'
    BY <1>1 DEF Mark, TypeOK, History, Begun
  <2>5. Answers'
    BY <1>1 DEF Mark, TypeOK, Answers, Outcomes
  <2>6. Alone'
    BY <1>1 DEF Mark, TypeOK, Alone, Begun, Answers
  <2>7. Recorded'
    BY <1>1 DEF Mark, TypeOK, Recorded, Answers
  <2>8. Owned'
    BY <1>1 DEF Mark, TypeOK, Owned, Owns, Resolving, Current
  <2> QED BY <2>1, <2>2, <2>3, <2>4, <2>5, <2>6, <2>7, <2>8
<1>2. CASE (Current(w) /\ record.state = "attempting")
  <2>1. seen[w] = record
    BY <1>2 DEF Mark, Current, SeenPast, SeenPlaces, TypeOK
  <2>2. /\ record' \in Records
           /\ record'.state = "unknown" /\ record'.revision = record.revision + 1
           /\ record'.attempts = record.attempts
           /\ record'.claim = record.claim /\ record'.attempt = record.attempt
           /\ record'.deduplicates = record.deduplicates
    BY <1>2, StateRevised DEF Mark, TypeOK, DeliveryStates
  <2>3. TypeOK'
    BY <1>2, <2>1, <2>2 DEF Mark, TypeOK, Valid, Places, SeenPlaces,
       Outcomes
  <2>4. SeenPast'
    BY <1>2, <2>1, <2>2 DEF Mark, TypeOK, Records, SeenPast
  <2>5. SeenPlaces'
    BY <1>2, <2>1, <2>2 DEF Mark, TypeOK, SeenPlaces, SeenPast
  <2>6. History'
    BY <1>2, <2>1, <2>2 DEF Mark, TypeOK, Records, History, Begun
  <2>7. Answers'
    BY <1>2, <2>1, <2>2 DEF Mark, TypeOK, Answers, Outcomes
  <2>8. Alone'
    BY <1>2, <2>1, <2>2 DEF Mark, TypeOK, Records, Alone, Begun, Answers,
       History
  <2>9. Recorded'
    BY <1>2, <2>1, <2>2 DEF Mark, TypeOK, Recorded, Answers, Outcomes
  <2>10. Owned'
    BY <1>2, <2>1, <2>2 DEF Mark, TypeOK, Owned, Owns, Resolving
  <2> QED BY <2>3, <2>4, <2>5, <2>6, <2>7, <2>8, <2>9, <2>10
<1> QED BY <1>1, <1>2

\* Recovery gives up an attempt, whoever makes it.
LEMMA RecoverInv ==
    ASSUME OutboxInv, RecoverDeliveries
    PROVE  OutboxInv'
<1>1. /\ record' \in Records
      /\ record'.state = "unknown" /\ record'.revision = record.revision + 1
      /\ record'.attempts = record.attempts
      /\ record'.claim = record.claim /\ record'.attempt = record.attempt
      /\ record'.deduplicates = record.deduplicates
  BY StateRevised DEF RecoverDeliveries, TypeOK, DeliveryStates
<1>2. TypeOK'
  BY <1>1 DEF RecoverDeliveries, TypeOK, Valid
<1>3. SeenPast'
  BY <1>1 DEF RecoverDeliveries, TypeOK, Records, SeenPast
<1>4. SeenPlaces' /\ Answers'
  BY <1>1 DEF RecoverDeliveries, SeenPlaces, Answers
<1>5. History'
  BY <1>1 DEF RecoverDeliveries, History, Begun
<1>6. Alone'
  BY <1>1 DEF RecoverDeliveries, Alone, Begun
<1>7. Recorded' /\ Owned'
  BY <1>1 DEF RecoverDeliveries, Recorded, Owned
<1> QED BY <1>2, <1>3, <1>4, <1>5, <1>6, <1>7

-----------------------------------------------------------------------------
(* The theorems.                                                           *)

\* The invariant holds of a delivery that was just enqueued.
LEMMA InitInv == Init => OutboxInv
<1> SUFFICES ASSUME Init PROVE OutboxInv
  OBVIOUS
<1>1. /\ record \in Records
      /\ record.state = "pending" /\ record.revision = 1
      /\ record.attempts = 0
      /\ record.claim = None /\ record.attempt = None
  BY DEF Init, Records, DeliveryStates
<1>2. TypeOK
  <2>1. Valid(record)
    BY <1>1 DEF Valid
  <2> QED BY <1>1, <2>1 DEF Init, TypeOK, Places
<1>3. SeenPast
  <2>1. ASSUME NEW w \in Workers PROVE seen[w] = record
    BY DEF Init
  <2>2. record.revision <= record.revision
    BY <1>1
  <2> QED BY <2>1, <2>2 DEF SeenPast
<1>4. SeenPlaces /\ Answers /\ Alone /\ History
  BY <1>1 DEF Init, SeenPlaces, Answers, Alone, History, Begun
<1>5. Recorded /\ Owned
  BY <1>1 DEF Init, Recorded, Owned
<1> QED BY <1>2, <1>3, <1>4, <1>5

\* Every step of every call, of recovery and of the adapter keeps it.
LEMMA NextInv == OutboxInv /\ [Next]_vars => OutboxInv'
<1> SUFFICES ASSUME OutboxInv, [Next]_vars PROVE OutboxInv'
  OBVIOUS
<1>1. ASSUME NEW w \in Workers, WorkerStep(w) PROVE OutboxInv'
  BY <1>1, ReadInv, RejectInv, ClaimInv, BeginInv, BeginCancelledInv, VerifyInv,
     CallDeliveredInv, CallFailedInv, CallUnclearInv, CompleteInv, RereadInv,
     RecompleteInv, InterruptedInv, MarkInv, StopInv DEF WorkerStep
<1>2. ASSUME NEW w \in Workers, Land(w) PROVE OutboxInv'
  BY <1>2, LandInv
<1>3. CASE RecoverDeliveries
  BY <1>3, RecoverInv
<1>4. CASE UNCHANGED vars
  BY <1>4 DEF vars, TypeOK, SeenPast, SeenPlaces, History, Begun, Answers, Alone,
              Recorded, Owned, Owns
<1> QED BY <1>1, <1>2, <1>3, <1>4 DEF Next

\* The invariant every other theorem follows from: what a call has seen, what
\* it may still send and what it is going to record fit the ledger's record.
THEOREM OutboxInvariant == Spec => []OutboxInv
BY InitInv, NextInv, PTL DEF Spec

\* Every variable keeps its type and no operation of the ledger leaves a record
\* that DeliveryRecord's validator would refuse.
THEOREM OutboxTypes == Spec => []TypeOK
BY OutboxInvariant, PTL

\* Two calls that sent are two that have begun, and Alone keeps these apart.
LEMMA AtMostOnceInv == OutboxInv => AtMostOnce
BY DEF AtMostOnce, Alone, Begun, TypeOK

\* However many calls, replays, cancellations and recoveries race, no attempt
\* reaches the adapter twice, and an adapter that does not deduplicate is
\* called once at most.
THEOREM OutboxAtMostOnce == Spec => []AtMostOnce
BY OutboxInvariant, AtMostOnceInv, PTL

\* A failed attempt has one call, which knows; a rejected one that may not be
\* repeated was never made.
LEMMA OutcomeTrueInv == OutboxInv => OutcomeTrue
<1> SUFFICES ASSUME OutboxInv PROVE OutcomeTrue
  OBVIOUS
<1>1. ASSUME record.state = "failed", NEW w \in landed \cup adrift
      PROVE  AttemptOf[w] # record.attempt
  <2>1. PICK v \in sent \ (landed \cup adrift) : AttemptOf[v] = record.attempt
    BY <1>1 DEF Recorded
  <2> QED BY <2>1 DEF TypeOK, Alone, Begun
<1>2. ASSUME record.state = "rejected", ~record.deduplicates PROVE sent = {}
  <2>1. record.attempts = 0
    BY <1>2 DEF TypeOK, Records, Valid
  <2> QED BY <2>1 DEF History, Begun, TypeOK
<1> QED BY <1>1, <1>2 DEF OutcomeTrue, Recorded

\* The recorded outcome is true of the attempt it names: delivered if the
\* adapter took it, failed if it never will.
THEOREM OutboxOutcomeTrue == Spec => []OutcomeTrue
BY OutboxInvariant, OutcomeTrueInv, PTL

\* The owner that Owned names is the witness.
LEMMA OwnedAttemptsInv == OutboxInv => OwnedAttempts
BY DEF Owned, OwnedAttempts

\* No path of deliver walks away from an attempt it recorded.
THEOREM OutboxOwnedAttempts == Spec => []OwnedAttempts
BY OutboxInvariant, OwnedAttemptsInv, PTL

-----------------------------------------------------------------------------
(* Steps that leave the record alone trivially keep FinalStep; the others  *)
(* start from the state their call has seen.                               *)

\* An attempt follows a claim.
LEMMA AttemptFinal ==
    ASSUME OutboxInv, NEW w \in Workers, pc[w] = "begin", MayAttempt(w), Attempt(w)
    PROVE  FinalStep
<1>1. record.state = "claimed"
  BY DEF MayAttempt, Current, SeenPast, SeenPlaces
<1>2. record'.revision = record.revision + 1
  BY AttemptRevised DEF TypeOK
<1> QED BY <1>1, <1>2 DEF FinalStep, Final

\* A change of state alone names no other attempt.
LEMMA StateFinal ==
    ASSUME OutboxInv, NEW s \in DeliveryStates, record.state \notin Final,
           Revise([record EXCEPT !.state = s])
    PROVE  FinalStep
BY StateRevised DEF TypeOK, FinalStep

\* A claim of an unknown attempt is another one, of a deduplicating adapter.
LEMMA ClaimFinal ==
    ASSUME OutboxInv, NEW w \in Workers, Claim(w), record' # record
    PROVE  FinalStep
<1>1. /\ seen[w] = record
      /\ \/ record.state = "pending"
         \/ record.state = "unknown" /\ record.deduplicates
  BY DEF Claim, Current, SeenPast, SeenPlaces
<1>2. record'.revision = record.revision + 1 /\ record'.claim = ClaimOf[w]
  BY ClaimRevised DEF Claim, TypeOK
<1>3. record.claim # ClaimOf[w]
  BY DEF Claim, History
<1> QED BY <1>1, <1>2, <1>3 DEF FinalStep, Final

\* The steps of a call.
LEMMA WorkerFinal ==
    ASSUME OutboxInv, NEW w \in Workers, WorkerStep(w), record' # record
    PROVE  FinalStep
<1>1. CASE Reject(w)
  <2>1. record.state \notin Final
    BY <1>1 DEF Reject, Current, SeenPast, SeenPlaces, Final
  <2> QED BY <1>1, <2>1, StateFinal DEF Reject, DeliveryStates, Final
<1>2. CASE Claim(w)
  BY <1>2, ClaimFinal
<1>3. CASE Begin(w) \/ BeginCancelled(w)
  BY <1>3, AttemptFinal DEF Begin, BeginCancelled
<1>4. CASE Complete(w) \/ Recomplete(w)
  <2>1. record.state \notin Final
    BY <1>4 DEF Complete, Recomplete, Current, SeenPast, SeenPlaces, Final
  <2>2. answer[w] \in DeliveryStates
    BY <1>4 DEF Complete, Recomplete, Answers, Outcomes, DeliveryStates, Final
  <2> QED BY <1>4, <2>1, <2>2, StateFinal DEF Complete, Recomplete, Completed
<1>5. CASE Mark(w)
  BY <1>5, StateFinal DEF Mark, DeliveryStates, Final
<1>6. CASE \/ Read(w) \/ Verify(w) \/ CallDelivered(w) \/ CallFailed(w)
           \/ CallUnclear(w) \/ Reread(w) \/ Interrupted(w) \/ Stop(w)
  BY <1>6 DEF Read, Verify, CallDelivered, CallFailed, CallUnclear, Reread,
              Interrupted, Stop
<1> QED BY <1>1, <1>2, <1>3, <1>4, <1>5, <1>6 DEF WorkerStep

\* No step of any call, of recovery or of the adapter revises a final outcome.
LEMMA NextFinal == OutboxInv /\ [Next]_vars => [FinalStep]_vars
<1> SUFFICES ASSUME OutboxInv, Next, record' # record PROVE FinalStep
  BY DEF FinalStep
<1>1. ASSUME NEW w \in Workers, WorkerStep(w) PROVE FinalStep
  BY <1>1, WorkerFinal
<1>2. ASSUME NEW w \in Workers, Land(w) PROVE FinalStep
  BY <1>2 DEF Land
<1>3. CASE RecoverDeliveries
  BY <1>3, StateFinal DEF RecoverDeliveries, DeliveryStates, Final
<1> QED BY <1>1, <1>2, <1>3 DEF Next

\* A revision follows the one before it, an outcome is final, and an unknown
\* attempt is only tried again by another claim, of a deduplicating adapter.
THEOREM OutboxOutcomeFinal == Spec => OutcomeFinal
BY OutboxInvariant, NextFinal, PTL DEF Spec, OutcomeFinal

-----------------------------------------------------------------------------
(* The answer of the adapter.  Only its own call and recovery can touch an *)
(* attempt that was sent, so the call finds it as it left it, or unknown.  *)

\* An attempt that was sent is as its call left it, unknown, or has its answer.
Kept ==
    \A w \in Workers :
        /\ answer[w] # "none" => w \in sent
        /\ (answer[w] # "none" \/ pc[w] = "call") /\ OwnsRecord(w) =>
              /\ pc[w] \in {"call", "complete"} =>
                     record = seen[w] \/ record.state = "unknown"
              /\ pc[w] = "reread" => record.state = "unknown"
              /\ pc[w] = "recomplete" => record = seen[w]
              /\ pc[w] \in {"mark", "done"} => record.state = answer[w]

\* Steps that leave the record alone.
LEMMA QuietKept ==
    ASSUME OutboxInv, Kept, NEW w \in Workers,
           \/ Read(w) \/ Verify(w) \/ CallDelivered(w) \/ CallFailed(w)
           \/ CallUnclear(w) \/ Reread(w) \/ Interrupted(w) \/ Stop(w) \/ Land(w)
    PROVE  Kept'
<1>1. CASE Read(w) \/ Verify(w) \/ CallUnclear(w)
  BY <1>1 DEF Read, Verify, CallUnclear, Kept, OwnsRecord, Answers, TypeOK
<1>2. CASE CallDelivered(w) \/ CallFailed(w)
  BY <1>2 DEF CallDelivered, CallFailed, Kept, OwnsRecord, Answers, TypeOK
<1>3. CASE Reread(w)
  BY <1>3 DEF Reread, Kept, OwnsRecord, TypeOK
<1>4. CASE Interrupted(w) \/ Stop(w) \/ Land(w)
  BY <1>4 DEF Interrupted, Stop, Land, Kept, OwnsRecord, TypeOK
<1> QED BY <1>1, <1>2, <1>3, <1>4

\* A new claim or attempt is of nobody who has sent.
LEMMA TakenKept ==
    ASSUME OutboxInv, Kept, NEW w \in Workers,
           Reject(w) \/ Claim(w) \/ Begin(w) \/ BeginCancelled(w)
    PROVE  Kept'
<1>1. CASE record' = record
  BY <1>1 DEF Reject, Claim, Begin, BeginCancelled, MayAttempt, Attempt, Kept,
              OwnsRecord, Answers, TypeOK
<1>2. CASE Reject(w) /\ record' # record
  <2>1. record.attempt = None
    BY <1>2 DEF Reject, Current, SeenPast, SeenPlaces, TypeOK, Valid
  <2>2. record'.attempt = None
    BY <1>2, <2>1, StateRevised DEF Reject, TypeOK, DeliveryStates, Final
  <2> QED BY <1>2, <2>2 DEF Reject, Kept, OwnsRecord, Answers, TypeOK
<1>3. CASE Claim(w) /\ record' # record
  <2>1. record'.attempt = None
    BY <1>3, ClaimRevised DEF Claim, TypeOK
  <2> QED BY <1>3, <2>1 DEF Claim, Kept, OwnsRecord, Answers, TypeOK
<1>4. CASE (Begin(w) \/ BeginCancelled(w)) /\ record' # record
  <2>1. AttemptOf[w] \notin attempted /\ record'.attempt = AttemptOf[w]
    BY <1>4, AttemptRevised DEF Begin, BeginCancelled, MayAttempt, TypeOK
  <2>2. \A v \in Workers : Begun(v) => AttemptOf[v] \in attempted
    BY DEF History
  <2> QED BY <1>4, <2>1, <2>2
          DEF Begin, BeginCancelled, Attempt, Kept, Begun, OwnsRecord, Answers, TypeOK
<1> QED BY <1>1, <1>2, <1>3, <1>4

\* The outcome of an attempt is recorded by the one call that sent it.
LEMMA SettledKept ==
    ASSUME OutboxInv, Kept, NEW w \in Workers, Complete(w) \/ Recomplete(w)
    PROVE  Kept'
<1>1. CASE ~Current(w)
  BY <1>1 DEF Complete, Recomplete, Current, Kept, OwnsRecord, Answers, TypeOK
<1>2. CASE Current(w)
  <2>1. /\ w \in sent /\ answer[w] \in Outcomes
        /\ record.attempt = AttemptOf[w]
    BY <1>2 DEF Complete, Recomplete, Current, Answers, SeenPast, SeenPlaces
  <2>2. /\ record'.state = answer[w]
        /\ record'.claim = record.claim /\ record'.attempt = record.attempt
    BY <1>2, <2>1, StateRevised
       DEF Complete, Recomplete, Completed, Outcomes, DeliveryStates, Final, TypeOK
  <2>3. \A v \in Workers : Begun(v) /\ v # w => AttemptOf[v] # record.attempt
    BY <2>1 DEF Alone, Begun, TypeOK
  <2> QED BY <1>2, <2>1, <2>2, <2>3
          DEF Complete, Recomplete, Kept, Begun, OwnsRecord, TypeOK
<1> QED BY <1>1, <1>2

\* Giving up an attempt leaves it unknown, which its call will find.
LEMMA UnknownKept ==
    ASSUME OutboxInv, Kept,
           (\E w \in Workers : Mark(w)) \/ RecoverDeliveries
    PROVE  Kept'
<1>1. CASE record.state = "attempting" /\ record' # record
  <2>1. /\ record'.state = "unknown"
        /\ record'.claim = record.claim /\ record'.attempt = record.attempt
    BY <1>1, StateRevised DEF Mark, RecoverDeliveries, DeliveryStates, TypeOK
  <2>2. /\ UNCHANGED <<seen, answer, sent>>
        /\ \A v \in Workers :
              pc'[v] = pc[v] \/ (pc[v] = "mark" /\ pc'[v] = "done")
    BY DEF Mark, RecoverDeliveries, TypeOK
  <2>3. \A v \in Workers : answer[v] # "none" /\ OwnsRecord(v) =>
           pc[v] \notin {"reread", "recomplete", "mark", "done"}
    BY <1>1 DEF Kept, SeenPlaces, TypeOK, Outcomes
  <2> QED BY <2>1, <2>2, <2>3 DEF Kept, OwnsRecord
<1>2. CASE record' = record
  BY <1>2 DEF Mark, RecoverDeliveries, Kept, OwnsRecord, TypeOK
<1> QED BY <1>1, <1>2 DEF Mark, RecoverDeliveries

\* Every step keeps the answers.
LEMMA NextKept == OutboxInv /\ Kept /\ [Next]_vars => Kept'
<1> SUFFICES ASSUME OutboxInv, Kept, [Next]_vars PROVE Kept'
  OBVIOUS
<1>1. ASSUME NEW w \in Workers, WorkerStep(w) \/ Land(w) PROVE Kept'
  BY <1>1, QuietKept, TakenKept, SettledKept, UnknownKept DEF WorkerStep
<1>2. CASE RecoverDeliveries
  BY <1>2, UnknownKept
<1>3. CASE UNCHANGED vars
  BY <1>3 DEF vars, Kept, OwnsRecord
<1> QED BY <1>1, <1>2, <1>3 DEF Next

\* There is no answer at first.
LEMMA InitKept == Init => Kept
BY DEF Init, Kept, Begun

\* What is kept is what its call leaves when it is done.
LEMMA AnswerKeptInv == Kept => AnswerKept
BY DEF Kept, AnswerKept, Begun

\* The adapter's answer survives recoveries and late marks: when its call has
\* ended, the attempt bears it.
THEOREM OutboxAnswerKept == Spec => []AnswerKept
<1>1. Spec => []Kept
  BY OutboxInvariant, InitKept, NextKept, PTL DEF Spec
<1> QED BY <1>1, AnswerKeptInv, PTL
=============================================================================
