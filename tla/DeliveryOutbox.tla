--------------------------- MODULE DeliveryOutbox ---------------------------
(***************************************************************************)
(* The delivery of one reminder: its record in the repository's ledger     *)
(* (src/saliencegate/repository/memory.py, claim_delivery and following)   *)
(* and the calls of DeliveryWorker.deliver (runtime/delivery.py) that race *)
(* to bring it to the adapter.  A repository operation is atomic: it       *)
(* applies only to the revision its caller has read.  Between two of them  *)
(* a call can be overtaken by other calls and by recovery, be cancelled,   *)
(* or end with its process.                                                *)
(*                                                                         *)
(* Abstracted: times (an operation refused for its time is one that        *)
(* raised), the envelope and the receipt, the answer to a repeated         *)
(* command, which a worker treats as a conflict, and repositories whose    *)
(* answers do not pass the worker's validation.                            *)
(***************************************************************************)
EXTENDS Integers

CONSTANTS
    Workers,    \* calls of DeliveryWorker.deliver
    Claims, Attempts,    \* claim and attempt identifiers
    ClaimOf, AttemptOf,  \* those a call draws; replays of one trace draw the same
    None

ASSUME IdentifiersAssumption ==
    /\ ClaimOf \in [Workers -> Claims] /\ None \notin Claims
    /\ AttemptOf \in [Workers -> Attempts] /\ None \notin Attempts

Outcomes == {"delivered", "failed"}
Final == {"delivered", "failed", "rejected"}
DeliveryStates == {"pending", "claimed", "attempting", "unknown"} \cup Final

VARIABLES
    record,     \* the latest DeliveryRecord
    claimed, attempted,  \* claim and attempt identifiers of its history
    pc,         \* where a call stands
    seen,       \* the record it has read or written last (current)
    answer,     \* what it is going to record, or recorded
    sent,       \* the calls that invoked the adapter
    landed,     \* those whose reminder the adapter took
    adrift,     \* those whose reminder it may still take
    abandoned   \* a call that owned an attempt could not even mark it unknown

ledger == <<record, claimed, attempted>>
adapter == <<sent, landed, adrift>>
vars == <<record, claimed, attempted, pc, seen, answer, sent, landed, adrift,
          abandoned>>

Init ==
    /\ record \in [state : {"pending"}, revision : {1}, attempts : {0},
                   claim : {None}, attempt : {None}, deduplicates : BOOLEAN]
    /\ claimed = {} /\ attempted = {}
    /\ pc = [w \in Workers |-> "idle"]
    /\ seen = [w \in Workers |-> record]
    /\ answer = [w \in Workers |-> "none"]
    /\ sent = {} /\ landed = {} /\ adrift = {}
    /\ abandoned = FALSE

Goto(w, place) == pc' = [pc EXCEPT ![w] = place]
See(w, r) == seen' = [seen EXCEPT ![w] = r]

\* _delivery_base: the command names the latest revision.
Current(w) == record.revision = seen[w].revision

OwnsRecord(w) == record.claim = seen[w].claim /\ record.attempt = AttemptOf[w]

Revise(r) == record' = [r EXCEPT !.revision = @ + 1]

-----------------------------------------------------------------------------
(* Before the attempt.                                                     *)

\* Nothing is left to do for a record in its final state, one that another
\* call attempts, and one of unknown outcome that a repetition might double.
Settled(r) ==
    \/ r.state \in Final \cup {"attempting"}
    \/ r.state = "unknown" /\ ~r.deduplicates

\* deliver reads the record and asks the adapter for its capabilities, which
\* may no longer be those the delivery was bound to.
Read(w) ==
    /\ pc[w] = "idle"
    /\ See(w, record)
    /\ IF Settled(record)
       THEN Goto(w, "done")
       ELSE \/ Goto(w, IF record.state = "claimed" THEN "begin" ELSE "claim")
            \/ Goto(w, IF record.state = "unknown" THEN "done" ELSE "reject")
    /\ UNCHANGED <<ledger, answer, adapter, abandoned>>

Reject(w) ==
    /\ pc[w] = "reject"
    /\ IF Current(w) THEN Revise([record EXCEPT !.state = "rejected"])
       ELSE UNCHANGED record
    /\ Goto(w, "done")
    /\ UNCHANGED <<claimed, attempted, seen, answer, adapter, abandoned>>

ClaimStale(w) ==   \* mutant: the revision is not compared
    /\ pc[w] = "claim"
    /\ IF ClaimOf[w] \notin claimed
       THEN /\ Revise([record EXCEPT !.state = "claimed", !.claim = ClaimOf[w],
                                     !.attempt = None])
            /\ claimed' = claimed \cup {ClaimOf[w]}
            /\ See(w, record') /\ Goto(w, "begin")
       ELSE UNCHANGED <<record, claimed, seen>> /\ Goto(w, "done")
    /\ UNCHANGED <<attempted, answer, adapter, abandoned>>

\* claim_delivery.  A claim identifier serves once.
Claim(w) ==
    /\ pc[w] = "claim"
    /\ IF Current(w) /\ ClaimOf[w] \notin claimed
       THEN /\ Revise([record EXCEPT !.state = "claimed", !.claim = ClaimOf[w],
                                     !.attempt = None])
            /\ claimed' = claimed \cup {ClaimOf[w]}
            /\ See(w, record') /\ Goto(w, "begin")
       ELSE UNCHANGED <<record, claimed, seen>> /\ Goto(w, "done")
    /\ UNCHANGED <<attempted, answer, adapter, abandoned>>

\* begin_delivery_attempt would apply: to a delivery this call claimed, or one
\* it found claimed, with an attempt identifier that serves once, and only one
\* attempt for an adapter that does not deduplicate.
MayAttempt(w) ==
    /\ Current(w)
    /\ AttemptOf[w] \notin attempted
    /\ record.deduplicates \/ record.attempts = 0

Attempt(w) ==
    /\ Revise([record EXCEPT !.state = "attempting", !.attempt = AttemptOf[w],
                             !.attempts = @ + 1])
    /\ attempted' = attempted \cup {AttemptOf[w]}
    /\ See(w, record')

BeginRepeated(w) ==   \* mutant: the receipt of a repeated command is taken as new
    /\ pc[w] = "begin"
    /\ IF MayAttempt(w)
       THEN Attempt(w) /\ Goto(w, "call")
       ELSE /\ UNCHANGED <<record, attempted, seen>>
            /\ Goto(w, IF OwnsRecord(w) /\ record.state = "attempting"
                       THEN "call" ELSE "done")
    /\ UNCHANGED <<claimed, answer, adapter, abandoned>>

\* A command another call has made already is answered, but not as appended.
Begin(w) ==
    /\ pc[w] = "begin"
    /\ IF MayAttempt(w)
       THEN Attempt(w) /\ Goto(w, "call")
       ELSE UNCHANGED <<record, attempted, seen>> /\ Goto(w, "done")
    /\ UNCHANGED <<claimed, answer, adapter, abandoned>>

BeginForgotten(w) ==   \* mutant: no verification after the cancellation
    /\ pc[w] = "begin"
    /\ \/ MayAttempt(w) /\ Attempt(w)
       \/ UNCHANGED <<record, attempted, seen>>
    /\ Goto(w, "done")
    /\ UNCHANGED <<claimed, answer, adapter, abandoned>>

\* Cancelled while it waits for the repository, the call cannot tell whether
\* the attempt was recorded, and reads it back.
BeginCancelled(w) ==
    /\ pc[w] = "begin"
    /\ \/ MayAttempt(w) /\ Attempt(w)
       \/ UNCHANGED <<record, attempted, seen>>
    /\ Goto(w, "verify")
    /\ UNCHANGED <<claimed, answer, adapter, abandoned>>

\* _unknown_persisted_attempt_after_cancellation
Verify(w) ==
    /\ pc[w] = "verify"
    /\ IF record.state = "attempting" /\ OwnsRecord(w)
       THEN See(w, record) /\ Goto(w, "mark")
       ELSE UNCHANGED seen /\ Goto(w, "done")
    /\ UNCHANGED <<ledger, answer, adapter, abandoned>>

-----------------------------------------------------------------------------
(* The attempt.                                                            *)

\* adapter.deliver, with a valid receipt.
CallDelivered(w) ==
    /\ pc[w] = "call"
    /\ sent' = sent \cup {w}
    /\ landed' = landed \cup {w}
    /\ answer' = [answer EXCEPT ![w] = "delivered"]
    /\ Goto(w, "complete")
    /\ UNCHANGED <<ledger, seen, adrift, abandoned>>

\* AdapterDeliveryFailedError: the adapter knows that nothing was delivered.
CallFailed(w) ==
    /\ pc[w] = "call"
    /\ sent' = sent \cup {w}
    /\ answer' = [answer EXCEPT ![w] = "failed"]
    /\ Goto(w, "complete")
    /\ UNCHANGED <<ledger, seen, landed, adrift, abandoned>>

CallUnclearFails(w) ==   \* mutant: any exception is taken as a failure
    /\ pc[w] = "call"
    /\ sent' = sent \cup {w}
    /\ \/ landed' = landed \cup {w} /\ UNCHANGED adrift
       \/ adrift' = adrift \cup {w} /\ UNCHANGED landed
       \/ UNCHANGED <<landed, adrift>>
    /\ answer' = [answer EXCEPT ![w] = "failed"]
    /\ Goto(w, "complete")
    /\ UNCHANGED <<ledger, seen, abandoned>>

\* The envelope is not valid, and the adapter is not called; or the adapter
\* raises, answers something else or the call is cancelled: the reminder is
\* taken, or lost, or taken later.
CallUnclear(w) ==
    /\ pc[w] = "call"
    /\ \/ UNCHANGED adapter
       \/ /\ sent' = sent \cup {w}
          /\ \/ landed' = landed \cup {w} /\ UNCHANGED adrift
             \/ adrift' = adrift \cup {w} /\ UNCHANGED landed
             \/ UNCHANGED <<landed, adrift>>
    /\ Goto(w, "mark")
    /\ UNCHANGED <<ledger, seen, answer, abandoned>>

\* The adapter takes a reminder after its call was given up.
Land(w) ==
    /\ w \in adrift
    /\ adrift' = adrift \ {w}
    /\ landed' = landed \cup {w}
    /\ UNCHANGED <<ledger, pc, seen, answer, sent, abandoned>>

-----------------------------------------------------------------------------
(* After the attempt.                                                      *)

\* complete_delivery applies to an attempt under way and to an unknown one.
Completed(w) == Revise([record EXCEPT !.state = answer[w]])

\* The call may be cancelled when the outcome is already recorded.
Complete(w) ==
    /\ pc[w] = "complete"
    /\ IF Current(w)
       THEN Completed(w) /\ (Goto(w, "done") \/ Goto(w, "mark"))
       ELSE UNCHANGED record /\ Goto(w, "reread")
    /\ UNCHANGED <<claimed, attempted, seen, answer, adapter, abandoned>>

RereadOwn(w) ==   \* mutant: a recovered attempt keeps its unknown outcome
    /\ pc[w] = "reread"
    /\ IF record.state = "attempting" /\ OwnsRecord(w)
       THEN See(w, record) /\ Goto(w, "recomplete")
       ELSE UNCHANGED seen /\ Goto(w, "done")
    /\ UNCHANGED <<ledger, answer, adapter, abandoned>>

\* Recovery may have taken the attempt for one whose process had ended.
Reread(w) ==
    /\ pc[w] = "reread"
    /\ IF record.state = "unknown" /\ OwnsRecord(w)
       THEN See(w, record) /\ Goto(w, "recomplete")
       ELSE UNCHANGED seen /\ Goto(w, "done")
    /\ UNCHANGED <<ledger, answer, adapter, abandoned>>

Recomplete(w) ==
    /\ pc[w] = "recomplete"
    /\ IF Current(w)
       THEN Completed(w) /\ (Goto(w, "done") \/ Goto(w, "mark"))
       ELSE UNCHANGED record /\ Goto(w, "mark")
    /\ UNCHANGED <<claimed, attempted, seen, answer, adapter, abandoned>>

\* The repository refuses the outcome, or the call is cancelled before it is
\* recorded.
Interrupted(w) ==
    /\ pc[w] \in {"complete", "reread", "recomplete"}
    /\ answer' = [answer EXCEPT ![w] = "none"]
    /\ Goto(w, "mark")
    /\ UNCHANGED <<ledger, seen, adapter, abandoned>>

\* _unknown: mark_delivery_unknown, a conflict ends the call.
Mark(w) ==
    /\ pc[w] = "mark"
    /\ IF Current(w) /\ record.state = "attempting"
       THEN Revise([record EXCEPT !.state = "unknown"])
       ELSE UNCHANGED record
    /\ Goto(w, "done")
    /\ UNCHANGED <<claimed, attempted, seen, answer, adapter, abandoned>>

-----------------------------------------------------------------------------
(* Recovery, and the end of a call.                                        *)

\* The places where a call that owns an attempt has still to resolve it.
Resolving == {"verify", "call", "complete", "mark"}

Owns(w) == /\ pc[w] \in Resolving
           /\ record.state = "attempting" /\ record.attempt = AttemptOf[w]

\* The process ends, or the call is cancelled or refused where it undoes
\* nothing: a cancellation that reaches it in _unknown, for one.
Stop(w) ==
    /\ pc[w] \notin {"idle", "done"}
    /\ Goto(w, "done")
    /\ answer' = [answer EXCEPT ![w] = "none"]
    /\ abandoned' = (abandoned \/ Owns(w))
    /\ UNCHANGED <<ledger, seen, adapter>>

\* recover_deliveries may run while calls are under way.
RecoverDeliveries ==
    /\ record.state = "attempting"
    /\ Revise([record EXCEPT !.state = "unknown"])
    /\ UNCHANGED <<claimed, attempted, pc, seen, answer, adapter, abandoned>>

WorkerStep(w) ==
    \/ Read(w) \/ Reject(w) \/ Claim(w)
    \/ Begin(w) \/ BeginCancelled(w) \/ Verify(w)
    \/ CallDelivered(w) \/ CallFailed(w) \/ CallUnclear(w)
    \/ Complete(w) \/ Reread(w) \/ Recomplete(w) \/ Interrupted(w)
    \/ Mark(w) \/ Stop(w)

Next ==
    \/ \E w \in Workers : WorkerStep(w) \/ Land(w)
    \/ RecoverDeliveries

Spec == Init /\ [][Next]_vars

-----------------------------------------------------------------------------
(* Properties.                                                             *)

Places == {"idle", "reject", "claim", "begin", "verify", "call", "complete",
           "reread", "recomplete", "mark", "done"}

Records == [state : DeliveryStates, revision : Nat \ {0}, attempts : Nat,
            claim : Claims \cup {None}, attempt : Attempts \cup {None},
            deduplicates : BOOLEAN]

\* What DeliveryRecord's validator asks of a revision: the claim and the
\* attempt a state carries, and how often an adapter may be tried.
Valid(r) ==
    /\ r.state = "pending" =>
           r.attempts = 0 /\ r.claim = None /\ r.attempt = None
    /\ r.state = "claimed" => r.claim # None /\ r.attempt = None
    /\ r.state \in {"attempting", "unknown", "delivered", "failed"} =>
           r.attempts > 0 /\ r.claim # None /\ r.attempt # None
    /\ r.state = "rejected" =>
           r.attempt = None /\ (r.claim = None => r.attempts = 0)
    /\ r.attempts > 0 /\ ~r.deduplicates =>
           r.attempts = 1 /\ r.state \notin {"pending", "claimed", "rejected"}

\* Every variable has its type, and no operation leaves a record that
\* DeliveryRecord's validator (domain/records.py) would refuse.
TypeOK ==
    /\ record \in Records /\ Valid(record)
    /\ claimed \subseteq Claims /\ attempted \subseteq Attempts
    /\ pc \in [Workers -> Places]
    /\ seen \in [Workers -> Records]
    /\ answer \in [Workers -> Outcomes \cup {"none"}]
    /\ sent \subseteq Workers /\ landed \subseteq sent /\ adrift \subseteq sent
    /\ abandoned \in BOOLEAN

\* However calls, replays with the same identifiers, cancellations, crashes
\* and recoveries interleave, no attempt reaches the adapter twice, and an
\* adapter that does not deduplicate is called once at most.
AtMostOnce ==
    \A w, v \in sent :
        w # v => record.deduplicates /\ AttemptOf[w] # AttemptOf[v]

\* The recorded outcome is the truth about the attempt it names: a delivered
\* reminder was taken by the adapter, one recorded as failed was not and will
\* not be, and a rejection precedes every attempt that could have landed.
OutcomeTrue ==
    /\ record.state = "delivered" =>
           \E w \in landed : AttemptOf[w] = record.attempt
    /\ record.state = "failed" =>
           \A w \in landed \cup adrift : AttemptOf[w] # record.attempt
    /\ record.state = "rejected" /\ ~record.deduplicates => sent = {}

\* An attempt under way has a call that will resolve it, unless that call was
\* stopped: no path of deliver, the cancelled ones included, walks away from
\* an attempt it recorded and leaves it to recovery.
OwnedAttempts ==
    record.state = "attempting" /\ ~abandoned => \E w \in Workers : Owns(w)

\* The adapter's answer to the latest attempt is not lost to a recovery or a
\* late mark that overtakes it: once its call ends, the record bears it.
AnswerKept ==
    \A w \in Workers :
        pc[w] = "done" /\ answer[w] # "none" /\ OwnsRecord(w)
            => record.state = answer[w]

FinalStep ==
    record' # record =>
        /\ record'.revision = record.revision + 1
        /\ record.state \notin Final
        /\ record.state = "unknown" /\ record'.attempt # record.attempt =>
               record.deduplicates /\ record'.claim # record.claim

\* Revisions follow one another, an outcome is final, and the unknown outcome
\* of an adapter that does not deduplicate is only ever settled by the attempt
\* it belongs to, never tried again.
OutcomeFinal == [][FinalStep]_vars
=============================================================================
