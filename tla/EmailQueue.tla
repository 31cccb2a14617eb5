----------------------------- MODULE EmailQueue -----------------------------
(***************************************************************************)
(* backend/src/services/EmailService.ts: mails sent through one circuit,   *)
(* and the fallback queue of those the circuit refused.  The retries       *)
(* inside one call are one answer.                                         *)
(***************************************************************************)
EXTENDS Circuit, FiniteSets

CONSTANTS
    Mail,           \* one mail per signer of the weekly summary
    NoMail,
    queueLimit,     \* 1000
    keepFor,        \* 24 hours
    MaxTime

VARIABLES
    now,
    circuit,
    fresh,          \* mails not handed over yet
    sending,        \* direct calls under way
    fallbackEmailQueue,     \* records mail, timestamp
    todo, current,  \* of processQueuedEmails: what is left, and the call under way
    sent,           \* history: mails the transport took
    refused,        \* history: mails the circuit refused when they were handed over
    dropped         \* history: mails too old, or pushed out of a full queue

mailVars == <<now, circuit, fresh, sending, fallbackEmailQueue, todo, current, sent, refused,
              dropped>>

Entry == [mail : Mail, timestamp : 0..MaxTime]
Mails(s) == {s[i].mail : i \in DOMAIN s}

Init ==
    /\ now = 0
    /\ circuit = NewCircuit
    /\ fresh = Mail
    /\ sending = {}
    /\ fallbackEmailQueue = <<>>
    /\ todo = <<>>
    /\ current = NoMail
    /\ sent = {}
    /\ refused = {}
    /\ dropped = {}

(* queueEmailForLater: a full queue loses its oldest mail.                  *)
Queued(q, e) ==
    IF Len(q) >= queueLimit THEN Tail(Append(q, e)) ELSE Append(q, e)
PushedOut(q) == IF Len(q) >= queueLimit THEN {Head(q).mail} ELSE {}

QueueForLater(e) ==
    /\ fallbackEmailQueue' = Queued(fallbackEmailQueue, e)
    /\ dropped' = dropped \cup PushedOut(fallbackEmailQueue)

(* sendWeeklySummary hands a mail over; the circuit takes it or refuses it. *)
Send(m) ==
    /\ m \in fresh
    /\ fresh' = fresh \ {m}
    /\ IF Refuses(circuit, now)
         THEN /\ circuit' = Cleaned(circuit, now)
              /\ QueueForLater([mail |-> m, timestamp |-> now])
              /\ refused' = refused \cup {m}
              /\ UNCHANGED sending
         ELSE /\ circuit' = Admitted(circuit, now)
              /\ sending' = sending \cup {m}
              /\ UNCHANGED <<fallbackEmailQueue, refused, dropped>>
    /\ UNCHANGED <<now, todo, current, sent>>

(* The answer to a direct call: a failure goes to the caller, not to the    *)
(* queue.                                                                   *)
Answer(m, ok) ==
    /\ m \in sending
    /\ sending' = sending \ {m}
    /\ circuit' = IF ok THEN Succeeded(circuit) ELSE Failed(circuit, now)
    /\ sent' = IF ok THEN sent \cup {m} ELSE sent
    /\ UNCHANGED <<now, fresh, fallbackEmailQueue, todo, current, refused, dropped>>

(* processQueuedEmails takes the whole queue, unless the circuit is open.   *)
ProcessQueue ==
    /\ fallbackEmailQueue # <<>>
    /\ todo = <<>> /\ current = NoMail
    /\ circuit' = Cleaned(circuit, now)
    /\ IF circuit.state = "OPEN"
         THEN UNCHANGED <<todo, fallbackEmailQueue>>
         ELSE todo' = fallbackEmailQueue /\ fallbackEmailQueue' = <<>>
    /\ UNCHANGED <<now, fresh, sending, current, sent, refused, dropped>>

(* A mail that waited too long is skipped.                                  *)
SkipOld ==
    /\ todo # <<>> /\ current = NoMail
    /\ now - Head(todo).timestamp > keepFor
    /\ todo' = Tail(todo)
    /\ dropped' = dropped \cup {Head(todo).mail}
    /\ UNCHANGED <<now, circuit, fresh, sending, fallbackEmailQueue, current, sent, refused>>

MutForget(e) ==
    /\ dropped' = dropped
    /\ UNCHANGED fallbackEmailQueue
(* A refused mail is queued by the refusal and again by the error handler   *)
(* of the loop.                                                             *)
Requeue(e) ==
    LET q == Queued(fallbackEmailQueue, [e EXCEPT !.timestamp = now])
    IN  /\ fallbackEmailQueue' = Append(q, e)
        /\ dropped' = dropped \cup PushedOut(fallbackEmailQueue)

SendQueued ==
    /\ todo # <<>> /\ current = NoMail
    /\ now - Head(todo).timestamp <= keepFor
    /\ IF Refuses(circuit, now)
         THEN /\ circuit' = Cleaned(circuit, now)
              /\ todo' = Tail(todo)
              /\ Requeue(Head(todo))
              /\ UNCHANGED current
         ELSE /\ circuit' = Admitted(circuit, now)
              /\ current' = Head(todo).mail
              /\ UNCHANGED <<todo, fallbackEmailQueue, dropped>>
    /\ UNCHANGED <<now, fresh, sending, sent, refused>>

(* After a failed call the mail returns to the queue with its old time.     *)
KeepFailed(ok) ==
    fallbackEmailQueue' = IF ok THEN fallbackEmailQueue
                          ELSE Append(fallbackEmailQueue, Head(todo))

AnswerQueued(ok) ==
    /\ current # NoMail
    /\ current' = NoMail
    /\ todo' = Tail(todo)
    /\ circuit' = IF ok THEN Succeeded(circuit) ELSE Failed(circuit, now)
    /\ sent' = IF ok THEN sent \cup {current} ELSE sent
    /\ KeepFailed(ok)
    /\ UNCHANGED <<now, fresh, sending, refused, dropped>>

Tick ==
    /\ now < MaxTime
    /\ now' = now + 1
    /\ UNCHANGED <<circuit, fresh, sending, fallbackEmailQueue, todo, current, sent, refused,
                  dropped>>

Next ==
    \/ \E m \in Mail : Send(m) \/ \E ok \in BOOLEAN : Answer(m, ok)
    \/ ProcessQueue \/ SkipOld \/ SendQueued
    \/ \E ok \in BOOLEAN : AnswerQueued(ok)
    \/ Tick

Spec == Init /\ [][Next]_mailVars

-----------------------------------------------------------------------------
(* A mail the circuit refused is kept until it is sent, too old, or pushed  *)
(* out of a full queue: no order of openings, answers and runs of the queue *)
(* loses it in between.  Of a direct call that fails only the caller hears. *)
KeptUntilSent ==
    refused \subseteq Mails(fallbackEmailQueue) \cup Mails(todo) \cup sent \cup dropped

(* "Re-queue if still failing" (line 185): a mail waits once.               *)
QueuedOnce ==
    \A i, j \in DOMAIN fallbackEmailQueue :
        fallbackEmailQueue[i].mail = fallbackEmailQueue[j].mail => i = j
=============================================================================
