------------------------- MODULE ServerTransaction -------------------------
(***************************************************************************)
(* The server half of SipTransactionManager: the transactions that copies  *)
(* of one request (one Via branch) create, the CANCEL and the ACKs that    *)
(* belong to it, the retransmission cache and the UA that answers.         *)
(*                                                                         *)
(* A final response to an INVITE moves the transaction in tserver from the *)
(* key of its branch to a key with its To tag, so a copy of the request    *)
(* that the cache has forgotten opens another transaction: Tx numbers them.*)
(* Handlers run to completion; the UA's callbacks are part of them.        *)
(***************************************************************************)
EXTENDS Naturals

CONSTANTS
    MaxTx,          \* bound on the transactions one request may open
    ProvisionalRetr \* is tm.provisional_retr > 0?

ASSUME ServerAssumption ==
    /\ MaxTx \in Nat
    /\ ProvisionalRetr \in BOOLEAN

Tx     == 1 .. MaxTx
Finals == {"2xx", "fail", "487"}
Reply  == {"100", "1xx"} \cup Finals

VARIABLES
    method,         \* of the request: "INVITE" or "other"
    created,        \* transactions opened so far
    state,          \* t.state; "idle" before the transaction exists
    key,            \* where tserver holds it: "branch", "totag" or "none"
    data,           \* t.data: the last response sent, or "none"
    armed,          \* the timers of a transaction the dispatcher holds
    cbs,            \* t.cancel_cb and t.noack_cb are installed
    waiting,        \* the UA still owes this transaction a final response
    told,           \* what the UA was called back with: cancel, ack, noack
    bornAge,        \* age of the request when it opened the transaction
    l1rcache,       \* tm.l1rcache for the request and for the CANCEL
    l2rcache,       \* tm.l2rcache
    age,            \* cache purges since the request was first sent, up to 2
    bug,            \* sendResponse() raised on behalf of a waiting UA
    raised,         \* an exception has come out of recvRequest or noack_cb
    rcv,            \* the datagram the last step handled, or "none"
    snd             \* the response the last step transmitted, or "none"

tx   == <<state, key, data, armed, cbs, waiting, told>>
rc   == <<l1rcache, l2rcache>>
vars == <<method, created, tx, bornAge, rc, age, bug, raised, rcv, snd>>

Datagram == {"request", "cancel"}
States   == {"idle", "TRYING", "RINGING", "COMPLETED", "CONFIRMED"}
Cached   == Reply \cup {"absent", "200", "481"}

TypeOK ==
    /\ method \in {"INVITE", "other"}
    /\ created \in 0 .. MaxTx
    /\ state \in [Tx -> States]
    /\ key \in [Tx -> {"none", "branch", "totag"}]
    /\ data \in [Tx -> Reply \cup {"none"}]
    /\ armed \in [Tx -> SUBSET {"A", "D", "E", "F"}]
    /\ cbs \in [Tx -> BOOLEAN] /\ waiting \in [Tx -> BOOLEAN]
    /\ told \in [Tx -> SUBSET {"cancel", "ack", "noack"}]
    /\ bornAge \in [Tx -> 0 .. 2]
    /\ l1rcache \in [Datagram -> Cached] /\ l2rcache \in [Datagram -> Cached]
    /\ age \in 0 .. 2 /\ bug \in BOOLEAN /\ raised \in BOOLEAN
    /\ rcv \in Datagram \cup {"ack", "none"}
    /\ snd \in Cached \cup {"none"}

Init ==
    /\ method \in {"INVITE", "other"}
    /\ created = 0
    /\ state = [i \in Tx |-> "idle"]
    /\ key = [i \in Tx |-> "none"]
    /\ data = [i \in Tx |-> "none"]
    /\ armed = [i \in Tx |-> {}]
    /\ cbs = [i \in Tx |-> FALSE] /\ waiting = [i \in Tx |-> FALSE]
    /\ told = [i \in Tx |-> {}]
    /\ bornAge = [i \in Tx |-> 0]
    /\ l1rcache = [d \in Datagram |-> "absent"]
    /\ l2rcache = [d \in Datagram |-> "absent"]
    /\ age = 0 /\ bug = FALSE /\ raised = FALSE /\ rcv = "none" /\ snd = "none"

-----------------------------------------------------------------------------
(* sendResponse().                                                         *)

\* What transmitData() leaves in the cache for the datagram it answers.
Answered(d, r) == [l1rcache EXCEPT ![d] = r]

\* Where the transaction is found after a final response: an INVITE under its
\* To tag, to wait for the ACK; any other request nowhere.
FinalKey == IF method = "INVITE" THEN "totag" ELSE "none"

\* The timers a final response stops.
StoppedByFinal == {"E", "F"}

\* The timers that run after response r of transaction i.
TimersAfter(i, r) ==
    IF r \in Finals
    THEN (armed[i] \ StoppedByFinal) \cup (IF method = "INVITE" THEN {"A", "D"} ELSE {})
    ELSE armed[i] \cup (IF ProvisionalRetr /\ r # "100" THEN {"F"} ELSE {})

\* sendResponse(r, t), but for the cache.
sendResponse(i, r) ==
    /\ state' = [state EXCEPT ![i] = IF r \in Finals THEN "COMPLETED" ELSE "RINGING"]
    /\ key' = [key EXCEPT ![i] = IF r \in Finals THEN FinalKey ELSE @]
    /\ data' = [data EXCEPT ![i] = r]
    /\ armed' = [armed EXCEPT ![i] = TimersAfter(i, r)]

\* The transaction is found by its branch and has no final response yet.
Answerable(i) == key[i] = "branch" /\ state[i] \in {"TRYING", "RINGING"}

\* The UA answers a transaction it owes a response (UA.sendUasResponse);
\* sendResponse() raises if the transaction is not there to be answered.
UaResponds(i, r) ==
    /\ waiting[i]
    /\ IF Answerable(i)
       THEN /\ sendResponse(i, r)
            /\ waiting' = [waiting EXCEPT ![i] = r \notin Finals]
            /\ l1rcache' = Answered("request", r)
            /\ snd' = r
            /\ UNCHANGED bug
       ELSE /\ bug' = TRUE /\ snd' = "none"
            /\ UNCHANGED <<state, key, data, armed, waiting, l1rcache>>
    /\ rcv' = "none"
    /\ UNCHANGED <<method, created, cbs, told, bornAge, l2rcache, age, raised>>

-----------------------------------------------------------------------------
(* A datagram arrives: handleIncoming() and incomingRequest().             *)

Lookup(d) == IF l1rcache[d] # "absent" THEN l1rcache[d] ELSE l2rcache[d]

\* Seen before: answered from the cache.
Repeated(d) ==
    /\ Lookup(d) # "absent"
    /\ snd' = Lookup(d)
    /\ UNCHANGED <<created, tx, bornAge, l1rcache, bug, raised>>

\* A copy of a request whose transaction is still found under its branch.
Duplicate(i) ==
    /\ Lookup("request") = "absent" /\ key[i] = "branch"
    /\ snd' = data[i]
    /\ l1rcache' = IF data[i] = "none" THEN l1rcache ELSE Answered("request", data[i])
    /\ UNCHANGED <<created, tx, bornAge, bug, raised>>

\* Any other copy opens transaction i, which starts timer E for an INVITE.
Opens(i) ==
    /\ created < MaxTx /\ i = created + 1
    /\ Lookup("request") = "absent"
    /\ \A j \in Tx : key[j] # "branch"
    /\ created' = i
    /\ bornAge' = [bornAge EXCEPT ![i] = age]
    /\ UNCHANGED <<told, bug>>

NoExpireTimer == {}

\* The timer a new transaction starts: E, for an INVITE.
RequestTimers == IF method = "INVITE" THEN {"E"} ELSE {}

\* recvRequest() of the UA sends 100 and will answer later.  It returns the
\* callbacks to install, unless it raises after the 100.
NewAndWaits(i) ==
    /\ Opens(i) /\ method = "INVITE"
    /\ state' = [state EXCEPT ![i] = "RINGING"]
    /\ key' = [key EXCEPT ![i] = "branch"]
    /\ data' = [data EXCEPT ![i] = "100"]
    /\ armed' = [armed EXCEPT ![i] = RequestTimers]
    /\ waiting' = [waiting EXCEPT ![i] = TRUE]
    /\ \/ cbs' = [cbs EXCEPT ![i] = TRUE] /\ raised' = raised
       \/ cbs' = cbs /\ raised' = TRUE
    /\ l1rcache' = Answered("request", "100")
    /\ snd' = "100"

\* It sends the final response before it returns, with or without callbacks.
NewAndAnswers(i, r) ==
    /\ Opens(i)
    /\ sendResponse(i, r)
    /\ cbs' \in {cbs, [cbs EXCEPT ![i] = (method = "INVITE")]}
    /\ l1rcache' = Answered("request", r)
    /\ snd' = r
    /\ UNCHANGED <<waiting, raised>>

\* It returns None and has sent nothing: the transaction stays only if a timer
\* is running that will end it, or if the call was ended by an exception.
NewAndSilent(i) ==
    /\ Opens(i)
    /\ state' = [state EXCEPT ![i] = "TRYING"]
    /\ \/ key' = [key EXCEPT ![i] = IF RequestTimers = {} THEN "none" ELSE "branch"] /\ raised' = raised
       \/ key' = [key EXCEPT ![i] = "branch"] /\ raised' = TRUE
    /\ armed' = [armed EXCEPT ![i] = RequestTimers]
    /\ snd' = "none"
    /\ UNCHANGED <<data, cbs, waiting, l1rcache>>

RequestArrives ==
    /\ \/ Repeated("request")
       \/ \E i \in Tx :
             \/ Duplicate(i)
             \/ NewAndWaits(i)
             \/ \E r \in {"2xx", "fail"} : NewAndAnswers(i, r)
             \/ NewAndSilent(i)
    /\ rcv' = "request"
    /\ UNCHANGED <<method, l2rcache, age>>

UaNotTold(i) == UNCHANGED <<waiting, told>>

\* cancel_cb, if it is installed: the UA gives the call up.
TellsCancelled(i) ==
    /\ waiting' = [waiting EXCEPT ![i] = @ /\ ~cbs[i]]
    /\ told' = [told EXCEPT ![i] = IF cbs[i] THEN @ \cup {"cancel"} ELSE @]

ExpiredAsFailure(i) == sendResponse(i, "fail") /\ TellsCancelled(i) /\ UNCHANGED cbs

\* doCancel(): 487 to the INVITE, then cancel_cb.
doCancel(i) == sendResponse(i, "487") /\ TellsCancelled(i) /\ UNCHANGED cbs

\* A CANCEL; the far end sends one after a response only.
CancelArrives ==
    /\ method = "INVITE" /\ \E i \in Tx : data[i] # "none"
    /\ \/ Repeated("cancel")
       \/ /\ Lookup("cancel") = "absent"
          /\ \E i \in Tx :
                /\ key[i] = "branch"
                /\ IF Answerable(i) THEN doCancel(i) ELSE UNCHANGED tx
                /\ l1rcache' = [l1rcache EXCEPT
                      !["cancel"] = "200",
                      !["request"] = IF Answerable(i) THEN "487" ELSE @]
          /\ snd' = "200"
          /\ UNCHANGED <<created, bornAge, bug, raised>>
       \/ /\ Lookup("cancel") = "absent"
          /\ \A i \in Tx : key[i] # "branch"
          /\ l1rcache' = Answered("cancel", "481")
          /\ snd' = "481"
          /\ UNCHANGED <<created, tx, bornAge, bug, raised>>
    /\ rcv' = "cancel"
    /\ UNCHANGED <<method, l2rcache, age>>

\* The timers the ACK stops.
StoppedByAck == {"A", "D"}

\* The ACK of transaction i's final response; ack_cb is set for a 2xx.  (If
\* timer D has fired and its callback raised there is no teD to cancel: the
\* handler raises right after the change of state.)
AckArrives(i) ==
    /\ key[i] = "totag" /\ state[i] = "COMPLETED"
    /\ state' = [state EXCEPT ![i] = "CONFIRMED"]
    /\ IF "D" \in armed[i]
       THEN /\ armed' = [armed EXCEPT ![i] = @ \ StoppedByAck]
            /\ key' = [key EXCEPT ![i] = "none"]
            /\ told' = [told EXCEPT ![i] = IF data[i] = "2xx" THEN @ \cup {"ack"} ELSE @]
       ELSE UNCHANGED <<armed, key, told>>
    /\ rcv' = "ack" /\ snd' = "none"
    /\ UNCHANGED <<method, created, data, cbs, waiting, bornAge, rc, age, bug, raised>>

-----------------------------------------------------------------------------
(* Timers.                                                                 *)

\* timerA(): the final response, or timerF(): the provisional one, again.
timerA(i) ==
    /\ "A" \in armed[i]
    /\ rcv' = "none" /\ snd' = data[i]
    /\ UNCHANGED <<method, created, tx, bornAge, rc, age, bug, raised>>

timerF(i) ==
    /\ "F" \in armed[i]
    /\ armed' = [armed EXCEPT ![i] = IF state[i] = "RINGING" THEN @ ELSE @ \ {"F"}]
    /\ rcv' = "none" /\ snd' = IF state[i] = "RINGING" THEN data[i] ELSE "none"
    /\ UNCHANGED <<method, created, state, key, data, cbs, waiting, told, bornAge,
                   rc, age, bug, raised>>

\* timerD(): no ACK came.  The UA is told and the transaction forgotten; if
\* noack_cb raises it is not forgotten.
timerD(i) ==
    /\ "D" \in armed[i]
    /\ armed' = [armed EXCEPT ![i] = @ \ {"A", "D"}]
    /\ told' = [told EXCEPT ![i] = IF cbs[i] THEN @ \cup {"noack"} ELSE @]
    /\ \/ key' = [key EXCEPT ![i] = "none"] /\ raised' = raised
       \/ cbs[i] /\ key' = key /\ raised' = TRUE
    /\ rcv' = "none" /\ snd' = "none"
    /\ UNCHANGED <<method, created, state, data, cbs, waiting, bornAge, rc, age, bug>>

\* timerE(): the INVITE has expired and is cancelled.
timerE(i) ==
    /\ "E" \in armed[i]
    /\ IF state[i] \in {"TRYING", "RINGING"}
       THEN doCancel(i) /\ l1rcache' = Answered("request", "487") /\ snd' = "487"
       ELSE /\ armed' = [armed EXCEPT ![i] = @ \ {"E", "F"}]
            /\ snd' = "none"
            /\ UNCHANGED <<state, key, data, cbs, waiting, told, l1rcache>>
    /\ rcv' = "none"
    /\ UNCHANGED <<method, created, bornAge, l2rcache, age, bug, raised>>

NoOldGeneration == [d \in Datagram |-> "absent"]

\* What becomes of the current generation when the cache is purged.
OldGeneration == l1rcache

\* rCachePurge(), every 32 s.
rCachePurge ==
    /\ l2rcache' = OldGeneration
    /\ l1rcache' = [d \in Datagram |-> "absent"]
    /\ age' = IF age < 2 THEN age + 1 ELSE age
    /\ rcv' = "none" /\ snd' = "none"
    /\ UNCHANGED <<method, created, tx, bornAge, bug, raised>>

Next ==
    \/ RequestArrives \/ CancelArrives \/ rCachePurge
    \/ \E i \in Tx :
          \/ AckArrives(i)
          \/ \E r \in {"1xx", "2xx", "fail"} : UaResponds(i, r)
          \/ timerA(i) \/ timerD(i) \/ timerE(i) \/ timerF(i)

Spec == Init /\ [][Next]_vars

\* The dispatcher runs the timers that are due; the UA need not answer and the
\* far end need not acknowledge.
Fairness == \A i \in Tx : WF_vars(timerD(i)) /\ WF_vars(timerE(i))

FairSpec == Spec /\ Fairness

-----------------------------------------------------------------------------
(* Properties.                                                             *)

\* No timer of a transaction is left with the dispatcher once tserver has
\* forgotten it: timerA/D/E/F would use what cleanup() has set to None.
NoStrayTimer == \A i \in Tx : key[i] = "none" => armed[i] = {}

\* As long as the UA owes an answer, sendResponse() will take it: a CANCEL, the
\* expiry of the INVITE or an earlier final response have always reached the UA
\* first ("BUG: attempt to send reply on already finished transaction!!!").  Only
\* an exception out of recvRequest, which loses the callbacks, may prevent it.
AnswerAccepted == \A i \in Tx : waiting[i] => Answerable(i) \/ raised

\* Copies of a request that the far end may still send (64*T1 = 32 s, less than
\* two purges after the first) reach the UA once: before the answer they find
\* the branch, after it the cache.  Only a request other than INVITE that was
\* never answered is offered to the UA again.
OneTransaction ==
    \A i \in Tx : i \in 2 .. created /\ bornAge[i] < 2
        => method = "other" /\ \A j \in Tx : j < i => data[j] = "none"

\* The UA hears one story about an INVITE: the ACK came or it did not, and what
\* it was told is cancelled was answered by 487 and by nothing else.
ConsistentOutcome ==
    \A i \in Tx :
       /\ ~({"ack", "noack"} \subseteq told[i])
       /\ "ack" \in told[i] => data[i] = "2xx" /\ state[i] = "CONFIRMED"
       /\ "cancel" \in told[i] => data[i] = "487"

\* Every transaction is forgotten in the end, an INVITE not before it has got a
\* final response, even if the UA never answers and no ACK ever comes.  (An exception out of
\* recvRequest or noack_cb may leave the transaction in tserver for good.)
Concludes ==
    \A i \in Tx : (state[i] # "idle") ~>
        \/ key[i] = "none" /\ (method = "INVITE" => data[i] \in Finals)
        \/ raised
=============================================================================
