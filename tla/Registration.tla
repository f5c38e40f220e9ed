---------------------------- MODULE Registration ----------------------------
(***************************************************************************)
(* A registration agent and its registrar, which asks for digest           *)
(* credentials.  The agent answers challenges, registers again when its    *)
(* registration is about to run out, and tries later after a refusal.  The *)
(* transaction manager gives it one final answer to every REGISTER, a 408  *)
(* of its own if none arrives.  Every REGISTER has a CSeq and a branch of  *)
(* its own; both are left out, and so are the lengths of the timers: a     *)
(* minute after a refusal, and after a 2xx what the registrar has granted, *)
(* which may be nothing.                                                   *)
(*                                                                         *)
(* gotreply() may raise: on a time or a challenge that it cannot read and  *)
(* in a callback of the application.  The dispatcher goes on, but where    *)
(* that happens before the next timer the agent has done its last.         *)
(***************************************************************************)
EXTENDS Digest, SequencesExt

CONSTANTS
    Offers,        \* the algorithms a registrar offers
    Qops,          \* the lists of qop values it offers
    MaxClock       \* the clock stops there

ASSUME RegAssumption ==
    /\ MaxClock \in Nat /\ VTime \in Nat
    /\ \A qop \in Qops : qop \in Seq(STRING)

NoAuth == [a |-> [algorithm |-> "absent"]]
Uri    == "sip:registrar"
Secret == "secret"

VARIABLES
    passw,         \* what the agent takes for the password: "none" if it has no user
    clock,
    dead, atries,  \* SipRegistrationAgent.dead, atries
    auth,          \* the Authorization header field of rmsg
    sent,          \* the REGISTERs without a final answer, as they arrive
    regtimers,     \* timers of doregister()
    issued,        \* history: the last nonce, for which algorithm and when
    burst,         \* history: REGISTERs since the last timer
    regraised      \* history: gotreply() has raised and left no timer

regVars == <<passw, clock, dead, atries, auth, sent, regtimers, issued, burst, regraised>>

RegInit ==
    /\ passw \in {Secret, "wrong", None}
    /\ clock = 0 /\ dead = FALSE /\ atries = 0 /\ auth = NoAuth
    /\ sent = <<>> /\ regtimers = 1 /\ burst = 0 /\ regraised = FALSE
    /\ issued = [nonce |-> 0, algorithm |-> None, at |-> 0]

Wire(h) == IF h = NoAuth THEN h ELSE parseAuthorization(strAuthorization(h), h.response)

\* doregister(), by the application at first and then by a timer.
doregister ==
    /\ regtimers > 0
    /\ regtimers' = regtimers - 1
    /\ IF dead THEN UNCHANGED <<sent, burst>>
       ELSE sent' = Append(sent, Wire(auth)) /\ burst' = 1
    /\ UNCHANGED <<passw, clock, dead, atries, auth, issued, regraised>>

stopregister ==
    /\ ~dead /\ dead' = TRUE
    /\ UNCHANGED <<passw, clock, atries, auth, sent, regtimers, issued, burst, regraised>>

\* The registrar accepts a REGISTER.
Accepts(h) == h # NoAuth /\ verify(h, Secret, "REGISTER", "", clock)

\* A challenge for an algorithm, as the agent reads it.
Challenge(alg, qop) ==
    LET known == IF alg \in Algorithms THEN alg ELSE "MD5"
        ch == [WWWAuthenticate(known, clock) EXCEPT !.algorithm = alg, !.qop = qop] IN
    localStr(ch)

\* The same from a registrar that puts nothing in quotes.
Unquoted(params) == [k \in DOMAIN params |-> [params[k] EXCEPT !.quoted = FALSE]]

\* gotreply() raises before it has set a timer.
Raises(i) ==
    /\ ~dead /\ regraised' = TRUE
    /\ sent' = RemoveAt(sent, i)
    /\ UNCHANGED <<passw, clock, dead, auth, atries, regtimers, issued, burst>>

\* gotreply(): 2xx.
gotreplyOk(i) ==
    /\ Accepts(sent[i])
    /\ sent' = RemoveAt(sent, i)
    /\ regtimers' = regtimers + (IF dead THEN 0 ELSE 1)
    /\ atries' = IF dead THEN atries ELSE 0
    /\ UNCHANGED <<passw, clock, dead, auth, issued, burst, regraised>>

\* gotreply(): 2xx with a Contact or a time that cannot be read.
gotreplyOkUnread(i) == Accepts(sent[i]) /\ Raises(i)

\* gotreply(): 2xx, and rok_cb() raises, which is behind the timer.
gotreplyOkRaises(i) ==
    /\ Accepts(sent[i]) /\ ~dead
    /\ sent' = RemoveAt(sent, i) /\ regtimers' = regtimers + 1
    /\ UNCHANGED <<passw, clock, dead, auth, atries, issued, burst, regraised>>

\* The end of gotreply(): try again in a minute.
Later(i) ==
    /\ sent' = RemoveAt(sent, i)
    /\ regtimers' = regtimers + (IF dead THEN 0 ELSE 1)
    /\ atries' = IF dead THEN atries ELSE 0
    /\ UNCHANGED <<auth, burst>>

\* gotreply(): any other final answer, also a 408 and a 2xx "Auth Failed".
gotreplyFail(i) ==
    /\ Later(i)
    /\ UNCHANGED <<passw, clock, dead, issued, regraised>>

\* The same, and rfail_cb() raises, which is before the timer.
gotreplyFailRaises(i) == Raises(i)

\* The credentials replace older ones and the REGISTER goes out again.
Answers(i, h) ==
    /\ auth' = h /\ atries' = atries + 1 /\ burst' = burst + 1
    /\ sent' = Append(RemoveAt(sent, i), Wire(h)) /\ UNCHANGED regtimers

\* gotreply() looks at a challenge.
Willing == ~dead /\ passw # None /\ atries < 3

\* gotreply(): 401 or 407.
gotreplyChallenge(i, alg, qop) ==
    LET params == Challenge(alg, qop)
        ch     == parseChallenge(params)
        sup    == supportedAlgorithm(ch)
    IN
    /\ ~Accepts(sent[i])
    /\ ParsesChallenge(params)
    /\ IF Willing /\ sup.ok
       THEN Answers(i, genAuthHF(ch, "user", passw, "REGISTER", Uri, "", sup.qop))
       ELSE Later(i)
    /\ issued' = [nonce |-> ch.nonce, algorithm |-> ch.algorithm, at |-> clock]
    /\ UNCHANGED <<passw, clock, dead, regraised>>

\* gotreply(): 401 or 407 with a challenge that parse() does not understand.
gotreplyChallengeUnread(i, alg, qop) ==
    /\ ~Accepts(sent[i]) /\ Willing
    /\ ~ParsesChallenge(Unquoted(Challenge(alg, qop)))
    /\ Raises(i)

RegTick ==
    /\ clock < MaxClock /\ clock' = clock + 1
    /\ UNCHANGED <<passw, dead, atries, auth, sent, regtimers, issued, burst, regraised>>

FinalAnswer == \E i \in DOMAIN sent :
    \/ gotreplyOk(i) \/ gotreplyOkUnread(i) \/ gotreplyOkRaises(i)
    \/ gotreplyFail(i) \/ gotreplyFailRaises(i)
    \/ \E alg \in Offers, qop \in Qops :
         gotreplyChallenge(i, alg, qop) \/ gotreplyChallengeUnread(i, alg, qop)

RegNext == doregister \/ stopregister \/ FinalAnswer \/ RegTick

RegSpec == RegInit /\ [][RegNext]_regVars

-----------------------------------------------------------------------------
(* Properties.                                                             *)

RegTypeOK ==
    /\ passw \in {Secret, "wrong", None} /\ clock \in 0 .. MaxClock
    /\ dead \in BOOLEAN /\ regraised \in BOOLEAN /\ atries \in 0 .. 3 /\ regtimers \in Nat /\ burst \in Nat
    /\ \A i \in DOMAIN sent : sent[i].a.algorithm \in Algorithms \cup {"absent"}

\* A nonce is good for the algorithm it was made for and for VTime, and for
\* nothing else: the bits of the time and those of the masks do not mix.
NonceMeans ==
    issued.nonce # 0 =>
        \A alg \in Algorithms :
            validate_challenge(issued.nonce, alg, clock) =
                (/\ issued.algorithm \in Algorithms => AlgMask(alg) = AlgMask(issued.algorithm)
                 /\ issued.algorithm \notin Algorithms => AlgMask(alg) = 1
                 /\ clock - issued.at <= VTime)

\* The registrar accepts the credentials of a REGISTER on the way if the agent
\* knows the password and the nonce is not outdated, and no others: what one side
\* computes, writes and reads is what the other side computes.
CredentialsJudged ==
    \A i \in DOMAIN sent : sent[i] # NoAuth =>
        (Accepts(sent[i]) <=> passw = Secret /\ clock - (sent[i].a.nonce \div Masks) <= VTime)

\* There is one registration under way or one timer that starts one: no reply starts
\* a second chain, and none ends the first until the agent is stopped or gotreply()
\* raises before its timer.
OneChain ==
    /\ Len(sent) + regtimers <= 1
    /\ ~dead /\ ~regraised => Len(sent) + regtimers = 1

\* A registrar that challenges every REGISTER gets four in a row and then a timer
\* of a minute.  (One that accepts it is asked again when the time it has granted
\* is over, be it nothing.)
NoHammering == burst <= 4

\* A registration and its digests: credentials are judged by what was agreed on, and
\* one chain of REGISTERs goes on without hammering the registrar.
RegistrationSound == RegTypeOK /\ NonceMeans /\ CredentialsJudged /\ OneChain /\ NoHammering
=============================================================================
