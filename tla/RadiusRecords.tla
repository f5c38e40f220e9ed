--------------------------- MODULE RadiusRecords ---------------------------
(***************************************************************************)
(* The accounting record of one call leg (RadiusAccounting.py), and the    *)
(* attributes on their way through the RADIUS client (Radius_client.py).   *)
(*                                                                         *)
(* The leg connects once and ends once, and may say again that it has      *)
(* ended.  Times are those of the monotonic clock; the wall clock is       *)
(* WallOffset ahead of it.                                                 *)
(***************************************************************************)
EXTENDS Integers, Sequences, SequencesExt

CONSTANTS
    MaxTime,       \* the clock stops there
    MaxRecords,    \* bound on the records of a call
    WallOffset

ASSUME RadAssumption == {MaxTime, MaxRecords, WallOffset} \subseteq Nat

Unknown == -1      \* a time that is not known

VARIABLES
    leg,           \* setup, connected, over
    now, connectTs, endTs,
    made,          \* the record exists: the caller's is made when the call is routed
    crec, drec,    \* conn() and disc() have been called
    el,            \* the Alive timer runs
    sendStart, lperiod,
    records        \* what do_acct() has been asked to send

settings == <<sendStart, lperiod>>
radVars == <<leg, now, connectTs, endTs, made, crec, drec, el, settings, records>>

\* RadiusAccounting.__init__() and setParams().
RadInit ==
    /\ leg = "setup" /\ now = 0 /\ connectTs = Unknown /\ endTs = Unknown /\ made = FALSE
    /\ crec = FALSE /\ drec = FALSE /\ el = FALSE /\ records = <<>>
    /\ sendStart \in BOOLEAN /\ lperiod \in BOOLEAN

Known(t, default) == IF t = Unknown THEN default ELSE t

\* Mistake: the time before the answer is charged.
DurationFromSetup(type) == Known(endTs, now) - Known(connectTs, 0)

\* asend(): the session time of a record.  A Stop asks the leg (getAcct()); a
\* Start and an Alive subtract the time of the answer from the time they are
\* given, which for an Alive is that of the wall clock.
Duration(type) ==
    CASE type = "Stop"  -> IF connectTs = Unknown THEN 0 ELSE Known(endTs, now) - connectTs
      [] type = "Start" -> 0
      [] type = "Alive" -> now + WallOffset - connectTs

asend(type) == records' = Append(records, [type |-> type, time |-> Duration(type)])

RadTick ==
    /\ now < MaxTime /\ now' = now + 1
    /\ UNCHANGED <<leg, connectTs, endTs, made, crec, drec, el, settings, records>>

\* The leg is answered: conn().
conn ==
    /\ made /\ leg = "setup" /\ leg' = "connected" /\ connectTs' = now
    /\ crec' = TRUE
    /\ IF sendStart /\ ~crec THEN asend("Start") ELSE UNCHANGED records
    /\ el' = (el \/ (~crec /\ lperiod))
    /\ UNCHANGED <<now, endTs, made, drec, settings>>

\* The Alive timer.
alive ==
    /\ el /\ Len(records) < MaxRecords
    /\ asend("Alive")
    /\ UNCHANGED <<leg, now, connectTs, endTs, made, crec, drec, el, settings>>

\* disc()
disc ==
    /\ drec' = TRUE
    /\ IF drec THEN UNCHANGED <<records, el>> ELSE asend("Stop") /\ el' = FALSE

\* The leg ends, or says so again.
legEnds ==
    /\ leg' = "over" /\ endTs' = Known(endTs, now)
    /\ IF made THEN disc ELSE UNCHANGED <<drec, el, records>>
    /\ UNCHANGED <<now, connectTs, made, crec, settings>>

\* The call is routed: the record is made, and closed if the leg has ended.
make ==
    /\ ~made /\ made' = TRUE
    /\ IF leg = "over" THEN disc ELSE UNCHANGED <<drec, el, records>>
    /\ UNCHANGED <<leg, now, connectTs, endTs, crec, settings>>

RadNext == RadTick \/ conn \/ alive \/ legEnds \/ make

RadSpec == RadInit /\ [][RadNext]_radVars

-----------------------------------------------------------------------------
(* Radius_client.py.  A line of radiusclient is [a, prefix, v, rest]: the  *)
(* attribute's name, the name before the first "=" of its value if it has  *)
(* one, and what follows.                                                  *)

AvpairNames == {"call-id", "release-source"}
VsaNames    == {"h323-credit-time", "h323-return-code"}

\* _prepare_attributes()
prepare(a, v) ==
    CASE a \in AvpairNames -> [a |-> "Cisco-AVPair", prefix |-> a, v |-> v]
      [] a \in VsaNames    -> [a |-> a, prefix |-> a, v |-> v]
      [] OTHER             -> [a |-> a, prefix |-> "", v |-> v]

Unpacks(line) == line.a = "Cisco-AVPair" \/ line.a \in VsaNames \/ line.prefix = line.a

\* process_result(): one line of an answer.
resultLine(line) ==
    IF line.prefix # "" /\ Unpacks(line) THEN [a |-> line.prefix, prefix |-> "", v |-> line.v]
    ELSE line

-----------------------------------------------------------------------------
(* Properties.                                                             *)

Types == [i \in DOMAIN records |-> records[i].type]

\* The record of a leg is closed once, when the leg is over, also if it was over
\* before the record was made, and nothing is sent for it after that; it is opened
\* at most once and before anything else.
StopIsLast ==
    /\ (leg = "over" /\ made) = Contains(Types, "Stop")
    /\ \A i \in DOMAIN records :
         /\ records[i].type = "Stop" => i = Len(records)
         /\ records[i].type = "Start" => i = 1
         /\ records[i].type = "Alive" => connectTs # Unknown

\* The Stop that closes the record of a leg charges for the time from its answer to
\* its end, and for nothing if it was not answered, however often it said it ended.
ChargedTime ==
    \A i \in DOMAIN records : records[i].type = "Stop" =>
        records[i].time = (IF connectTs = Unknown THEN 0 ELSE endTs - connectTs)

\* What is charged for a leg: one Stop, for the time it took.
RecordsSound == StopIsLast /\ ChargedTime

\* An attribute means the same whether the server sends it plainly, with its name
\* in front of the value or packed into a Cisco-AVPair, and one that we have sent
\* is read as what it was.
SameMeaning(a, v) ==
    LET ways == {[a |-> a, prefix |-> "", v |-> v], [a |-> a, prefix |-> a, v |-> v],
                 [a |-> "Cisco-AVPair", prefix |-> a, v |-> v], prepare(a, v)} IN
    \A line \in ways : resultLine(line) = [a |-> a, prefix |-> "", v |-> v]
=============================================================================
