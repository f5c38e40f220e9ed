--------------------------- MODULE UaEvents_proofs --------------------------
(***************************************************************************)
(* What emitPendingEvents() hands to the call controller, for a queue of   *)
(* any length: GivenAll is the loop of Given, and after an End nothing but *)
(* another End passes, if only what was created before the End is still on *)
(* its way.  The proofs of the two kinds of call leg rest on these facts.  *)
(***************************************************************************)
EXTENDS UaEvents, WellFoundedInduction, TLAPS

-----------------------------------------------------------------------------
(* The largest element of a set of places: induction on the naturals, in   *)
(* the form of a least element.                                            *)

LEMMA LeastNat ==
    ASSUME NEW T, T \subseteq Nat, T # {}
    PROVE  \E x \in T : \A y \in T : x <= y
<1> DEFINE R == OpToRel(<, Nat)
<1>1. IsWellFoundedOn(R, Nat)
  BY NatLessThanWellFounded
<1>2. \A x, y \in Nat : x < y => <<x, y>> \in R
  BY DEF OpToRel
<1> HIDE DEF R
<1>3. PICK x \in T : \A y \in T : ~(<<y, x>> \in R)
  BY <1>1, WFMin
<1>4. \A y \in T : ~(y < x)
  BY <1>2, <1>3
<1>5. \A y \in T : x <= y
  BY <1>4
<1> QED BY <1>5

LEMMA MaxIs ==
    ASSUME NEW n \in Nat, NEW G, G \subseteq 1 .. n, G # {}
    PROVE  Max(G) \in G /\ \A y \in G : y <= Max(G)
<1> DEFINE T == {n - x : x \in G}
<1>1. T \subseteq Nat /\ T # {}
  <2>1. \A x \in G : n - x \in Nat
    OBVIOUS
  <2>2. PICK x \in G : TRUE
    OBVIOUS
  <2>3. n - x \in T
    BY <2>2
  <2> QED BY <2>1, <2>3
<1> HIDE DEF T
<1>2. PICK t \in T : \A y \in T : t <= y
  BY <1>1, LeastNat
<1>3. PICK x \in G : t = n - x
  BY DEF T
<1>4. ASSUME NEW y \in G
      PROVE  x >= y
  <2>1. n - y \in T
    BY DEF T
  <2> QED BY <1>2, <1>3, <2>1
<1>5. \E z \in G : \A y \in G : z >= y
  BY <1>4
<1>6. Max(G) \in G /\ \A y \in G : Max(G) >= y
  BY <1>5 DEF Max
<1> QED BY <1>6

-----------------------------------------------------------------------------
(* GivenAll, for any queue.                                                *)

\* Events with numbers up to n, and a controller that knows of none beyond.
Numbers(n) == [kind : Kinds, seq : 1 .. n]
Knows(n)   == [last : 0 .. n, kinds : SUBSET Kinds, late : SUBSET Kinds]

LEMMA GivenIs ==
    ASSUME NEW n \in Nat, NEW cc \in Knows(n), NEW q \in Seq(Numbers(n))
    PROVE  /\ GivenAll(cc, q) \in Knows(n)
           /\ GivenAll(cc, q).last >= cc.last
           /\ \A i \in DOMAIN q : q[i].seq <= GivenAll(cc, q).last
           /\ GivenAll(cc, q).kinds = cc.kinds \cup {q[i].kind : i \in Passed(cc, q)}
           /\ GivenAll(cc, q).late =
                 cc.late \cup {q[i].kind : i \in {j \in Passed(cc, q) :
                                  \/ "End" \in cc.kinds
                                  \/ \E k \in Passed(cc, q) : k < j /\ q[k].kind = "End"}}
           /\ GivenAll(cc, q).last = IF Passed(cc, q) = {} THEN cc.last ELSE q[Max(Passed(cc, q))].seq
<1> DEFINE G == Passed(cc, q)
           g == GivenAll(cc, q)
           late == {q[i].kind : i \in {j \in G : "End" \in cc.kinds \/ \E k \in G : k < j /\ q[k].kind = "End"}}
           kinds == {q[i].kind : i \in G}
           last == IF G = {} THEN cc.last ELSE q[Max(G)].seq
<1>1. g = [last |-> last, kinds |-> cc.kinds \cup kinds, late |-> cc.late \cup late]
  BY DEF GivenAll
<1>2. /\ Len(q) \in Nat /\ DOMAIN q = 1 .. Len(q) /\ \A i \in DOMAIN q : q[i] \in Numbers(n)
      /\ cc.last \in 0 .. n /\ cc.kinds \subseteq Kinds /\ cc.late \subseteq Kinds
  BY DEF Knows
<1>3. \A i \in DOMAIN q : q[i].seq \in 1 .. n /\ q[i].kind \in Kinds
  BY <1>2 DEF Numbers
<1>4. /\ G \subseteq DOMAIN q
      /\ \A i \in G : q[i].seq > cc.last /\ \A j \in DOMAIN q : j < i => q[i].seq > q[j].seq
      /\ \A i \in DOMAIN q : q[i].seq > cc.last /\ (\A j \in 1 .. i - 1 : q[i].seq > q[j].seq) => i \in G
  BY <1>2 DEF Passed, InOrder
<1> HIDE DEF G, g
<1>5. G # {} => Max(G) \in G /\ \A y \in G : y <= Max(G)
  BY <1>2, <1>4, MaxIs
<1>6. last \in 0 .. n /\ last >= cc.last /\ \A i \in G : q[i].seq <= last
  <2>1. CASE G = {}
    BY <2>1, <1>2
  <2>2. CASE G # {}
    <3> DEFINE m == Max(G)
    <3>1. m \in G /\ (\A y \in G : y <= m) /\ last = q[m].seq
      BY <2>2, <1>5
    <3> HIDE DEF m, last
    <3>2. m \in DOMAIN q /\ last \in 1 .. n /\ last > cc.last
      BY <3>1, <1>3, <1>4
    <3>3. ASSUME NEW i \in G
          PROVE  q[i].seq <= last
      <4>1. CASE i = m
        BY <4>1, <3>1, <3>2
      <4>2. CASE i # m
        <5>1. i < m /\ i \in DOMAIN q /\ q[i].seq \in 1 .. n
          BY <4>2, <3>1, <3>2, <1>2, <1>3, <1>4
        <5>2. q[m].seq > q[i].seq
          BY <5>1, <3>1, <1>4
        <5> QED BY <5>1, <5>2, <3>1, <3>2
      <4> QED BY <4>1, <4>2
    <3> QED BY <3>2, <3>3, <1>2
  <2> QED BY <2>1, <2>2
<1> HIDE DEF last
<1>7. \A i \in DOMAIN q : q[i].seq <= last
  <2> DEFINE T == {i \in DOMAIN q : q[i].seq > last}
  <2>1. SUFFICES ASSUME T # {} PROVE FALSE
    BY <1>3, <1>6
  <2>2. T \subseteq Nat
    BY <1>2
  <2>3. PICK i \in T : \A y \in T : i <= y
    BY <2>1, <2>2, LeastNat
  <2>4. i \in DOMAIN q /\ q[i].seq > last /\ q[i].seq \in 1 .. n /\ i \in 1 .. Len(q)
    BY <1>2, <1>3
  <2>5. ASSUME NEW j \in 1 .. i - 1
        PROVE  q[i].seq > q[j].seq
    <3>1. j \in DOMAIN q /\ ~(i <= j)
      BY <2>4, <1>2
    <3>2. ~(q[j].seq > last)
      BY <3>1, <2>3
    <3>3. q[j].seq \in 1 .. n
      BY <3>1, <1>3
    <3> QED BY <3>2, <3>3, <2>4, <1>6
  <2>6. q[i].seq > cc.last
    BY <2>4, <1>2, <1>6
  <2>7. i \in G
    BY <2>4, <2>5, <2>6, <1>4
  <2>8. q[i].seq <= last
    BY <2>7, <1>6
  <2> QED BY <2>4, <2>8, <1>6
<1>8. kinds \subseteq Kinds /\ late \subseteq Kinds
  BY <1>3, <1>4
<1> HIDE DEF kinds, late
<1>9. g \in Knows(n) /\ g.last = last /\ g.kinds = cc.kinds \cup kinds /\ g.late = cc.late \cup late
  BY <1>1, <1>2, <1>6, <1>8 DEF Knows
<1> QED BY <1>6, <1>7, <1>9 DEF kinds, late, last, g, G

LEMMA QueueAt ==
    ASSUME NEW S, NEW q \in Seq(S), NEW e \in S
    PROVE  /\ Append(q, e) \in Seq(S) /\ Len(q) \in Nat /\ DOMAIN q = 1 .. Len(q)
           /\ DOMAIN Append(q, e) = 1 .. Len(q) + 1
           /\ \A i \in DOMAIN q : Append(q, e)[i] = q[i] /\ q[i] \in S
           /\ Append(q, e)[Len(q) + 1] = e
OBVIOUS

LEMMA Numbered ==
    ASSUME NEW n \in Nat, NEW q \in Seq(Numbers(n))
    PROVE  \A i \in DOMAIN q : /\ i \in Nat /\ q[i] \in Numbers(n) /\ q[i].kind \in Kinds
                               /\ q[i].seq \in 1 .. n /\ q[i].seq \in Nat
<1>1. \A i \in DOMAIN q : i \in Nat /\ q[i] \in Numbers(n)
  OBVIOUS
<1> QED BY <1>1 DEF Numbers

\* GivenAll is emitPendingEvents(): an empty queue leaves the controller as it is, and
\* one more event is one more turn of the loop.
THEOREM GivenInTurn ==
    ASSUME NEW n \in Nat, NEW cc \in Knows(n), NEW q \in Seq(Numbers(n)), NEW e \in Numbers(n)
    PROVE  /\ GivenAll(cc, <<>>) = cc
           /\ GivenAll(cc, Append(q, e)) = Given(GivenAll(cc, q), e)
<1> DEFINE p  == Append(q, e)
           m  == Len(q) + 1
           G  == Passed(cc, q)
           H  == Passed(cc, p)
           g  == GivenAll(cc, q)
           h  == GivenAll(cc, p)
           Late(f, F) == {f[i].kind : i \in {j \in F : "End" \in cc.kinds \/ \E k \in F : k < j /\ f[k].kind = "End"}}
<1>1. GivenAll(cc, <<>>) = cc
  <2>1. <<>> \in Seq(Numbers(n)) /\ DOMAIN <<>> = {}
    OBVIOUS
  <2>2. Passed(cc, <<>>) = {}
    BY <2>1 DEF Passed
  <2>4. GivenAll(cc, <<>>) = [last |-> cc.last, kinds |-> cc.kinds, late |-> cc.late]
    BY <2>2 DEF GivenAll
  <2> QED BY <2>4 DEF Knows
<1>2. /\ p \in Seq(Numbers(n)) /\ Len(q) \in Nat /\ DOMAIN q = 1 .. Len(q) /\ DOMAIN p = 1 .. m
      /\ (\A i \in DOMAIN q : p[i] = q[i]) /\ p[m] = e
  BY QueueAt
<1>3. /\ g \in Knows(n) /\ g.last >= cc.last /\ (\A i \in DOMAIN q : q[i].seq <= g.last)
      /\ g.kinds = cc.kinds \cup {q[i].kind : i \in G} /\ g.late = cc.late \cup Late(q, G)
      /\ g.last = IF G = {} THEN cc.last ELSE q[Max(G)].seq
  BY GivenIs
<1>4. /\ h \in Knows(n) /\ h.kinds = cc.kinds \cup {p[i].kind : i \in H}
      /\ h.late = cc.late \cup Late(p, H) /\ h.last = IF H = {} THEN cc.last ELSE p[Max(H)].seq
  <2> HIDE DEF p
  <2>1. h \in Knows(n) /\ h.kinds = cc.kinds \cup {p[i].kind : i \in H}
    BY <1>2, GivenIs
  <2>2. h.late = cc.late \cup Late(p, H)
    BY <1>2, GivenIs
  <2>3. h.last = IF H = {} THEN cc.last ELSE p[Max(H)].seq
    BY <1>2, GivenIs
  <2> QED BY <2>1, <2>2, <2>3
<1>t. /\ cc.last \in Nat /\ e.seq \in Nat /\ e.kind \in Kinds /\ (\A i \in DOMAIN q : q[i].seq \in Nat)
      /\ g.last \in Nat
  <2>1. cc.last \in Nat /\ g.last \in Nat /\ e.seq \in Nat /\ e.kind \in Kinds
    BY <1>3 DEF Knows, Numbers
  <2> QED BY <2>1, Numbered
<1> HIDE DEF p, g, h
<1>5. G \subseteq DOMAIN q /\ H \subseteq DOMAIN p /\ m \notin DOMAIN q
  BY <1>2 DEF Passed
<1>6. \A i \in DOMAIN q : i \in H <=> i \in G
  BY <1>2 DEF Passed
<1>7. m \in H <=> InOrder(e, g.last)
  <2>1. m \in H <=> (InOrder(e, cc.last) /\ \A j \in DOMAIN q : InOrder(e, q[j].seq))
    BY <1>2 DEF Passed
  <2>2. InOrder(e, g.last) => (InOrder(e, cc.last) /\ \A j \in DOMAIN q : InOrder(e, q[j].seq))
    BY <1>3, <1>t DEF InOrder
  <2>3. CASE G = {}
    BY <2>1, <2>2, <2>3, <1>3
  <2>4. CASE G # {}
    <3>1. Max(G) \in G
      BY <2>4, <1>2, <1>5, MaxIs
    <3> QED BY <2>1, <2>2, <2>4, <3>1, <1>3, <1>5
  <2> QED BY <2>3, <2>4
<1> HIDE DEF G, H
<1>8. CASE InOrder(e, g.last)
  <2>1. H = G \cup {m}
    BY <1>2, <1>5, <1>6, <1>7, <1>8
  <2>2. Max(H) = m
    <3>1. m \in Nat /\ H \subseteq 1 .. m /\ H # {}
      BY <2>1, <1>2, <1>5
    <3> HIDE DEF m
    <3>2. Max(H) \in H /\ \A y \in H : y <= Max(H)
      BY <3>1, MaxIs
    <3>3. Max(H) \in 1 .. m /\ m <= Max(H)
      BY <2>1, <3>1, <3>2
    <3> QED BY <3>1, <3>3
  <2>3. h.last = e.seq
    BY <2>1, <2>2, <1>2, <1>4
  <2>4. h.kinds = g.kinds \cup {e.kind}
    BY <2>1, <1>2, <1>3, <1>4, <1>5
  <2>5. h.late = g.late \cup (IF "End" \in g.kinds THEN {e.kind} ELSE {})
    <3>1. \A i \in G : i < m /\ i \in DOMAIN q /\ i # m
      BY <1>2, <1>5
    <3>2. ("End" \in cc.kinds \/ \E k \in H : k < m /\ p[k].kind = "End") <=> "End" \in g.kinds
      BY <2>1, <3>1, <1>2, <1>3
    <3>3. \A j \in G : ("End" \in cc.kinds \/ \E k \in H : k < j /\ p[k].kind = "End")
                          <=> ("End" \in cc.kinds \/ \E k \in G : k < j /\ q[k].kind = "End")
      BY <2>1, <3>1, <1>2
    <3>4. Late(p, H) = Late(q, G) \cup (IF "End" \in g.kinds THEN {e.kind} ELSE {})
      BY <2>1, <3>1, <3>2, <3>3, <1>2
    <3> QED BY <3>4, <1>3, <1>4
  <2>6. Given(g, e) = [last |-> e.seq, kinds |-> g.kinds \cup {e.kind},
                       late |-> g.late \cup (IF "End" \in g.kinds THEN {e.kind} ELSE {})]
    BY <1>8 DEF Given
  <2>7. h = [last |-> h.last, kinds |-> h.kinds, late |-> h.late]
    BY <1>4 DEF Knows
  <2> QED BY <2>3, <2>4, <2>5, <2>6, <2>7, <1>1 DEF h, g, p
<1>9. CASE ~InOrder(e, g.last)
  <2>1. H = G
    <3>1. \A i \in DOMAIN p : i \in DOMAIN q \/ i = m
      BY <1>2
    <3> HIDE DEF m
    <3> QED BY <3>1, <1>5, <1>6, <1>7, <1>9
  <2>2. h.last = g.last
    <3>1. G # {} => Max(G) \in G
      BY <1>2, <1>5, MaxIs
    <3> QED BY <2>1, <3>1, <1>2, <1>3, <1>4, <1>5
  <2>3. h.kinds = g.kinds
    BY <2>1, <1>2, <1>3, <1>4, <1>5
  <2>4. h.late = g.late
    BY <2>1, <1>2, <1>3, <1>4, <1>5
  <2>5. Given(g, e) = g
    BY <1>9 DEF Given
  <2>6. h = g
    <3>1. /\ h = [last |-> h.last, kinds |-> h.kinds, late |-> h.late]
          /\ g = [last |-> g.last, kinds |-> g.kinds, late |-> g.late]
      BY <1>3, <1>4 DEF Knows
    <3> QED BY <3>1, <2>2, <2>3, <2>4
  <2> QED BY <2>5, <2>6, <1>1 DEF h, g, p
<1> QED BY <1>8, <1>9

-----------------------------------------------------------------------------
(* What is on its way when the leg has ended.                              *)

\* The controller cc, the queue q and the events D at the RTP proxy: nothing but another
\* End was given after an End, what D holds is older than every End, and what is in the
\* queue behind an End is older than it, or an End as well.
Kept(cc, q, D) ==
    /\ cc.late \subseteq {"End"}
    /\ "End" \in cc.kinds => /\ \A d \in D : d.seq <= cc.last
                             /\ \A i \in DOMAIN q : q[i].kind # "End" => q[i].seq <= cc.last
    /\ \A i \in DOMAIN q : q[i].kind = "End" =>
          /\ \A d \in D : d.seq < q[i].seq
          /\ \A j \in DOMAIN q : j > i /\ q[j].kind # "End" => q[j].seq < q[i].seq

\* No End was created yet.
NoEnd(cc, q) == "End" \notin cc.kinds /\ \A i \in DOMAIN q : q[i].kind # "End"

LEMMA GivenKept ==
    ASSUME NEW n \in Nat, NEW cc \in Knows(n), NEW q \in Seq(Numbers(n)), NEW D, D \subseteq Numbers(n),
           Kept(cc, q, D)
    PROVE  /\ GivenAll(cc, q) \in Knows(n) /\ Kept(GivenAll(cc, q), <<>>, D)
           /\ NoEnd(cc, q) => NoEnd(GivenAll(cc, q), <<>>)
<1> DEFINE g == GivenAll(cc, q)
           G == Passed(cc, q)
<1>1. /\ g \in Knows(n) /\ g.last >= cc.last /\ (\A i \in DOMAIN q : q[i].seq <= g.last)
      /\ g.kinds = cc.kinds \cup {q[i].kind : i \in G}
      /\ g.late = cc.late \cup {q[i].kind : i \in {j \in G : "End" \in cc.kinds \/ \E k \in G : k < j /\ q[k].kind = "End"}}
  BY GivenIs
<1>t. /\ cc.last \in Nat /\ g.last \in Nat /\ (\A i \in DOMAIN q : i \in Nat /\ q[i].seq \in Nat)
      /\ \A d \in D : d.seq \in Nat
  <2>1. cc.last \in Nat /\ g.last \in Nat /\ \A d \in D : d.seq \in Nat
    BY <1>1 DEF Knows, Numbers
  <2> QED BY <2>1, Numbered
<1>2. /\ G \subseteq DOMAIN q
      /\ \A i \in G : q[i].seq > cc.last /\ \A j \in DOMAIN q : j < i => q[i].seq > q[j].seq
  BY DEF Passed, InOrder
<1> HIDE DEF g, G
<1>3. g.late \subseteq {"End"}
  <2>1. ASSUME NEW j \in G, "End" \in cc.kinds \/ \E k \in G : k < j /\ q[k].kind = "End"
        PROVE  q[j].kind = "End"
    <3>1. CASE "End" \in cc.kinds
      BY <3>1, <1>2, <1>t DEF Kept
    <3>2. ASSUME NEW k \in G, k < j, q[k].kind = "End"
          PROVE  q[j].kind = "End"
      <4>1. j \in DOMAIN q /\ k \in DOMAIN q /\ j > k /\ q[j].seq > q[k].seq
        BY <3>2, <1>2, <1>t
      <4> QED BY <3>2, <4>1, <1>t DEF Kept
    <3> QED BY <2>1, <3>1, <3>2
  <2> QED BY <2>1, <1>1 DEF Kept
<1>4. ASSUME "End" \in g.kinds, NEW d \in D
      PROVE  d.seq <= g.last
  <2>1. CASE "End" \in cc.kinds
    BY <2>1, <1>1, <1>t DEF Kept
  <2>2. ASSUME NEW i \in G, q[i].kind = "End"
        PROVE  d.seq <= g.last
    <3>1. d.seq < q[i].seq /\ q[i].seq <= g.last /\ q[i].seq \in Nat
      BY <2>2, <1>1, <1>2, <1>t DEF Kept
    <3> QED BY <3>1, <1>t
  <2> QED BY <2>1, <2>2, <1>1, <1>4
<1>5. DOMAIN <<>> = {}
  OBVIOUS
<1>6. Kept(g, <<>>, D)
  BY <1>3, <1>4, <1>5 DEF Kept
<1>7. NoEnd(cc, q) => NoEnd(g, <<>>)
  BY <1>1, <1>2, <1>5 DEF NoEnd
<1> QED BY <1>1, <1>6, <1>7 DEF g

\* A new End, an old event that comes back from the RTP proxy, and a new event of a leg
\* that has not ended, at the end of the queue.
LEMMA EndQueued ==
    ASSUME NEW n \in Nat, NEW cc \in Knows(n), NEW q \in Seq(Numbers(n)), NEW D, D \subseteq Numbers(n),
           Kept(cc, q, D)
    PROVE  Kept(cc, Append(q, Event("End", n + 1)), D)
<1> DEFINE e == Event("End", n + 1)
           p == Append(q, e)
<1>0. e.kind = "End" /\ e.seq = n + 1 /\ e \in Numbers(n + 1)
  BY DEF Event, Numbers, Kinds
<1>1. q \in Seq(Numbers(n + 1))
  <2>1. Numbers(n) \subseteq Numbers(n + 1)
    BY DEF Numbers
  <2> QED BY <2>1
<1> HIDE DEF e
<1>2. /\ Len(q) \in Nat /\ DOMAIN q = 1 .. Len(q) /\ DOMAIN p = 1 .. Len(q) + 1
      /\ (\A i \in DOMAIN q : p[i] = q[i]) /\ p[Len(q) + 1] = e
  BY <1>0, <1>1, QueueAt
<1>t. (\A d \in D : d.seq \in 1 .. n) /\ \A i \in DOMAIN q : q[i].seq \in 1 .. n
  <2>1. \A d \in D : d.seq \in 1 .. n
    BY DEF Numbers
  <2> QED BY <2>1, Numbered
<1> HIDE DEF p
<1>3. \A i \in DOMAIN p : i \in DOMAIN q \/ (i = Len(q) + 1 /\ p[i] = e)
  BY <1>2
<1>4. ASSUME NEW i \in DOMAIN p, p[i].kind = "End"
      PROVE  /\ \A d \in D : d.seq < p[i].seq
             /\ \A j \in DOMAIN p : j > i /\ p[j].kind # "End" => p[j].seq < p[i].seq
  <2>1. CASE i \in DOMAIN q
    BY <1>4, <2>1, <1>0, <1>2, <1>3 DEF Kept
  <2>2. CASE i = Len(q) + 1
    BY <2>2, <1>0, <1>2, <1>3, <1>t
  <2> QED BY <2>1, <2>2, <1>3
<1>5. "End" \in cc.kinds => \A i \in DOMAIN p : p[i].kind # "End" => p[i].seq <= cc.last
  BY <1>0, <1>2, <1>3 DEF Kept
<1> QED BY <1>4, <1>5 DEF Kept, p, e

LEMMA OldQueued ==
    ASSUME NEW n \in Nat, NEW cc \in Knows(n), NEW q \in Seq(Numbers(n)), NEW D, D \subseteq Numbers(n),
           Kept(cc, q, D), NEW e \in D, e.kind # "End"
    PROVE  /\ Append(q, e) \in Seq(Numbers(n)) /\ Kept(cc, Append(q, e), D \ {e})
           /\ NoEnd(cc, q) => NoEnd(cc, Append(q, e))
<1> DEFINE p == Append(q, e)
<1>1. /\ p \in Seq(Numbers(n)) /\ Len(q) \in Nat /\ DOMAIN q = 1 .. Len(q) /\ DOMAIN p = 1 .. Len(q) + 1
      /\ (\A i \in DOMAIN q : p[i] = q[i]) /\ p[Len(q) + 1] = e
  <2>1. e \in Numbers(n)
    OBVIOUS
  <2> QED BY <2>1, QueueAt
<1> HIDE DEF p
<1>2. \A i \in DOMAIN p : i \in DOMAIN q \/ (i = Len(q) + 1 /\ p[i] = e)
  BY <1>1
<1>3. Kept(cc, p, D \ {e})
  BY <1>1, <1>2 DEF Kept
<1>4. NoEnd(cc, q) => NoEnd(cc, p)
  BY <1>1, <1>2 DEF NoEnd
<1> QED BY <1>1, <1>3, <1>4 DEF p

LEMMA NewQueued ==
    ASSUME NEW n \in Nat, NEW cc \in Knows(n), NEW q \in Seq(Numbers(n)), NEW D, Kept(cc, q, D),
           NoEnd(cc, q), NEW k \in Kinds \ {"End"}
    PROVE  /\ Kept(cc, Append(q, Event(k, n + 1)), D) /\ NoEnd(cc, Append(q, Event(k, n + 1)))
           /\ Kept(cc, q, D \cup {Event(k, n + 1)})
<1> DEFINE e == Event(k, n + 1)
           p == Append(q, e)
<1>0. e.kind # "End" /\ e \in Numbers(n + 1)
  BY DEF Event, Numbers
<1>1. q \in Seq(Numbers(n + 1))
  <2>1. Numbers(n) \subseteq Numbers(n + 1)
    BY DEF Numbers
  <2> QED BY <2>1
<1> HIDE DEF e
<1>2. /\ Len(q) \in Nat /\ DOMAIN q = 1 .. Len(q) /\ DOMAIN p = 1 .. Len(q) + 1
      /\ (\A i \in DOMAIN q : p[i] = q[i]) /\ p[Len(q) + 1] = e
  BY <1>0, <1>1, QueueAt
<1> HIDE DEF p
<1>3. \A i \in DOMAIN p : i \in DOMAIN q \/ (i = Len(q) + 1 /\ p[i] = e)
  BY <1>2
<1>4. NoEnd(cc, p)
  BY <1>0, <1>2, <1>3 DEF NoEnd
<1>5. Kept(cc, p, D)
  BY <1>4 DEF Kept, NoEnd
<1>6. Kept(cc, q, D \cup {e})
  BY DEF Kept, NoEnd
<1> QED BY <1>4, <1>5, <1>6 DEF p, e

\* The events of a leg whose last one has the number n.
OnTheWay(n, cc, q, D) ==
    /\ n \in Nat /\ cc \in Knows(n) /\ q \in Seq(Numbers(n)) /\ D \subseteq Numbers(n)
    /\ \A d \in D : d.kind # "End"
    /\ Kept(cc, q, D)

LEMMA WayGiven ==
    ASSUME NEW n, NEW cc, NEW q, NEW D, OnTheWay(n, cc, q, D)
    PROVE  /\ OnTheWay(n, GivenAll(cc, q), <<>>, D)
           /\ NoEnd(cc, q) => NoEnd(GivenAll(cc, q), <<>>)
<1>1. <<>> \in Seq(Numbers(n))
  OBVIOUS
<1> QED BY <1>1, GivenKept DEF OnTheWay

LEMMA WayOn ==
    ASSUME NEW n \in Nat
    PROVE  /\ n + 1 \in Nat /\ Knows(n) \subseteq Knows(n + 1) /\ Numbers(n) \subseteq Numbers(n + 1)
           /\ \A q \in Seq(Numbers(n)) : q \in Seq(Numbers(n + 1))
           /\ \A k \in Kinds : Event(k, n + 1) \in Numbers(n + 1) /\ Event(k, n + 1).kind = k
<1>1. Numbers(n) \subseteq Numbers(n + 1)
  BY DEF Numbers
<1>2. Knows(n) \subseteq Knows(n + 1)
  BY DEF Knows
<1>3. \A k \in Kinds : Event(k, n + 1) \in Numbers(n + 1) /\ Event(k, n + 1).kind = k
  BY DEF Numbers, Event
<1> QED BY <1>1, <1>2, <1>3

LEMMA WayEnd ==
    ASSUME NEW n, NEW cc, NEW q, NEW D, OnTheWay(n, cc, q, D)
    PROVE  OnTheWay(n + 1, cc, Append(q, Event("End", n + 1)), D)
<1>1. n \in Nat /\ "End" \in Kinds
  BY DEF OnTheWay, Kinds
<1>2. /\ cc \in Knows(n + 1) /\ q \in Seq(Numbers(n + 1)) /\ D \subseteq Numbers(n + 1)
      /\ Event("End", n + 1) \in Numbers(n + 1) /\ n + 1 \in Nat
  BY <1>1, WayOn DEF OnTheWay
<1>3. Append(q, Event("End", n + 1)) \in Seq(Numbers(n + 1))
  BY <1>2, QueueAt
<1>4. Kept(cc, Append(q, Event("End", n + 1)), D)
  BY EndQueued DEF OnTheWay
<1> QED BY <1>2, <1>3, <1>4 DEF OnTheWay

LEMMA WayOld ==
    ASSUME NEW n, NEW cc, NEW q, NEW D, OnTheWay(n, cc, q, D), NEW e \in D
    PROVE  OnTheWay(n, cc, Append(q, e), D \ {e}) /\ (NoEnd(cc, q) => NoEnd(cc, Append(q, e)))
BY OldQueued DEF OnTheWay

\* A body that the RTP proxy has refused: its event is gone.
LEMMA WayLess ==
    ASSUME NEW n, NEW cc, NEW q, NEW D, OnTheWay(n, cc, q, D), NEW e
    PROVE  OnTheWay(n, cc, q, D \ {e})
BY DEF OnTheWay, Kept

LEMMA WayNew ==
    ASSUME NEW n, NEW cc, NEW q, NEW D, OnTheWay(n, cc, q, D), NoEnd(cc, q), NEW k \in Kinds \ {"End"}
    PROVE  /\ OnTheWay(n + 1, cc, Append(q, Event(k, n + 1)), D)
           /\ NoEnd(cc, Append(q, Event(k, n + 1)))
           /\ OnTheWay(n + 1, cc, q, D \cup {Event(k, n + 1)})
<1> DEFINE e == Event(k, n + 1)
<1>1. n \in Nat
  BY DEF OnTheWay
<1>2. /\ cc \in Knows(n + 1) /\ q \in Seq(Numbers(n + 1)) /\ D \subseteq Numbers(n + 1)
      /\ e \in Numbers(n + 1) /\ n + 1 \in Nat /\ e.kind = k
  BY <1>1, WayOn DEF OnTheWay
<1>3. /\ Kept(cc, Append(q, e), D) /\ NoEnd(cc, Append(q, e))
      /\ Kept(cc, q, D \cup {e})
  BY NewQueued DEF OnTheWay
<1> HIDE DEF e
<1>4. Append(q, e) \in Seq(Numbers(n + 1))
  BY <1>2, QueueAt
<1>5. OnTheWay(n + 1, cc, Append(q, e), D)
  BY <1>2, <1>3, <1>4 DEF OnTheWay
<1>6. OnTheWay(n + 1, cc, q, D \cup {e})
  BY <1>2, <1>3 DEF OnTheWay
<1> QED BY <1>3, <1>5, <1>6 DEF e

LEMMA WayFacts ==
    ASSUME NEW n, NEW cc, NEW q, NEW D, OnTheWay(n, cc, q, D)
    PROVE  /\ n \in Nat /\ cc.last \in 0 .. n /\ cc.kinds \in SUBSET Kinds /\ cc.late \in SUBSET Kinds
           /\ \A i \in DOMAIN q : q[i].kind \in Kinds /\ q[i].seq \in 1 .. n
           /\ \A d \in D : d.kind \in Kinds /\ d.seq \in 1 .. n
           /\ cc.late \subseteq {"End"}
<1>1. n \in Nat /\ cc \in Knows(n) /\ q \in Seq(Numbers(n)) /\ D \subseteq Numbers(n) /\ Kept(cc, q, D)
  BY DEF OnTheWay
<1>2. \A i \in DOMAIN q : q[i].kind \in Kinds /\ q[i].seq \in 1 .. n
  BY <1>1, Numbered
<1> QED BY <1>1, <1>2 DEF Knows, Numbers, Kept
=============================================================================
